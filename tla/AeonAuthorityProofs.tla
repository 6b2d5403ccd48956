------------------------ MODULE AeonAuthorityProofs -------------------------
(***************************************************************************)
(* Lemmas about the rules AeonState and SplToken define, about sums and    *)
(* about least elements, and the proof that every step of AeonAuthority    *)
(* keeps the types of its accounts.                                        *)
(***************************************************************************)
EXTENDS AeonAuthority, FiniteSetTheorems, TLAPS

-----------------------------------------------------------------------------
(* Accounts and transfers                                                  *)

LEMMA AccountFacts ==
    /\ \A a \in Agents : Wallet(a) \in Account /\ Wallet(a) \in Wallets
    /\ \A i \in 1 .. MaxAuthorities : BondVault(i) \in Account
    /\ \A a \in Agents, i \in 1 .. MaxAuthorities : Wallet(a) # BondVault(i)
    /\ \A a, b \in Agents : Wallet(a) = Wallet(b) => a = b
    /\ \A i, j \in 1 .. MaxAuthorities : BondVault(i) = BondVault(j) => i = j
    /\ Wallets \cup BondVaults \subseteq Account
BY DEF Wallet, BondVault, Account, Wallets, BondVaults, EscrowVaults

\* A transfer that the token program accepts keeps every balance a u64 and
\* moves the amount from one account to the other.
LEMMA TransferFacts ==
    ASSUME NEW bal \in [Account -> U64], NEW from \in Account, NEW to \in Account,
           NEW amount \in U64, TransferAccepted(bal, from, to, amount, MaxU64)
    PROVE  LET after == AfterTransfer(bal, from, to, amount) IN
           /\ after \in [Account -> U64]
           /\ \A t \in Account : t # from => after[t] >= bal[t]
           /\ \A t \in Account : t # from /\ t # to => after[t] = bal[t]
           /\ from # to => after[from] = bal[from] - amount
           /\ from # to => after[to] = bal[to] + amount
           /\ from = to => after = bal
           /\ after[from] >= bal[from] - amount
BY LimitsAssumption DEF TransferAccepted, AfterTransfer, U64

LEMMA NewCriFacts == NewCri \in Cri
BY LimitsAssumption DEF Cri, NewCri, U64

LEMMA CriFacts ==
    ASSUME NEW c \in Cri, NEW amount \in U64
    PROVE  /\ CanCommit(c, amount) => Committed(c, amount) \in Cri
           /\ CanSettle(c, amount) => Settled(c, amount) \in Cri
<1>1. ASSUME CanCommit(c, amount) PROVE Committed(c, amount) \in Cri
  <2>1. c.commitments + 1 \in U64 /\ c.volume + amount \in U64
    BY <1>1, LimitsAssumption DEF Cri, CanCommit, U64
  <2> QED
    BY <2>1 DEF Cri, Committed
<1>2. ASSUME CanSettle(c, amount) PROVE Settled(c, amount) \in Cri
  <2>1. c.settlements + 1 \in U64 /\ c.volume + amount \in U64
    BY <1>2, LimitsAssumption DEF Cri, CanSettle, U64
  <2> QED
    BY <2>1 DEF Cri, Settled
<1> QED
  BY <1>1, <1>2

LEMMA SpendFacts ==
    ASSUME NEW auth \in Authority, NEW amount \in U64, WithinTerms(auth, amount)
    PROVE  AfterSpend(auth, amount) \in Authority
<1>1. auth.spent + amount \in U64
  BY LimitsAssumption DEF WithinTerms, Authority, U64
<1>2. (IF auth.spent + amount >= auth.budget THEN "Exhausted" ELSE auth.status)
            \in AuthorityStatus
  BY DEF Authority, AuthorityStatus
<1> QED
  BY <1>1, <1>2 DEF AfterSpend, Authority

LEMMA RootFacts ==
    ASSUME NEW agent \in Agents, NEW req \in IssueRequest
    PROVE  RootAuthority(agent, req) \in Authority
BY LimitsAssumption
   DEF RootAuthority, NewAuthority, Authority, IssueRequest, AuthorityStatus, Lesser, U64

LEMMA ChildFacts ==
    ASSUME NEW agent \in Agents, NEW req \in IssueRequest,
           NEW p \in 1 .. MaxAuthorities, NEW parent \in Authority,
           MayDelegate(parent, agent, req)
    PROVE  ChildAuthority(agent, p, parent, req) \in Authority
<1>1. ChildCategories(parent, req.categories) \in SUBSET Categories
  BY DEF ChildCategories, Authority, IssueRequest
<1>2. parent.depth + 1 \in 0 .. MAX_AUTHORITY_DEPTH
  BY LimitsAssumption DEF MayDelegate, Authority
<1> QED
  BY <1>1, <1>2, LimitsAssumption
     DEF ChildAuthority, NewAuthority, Authority, IssueRequest, AuthorityStatus, Lesser, U64

LEMMA AddedFacts ==
    ASSUME NEW T, NEW n \in Nat, NEW table \in [1 .. n -> T], NEW account \in T
    PROVE  /\ Added(table, n + 1, account) \in [1 .. n + 1 -> T]
           /\ Added(table, n + 1, account)[n + 1] = account
           /\ \A i \in 1 .. n : Added(table, n + 1, account)[i] = table[i]
<1>1. 1 .. n + 1 = (1 .. n) \cup {n + 1}
  OBVIOUS
<1> QED
  BY <1>1 DEF Added

-----------------------------------------------------------------------------
(* Sums taken apart                                                        *)

LEMMA UnitsAgree ==
    ASSUME NEW S, NEW f, NEW g, NEW n, \A x \in S : f[x] = g[x]
    PROVE  Units(S, f, n) = Units(S, g, n)
BY DEF Units

\* One element has as many units as its number.
LEMMA UnitsOfOne ==
    ASSUME NEW a, NEW k \in Nat
    PROVE  /\ IsFiniteSet({a} \X (1 .. k))
           /\ Cardinality({a} \X (1 .. k)) = k
<1>1. IsFiniteSet(1 .. k) /\ Cardinality(1 .. k) = k
  BY FS_Interval
<1>2. IsFiniteSet({a}) /\ Cardinality({a}) = 1
  BY FS_Singleton
<1>3. /\ IsFiniteSet({a} \X (1 .. k))
      /\ Cardinality({a} \X (1 .. k)) = Cardinality({a}) * Cardinality(1 .. k)
  BY <1>1, <1>2, FS_Product
<1> QED
  BY <1>1, <1>2, <1>3

LEMMA DisjointUnion ==
    ASSUME NEW S, IsFiniteSet(S), NEW T, IsFiniteSet(T), S \cap T = {}
    PROVE  /\ IsFiniteSet(S \cup T)
           /\ Cardinality(S \cup T) = Cardinality(S) + Cardinality(T)
<1>1. Cardinality(S) \in Nat /\ Cardinality(T) \in Nat
  BY FS_CardinalityType
<1>2. /\ IsFiniteSet(S \cup T)
      /\ Cardinality(S \cup T) = Cardinality(S) + Cardinality(T) - Cardinality({})
  BY FS_Union
<1> QED
  BY <1>1, <1>2, FS_EmptySet

\* One number added to a sum.
LEMMA UnitsAdded ==
    ASSUME NEW n \in Nat, NEW S, NEW a, a \notin S, NEW f, f[a] \in 0 .. n,
           IsFiniteSet(Units(S, f, n))
    PROVE  /\ IsFiniteSet(Units(S \cup {a}, f, n))
           /\ Cardinality(Units(S \cup {a}, f, n)) = Cardinality(Units(S, f, n)) + f[a]
<1> DEFINE Mine == {a} \X (1 .. f[a])
<1>1. IsFiniteSet(Mine) /\ Cardinality(Mine) = f[a]
  <2>1. f[a] \in Nat
    OBVIOUS
  <2> QED
    BY <2>1, UnitsOfOne
<1>2. Units(S \cup {a}, f, n) = Units(S, f, n) \cup Mine
  BY DEF Units
<1>3. Units(S, f, n) \cap Mine = {}
  BY DEF Units
<1> HIDE DEF Mine
<1> QED
  BY <1>1, <1>2, <1>3, DisjointUnion, Zenon

\* One number of a sum replaced.
LEMMA UnitsReplaced ==
    ASSUME NEW n \in Nat, NEW S, NEW s \in [S -> 0 .. n], NEW a \in S,
           NEW r, r[a] \in 0 .. n, \A x \in S \ {a} : r[x] = s[x],
           IsFiniteSet(Units(S, s, n))
    PROVE  /\ IsFiniteSet(Units(S, r, n))
           /\ Cardinality(Units(S, r, n)) = (Cardinality(Units(S, s, n)) - s[a]) + r[a]
<1> DEFINE Others == S \ {a}
<1>1. Units(Others, s, n) \subseteq Units(S, s, n)
  BY DEF Units
<1>2. IsFiniteSet(Units(Others, s, n))
  BY <1>1, FS_Subset
<1>3. a \notin Others /\ Others \cup {a} = S /\ s[a] \in 0 .. n
  OBVIOUS
<1>4. Units(Others, r, n) = Units(Others, s, n)
  BY UnitsAgree
<1> HIDE DEF Others
<1>5. Cardinality(Units(S, s, n)) = Cardinality(Units(Others, s, n)) + s[a]
  BY <1>2, <1>3, UnitsAdded
<1>6. /\ IsFiniteSet(Units(S, r, n))
      /\ Cardinality(Units(S, r, n)) = Cardinality(Units(Others, s, n)) + r[a]
  <2>1. r[a] \in 0 .. n /\ IsFiniteSet(Units(Others, r, n))
    BY <1>2, <1>4
  <2>2. /\ IsFiniteSet(Units(Others \cup {a}, r, n))
        /\ Cardinality(Units(Others \cup {a}, r, n)) = Cardinality(Units(Others, r, n)) + r[a]
    BY <1>3, <2>1, UnitsAdded
  <2> QED
    BY <1>3, <1>4, <2>2
<1>7. Cardinality(Units(Others, s, n)) \in Nat
  BY <1>2, FS_CardinalityType
<1>8. Cardinality(Units(S, r, n)) = (Cardinality(Units(S, s, n)) - s[a]) + r[a]
  BY <1>3, <1>5, <1>6, <1>7
<1> QED
  BY <1>6, <1>8

\* Any two numbers of a sum are together within it.
LEMMA TwoWithinSum ==
    ASSUME NEW n \in Nat, NEW S, NEW s \in [S -> 0 .. n], NEW a \in S, NEW b \in S,
           a # b, IsFiniteSet(Units(S, s, n))
    PROVE  s[a] + s[b] <= Cardinality(Units(S, s, n))
<1> DEFINE A == {a} \X (1 .. s[a])
           B == {b} \X (1 .. s[b])
<1>1. /\ IsFiniteSet(A) /\ Cardinality(A) = s[a]
      /\ IsFiniteSet(B) /\ Cardinality(B) = s[b]
  <2>1. s[a] \in Nat /\ s[b] \in Nat
    OBVIOUS
  <2> QED
    BY <2>1, UnitsOfOne
<1>2. A \cap B = {} /\ A \cup B \subseteq Units(S, s, n)
  BY DEF Units
<1> HIDE DEF A, B
<1>3. Cardinality(A \cup B) = s[a] + s[b]
  BY <1>1, <1>2, DisjointUnion, Zenon
<1> QED
  BY <1>2, <1>3, FS_Subset

\* A set of numbers has a least one.  What an argument by induction over
\* ids needs: the least id for which something fails.
LEMMA LeastElement ==
    ASSUME NEW S, S \subseteq Nat, S # {}
    PROVE  \E m \in S : \A k \in S : m <= k
<1> DEFINE R == StrictSubsetOrdering(Nat)
           F == FiniteSubsetsOf(Nat)
           T == {0 .. n : n \in S}
<1>1. IsWellFoundedOn(R, F)
  BY FS_StrictSubsetOrderingWellFounded
<1>2. T \subseteq F
  <2>1. ASSUME NEW n \in S PROVE 0 .. n \in F
    BY FS_Interval, SMT DEF FiniteSubsetsOf
  <2> QED
    BY <2>1
<1>3. T # {}
  OBVIOUS
<1>4. \E x \in T : \A y \in T : ~(<<y, x>> \in R)
  <2> HIDE DEF R, F, T
  <2> QED
    BY <1>1, <1>2, <1>3, WFMin
<1>5. PICK m \in S : \A y \in T : ~(<<y, 0 .. m>> \in R)
  BY <1>4
<1>6. ASSUME NEW k \in S PROVE m <= k
  <2>1. SUFFICES ASSUME k < m PROVE FALSE
    BY SMT
  <2>2. <<0 .. k, 0 .. m>> \in R
    <3>1. 0 .. k \subseteq 0 .. m /\ 0 .. k # 0 .. m
      BY <2>1, SMT
    <3>2. 0 .. k \in SUBSET Nat /\ 0 .. m \in SUBSET Nat
      BY SMT
    <3> QED
      BY <3>1, <3>2 DEF StrictSubsetOrdering
  <2> QED
    BY <1>5, <2>2
<1> QED
  BY <1>6

-----------------------------------------------------------------------------
(* Type correctness, one lemma per kind of step                            *)

LEMMA InitTypeOK == Init => TypeOK
<1> SUFFICES ASSUME Init PROVE TypeOK
  OBVIOUS
<1>1. Registered \subseteq Agents /\ cri \in [Registered -> Cri]
  BY DEF Init, Registered
<1>2. authority \in [1 .. authority_counter -> Authority]
  BY DEF Init
<1>3. bond \in [1 .. MaxAuthorities -> Bond]
  BY LimitsAssumption DEF Init, Bond, NoBond, U64
<1>4. balance \in [Account -> U64]
  <2>1. \A t \in Wallets : t[2] \in Agents
    BY DEF Wallets
  <2> QED
    BY <2>1, LimitsAssumption, InputsAssumption DEF Init, InitialBalance, U64
<1>5. /\ paused \in BOOLEAN
      /\ authority_counter \in 0 .. MaxAuthorities
      /\ slot \in 1 .. MaxSlot
  <2>1. paused \in BOOLEAN
    BY DEF Init
  <2>2. authority_counter = 0 /\ slot = 1
    BY DEF Init
  <2>3. authority_counter \in 0 .. MaxAuthorities /\ slot \in 1 .. MaxSlot
    BY <2>2, LimitsAssumption, InputsAssumption
  <2> QED
    BY <2>1, <2>3
<1> QED
  BY <1>1, <1>2, <1>3, <1>4, <1>5 DEF TypeOK

LEMMA RegisterTypeOK ==
    ASSUME TypeOK, NEW a \in Agents, RegisterAgent(a)
    PROVE  TypeOK'
<1>1. cri' \in [Registered \cup {a} -> Cri]
  BY NewCriFacts DEF TypeOK, RegisterAgent, Added, Registered
<1>2. Registered' = Registered \cup {a}
  BY <1>1 DEF Registered
<1> QED
  BY <1>1, <1>2 DEF TypeOK, RegisterAgent, config

LEMMA IssueTypeOK ==
    ASSUME TypeOK, NEW a \in Agents, NEW p \in AuthorityIds \cup {0},
           NEW req \in IssueRequests, IssueAuthority(a, p, req)
    PROVE  TypeOK'
<1> DEFINE id == authority_counter + 1
           granted == IF p = 0 THEN RootAuthority(a, req)
                      ELSE ChildAuthority(a, p, authority[p], req)
<1>1. req \in IssueRequest /\ id \in 1 .. MaxAuthorities
  BY InputsAssumption, LimitsAssumption DEF IssueAuthority, TypeOK
<1>2. granted \in Authority
  <2>1. CASE p = 0
    BY <2>1, <1>1, RootFacts
  <2>2. CASE p # 0
    <3>1. p \in 1 .. MaxAuthorities /\ authority[p] \in Authority
      BY <2>2, LimitsAssumption DEF AuthorityIds, TypeOK
    <3>2. MayDelegate(authority[p], a, req)
      BY <2>2 DEF IssueAuthority
    <3> QED
      BY <2>2, <3>1, <3>2, <1>1, ChildFacts
  <2> QED
    BY <2>1, <2>2
<1>3. authority_counter' = id /\ authority' = Added(authority, id, granted)
  BY DEF IssueAuthority
<1>4. authority' \in [1 .. authority_counter' -> Authority]
  <2>1. authority_counter \in Nat /\ authority \in [1 .. authority_counter -> Authority]
    BY LimitsAssumption DEF TypeOK
  <2> QED
    BY <2>1, <1>2, <1>3, AddedFacts
<1>5. bond' \in [1 .. MaxAuthorities -> Bond] /\ balance' \in [Account -> U64]
  <2>1. CASE PostBond(a, id, req.bond_amount)
    <3>1. req.bond_amount \in U64
      BY <1>1 DEF IssueRequest
    <3>2. bond' \in [1 .. MaxAuthorities -> Bond]
      BY <2>1, <3>1 DEF PostBond, TypeOK, Bond
    <3> QED
      BY <2>1, <1>1, <3>1, <3>2, AccountFacts, TransferFacts DEF PostBond, Accepted, TypeOK
  <2>2. CASE UNCHANGED <<bond, balance>>
    BY <2>2 DEF TypeOK
  <2> QED
    BY <2>1, <2>2 DEF IssueAuthority
<1> QED
  BY <1>1, <1>3, <1>4, <1>5 DEF TypeOK, IssueAuthority, Registered

\* Revocation and expiry only rewrite statuses.
LEMMA StatusFacts ==
    ASSUME NEW auth \in Authority, NEW st \in AuthorityStatus
    PROVE  [auth EXCEPT !.status = st] \in Authority
BY DEF Authority

LEMMA RevokeTypeOK ==
    ASSUME TypeOK, NEW a \in Agents, NEW i \in AuthorityIds,
           NEW children \in SUBSET AuthorityIds, RevokeAuthority(a, i, children)
    PROVE  TypeOK'
<1>1. AuthorityIds = 1 .. authority_counter
  BY DEF TypeOK, AuthorityIds
<1>2. \A j \in AuthorityIds : [authority[j] EXCEPT !.status = "Revoked"] \in Authority
  BY <1>1, StatusFacts DEF TypeOK, AuthorityStatus
<1>3. authority' \in [1 .. authority_counter -> Authority]
  BY <1>1, <1>2 DEF RevokeAuthority, TypeOK
<1> QED
  BY <1>3 DEF TypeOK, RevokeAuthority, config, Registered

LEMMA ExpireTypeOK ==
    ASSUME TypeOK, NEW a \in Agents, NEW i \in AuthorityIds, ExpireAuthority(a, i)
    PROVE  TypeOK'
<1>1. AuthorityIds = 1 .. authority_counter
  BY DEF TypeOK, AuthorityIds
<1>2. [authority[i] EXCEPT !.status = "Expired"] \in Authority
  BY <1>1, StatusFacts DEF TypeOK, AuthorityStatus
<1>3. authority' = [authority EXCEPT ![i] = [authority[i] EXCEPT !.status = "Expired"]]
  BY DEF ExpireAuthority
<1>4. authority' \in [1 .. authority_counter -> Authority]
  BY <1>1, <1>2, <1>3 DEF TypeOK
<1> QED
  BY <1>4 DEF TypeOK, ExpireAuthority, config, Registered

\* What the gate and the commit do to the authorities.
LEMMA CommitTypeOK ==
    ASSUME TypeOK, NEW payer, NEW id \in AuthorityIds \cup {0}, NEW amount \in U64,
           NEW c, MaySpend(payer, id, amount, c), CommitSpent(id, amount)
    PROVE  authority' \in [1 .. authority_counter -> Authority]
<1>1. CASE id = 0
  BY <1>1 DEF CommitSpent, TypeOK
<1>2. CASE id # 0
  <2>1. id \in 1 .. authority_counter
    BY <1>2 DEF TypeOK, AuthorityIds
  <2>2. AfterSpend(authority[id], amount) \in Authority
    BY <1>2, <2>1, SpendFacts DEF TypeOK, MaySpend, SpendAllowed
  <2> QED
    BY <1>2, <2>1, <2>2 DEF CommitSpent, TypeOK
<1> QED
  BY <1>1, <1>2

LEMMA PayTypeOK ==
    ASSUME TypeOK, NEW payer \in Registered, NEW payee \in Registered,
           NEW amount \in Amounts, NEW id \in AuthorityIds \cup {0}, NEW c,
           Pay(payer, payee, amount, id, c)
    PROVE  TypeOK'
<1>1. amount \in U64 /\ payer \in Agents /\ payee \in Agents
  BY InputsAssumption DEF TypeOK
<1>2. authority' \in [1 .. authority_counter -> Authority]
  BY <1>1, CommitTypeOK DEF Pay
<1>3. balance' \in [Account -> U64]
  BY <1>1, AccountFacts, TransferFacts DEF Pay, Accepted, TypeOK
<1>4. cri' \in [Registered -> Cri]
  BY <1>1, CriFacts DEF Pay, TypeOK, Registered
<1>5. Registered' = Registered
  BY <1>4 DEF Registered
<1> QED
  BY <1>2, <1>3, <1>4, <1>5 DEF TypeOK, Pay, config

LEMMA SplitTypeOK ==
    ASSUME TypeOK, NEW payer \in Registered, NEW a \in Registered,
           NEW b \in Registered \cup {NoAgent}, NEW amount_a \in Amounts,
           NEW amount_b \in Amounts \cup {0}, NEW id \in AuthorityIds \cup {0}, NEW c,
           AtomicSplit(payer, a, b, amount_a, amount_b, id, c)
    PROVE  TypeOK'
<1> DEFINE total == SplitTotal(amount_a, amount_b)
           one == AfterTransfer(balance, Wallet(payer), Wallet(a), amount_a)
           b_cri == IF amount_b = 0 THEN cri[b] ELSE Settled(cri[b], amount_b)
<1>1. /\ amount_a \in U64 /\ amount_b \in U64 /\ total \in U64
      /\ payer \in Agents /\ a \in Agents
      /\ amount_b > 0 => b \in Registered /\ b \in Agents
  BY InputsAssumption, LimitsAssumption DEF TypeOK, AtomicSplit, SplitTotal, U64
<1>2. authority' \in [1 .. authority_counter -> Authority]
  BY <1>1, CommitTypeOK DEF AtomicSplit
<1>3. one \in [Account -> U64]
  BY <1>1, AccountFacts, TransferFacts DEF AtomicSplit, Accepted, TypeOK
<1>4. balance' \in [Account -> U64]
  <2>1. CASE amount_b = 0
    BY <2>1, <1>3 DEF AtomicSplit
  <2>2. CASE amount_b # 0
    <3>1. amount_b > 0
      BY <2>2, <1>1 DEF U64
    <3>2. balance' = AfterTransfer(one, Wallet(payer), Wallet(b), amount_b)
      BY <2>2 DEF AtomicSplit
    <3>3. TransferAccepted(one, Wallet(payer), Wallet(b), amount_b, MaxU64)
      BY <3>1 DEF AtomicSplit
    <3> QED
      BY <3>1, <3>2, <3>3, <1>1, <1>3, AccountFacts, TransferFacts
  <2> QED
    BY <2>1, <2>2
<1>5. cri' \in [Registered -> Cri]
  <2>1. Committed(cri[payer], total) \in Cri /\ Settled(cri[a], amount_a) \in Cri
    BY <1>1, CriFacts DEF AtomicSplit, TypeOK
  <2>2. b \in Registered => b_cri \in Cri
    <3>1. CASE amount_b = 0
      BY <3>1 DEF TypeOK
    <3>2. CASE amount_b # 0
      <4>1. amount_b > 0
        BY <3>2, <1>1 DEF U64
      <4> QED
        BY <3>2, <4>1, <1>1, CriFacts DEF AtomicSplit, TypeOK
    <3> QED
      BY <3>1, <3>2
  <2>3. cri' = WrittenBack(payer, Committed(cri[payer], total),
                           a, Settled(cri[a], amount_a), b, b_cri)
    BY DEF AtomicSplit
  <2> QED
    BY <2>1, <2>2, <2>3 DEF WrittenBack, TypeOK
<1>6. Registered' = Registered
  BY <1>5 DEF Registered
<1> QED
  BY <1>2, <1>4, <1>5, <1>6 DEF TypeOK, AtomicSplit, config

LEMMA SlashTypeOK ==
    ASSUME TypeOK, NEW a \in Agents, NEW i \in AuthorityIds,
           NEW d \in Account, SlashBond(a, i, d)
    PROVE  TypeOK'
<1>1. i \in 1 .. MaxAuthorities
  BY LimitsAssumption DEF TypeOK, AuthorityIds
<1>2. bond[i].amount \in U64 /\ Slashed(i) \in Bond
  BY <1>1 DEF TypeOK, Bond, Slashed
<1>3. bond' \in [1 .. MaxAuthorities -> Bond]
  BY <1>1, <1>2 DEF SlashBond, TypeOK
<1>4. balance' \in [Account -> U64]
  BY <1>1, <1>2, AccountFacts, TransferFacts DEF SlashBond, Accepted, TypeOK
<1> QED
  BY <1>3, <1>4 DEF TypeOK, SlashBond, config, Registered

LEMMA SplTransferTypeOK ==
    ASSUME TypeOK, NEW a \in Agents, NEW t \in Account, NEW amount \in U64,
           SplTransfer(a, t, amount)
    PROVE  TypeOK'
<1>1. balance' \in [Account -> U64]
  BY AccountFacts, TransferFacts DEF SplTransfer, Accepted, TypeOK
<1> QED
  BY <1>1 DEF TypeOK, SplTransfer, config, Registered

LEMMA NextTypeOK ==
    ASSUME TypeOK, [Next]_vars
    PROVE  TypeOK'
<1>1. CASE Lifecycle
  <2>1. ASSUME NEW p \in BOOLEAN, SetPaused(p) PROVE TypeOK'
    BY <2>1 DEF SetPaused, TypeOK, Registered
  <2> QED
    BY <1>1, <2>1, RegisterTypeOK, IssueTypeOK, RevokeTypeOK, ExpireTypeOK DEF Lifecycle
<1>2. CASE Spending
  BY <1>2, PayTypeOK, SplitTypeOK DEF Spending
<1>3. CASE Slashing
  BY <1>3, SlashTypeOK, AccountFacts DEF Slashing
<1>4. CASE Environment
  <2>1. ASSUME AdvanceSlot PROVE TypeOK'
    BY <2>1, InputsAssumption DEF AdvanceSlot, TypeOK, config, Registered
  <2> QED
    BY <1>4, <2>1, SplTransferTypeOK, AccountFacts, InputsAssumption DEF Environment
<1>5. CASE UNCHANGED vars
  BY <1>5 DEF vars, config, TypeOK, Registered
<1> QED
  BY <1>1, <1>2, <1>3, <1>4, <1>5 DEF Next

\* Every value of the state has the type its account gives it, whatever the
\* interleaving of instructions: no checked arithmetic wraps.
THEOREM TypeCorrect == Spec => []TypeOK
<1>1. TypeOK /\ [Next]_vars => TypeOK'
  BY NextTypeOK
<1> QED
  BY <1>1, InitTypeOK, PTL DEF Spec
=============================================================================
