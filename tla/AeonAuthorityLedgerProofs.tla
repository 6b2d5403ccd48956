--------------------- MODULE AeonAuthorityLedgerProofs ----------------------
(***************************************************************************)
(* Money, bonds and reputation in AeonAuthority: what every step does to   *)
(* the bond of one authority and to the Cri of one agent, and the          *)
(* properties that follow.                                                 *)
(***************************************************************************)
EXTENDS AeonAuthorityInvProofs

\* A step draws at most amount from the payer's wallet, nothing from others.
Outflow(payer, amount) ==
    /\ \A t \in Account : t # Wallet(payer) => balance[t] <= balance'[t]
    /\ balance[Wallet(payer)] <= balance'[Wallet(payer)] + amount

LEMMA TransferOutflow ==
    ASSUME TypeOK, NEW payer \in Agents, NEW to \in Account, NEW amount \in U64,
           Accepted(Wallet(payer), to, amount),
           balance' = AfterTransfer(balance, Wallet(payer), to, amount)
    PROVE  Outflow(payer, amount)
<1>1. balance \in [Account -> U64] /\ Wallet(payer) \in Account
  BY AccountFacts DEF TypeOK
<1>2. TransferAccepted(balance, Wallet(payer), to, amount, MaxU64)
  BY DEF Accepted
<1>3. balance' \in [Account -> U64]
  BY <1>1, <1>2, TransferFacts
<1>4. \A t \in Account : t # Wallet(payer) => balance'[t] >= balance[t]
  BY <1>1, <1>2, TransferFacts
<1>5. balance'[Wallet(payer)] >= balance[Wallet(payer)] - amount
  BY <1>1, <1>2, TransferFacts
<1> QED
  BY <1>1, <1>3, <1>4, <1>5, LimitsAssumption DEF Outflow, U64

LEMMA PayOutflow ==
    ASSUME TypeOK, NEW payer \in Registered, NEW payee \in Registered,
           NEW amount \in Amounts, NEW id \in AuthorityIds \cup {0}, NEW c,
           Pay(payer, payee, amount, id, c)
    PROVE  Outflow(payer, amount)
<1>1. payer \in Agents /\ payee \in Agents /\ amount \in U64
  BY InputsAssumption DEF TypeOK
<1> QED
  BY <1>1, AccountFacts, TransferOutflow DEF Pay

LEMMA SplitOutflow ==
    ASSUME TypeOK, NEW payer \in Registered, NEW a \in Registered,
           NEW b \in Registered \cup {NoAgent}, NEW amount_a \in Amounts,
           NEW amount_b \in Amounts \cup {0}, NEW id \in AuthorityIds \cup {0}, NEW c,
           AtomicSplit(payer, a, b, amount_a, amount_b, id, c)
    PROVE  Outflow(payer, SplitTotal(amount_a, amount_b))
<1> DEFINE one == AfterTransfer(balance, Wallet(payer), Wallet(a), amount_a)
           w == Wallet(payer)
<1>1. /\ amount_a \in U64 /\ amount_b \in U64
      /\ payer \in Agents /\ a \in Agents
      /\ w \in Account /\ Wallet(a) \in Account
      /\ balance \in [Account -> U64]
  BY InputsAssumption, LimitsAssumption, AccountFacts DEF TypeOK, U64
<1>2. TransferAccepted(balance, w, Wallet(a), amount_a, MaxU64)
  BY DEF AtomicSplit, Accepted
<1>3. one \in [Account -> U64]
  BY <1>1, <1>2, TransferFacts
<1>4. \A t \in Account : t # w => one[t] >= balance[t]
  BY <1>1, <1>2, TransferFacts
<1>5. one[w] >= balance[w] - amount_a
  BY <1>1, <1>2, TransferFacts
<1>6. CASE amount_b = 0
  <2>1. balance' = one /\ SplitTotal(amount_a, amount_b) = amount_a
    BY <1>6, <1>1, LimitsAssumption DEF AtomicSplit, SplitTotal, U64
  <2> QED
    BY <2>1, <1>1, <1>3, <1>4, <1>5, LimitsAssumption DEF Outflow, U64
<1>7. CASE amount_b # 0
  <2>1. amount_b > 0 /\ b \in Agents /\ Wallet(b) \in Account
    <3>1. amount_b > 0
      BY <1>7, <1>1, LimitsAssumption DEF U64
    <3> QED
      BY <3>1, AccountFacts DEF AtomicSplit, TypeOK
  <2>2. TransferAccepted(one, w, Wallet(b), amount_b, MaxU64)
    BY <2>1 DEF AtomicSplit
  <2>3. balance' = AfterTransfer(one, w, Wallet(b), amount_b)
    BY <1>7 DEF AtomicSplit
  <2>4. balance' \in [Account -> U64]
    BY <2>1, <2>2, <2>3, <1>1, <1>3, TransferFacts
  <2>5. \A t \in Account : t # w => balance'[t] >= one[t]
    BY <2>1, <2>2, <2>3, <1>1, <1>3, TransferFacts
  <2>6. balance'[w] >= one[w] - amount_b
    BY <2>1, <2>2, <2>3, <1>1, <1>3, TransferFacts
  <2>7. \A t \in Account : t # w => balance[t] <= balance'[t]
    BY <2>4, <2>5, <1>1, <1>3, <1>4, LimitsAssumption DEF U64
  <2>8. balance[w] <= balance'[w] + (amount_a + amount_b)
    BY <2>4, <2>6, <1>1, <1>3, <1>5, LimitsAssumption DEF U64
  <2> QED
    BY <2>7, <2>8 DEF Outflow, SplitTotal
<1> QED
  BY <1>6, <1>7

-----------------------------------------------------------------------------
(* A charge covers the outflow                                             *)

Covered(i) ==
    authority'[i].spent # authority[i].spent =>
        \A a \in Agents :
            balance[Wallet(a)] <= balance'[Wallet(a)] +
                (IF a = authority[i].agent
                 THEN authority'[i].spent - authority[i].spent ELSE 0)

LEMMA CommitCovered ==
    ASSUME TypeOK, TypeOK', AuthorityInv, NEW payer \in Agents,
           NEW id \in AuthorityIds \cup {0}, NEW amount \in U64, NEW c,
           MaySpend(payer, id, amount, c), CommitSpent(id, amount),
           authority_counter' = authority_counter,
           Outflow(payer, amount), NEW i \in AuthorityIds
    PROVE  Covered(i)
<1>1. CASE id = 0 \/ i # id
  BY <1>1 DEF CommitSpent, Covered
<1>2. CASE id # 0 /\ i = id
  <2>1. SpendStep(id, amount)
    BY <1>2 DEF CommitSpent, MaySpend, SpendAllowed, Usable, SpendStep
  <2>2. authority'[i].spent = authority[i].spent + amount
    BY <1>2, <2>1, SpendEffect
  <2>3. authority[i].agent = payer
    BY <1>2 DEF MaySpend, SpendAllowed, Usable
  <2>4. authority[i].spent \in Nat /\ amount \in Nat
    BY LimitsAssumption DEF TypeOK, AuthorityIds, Authority, U64
  <2>5. \A a \in Agents : balance[Wallet(a)] \in Nat /\ balance'[Wallet(a)] \in Nat
    BY LimitsAssumption, AccountFacts DEF TypeOK, U64
  <2>6. \A a \in Agents : a # payer => balance[Wallet(a)] <= balance'[Wallet(a)]
    BY AccountFacts DEF Outflow
  <2>7. balance[Wallet(payer)] <= balance'[Wallet(payer)] + amount
    BY DEF Outflow
  <2> QED
    BY <2>2, <2>3, <2>4, <2>5, <2>6, <2>7 DEF Covered
<1> QED
  BY <1>1, <1>2

LEMMA NextCovered ==
    ASSUME TypeOK, TypeOK', AuthorityInv, [Next]_vars, NEW i \in AuthorityIds
    PROVE  Covered(i)
<1>1. ASSUME NEW a \in Agents, NEW p \in AuthorityIds \cup {0}, NEW req \in IssueRequests,
             IssueAuthority(a, p, req)
      PROVE  Covered(i)
  <2>1. GrantStep(a, p, req) /\ req \in IssueRequest
    BY <1>1, InputsAssumption DEF IssueAuthority, GrantStep
  <2> QED
    BY <2>1, GrantEffect DEF Covered
<1>2. ASSUME NEW a \in Agents, NEW j \in AuthorityIds, NEW children \in SUBSET AuthorityIds,
             RevokeAuthority(a, j, children)
      PROVE  Covered(i)
  BY <1>2 DEF RevokeAuthority, Covered, TypeOK, AuthorityIds, Authority
<1>3. ASSUME NEW a \in Agents, NEW j \in AuthorityIds, ExpireAuthority(a, j)
      PROVE  Covered(i)
  BY <1>3 DEF ExpireAuthority, Covered, TypeOK, AuthorityIds, Authority
<1>4. ASSUME NEW payer \in Registered, NEW payee \in Registered, NEW amount \in Amounts,
             NEW id \in AuthorityIds \cup {0}, NEW c, Pay(payer, payee, amount, id, c)
      PROVE  Covered(i)
  <2>1. payer \in Agents /\ amount \in U64
    BY InputsAssumption DEF TypeOK
  <2> QED
    BY <1>4, <2>1, PayOutflow, CommitCovered DEF Pay, config
<1>5. ASSUME NEW payer \in Registered, NEW a \in Registered,
             NEW b \in Registered \cup {NoAgent}, NEW amount_a \in Amounts,
             NEW amount_b \in Amounts \cup {0}, NEW id \in AuthorityIds \cup {0}, NEW c,
             AtomicSplit(payer, a, b, amount_a, amount_b, id, c)
      PROVE  Covered(i)
  <2>1. payer \in Agents
    BY DEF TypeOK
  <2>2. SplitTotal(amount_a, amount_b) \in U64
    BY <1>5, InputsAssumption, LimitsAssumption DEF AtomicSplit, SplitTotal, U64
  <2> QED
    BY <1>5, <2>1, <2>2, SplitOutflow, CommitCovered DEF AtomicSplit, config
<1>6. CASE authority' = authority
  BY <1>6 DEF Covered
<1>7. CASE Lifecycle
  BY <1>1, <1>2, <1>3, <1>6, <1>7 DEF Lifecycle, RegisterAgent, SetPaused
<1>8. CASE Spending
  BY <1>4, <1>5, <1>8 DEF Spending
<1>9. CASE Slashing \/ Environment \/ UNCHANGED vars
  BY <1>6, <1>9 DEF Slashing, SlashBond, Environment, SplTransfer, AdvanceSlot, vars
<1> QED
  BY <1>7, <1>8, <1>9 DEF Next

\* In every step that charges an authority, no other agent's wallet falls and
\* its agent's wallet falls by no more than the charge.
THEOREM ChargesCoverOutflow == Spec => ChargeCoversOutflow
<1>1. TypeOK /\ TypeOK' /\ AuthorityInv /\ [Next]_vars =>
        [\A i \in AuthorityIds :
            authority'[i].spent # authority[i].spent =>
                \A a \in Agents :
                    balance[Wallet(a)] <= balance'[Wallet(a)] +
                        (IF a = authority[i].agent
                         THEN authority'[i].spent - authority[i].spent ELSE 0)]_vars
  BY NextCovered DEF Covered
<1>2. AuthorityInv <=> SpendWithinLimits /\ ExhaustedIffUsedUp /\ Attenuated
  BY DEF AuthorityInv
<1> QED
  BY <1>1, <1>2, TypeCorrect, AuthoritiesSound, PTL DEF Spec, ChargeCoversOutflow

-----------------------------------------------------------------------------
(* Bonds                                                                   *)

BondUntouched(i) ==
    bond'[i] = bond[i] /\ balance[BondVault(i)] <= balance'[BondVault(i)]

BondPosted(i) ==
    /\ balance[BondVault(i)] <= balance'[BondVault(i)]
    /\ bond'[i].status = "Active"
    /\ bond'[i].amount <= balance'[BondVault(i)]
    /\ i \in AuthorityIds' /\ bond'[i].amount = authority'[i].bond_amount

BondTaken(i) ==
    /\ bond[i].status = "Active" /\ bond'[i].status = "Slashed"
    /\ \/ balance'[BondVault(i)] = balance[BondVault(i)] - bond[i].amount
       \/ balance[BondVault(i)] <= balance'[BondVault(i)]

\* No authority appears that states a bond without one.
IssuedBonded ==
    \A i \in AuthorityIds' \ AuthorityIds :
        authority'[i].bond_amount > 0 => bond'[i].status = "Active"

BondStep == \A i \in 1 .. MaxAuthorities : BondUntouched(i) \/ BondPosted(i) \/ BondTaken(i)

\* Spending under an agent's wallet leaves the bonds alone.
LEMMA OutflowBondStep ==
    ASSUME TypeOK, NEW payer \in Agents, NEW amount, Outflow(payer, amount), bond' = bond
    PROVE  BondStep
<1>1. \A i \in 1 .. MaxAuthorities : BondVault(i) \in Account /\ BondVault(i) # Wallet(payer)
  BY AccountFacts
<1> QED
  BY <1>1 DEF Outflow, BondStep, BondUntouched

\* Nor does a step of another instruction that takes nothing from a bond vault.
LEMMA OutsideBondStep ==
    ASSUME bond' = bond,
           \A i \in 1 .. MaxAuthorities : balance[BondVault(i)] <= balance'[BondVault(i)]
    PROVE  BondStep
BY DEF BondStep, BondUntouched

LEMMA IssueBondStep ==
    ASSUME TypeOK, NEW a \in Agents, NEW p \in AuthorityIds \cup {0},
           NEW req \in IssueRequests, IssueAuthority(a, p, req)
    PROVE  BondStep
<1> DEFINE id == authority_counter + 1
<1>1. req \in IssueRequest /\ GrantStep(a, p, req)
  BY InputsAssumption DEF IssueAuthority, GrantStep
<1>2. id \in 1 .. MaxAuthorities /\ id \in AuthorityIds'
  BY <1>1, GrantEffect
<1>3. authority'[id].bond_amount = req.bond_amount
  BY <1>2 DEF IssueAuthority, Added, AuthorityIds, RootAuthority, ChildAuthority, NewAuthority
<1>4. CASE PostBond(a, id, req.bond_amount)
  <2> DEFINE w == Wallet(a)
             v == BondVault(id)
             amount == req.bond_amount
  <2>1. /\ amount \in U64 /\ w \in Account /\ v \in Account /\ w # v
        /\ balance \in [Account -> U64]
    BY <1>1, <1>2, AccountFacts DEF IssueRequest, TypeOK
  <2>2. /\ TransferAccepted(balance, w, v, amount, MaxU64)
        /\ balance' = AfterTransfer(balance, w, v, amount)
    BY <1>4 DEF PostBond, Accepted
  <2>3. balance'[v] = balance[v] + amount
    BY <2>1, <2>2, TransferFacts
  <2>4. \A t \in Account : t # w => balance'[t] >= balance[t]
    BY <2>1, <2>2, TransferFacts
  <2>5. balance' \in [Account -> U64]
    BY <2>1, <2>2, TransferFacts
  <2>6. /\ bond'[id].amount = amount /\ bond'[id].status = "Active"
        /\ \A i \in 1 .. MaxAuthorities : i # id => bond'[i] = bond[i]
    BY <1>4, <1>2 DEF PostBond, TypeOK
  <2>7. \A i \in 1 .. MaxAuthorities : balance[BondVault(i)] <= balance'[BondVault(i)]
    BY <2>1, <2>4, <2>5, AccountFacts, LimitsAssumption DEF U64
  <2>8. amount <= balance'[v]
    BY <2>1, <2>3, LimitsAssumption DEF U64
  <2>9. BondPosted(id)
    BY <1>2, <1>3, <2>6, <2>7, <2>8 DEF BondPosted
  <2> QED
    BY <2>6, <2>7, <2>9 DEF BondStep, BondUntouched
<1>5. CASE UNCHANGED <<bond, balance>>
  <2>1. \A i \in 1 .. MaxAuthorities : balance[BondVault(i)] \in Nat
    BY AccountFacts, LimitsAssumption DEF TypeOK, U64
  <2> QED
    BY <1>5, <2>1 DEF BondStep, BondUntouched
<1> QED
  BY <1>4, <1>5 DEF IssueAuthority

LEMMA SlashBondStep ==
    ASSUME TypeOK, NEW a \in Agents, NEW j \in AuthorityIds,
           NEW d \in Account, SlashBond(a, j, d)
    PROVE  BondStep
<1> DEFINE v == BondVault(j)
           amount == bond[j].amount
<1>1. /\ j \in 1 .. MaxAuthorities /\ v \in Account /\ amount \in U64
      /\ balance \in [Account -> U64]
  BY AccountFacts, LimitsAssumption DEF TypeOK, AuthorityIds, Bond
<1>2. /\ TransferAccepted(balance, v, d, amount, MaxU64)
      /\ balance' = AfterTransfer(balance, v, d, amount)
  BY DEF SlashBond, Accepted
<1>3. balance' \in [Account -> U64]
  BY <1>1, <1>2, TransferFacts
<1>4. \A t \in Account : t # v => balance'[t] >= balance[t]
  BY <1>1, <1>2, TransferFacts
<1>5. balance'[v] = balance[v] - amount \/ balance' = balance
  BY <1>1, <1>2, TransferFacts
<1>6. /\ bond[j].status = "Active" /\ bond'[j].status = "Slashed"
      /\ \A i \in 1 .. MaxAuthorities : i # j => bond'[i] = bond[i]
  BY <1>1 DEF SlashBond, Slashable, Slashed, TypeOK, Bond
<1>7. \A i \in 1 .. MaxAuthorities : i # j => balance[BondVault(i)] <= balance'[BondVault(i)]
  BY <1>1, <1>3, <1>4, AccountFacts, LimitsAssumption DEF U64
<1>8. balance'[v] = balance[v] - amount \/ balance[v] <= balance'[v]
  BY <1>1, <1>5, LimitsAssumption DEF U64
<1>9. BondTaken(j)
  BY <1>6, <1>8 DEF BondTaken
<1> QED
  BY <1>6, <1>7, <1>9 DEF BondStep, BondUntouched

LEMMA NextBondStep ==
    ASSUME TypeOK, [Next]_vars
    PROVE  BondStep
<1>1. CASE UNCHANGED <<bond, balance>>
  <2>1. \A i \in 1 .. MaxAuthorities : balance[BondVault(i)] \in Nat
    BY AccountFacts, LimitsAssumption DEF TypeOK, U64
  <2> QED
    BY <1>1, <2>1 DEF BondStep, BondUntouched
<1>2. ASSUME NEW payer \in Registered, NEW payee \in Registered, NEW amount \in Amounts,
             NEW id \in AuthorityIds \cup {0}, NEW c, Pay(payer, payee, amount, id, c)
      PROVE  BondStep
  BY <1>2, PayOutflow, OutflowBondStep DEF Pay, TypeOK
<1>3. ASSUME NEW payer \in Registered, NEW a \in Registered,
             NEW b \in Registered \cup {NoAgent}, NEW amount_a \in Amounts,
             NEW amount_b \in Amounts \cup {0}, NEW id \in AuthorityIds \cup {0}, NEW c,
             AtomicSplit(payer, a, b, amount_a, amount_b, id, c)
      PROVE  BondStep
  BY <1>3, SplitOutflow, OutflowBondStep DEF AtomicSplit, TypeOK
<1>4. ASSUME NEW a \in Agents, NEW t \in Account, NEW amount \in Amounts,
             SplTransfer(a, t, amount)
      PROVE  BondStep
  BY <1>4, InputsAssumption, TransferOutflow, OutflowBondStep DEF SplTransfer
<1>5. CASE Lifecycle
  BY <1>1, <1>5, IssueBondStep
  DEF Lifecycle, RegisterAgent, SetPaused, RevokeAuthority, ExpireAuthority
<1>6. CASE Spending
  BY <1>2, <1>3, <1>6 DEF Spending
<1>7. CASE Slashing
  BY <1>7, SlashBondStep, AccountFacts DEF Slashing
<1>8. CASE Environment \/ UNCHANGED vars
  BY <1>1, <1>4, <1>8, AccountFacts DEF Environment, AdvanceSlot, vars
<1> QED
  BY <1>5, <1>6, <1>7, <1>8 DEF Next

LEMMA NextIssuesBonded ==
    ASSUME TypeOK, [Next]_vars
    PROVE  IssuedBonded
<1>1. CASE AuthorityIds' = AuthorityIds
  BY <1>1 DEF IssuedBonded
<1>2. ASSUME NEW a \in Agents, NEW p \in AuthorityIds \cup {0},
             NEW req \in IssueRequests, IssueAuthority(a, p, req)
      PROVE  IssuedBonded
  <2> DEFINE id == authority_counter + 1
  <2>1. req \in IssueRequest /\ GrantStep(a, p, req)
    BY <1>2, InputsAssumption DEF IssueAuthority, GrantStep
  <2>2. id \in 1 .. MaxAuthorities /\ id \in AuthorityIds'
    BY <2>1, GrantEffect
  <2>3. AuthorityIds' \ AuthorityIds \subseteq {id}
    BY <1>2 DEF IssueAuthority, Added, AuthorityIds
  <2>4. authority'[id].bond_amount = req.bond_amount
    BY <1>2, <2>2
    DEF IssueAuthority, Added, AuthorityIds, RootAuthority, ChildAuthority, NewAuthority
  <2>5. req.bond_amount > 0 => bond'[id].status = "Active"
    BY <1>2, <2>1, <2>2, LimitsAssumption
    DEF IssueAuthority, PostBond, TypeOK, IssueRequest, U64
  <2> QED
    BY <2>3, <2>4, <2>5 DEF IssuedBonded
<1>3. CASE Lifecycle
  <2>1. ASSUME NEW a \in Agents, NEW i \in AuthorityIds, NEW children \in SUBSET AuthorityIds,
               RevokeAuthority(a, i, children) \/ ExpireAuthority(a, i)
        PROVE  AuthorityIds' = AuthorityIds
    BY <2>1 DEF RevokeAuthority, ExpireAuthority, AuthorityIds
  <2> QED
    BY <1>1, <1>2, <1>3, <2>1 DEF Lifecycle, RegisterAgent, SetPaused, AuthorityIds
<1>4. CASE Spending
  BY <1>1, <1>4 DEF Spending, Pay, AtomicSplit, CommitSpent, AuthorityIds
<1>5. CASE Slashing \/ Environment \/ UNCHANGED vars
  BY <1>1, <1>5
  DEF Slashing, SlashBond, Environment, SplTransfer, AdvanceSlot, vars, AuthorityIds
<1> QED
  BY <1>3, <1>4, <1>5 DEF Next

LEMMA BondAmountKept ==
    ASSUME TypeOK, AuthorityInv, AuthorityStep, NEW i \in AuthorityIds
    PROVE  i \in AuthorityIds' /\ authority'[i].bond_amount = authority[i].bond_amount
<1>1. ASSUME NEW a \in Agents, NEW p \in AuthorityIds \cup {0},
             NEW req \in IssueRequest, GrantStep(a, p, req)
      PROVE  i \in AuthorityIds' /\ authority'[i].bond_amount = authority[i].bond_amount
  BY <1>1, GrantEffect
<1>2. ASSUME NEW j \in AuthorityIds, NEW amount \in U64, SpendStep(j, amount)
      PROVE  i \in AuthorityIds' /\ authority'[i].bond_amount = authority[i].bond_amount
  BY <1>2 DEF SpendStep, AfterSpend, AuthorityIds, TypeOK, Authority
<1>3. ASSUME NEW S \in SUBSET AuthorityIds, NEW st \in {"Revoked", "Expired"},
             CloseStep(S, st)
      PROVE  i \in AuthorityIds' /\ authority'[i].bond_amount = authority[i].bond_amount
  BY <1>3 DEF CloseStep, AuthorityIds, TypeOK, Authority
<1> QED
  BY <1>1, <1>2, <1>3 DEF AuthorityStep, AuthorityIds

\* The vault holds the bond after the step.
VaultBacked(i) ==
    /\ bond'[i].amount <= balance'[BondVault(i)]
    /\ i \in AuthorityIds'
    /\ bond'[i].amount = authority'[i].bond_amount

LEMMA StepKeepsBonds ==
    ASSUME TypeOK, TypeOK', AuthorityInv, BondBacked, AuthorityStep, BondStep, IssuedBonded
    PROVE  BondBacked'
<1> SUFFICES /\ \A i \in 1 .. MaxAuthorities :
                    bond'[i].status = "Active" => VaultBacked(i)
             /\ \A i \in AuthorityIds' : authority'[i].bond_amount > 0
                    => bond'[i].status \in {"Active", "Slashed"}
  BY DEF BondBacked, VaultBacked
<1>1. ASSUME NEW i \in AuthorityIds', authority'[i].bond_amount > 0
      PROVE  bond'[i].status \in {"Active", "Slashed"}
  <2>1. CASE i \in AuthorityIds
    <3>1. authority[i].bond_amount > 0
      BY <1>1, <2>1, BondAmountKept
    <3>2. bond[i].status \in {"Active", "Slashed"}
      BY <2>1, <3>1 DEF BondBacked
    <3>3. i \in 1 .. MaxAuthorities
      BY <2>1, LimitsAssumption DEF TypeOK, AuthorityIds
    <3> QED
      BY <3>2, <3>3 DEF BondStep, BondUntouched, BondPosted, BondTaken
  <2> QED
    BY <1>1, <2>1 DEF IssuedBonded
<1> SUFFICES ASSUME NEW i \in 1 .. MaxAuthorities, bond'[i].status = "Active"
             PROVE  VaultBacked(i)
  BY <1>1
<1>2. BondUntouched(i) \/ BondPosted(i)
  BY DEF BondStep, BondTaken
<1>3. CASE BondPosted(i)
  BY <1>3 DEF BondPosted, VaultBacked
<1>4. CASE BondUntouched(i)
  <2>1. /\ bond[i].amount <= balance[BondVault(i)]
        /\ i \in AuthorityIds /\ bond[i].amount = authority[i].bond_amount
    BY <1>4 DEF BondBacked, BondUntouched
  <2>2. i \in AuthorityIds' /\ authority'[i].bond_amount = authority[i].bond_amount
    BY <2>1, BondAmountKept
  <2>3. bond[i].amount \in Nat /\ balance[BondVault(i)] \in Nat
    BY AccountFacts, LimitsAssumption DEF TypeOK, Bond, U64
  <2>4. balance'[BondVault(i)] \in Nat
    BY AccountFacts, LimitsAssumption DEF TypeOK, U64
  <2> QED
    BY <1>4, <2>1, <2>2, <2>3, <2>4 DEF BondUntouched, VaultBacked
<1> QED
  BY <1>2, <1>3, <1>4

LEMMA InitBonds == Init => BondBacked
BY DEF Init, BondBacked, NoBond, AuthorityIds

\* While a bond is Active its vault holds it, and it is the bond its
\* authority states; a bond that an authority states was posted.
THEOREM BondsBacked == Spec => []BondBacked
<1>1. TypeOK /\ TypeOK' /\ AuthorityInv /\ BondBacked /\ [Next]_vars => BondBacked'
  BY NextIsStep, NextBondStep, NextIssuesBonded, StepKeepsBonds
<1>2. AuthorityInv <=> SpendWithinLimits /\ ExhaustedIffUsedUp /\ Attenuated
  BY DEF AuthorityInv
<1> QED
  BY <1>1, <1>2, InitBonds, TypeCorrect, AuthoritiesSound, PTL DEF Spec

\* A vault falls in one way only.
Falls(i) == balance'[BondVault(i)] < balance[BondVault(i)]

LEMMA FallsOnce ==
    ASSUME TypeOK, TypeOK', BondStep, NEW i \in 1 .. MaxAuthorities, Falls(i)
    PROVE  /\ bond[i].status = "Active" /\ bond'[i].status = "Slashed"
           /\ balance'[BondVault(i)] = balance[BondVault(i)] - bond[i].amount
<1>1. balance[BondVault(i)] \in Nat /\ balance'[BondVault(i)] \in Nat
  BY AccountFacts, LimitsAssumption DEF TypeOK, U64
<1>2. ~(balance[BondVault(i)] <= balance'[BondVault(i)])
  BY <1>1 DEF Falls
<1>3. BondTaken(i)
  BY <1>2 DEF BondStep, BondUntouched, BondPosted
<1> QED
  BY <1>2, <1>3 DEF BondTaken

\* A bond vault pays out at most once, exactly the bond, in the step that
\* marks the bond Slashed.
THEOREM BondsPaidOnce == Spec => BondPaidOnce
<1>1. TypeOK /\ TypeOK' /\ [Next]_vars =>
        [\A i \in 1 .. MaxAuthorities :
            balance'[BondVault(i)] < balance[BondVault(i)] =>
                /\ bond[i].status = "Active" /\ bond'[i].status = "Slashed"
                /\ balance'[BondVault(i)] = balance[BondVault(i)] - bond[i].amount]_vars
  BY NextBondStep, FallsOnce DEF Falls
<1> QED
  BY <1>1, TypeCorrect, PTL DEF Spec, BondPaidOnce

-----------------------------------------------------------------------------
(* Reputation                                                              *)

Backed(c) == c.settlements + c.commitments <= c.volume

LEMMA CreditBacked ==
    ASSUME NEW c \in Cri, Backed(c), NEW amount \in U64, amount > 0
    PROVE  Backed(Committed(c, amount)) /\ Backed(Settled(c, amount))
<1>1. /\ c.settlements \in Nat /\ c.commitments \in Nat /\ c.volume \in Nat /\ amount \in Nat
      /\ c.settlements + c.commitments <= c.volume
  BY LimitsAssumption DEF Cri, U64, Backed
<1>2. /\ Committed(c, amount).settlements = c.settlements
      /\ Committed(c, amount).commitments = c.commitments + 1
      /\ Committed(c, amount).volume = c.volume + amount
  BY DEF Cri, Committed
<1>3. /\ Settled(c, amount).settlements = c.settlements + 1
      /\ Settled(c, amount).commitments = c.commitments
      /\ Settled(c, amount).volume = c.volume + amount
  BY DEF Cri, Settled
<1>4. Backed(Committed(c, amount))
  BY <1>1, <1>2 DEF Backed
<1>5. Backed(Settled(c, amount))
  BY <1>1, <1>3 DEF Backed
<1> QED
  BY <1>4, <1>5

LEMMA PayCounts ==
    ASSUME TypeOK, CountsBackedByVolume,
           NEW payer \in Registered, NEW payee \in Registered, NEW amount \in Amounts,
           NEW id \in AuthorityIds \cup {0}, NEW c, Pay(payer, payee, amount, id, c)
    PROVE  CountsBackedByVolume'
<1>1. amount \in U64 /\ amount > 0 /\ \A x \in Registered : cri[x] \in Cri /\ Backed(cri[x])
  BY InputsAssumption DEF Pay, MaySpend, TypeOK, CountsBackedByVolume, Backed
<1>2. Backed(Committed(cri[payer], amount)) /\ Backed(Settled(cri[payee], amount))
  BY <1>1, CreditBacked
<1>3. Registered' = Registered /\ \A x \in Registered : Backed(cri'[x])
  BY <1>1, <1>2 DEF Pay, Registered
<1> QED
  BY <1>3 DEF CountsBackedByVolume, Backed

LEMMA SplitCounts ==
    ASSUME TypeOK, CountsBackedByVolume, NEW payer \in Registered, NEW a \in Registered,
           NEW b \in Registered \cup {NoAgent}, NEW amount_a \in Amounts,
           NEW amount_b \in Amounts \cup {0}, NEW id \in AuthorityIds \cup {0}, NEW c,
           AtomicSplit(payer, a, b, amount_a, amount_b, id, c)
    PROVE  CountsBackedByVolume'
<1> DEFINE total == SplitTotal(amount_a, amount_b)
           b_cri == IF amount_b = 0 THEN cri[b] ELSE Settled(cri[b], amount_b)
<1>1. /\ amount_a \in U64 /\ amount_a > 0 /\ amount_b \in U64
      /\ \A x \in Registered : cri[x] \in Cri /\ Backed(cri[x])
  BY InputsAssumption, LimitsAssumption
  DEF AtomicSplit, TypeOK, CountsBackedByVolume, Backed, U64
<1>2. total \in U64 /\ total > 0
  BY <1>1, LimitsAssumption DEF AtomicSplit, SplitTotal, U64
<1>3. Backed(Committed(cri[payer], total)) /\ Backed(Settled(cri[a], amount_a))
  BY <1>1, <1>2, CreditBacked
<1>4. b \in Registered => Backed(b_cri)
  <2>1. CASE amount_b = 0
    BY <2>1, <1>1
  <2>2. CASE amount_b # 0
    <3>1. amount_b > 0
      BY <2>2, <1>1, LimitsAssumption DEF U64
    <3> QED
      BY <2>2, <3>1, <1>1, CreditBacked
  <2> QED
    BY <2>1, <2>2
<1>5. cri' = WrittenBack(payer, Committed(cri[payer], total),
                         a, Settled(cri[a], amount_a), b, b_cri)
  BY DEF AtomicSplit
<1>6. Registered' = Registered /\ \A x \in Registered : Backed(cri'[x])
  BY <1>1, <1>3, <1>4, <1>5 DEF WrittenBack, Registered
<1> QED
  BY <1>6 DEF CountsBackedByVolume, Backed

LEMMA InitCounts == Init => CountsBackedByVolume
BY DEF Init, CountsBackedByVolume, Registered

LEMMA NextCounts ==
    ASSUME TypeOK, CountsBackedByVolume, [Next]_vars
    PROVE  CountsBackedByVolume'
<1>1. CASE cri' = cri
  BY <1>1 DEF CountsBackedByVolume, Registered
<1>2. ASSUME NEW a \in Agents, RegisterAgent(a) PROVE CountsBackedByVolume'
  <2>1. Backed(NewCri)
    BY DEF Backed, NewCri
  <2>2. \A x \in Registered' : cri'[x] = NewCri \/ (x \in Registered /\ cri'[x] = cri[x])
    BY <1>2 DEF RegisterAgent, Added, Registered
  <2> QED
    BY <2>1, <2>2 DEF CountsBackedByVolume, Backed
<1>3. CASE Lifecycle
  BY <1>1, <1>2, <1>3
  DEF Lifecycle, SetPaused, IssueAuthority, RevokeAuthority, ExpireAuthority
<1>4. CASE Spending
  BY <1>4, PayCounts, SplitCounts DEF Spending
<1>5. CASE Slashing \/ Environment \/ UNCHANGED vars
  BY <1>1, <1>5 DEF Slashing, SlashBond, Environment, SplTransfer, AdvanceSlot, vars
<1> QED
  BY <1>3, <1>4, <1>5 DEF Next

\* Every counted settlement or commitment carries volume, also through the
\* lost updates of a split that names one account twice.
THEOREM CountsBacked == Spec => []CountsBackedByVolume
<1>1. TypeOK /\ CountsBackedByVolume /\ [Next]_vars => CountsBackedByVolume'
  BY NextCounts
<1> QED
  BY <1>1, InitCounts, TypeCorrect, PTL DEF Spec

-----------------------------------------------------------------------------
(* The kill switch                                                         *)

NothingSpent ==
    /\ authority_counter' = authority_counter
    /\ cri' = cri
    /\ \A i \in AuthorityIds : authority'[i].spent = authority[i].spent

LEMMA PausedNextSpendsNothing ==
    ASSUME TypeOK, [Next]_vars, paused
    PROVE  NothingSpent
<1>1. CASE UNCHANGED <<authority_counter, cri, authority>>
  BY <1>1 DEF NothingSpent
<1>2. ASSUME NEW a \in Agents, NEW i \in AuthorityIds, NEW children \in SUBSET AuthorityIds,
             RevokeAuthority(a, i, children)
      PROVE  NothingSpent
  BY <1>2 DEF RevokeAuthority, NothingSpent, config, TypeOK, AuthorityIds, Authority
<1>3. ASSUME NEW a \in Agents, NEW i \in AuthorityIds, ExpireAuthority(a, i)
      PROVE  NothingSpent
  BY <1>3 DEF ExpireAuthority, NothingSpent, config, TypeOK, AuthorityIds, Authority
<1>4. CASE Lifecycle
  BY <1>1, <1>2, <1>3, <1>4 DEF Lifecycle, RegisterAgent, SetPaused, IssueAuthority
<1>5. ~Spending
  BY DEF Spending, Pay, AtomicSplit, MaySpend
<1>6. CASE Slashing \/ Environment \/ UNCHANGED vars
  BY <1>1, <1>6
  DEF Slashing, SlashBond, Environment, SplTransfer, AdvanceSlot, vars, config
<1> QED
  BY <1>4, <1>5, <1>6 DEF Next

\* While the program is paused no step issues or charges an authority or
\* credits a reputation.
THEOREM PauseHolds == Spec => PauseStopsSpending
<1>1. TypeOK /\ [Next]_vars => [paused => NothingSpent]_vars
  BY PausedNextSpendsNothing
<1> QED
  BY <1>1, TypeCorrect, PTL DEF Spec, PauseStopsSpending, NothingSpent

-----------------------------------------------------------------------------
(* The vaults of escrows and organizations, to which the core adds only    *)

OtherVaults == EscrowVaults \cup OrgTreasuries

VaultsKept == \A t \in OtherVaults : balance[t] <= balance'[t]

LEMMA OtherVaultFacts ==
    ASSUME NEW t \in OtherVaults
    PROVE  /\ t \in Account
           /\ \A a \in Agents : t # Wallet(a)
           /\ \A i \in 1 .. MaxAuthorities : t # BondVault(i)
BY DEF OtherVaults, EscrowVaults, OrgTreasuries, Account, Wallet, BondVault

LEMMA SameBalanceKeepsVaults ==
    ASSUME TypeOK, UNCHANGED balance
    PROVE  VaultsKept
<1> SUFFICES ASSUME NEW t \in OtherVaults PROVE balance[t] <= balance'[t]
  BY DEF VaultsKept
<1>1. balance[t] \in Nat
  BY OtherVaultFacts, LimitsAssumption DEF TypeOK, U64
<1> QED
  BY <1>1

LEMMA OutflowKeepsVaults ==
    ASSUME NEW payer \in Agents, NEW amount, Outflow(payer, amount)
    PROVE  VaultsKept
BY OtherVaultFacts DEF VaultsKept, Outflow

LEMMA DonationKeepsVaults ==
    ASSUME TypeOK, NEW a \in Agents, NEW t \in Account, NEW amount \in U64,
           SplTransfer(a, t, amount)
    PROVE  VaultsKept
BY TransferOutflow, OutflowKeepsVaults DEF SplTransfer

LEMMA SlashKeepsVaults ==
    ASSUME TypeOK, NEW a, NEW j \in AuthorityIds, NEW d \in Account, SlashBond(a, j, d)
    PROVE  VaultsKept
<1>1. /\ j \in 1 .. MaxAuthorities /\ bond[j].amount \in U64
      /\ BondVault(j) \in Account /\ balance \in [Account -> U64]
  BY AccountFacts, LimitsAssumption DEF TypeOK, AuthorityIds, Bond
<1>2. /\ TransferAccepted(balance, BondVault(j), d, bond[j].amount, MaxU64)
      /\ balance' = AfterTransfer(balance, BondVault(j), d, bond[j].amount)
  BY DEF SlashBond, Accepted
<1>3. balance' \in [Account -> U64]
  BY <1>1, <1>2, TransferFacts
<1>4. \A t \in Account : t # BondVault(j) => balance'[t] >= balance[t]
  BY <1>1, <1>2, TransferFacts
<1> SUFFICES ASSUME NEW t \in OtherVaults PROVE balance[t] <= balance'[t]
  BY DEF VaultsKept
<1>5. t \in Account /\ t # BondVault(j)
  BY <1>1, OtherVaultFacts
<1>6. balance[t] \in Nat /\ balance'[t] \in Nat
  BY <1>1, <1>3, <1>5, LimitsAssumption DEF U64
<1> QED
  BY <1>4, <1>5, <1>6

LEMMA BondPostKeepsVaults ==
    ASSUME TypeOK, NEW a \in Agents, NEW p \in AuthorityIds \cup {0},
           NEW req \in IssueRequests, IssueAuthority(a, p, req)
    PROVE  VaultsKept
<1> DEFINE id == authority_counter + 1
<1>1. req \in IssueRequest /\ GrantStep(a, p, req)
  BY InputsAssumption DEF IssueAuthority, GrantStep
<1>2. id \in 1 .. MaxAuthorities /\ req.bond_amount \in U64
  BY <1>1, GrantEffect DEF IssueRequest
<1>3. CASE PostBond(a, id, req.bond_amount)
  BY <1>2, <1>3, AccountFacts, TransferOutflow, OutflowKeepsVaults DEF PostBond
<1>4. CASE UNCHANGED balance
  BY <1>4, SameBalanceKeepsVaults
<1> QED
  BY <1>3, <1>4 DEF IssueAuthority

LEMMA CoreKeepsVaults ==
    ASSUME TypeOK, [Next]_vars
    PROVE  VaultsKept
<1>1. CASE UNCHANGED balance
  BY <1>1, SameBalanceKeepsVaults
<1>2. CASE Lifecycle
  BY <1>1, <1>2, BondPostKeepsVaults
  DEF Lifecycle, RegisterAgent, SetPaused, RevokeAuthority, ExpireAuthority
<1>3. CASE Spending
  <2>1. ASSUME NEW payer \in Registered, NEW payee \in Registered, NEW amount \in Amounts,
               NEW id \in AuthorityIds \cup {0}, NEW c, Pay(payer, payee, amount, id, c)
        PROVE  VaultsKept
    BY <2>1, PayOutflow, OutflowKeepsVaults DEF TypeOK
  <2>2. ASSUME NEW payer \in Registered, NEW a \in Registered,
               NEW b \in Registered \cup {NoAgent}, NEW amount_a \in Amounts,
               NEW amount_b \in Amounts \cup {0}, NEW id \in AuthorityIds \cup {0}, NEW c,
               AtomicSplit(payer, a, b, amount_a, amount_b, id, c)
        PROVE  VaultsKept
    BY <2>2, SplitOutflow, OutflowKeepsVaults DEF TypeOK
  <2> QED
    BY <1>3, <2>1, <2>2 DEF Spending
<1>4. CASE Slashing
  BY <1>4, SlashKeepsVaults, AccountFacts DEF Slashing
<1>5. CASE Environment \/ UNCHANGED vars
  BY <1>1, <1>5, DonationKeepsVaults, AccountFacts, InputsAssumption
  DEF Environment, AdvanceSlot, vars
<1> QED
  BY <1>2, <1>3, <1>4, <1>5 DEF Next
-----------------------------------------------------------------------------
(* Conservation                                                            *)

Held(bal) == Units(Account, bal, MaxU64)

\* The tokens there are remain those there were, summed over all accounts.
TokensConserved ==
    /\ IsFiniteSet(Held(balance))
    /\ Cardinality(Held(balance)) = Cardinality(Held(InitialBalance))

\* No two accounts hold more than the mint can supply, so that no addition
\* in a destination overflows.
NoOverflow ==
    \A s, t \in Account : s # t => balance[s] + balance[t] <= MaxU64

LEMMA TransferConserves ==
    ASSUME NEW bal \in [Account -> U64], NEW from \in Account, NEW to \in Account,
           NEW amount \in U64, TransferAccepted(bal, from, to, amount, MaxU64),
           IsFiniteSet(Held(bal))
    PROVE  /\ IsFiniteSet(Held(AfterTransfer(bal, from, to, amount)))
           /\ Cardinality(Held(AfterTransfer(bal, from, to, amount))) = Cardinality(Held(bal))
<1> DEFINE after == AfterTransfer(bal, from, to, amount)
           mid == [bal EXCEPT ![from] = bal[from] - amount]
<1>1. CASE from = to
  <2>1. after = bal
    BY <1>1, TransferFacts
  <2> QED
    BY <2>1
<1>2. CASE from # to
  <2>1. MaxU64 \in Nat
    BY LimitsAssumption
  <2>2. U64 = 0 .. MaxU64 /\ bal[from] \in Nat /\ bal[to] \in Nat /\ amount \in Nat
    BY <2>1 DEF U64
  <2>3. mid[from] = bal[from] - amount
    OBVIOUS
  <2>4. \A x \in Account \ {from} : mid[x] = bal[x]
    OBVIOUS
  <2>5. mid[from] \in 0 .. MaxU64 /\ bal \in [Account -> 0 .. MaxU64]
    BY <2>1, <2>2, <2>3 DEF TransferAccepted
  <2>6. mid \in [Account -> 0 .. MaxU64] /\ mid[to] = bal[to]
    BY <1>2, <2>5
  <2>7. after[to] = bal[to] + amount
    BY <1>2, TransferFacts
  <2>8. \A x \in Account \ {to} : after[x] = mid[x]
    BY <1>2 DEF AfterTransfer
  <2>9. after[to] \in 0 .. MaxU64
    BY <2>2, TransferFacts
  <2> HIDE DEF mid, after
  <2>10. IsFiniteSet(Units(Account, bal, MaxU64))
    BY DEF Held
  <2>11. /\ IsFiniteSet(Units(Account, mid, MaxU64))
         /\ Cardinality(Units(Account, mid, MaxU64))
                = (Cardinality(Units(Account, bal, MaxU64)) - bal[from]) + mid[from]
    BY <2>1, <2>4, <2>5, <2>10, UnitsReplaced
  <2>12. /\ IsFiniteSet(Units(Account, after, MaxU64))
         /\ Cardinality(Units(Account, after, MaxU64))
                = (Cardinality(Units(Account, mid, MaxU64)) - mid[to]) + after[to]
    BY <2>1, <2>6, <2>8, <2>9, <2>11, UnitsReplaced
  <2>13. /\ Cardinality(Units(Account, bal, MaxU64)) \in Nat
         /\ Cardinality(Units(Account, mid, MaxU64)) \in Nat
         /\ Cardinality(Units(Account, after, MaxU64)) \in Nat
    BY <2>10, <2>11, <2>12, FS_CardinalityType
  <2>14. Cardinality(Units(Account, after, MaxU64)) = Cardinality(Units(Account, bal, MaxU64))
    BY <2>2, <2>3, <2>6, <2>7, <2>11, <2>12, <2>13
  <2> QED
    BY <2>12, <2>14 DEF Held, after
<1> QED
  BY <1>1, <1>2

\* A step that makes one transfer.
LEMMA MoveConserves ==
    ASSUME TypeOK, TokensConserved, NEW from \in Account, NEW to \in Account,
           NEW amount \in U64, Accepted(from, to, amount),
           balance' = AfterTransfer(balance, from, to, amount)
    PROVE  TokensConserved'
<1>1. balance \in [Account -> U64] /\ TransferAccepted(balance, from, to, amount, MaxU64)
  BY DEF TypeOK, Accepted
<1>2. IsFiniteSet(Held(balance')) /\ Cardinality(Held(balance')) = Cardinality(Held(balance))
  BY <1>1, TransferConserves DEF TokensConserved
<1> QED
  BY <1>2 DEF TokensConserved, Held

\* A step that makes two.
LEMMA TwoMovesConserve ==
    ASSUME TypeOK, TokensConserved, NEW from \in Account,
           NEW a \in Account, NEW amount_a \in U64, Accepted(from, a, amount_a),
           NEW one, one = AfterTransfer(balance, from, a, amount_a),
           NEW b \in Account, NEW amount_b \in U64,
           TransferAccepted(one, from, b, amount_b, MaxU64),
           balance' = AfterTransfer(one, from, b, amount_b)
    PROVE  TokensConserved'
<1>1. balance \in [Account -> U64] /\ TransferAccepted(balance, from, a, amount_a, MaxU64)
  BY DEF TypeOK, Accepted
<1>2. one \in [Account -> U64]
  BY <1>1, TransferFacts
<1>3. IsFiniteSet(Held(one)) /\ Cardinality(Held(one)) = Cardinality(Held(balance))
  BY <1>1, TransferConserves DEF TokensConserved
<1>4. IsFiniteSet(Held(balance')) /\ Cardinality(Held(balance')) = Cardinality(Held(one))
  BY <1>2, <1>3, TransferConserves
<1> QED
  BY <1>3, <1>4 DEF TokensConserved, Held

LEMMA SameBalanceConserves ==
    ASSUME TokensConserved, UNCHANGED balance
    PROVE  TokensConserved'
BY DEF TokensConserved, Held

LEMMA SlashConserves ==
    ASSUME TypeOK, TokensConserved, NEW a, NEW i \in AuthorityIds, NEW d \in Account,
           SlashBond(a, i, d)
    PROVE  TokensConserved'
<1>1. BondVault(i) \in Account /\ bond[i].amount \in U64
  BY AccountFacts, LimitsAssumption DEF TypeOK, AuthorityIds, Bond
<1> QED
  BY <1>1, MoveConserves DEF SlashBond

LEMMA SplitConserves ==
    ASSUME TypeOK, TokensConserved, NEW payer \in Registered, NEW a \in Registered,
           NEW b \in Registered \cup {NoAgent}, NEW amount_a \in Amounts,
           NEW amount_b \in Amounts \cup {0}, NEW id, NEW c,
           AtomicSplit(payer, a, b, amount_a, amount_b, id, c)
    PROVE  TokensConserved'
<1> DEFINE one == AfterTransfer(balance, Wallet(payer), Wallet(a), amount_a)
<1>1. /\ amount_a \in U64 /\ amount_b \in U64
      /\ Wallet(payer) \in Account /\ Wallet(a) \in Account
      /\ Accepted(Wallet(payer), Wallet(a), amount_a)
  BY InputsAssumption, LimitsAssumption, AccountFacts DEF TypeOK, AtomicSplit, U64
<1>2. CASE amount_b = 0
  BY <1>1, <1>2, MoveConserves DEF AtomicSplit
<1>3. CASE amount_b # 0
  <2>1. amount_b > 0
    BY <1>1, <1>3, LimitsAssumption DEF U64
  <2>2. /\ Wallet(b) \in Account
        /\ TransferAccepted(one, Wallet(payer), Wallet(b), amount_b, MaxU64)
        /\ balance' = AfterTransfer(one, Wallet(payer), Wallet(b), amount_b)
    BY <1>3, <2>1, AccountFacts DEF AtomicSplit, TypeOK
  <2> HIDE DEF one
  <2>3. one = AfterTransfer(balance, Wallet(payer), Wallet(a), amount_a)
    BY DEF one
  <2> QED
    BY <1>1, <2>2, <2>3, TwoMovesConserve
<1> QED
  BY <1>2, <1>3

LEMMA NextConserves ==
    ASSUME TypeOK, TokensConserved, [Next]_vars
    PROVE  TokensConserved'
<1>1. CASE UNCHANGED balance
  BY <1>1, SameBalanceConserves
<1>2. ASSUME NEW a \in Agents, NEW p \in AuthorityIds \cup {0}, NEW req \in IssueRequests,
             IssueAuthority(a, p, req)
      PROVE  TokensConserved'
  <2> DEFINE id == authority_counter + 1
  <2>1. req \in IssueRequest /\ GrantStep(a, p, req)
    BY <1>2, InputsAssumption DEF IssueAuthority, GrantStep
  <2>2. id \in 1 .. MaxAuthorities /\ req.bond_amount \in U64
    BY <2>1, GrantEffect DEF IssueRequest
  <2>3. CASE PostBond(a, id, req.bond_amount)
    BY <2>2, <2>3, AccountFacts, MoveConserves DEF PostBond
  <2> QED
    BY <1>1, <1>2, <2>3 DEF IssueAuthority
<1>3. ASSUME NEW payer \in Registered, NEW payee \in Registered, NEW amount \in Amounts,
             NEW id, NEW c, Pay(payer, payee, amount, id, c)
      PROVE  TokensConserved'
  <2>1. payer \in Agents /\ payee \in Agents /\ amount \in U64
    BY InputsAssumption DEF TypeOK
  <2> QED
    BY <1>3, <2>1, AccountFacts, MoveConserves DEF Pay
<1>4. CASE Lifecycle
  BY <1>1, <1>2, <1>4 DEF Lifecycle, RegisterAgent, SetPaused, RevokeAuthority, ExpireAuthority
<1>5. CASE Spending
  BY <1>3, <1>5, SplitConserves DEF Spending
<1>6. CASE Slashing
  BY <1>6, SlashConserves, AccountFacts DEF Slashing
<1>7. CASE Environment \/ UNCHANGED vars
  BY <1>1, <1>7, MoveConserves, AccountFacts, InputsAssumption
  DEF Environment, SplTransfer, AdvanceSlot, vars
<1> QED
  BY <1>4, <1>5, <1>6, <1>7 DEF Next

LEMMA InitConserves == Init => TokensConserved
BY SupplyAssumption DEF Init, TokensConserved, Held

LEMMA ConservedDoesNotOverflow ==
    ASSUME TypeOK, TokensConserved
    PROVE  NoOverflow
<1> SUFFICES ASSUME NEW s \in Account, NEW t \in Account, s # t
             PROVE  balance[s] + balance[t] <= MaxU64
  BY DEF NoOverflow
<1>1. MaxU64 \in Nat /\ balance \in [Account -> 0 .. MaxU64]
  BY LimitsAssumption DEF TypeOK, U64
<1>2. IsFiniteSet(Units(Account, balance, MaxU64))
  BY DEF TokensConserved, Held
<1>3. balance[s] + balance[t] <= Cardinality(Units(Account, balance, MaxU64))
  BY <1>1, <1>2, TwoWithinSum
<1>4. Cardinality(Units(Account, balance, MaxU64)) \in Nat
  BY <1>2, FS_CardinalityType
<1>5. Cardinality(Units(Account, balance, MaxU64)) <= MaxU64
  BY SupplyAssumption DEF TokensConserved, Held
<1>6. balance[s] \in Nat /\ balance[t] \in Nat
  BY <1>1
<1> QED
  BY <1>1, <1>3, <1>4, <1>5, <1>6

\* No instruction makes or loses a token: the sum over all accounts is that
\* of the start, through both transfers of a split, bonds and donations.
THEOREM TokensAreConserved == Spec => []TokensConserved
<1>1. TypeOK /\ TokensConserved /\ [Next]_vars => TokensConserved'
  BY NextConserves
<1> QED
  BY <1>1, InitConserves, TypeCorrect, PTL DEF Spec

\* So the token program refuses a transfer only for want of funds: with one
\* u64 of supply no destination can overflow.
THEOREM NoTransferOverflows == Spec => []NoOverflow
<1>1. TypeOK /\ TokensConserved => NoOverflow
  BY ConservedDoesNotOverflow
<1> QED
  BY <1>1, TypeCorrect, TokensAreConserved, PTL
=============================================================================
