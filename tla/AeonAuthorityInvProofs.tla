----------------------- MODULE AeonAuthorityInvProofs -----------------------
(***************************************************************************)
(* The inductive invariant of AeonAuthority.  Every step does one of four  *)
(* things to the authorities: grants one, spends under one, closes some,   *)
(* or leaves them alone.  Each part of the invariant, each action property *)
(* about authorities and the refinement is proved kind by kind.  Chains of *)
(* delegations need induction over the ids, by the least id that fails.    *)
(***************************************************************************)
EXTENDS AeonAuthorityProofs

GrantStep(a, p, req) ==
    /\ authority_counter + 1 <= MaxAuthorities
    /\ req.budget > 0
    /\ p # 0 => MayDelegate(authority[p], a, req)
    /\ authority_counter' = authority_counter + 1
    /\ authority' = Added(authority, authority_counter + 1,
                          IF p = 0 THEN RootAuthority(a, req)
                          ELSE ChildAuthority(a, p, authority[p], req))

SpendStep(i, amount) ==
    /\ amount > 0
    /\ authority[i].status = "Active"
    /\ WithinTerms(authority[i], amount)
    /\ authority' = [authority EXCEPT ![i] = AfterSpend(authority[i], amount)]
    /\ authority_counter' = authority_counter

CloseStep(S, st) ==
    /\ \A i \in S : authority[i].status = "Active"
    /\ authority' = [i \in AuthorityIds |->
                        IF i \in S THEN [authority[i] EXCEPT !.status = st]
                        ELSE authority[i]]
    /\ authority_counter' = authority_counter

AuthorityStep ==
    \/ \E a \in Agents, p \in AuthorityIds \cup {0}, req \in IssueRequest :
            GrantStep(a, p, req)
    \/ \E i \in AuthorityIds, amount \in U64 : SpendStep(i, amount)
    \/ \E S \in SUBSET AuthorityIds, st \in {"Revoked", "Expired"} : CloseStep(S, st)
    \/ authority' = authority /\ authority_counter' = authority_counter

LEMMA CommitIsStep ==
    ASSUME TypeOK, NEW payer, NEW id \in AuthorityIds \cup {0}, NEW amount \in U64,
           NEW c, MaySpend(payer, id, amount, c), CommitSpent(id, amount),
           authority_counter' = authority_counter
    PROVE  AuthorityStep
<1>1. CASE id = 0
  BY <1>1 DEF CommitSpent, AuthorityStep
<1>2. CASE id # 0
  <2>1. SpendStep(id, amount)
    BY <1>2 DEF CommitSpent, MaySpend, SpendAllowed, Usable, SpendStep
  <2> QED
    BY <1>2, <2>1 DEF AuthorityStep
<1> QED
  BY <1>1, <1>2

LEMMA NextIsStep ==
    ASSUME TypeOK, [Next]_vars
    PROVE  AuthorityStep
<1>1. ASSUME NEW a \in Agents, NEW p \in AuthorityIds \cup {0}, NEW req \in IssueRequests,
             IssueAuthority(a, p, req)
      PROVE  AuthorityStep
  <2>1. GrantStep(a, p, req)
    BY <1>1 DEF IssueAuthority, GrantStep
  <2> QED
    BY <2>1, InputsAssumption DEF AuthorityStep
<1>2. ASSUME NEW a \in Agents, NEW i \in AuthorityIds, NEW children \in SUBSET AuthorityIds,
             RevokeAuthority(a, i, children)
      PROVE  AuthorityStep
  <2> DEFINE S == {i} \cup {j \in children : authority[j].status = "Active"}
  <2>1. CloseStep(S, "Revoked")
    BY <1>2 DEF RevokeAuthority, MayRevoke, CloseStep, config
  <2> QED
    BY <2>1 DEF AuthorityStep
<1>3. ASSUME NEW a \in Agents, NEW i \in AuthorityIds, ExpireAuthority(a, i)
      PROVE  AuthorityStep
  <2>1. CloseStep({i}, "Expired")
    BY <1>3 DEF ExpireAuthority, CloseStep, TypeOK, AuthorityIds, config
  <2> QED
    BY <2>1 DEF AuthorityStep
<1>4. ASSUME NEW payer \in Registered, NEW payee \in Registered, NEW amount \in Amounts,
             NEW id \in AuthorityIds \cup {0}, NEW c, Pay(payer, payee, amount, id, c)
      PROVE  AuthorityStep
  BY <1>4, CommitIsStep, InputsAssumption DEF Pay, config
<1>5. ASSUME NEW payer \in Registered, NEW a \in Registered,
             NEW b \in Registered \cup {NoAgent}, NEW amount_a \in Amounts,
             NEW amount_b \in Amounts \cup {0}, NEW id \in AuthorityIds \cup {0}, NEW c,
             AtomicSplit(payer, a, b, amount_a, amount_b, id, c)
      PROVE  AuthorityStep
  <2>1. SplitTotal(amount_a, amount_b) \in U64
    BY <1>5, InputsAssumption, LimitsAssumption DEF AtomicSplit, SplitTotal, U64
  <2> QED
    BY <1>5, <2>1, CommitIsStep DEF AtomicSplit, config
<1>6. CASE UNCHANGED <<authority, authority_counter>>
  BY <1>6 DEF AuthorityStep
<1>7. CASE Lifecycle
  BY <1>1, <1>2, <1>3, <1>6, <1>7 DEF Lifecycle, RegisterAgent, SetPaused, config
<1>8. CASE Spending
  BY <1>4, <1>5, <1>8 DEF Spending
<1>9. CASE Slashing \/ Environment \/ UNCHANGED vars
  BY <1>6, <1>9 DEF Slashing, SlashBond, Environment, SplTransfer, AdvanceSlot, vars, config
<1> QED
  BY <1>7, <1>8, <1>9 DEF Next

-----------------------------------------------------------------------------
(* The parts of the invariant, for each kind of step                       *)

AuthorityInv == SpendWithinLimits /\ ExhaustedIffUsedUp /\ Attenuated

\* What spending and closing leave alone.
SameTerms(new, old) ==
    /\ new.agent = old.agent /\ new.parent_id = old.parent_id /\ new.depth = old.depth
    /\ new.budget = old.budget /\ new.max_per_tx = old.max_per_tx
    /\ new.max_total = old.max_total /\ new.categories = old.categories

LEMMA AttenuatedBySameTerms ==
    ASSUME TypeOK, Attenuated, AuthorityIds' = AuthorityIds,
           \A i \in AuthorityIds : SameTerms(authority'[i], authority[i])
    PROVE  Attenuated'
<1> SUFFICES ASSUME NEW i \in AuthorityIds, authority'[i].parent_id # 0
             PROVE  /\ authority'[i].parent_id < i
                    /\ LET child == authority'[i]
                           parent == authority'[authority'[i].parent_id]
                       IN /\ child.agent = parent.agent
                          /\ child.depth = parent.depth + 1
                          /\ child.budget <= parent.budget
                          /\ child.max_per_tx <= parent.max_per_tx
                          /\ child.max_total <= parent.max_total
                          /\ parent.categories # {} =>
                                /\ child.categories # {}
                                /\ child.categories \subseteq parent.categories
  BY DEF Attenuated
<1> DEFINE p == authority[i].parent_id
<1>1. i \in 1 .. authority_counter /\ authority[i].parent_id \in 0 .. MaxAuthorities
  BY DEF TypeOK, AuthorityIds, Authority
<1>2. authority'[i].parent_id = p /\ p # 0 /\ p < i
  BY DEF SameTerms, Attenuated
<1>3. p \in AuthorityIds
  BY <1>1, <1>2, LimitsAssumption DEF TypeOK, AuthorityIds
<1>4. SameTerms(authority'[i], authority[i]) /\ SameTerms(authority'[p], authority[p])
  BY <1>3
<1>5. /\ authority[i].agent = authority[p].agent
      /\ authority[i].depth = authority[p].depth + 1
      /\ authority[i].budget <= authority[p].budget
      /\ authority[i].max_per_tx <= authority[p].max_per_tx
      /\ authority[i].max_total <= authority[p].max_total
      /\ authority[p].categories # {} =>
            /\ authority[i].categories # {}
            /\ authority[i].categories \subseteq authority[p].categories
  BY <1>2 DEF Attenuated
<1> QED
  BY <1>2, <1>4, <1>5 DEF SameTerms

LEMMA GrantKeepsInv ==
    ASSUME TypeOK, AuthorityInv, NEW a \in Agents, NEW p \in AuthorityIds \cup {0},
           NEW req \in IssueRequest, GrantStep(a, p, req)
    PROVE  AuthorityInv'
<1> DEFINE n == authority_counter
           new == IF p = 0 THEN RootAuthority(a, req)
                  ELSE ChildAuthority(a, p, authority[p], req)
<1>1. n \in Nat /\ AuthorityIds = 1 .. n /\ AuthorityIds' = 1 .. n + 1
  BY LimitsAssumption DEF TypeOK, AuthorityIds, GrantStep, Added
<1>2. authority'[n + 1] = new /\ \A i \in 1 .. n : authority'[i] = authority[i]
  <2>1. authority' = Added(authority, n + 1, new)
    BY DEF GrantStep
  <2> QED
    BY <2>1, <1>1 DEF Added, AuthorityIds
<1>3. p # 0 => authority[p] \in Authority /\ p \in 1 .. n /\ MayDelegate(authority[p], a, req)
  BY <1>1 DEF TypeOK, GrantStep
<1>4. \A i \in 1 .. n + 1 : i \in 1 .. n \/ i = n + 1
  BY <1>1
<1>5. /\ new.spent = 0 /\ new.budget = req.budget /\ new.status = "Active"
      /\ new.max_total <= new.budget /\ new.max_total \in Nat
      /\ new.budget \in Nat /\ new.budget > 0
  <2>1. req.budget \in Nat /\ req.max_total \in Nat /\ req.budget > 0
    BY LimitsAssumption DEF IssueRequest, U64, GrantStep
  <2>2. p # 0 => authority[p].max_total \in Nat
    BY <1>3, LimitsAssumption DEF Authority, U64
  <2> QED
    BY <2>1, <2>2 DEF RootAuthority, ChildAuthority, NewAuthority, Lesser
<1>6. SpendWithinLimits'
  BY <1>1, <1>2, <1>4, <1>5 DEF AuthorityInv, SpendWithinLimits
<1>7. ExhaustedIffUsedUp'
  BY <1>1, <1>2, <1>4, <1>5 DEF AuthorityInv, ExhaustedIffUsedUp
<1>8. Attenuated'
  <2> SUFFICES ASSUME NEW i \in 1 .. n + 1, authority'[i].parent_id # 0
               PROVE  /\ authority'[i].parent_id < i
                      /\ LET child == authority'[i]
                             parent == authority'[authority'[i].parent_id]
                         IN /\ child.agent = parent.agent
                            /\ child.depth = parent.depth + 1
                            /\ child.budget <= parent.budget
                            /\ child.max_per_tx <= parent.max_per_tx
                            /\ child.max_total <= parent.max_total
                            /\ parent.categories # {} =>
                                  /\ child.categories # {}
                                  /\ child.categories \subseteq parent.categories
    BY <1>1 DEF Attenuated
  <2>1. CASE i \in 1 .. n
    <3> DEFINE q == authority[i].parent_id
    <3>1. authority'[i] = authority[i] /\ q # 0 /\ q < i
      BY <2>1, <1>1, <1>2 DEF AuthorityInv, Attenuated
    <3>2. q \in 1 .. n
      <4>1. authority[i] \in Authority
        BY <2>1 DEF TypeOK
      <4>2. q \in Nat
        BY <4>1, LimitsAssumption DEF Authority
      <4> QED
        BY <4>2, <2>1, <1>1, <3>1
    <3>3. authority'[q] = authority[q]
      BY <3>2, <1>2
    <3> QED
      BY <2>1, <1>1, <3>1, <3>3 DEF AuthorityInv, Attenuated
  <2>2. CASE i = n + 1
    <3>1. p # 0 /\ authority'[i].parent_id = p
      BY <2>2, <1>2 DEF RootAuthority, ChildAuthority, NewAuthority
    <3> DEFINE parent == authority[p]
    <3>2. p < i /\ authority'[p] = parent /\ authority'[i] = ChildAuthority(a, p, parent, req)
      BY <2>2, <1>1, <1>2, <1>3, <3>1
    <3>3. parent.agent = a /\ req.budget <= parent.budget - parent.spent
      BY <1>3, <3>1 DEF MayDelegate
    <3>4. /\ parent.budget \in Nat /\ parent.spent \in Nat /\ req.budget \in Nat
          /\ parent.max_per_tx \in Nat /\ req.max_per_tx \in Nat
          /\ parent.max_total \in Nat /\ req.max_total \in Nat
      BY <1>3, <3>1, LimitsAssumption DEF Authority, IssueRequest, U64
    <3>5. parent.categories # {} =>
            /\ ChildCategories(parent, req.categories) # {}
            /\ ChildCategories(parent, req.categories) \subseteq parent.categories
      BY <1>3, <3>1 DEF MayDelegate, ChildCategories
    <3> QED
      BY <3>1, <3>2, <3>3, <3>4, <3>5 DEF ChildAuthority, NewAuthority, Lesser
  <2> QED
    BY <1>4, <2>1, <2>2
<1> QED
  BY <1>6, <1>7, <1>8 DEF AuthorityInv

LEMMA SpendKeepsInv ==
    ASSUME TypeOK, AuthorityInv, NEW i \in AuthorityIds, NEW amount \in U64,
           SpendStep(i, amount)
    PROVE  AuthorityInv'
<1>1. AuthorityIds' = AuthorityIds /\ i \in 1 .. authority_counter
  BY DEF SpendStep, AuthorityIds, TypeOK
<1>2. /\ authority'[i] = AfterSpend(authority[i], amount)
      /\ \A j \in AuthorityIds : j # i => authority'[j] = authority[j]
  BY <1>1 DEF SpendStep, AuthorityIds, TypeOK
<1>3. authority[i] \in Authority /\ amount \in Nat /\ amount > 0
  BY <1>1, LimitsAssumption DEF TypeOK, SpendStep, U64
<1>4. /\ authority'[i].spent = authority[i].spent + amount
      /\ authority'[i].status = IF authority[i].spent + amount >= authority[i].budget
                                THEN "Exhausted" ELSE "Active"
      /\ SameTerms(authority'[i], authority[i])
  <2>1. authority[i].status = "Active"
    BY DEF SpendStep
  <2>2. authority'[i].spent = authority[i].spent + amount
    BY <1>2, <1>3 DEF AfterSpend, Authority
  <2>3. authority'[i].status = IF authority[i].spent + amount >= authority[i].budget
                               THEN "Exhausted" ELSE "Active"
    BY <1>2, <1>3, <2>1 DEF AfterSpend, Authority
  <2>4. SameTerms(authority'[i], authority[i])
    BY <1>2, <1>3 DEF AfterSpend, SameTerms, Authority
  <2> QED
    BY <2>2, <2>3, <2>4
<1>5. /\ authority[i].spent \in Nat /\ authority[i].budget \in Nat
      /\ authority[i].max_total \in Nat
      /\ authority[i].spent + amount <= authority[i].max_total
      /\ authority[i].spent + amount <= authority[i].budget
  BY <1>3, LimitsAssumption DEF SpendStep, WithinTerms, Authority, U64
<1>6. SpendWithinLimits'
  BY <1>1, <1>2, <1>4, <1>5 DEF AuthorityInv, SpendWithinLimits, SameTerms
<1>7. ExhaustedIffUsedUp'
  <2>1. (authority'[i].status = "Exhausted") <=> (authority'[i].spent = authority'[i].budget)
    BY <1>4, <1>5, <1>3 DEF SameTerms
  <2> QED
    BY <2>1, <1>1, <1>2 DEF AuthorityInv, ExhaustedIffUsedUp
<1>8. Attenuated'
  BY <1>1, <1>2, <1>4, AttenuatedBySameTerms DEF AuthorityInv, SameTerms
<1> QED
  BY <1>6, <1>7, <1>8 DEF AuthorityInv

LEMMA CloseKeepsInv ==
    ASSUME TypeOK, AuthorityInv, NEW S \in SUBSET AuthorityIds,
           NEW st \in {"Revoked", "Expired"}, CloseStep(S, st)
    PROVE  AuthorityInv'
<1>1. AuthorityIds' = AuthorityIds /\ \A i \in AuthorityIds : authority[i] \in Authority
  BY DEF CloseStep, AuthorityIds, TypeOK
<1>2. \A i \in AuthorityIds :
        /\ SameTerms(authority'[i], authority[i])
        /\ authority'[i].spent = authority[i].spent
        /\ authority'[i].status = IF i \in S THEN st ELSE authority[i].status
  BY <1>1 DEF CloseStep, SameTerms, Authority
<1>3. \A i \in S : authority[i].status = "Active"
  BY DEF CloseStep
<1>4. SpendWithinLimits'
  BY <1>1, <1>2 DEF AuthorityInv, SpendWithinLimits, SameTerms
<1>5. ExhaustedIffUsedUp'
  BY <1>1, <1>2, <1>3 DEF AuthorityInv, ExhaustedIffUsedUp, SameTerms
<1>6. Attenuated'
  BY <1>1, <1>2, AttenuatedBySameTerms DEF AuthorityInv
<1> QED
  BY <1>4, <1>5, <1>6 DEF AuthorityInv

LEMMA StepKeepsInv ==
    ASSUME TypeOK, AuthorityInv, AuthorityStep
    PROVE  AuthorityInv'
<1>1. CASE authority' = authority /\ authority_counter' = authority_counter
  BY <1>1 DEF AuthorityInv, SpendWithinLimits, ExhaustedIffUsedUp, Attenuated, AuthorityIds
<1> QED
  BY <1>1, GrantKeepsInv, SpendKeepsInv, CloseKeepsInv DEF AuthorityStep

\* In every reachable state the authorities keep their books: spending is
\* within caps and budgets, Exhausted means used up, and every child is an
\* attenuation of its parent.
THEOREM AuthoritiesSound == Spec => [](SpendWithinLimits /\ ExhaustedIffUsedUp /\ Attenuated)
<1>1. Init => AuthorityInv
  BY DEF Init, AuthorityInv, SpendWithinLimits, ExhaustedIffUsedUp, Attenuated, AuthorityIds
<1>2. TypeOK /\ AuthorityInv /\ [Next]_vars => AuthorityInv'
  BY NextIsStep, StepKeepsInv
<1>3. AuthorityInv => SpendWithinLimits /\ ExhaustedIffUsedUp /\ Attenuated
  BY DEF AuthorityInv
<1> QED
  BY <1>1, <1>2, <1>3, TypeCorrect, PTL DEF Spec

\* No sequence of payments, splits and escrows spends past a cap or budget.
THEOREM SpendingStaysWithinLimits == Spec => []SpendWithinLimits
BY AuthoritiesSound, PTL

\* An authority is Exhausted when, and only when, its budget is used up.
THEOREM ExhaustionIsExact == Spec => []ExhaustedIffUsedUp
BY AuthoritiesSound, PTL

\* Every child stays within the terms of its parent, revoked or not.
THEOREM ChildrenAttenuate == Spec => []Attenuated
BY AuthoritiesSound, PTL

-----------------------------------------------------------------------------
(* What a step of each kind does                                            *)

LEMMA GrantEffect ==
    ASSUME TypeOK, NEW a \in Agents, NEW p \in AuthorityIds \cup {0},
           NEW req \in IssueRequest, GrantStep(a, p, req)
    PROVE  /\ authority_counter + 1 \in 1 .. MaxAuthorities
           /\ AuthorityIds = 1 .. authority_counter
           /\ AuthorityIds' = AuthorityIds \cup {authority_counter + 1}
           /\ authority_counter + 1 \notin AuthorityIds
           /\ authority'[authority_counter + 1].status = "Active"
           /\ authority'[authority_counter + 1].spent = 0
           /\ authority'[authority_counter + 1].max_total \in U64
           /\ \A i \in AuthorityIds : authority'[i] = authority[i]
<1> DEFINE n == authority_counter
           new == IF p = 0 THEN RootAuthority(a, req)
                  ELSE ChildAuthority(a, p, authority[p], req)
<1>1. n \in Nat /\ n + 1 <= MaxAuthorities /\ AuthorityIds = 1 .. n
  BY LimitsAssumption DEF TypeOK, AuthorityIds, GrantStep
<1>2. authority' = Added(authority, n + 1, new)
  BY DEF GrantStep
<1>3. n + 1 \notin AuthorityIds /\ n + 1 \in 1 .. MaxAuthorities
  BY <1>1, LimitsAssumption
<1>4. /\ AuthorityIds' = AuthorityIds \cup {n + 1}
      /\ authority'[n + 1] = new
      /\ \A i \in AuthorityIds : authority'[i] = authority[i]
  BY <1>2, <1>3 DEF Added, AuthorityIds
<1>5. new.status = "Active" /\ new.spent = 0
  BY DEF RootAuthority, ChildAuthority, NewAuthority
<1>6. new.max_total \in U64
  <2>1. p # 0 => authority[p].max_total \in U64
    BY DEF TypeOK, AuthorityIds, Authority
  <2> QED
    BY <2>1 DEF RootAuthority, ChildAuthority, NewAuthority, Lesser, IssueRequest
<1> QED
  BY <1>1, <1>3, <1>4, <1>5, <1>6

LEMMA SpendEffect ==
    ASSUME TypeOK, AuthorityInv, NEW i \in AuthorityIds, NEW amount \in U64,
           SpendStep(i, amount)
    PROVE  /\ AuthorityIds' = AuthorityIds
           /\ amount \in 1 .. MaxU64
           /\ authority[i].status = "Active"
           /\ authority[i].spent + amount <= authority[i].max_total
           /\ authority'[i].spent = authority[i].spent + amount
           /\ authority'[i].max_total = authority[i].max_total
           /\ \A j \in AuthorityIds \ {i} : authority'[j] = authority[j]
<1>1. AuthorityIds' = AuthorityIds /\ authority[i] \in Authority
  BY DEF SpendStep, AuthorityIds, TypeOK
<1>2. /\ authority'[i] = AfterSpend(authority[i], amount)
      /\ \A j \in AuthorityIds \ {i} : authority'[j] = authority[j]
  BY DEF SpendStep, AuthorityIds, TypeOK
<1>3. /\ authority'[i].spent = authority[i].spent + amount
      /\ authority'[i].max_total = authority[i].max_total
  BY <1>1, <1>2 DEF AfterSpend, Authority
<1>4. amount \in 1 .. MaxU64
  BY LimitsAssumption DEF SpendStep, U64
<1> QED
  BY <1>1, <1>2, <1>3, <1>4 DEF SpendStep, WithinTerms

-----------------------------------------------------------------------------
(* A retired authority is left alone                                       *)

LEMMA StepLeavesRetired ==
    ASSUME TypeOK, AuthorityInv, AuthorityStep, NEW i \in AuthorityIds,
           authority[i].status # "Active"
    PROVE  authority'[i] = authority[i]
<1>1. ASSUME NEW a \in Agents, NEW p \in AuthorityIds \cup {0},
             NEW req \in IssueRequest, GrantStep(a, p, req)
      PROVE  authority'[i] = authority[i]
  BY <1>1, GrantEffect
<1>2. ASSUME NEW j \in AuthorityIds, NEW amount \in U64, SpendStep(j, amount)
      PROVE  authority'[i] = authority[i]
  BY <1>2, SpendEffect
<1>3. ASSUME NEW S \in SUBSET AuthorityIds, NEW st \in {"Revoked", "Expired"},
             CloseStep(S, st)
      PROVE  authority'[i] = authority[i]
  BY <1>3 DEF CloseStep
<1> QED
  BY <1>1, <1>2, <1>3 DEF AuthorityStep

\* Once an authority is revoked, expired or exhausted no step changes it.
THEOREM RetiredStaysRetired == Spec => RetiredIsFinal
<1>1. TypeOK /\ AuthorityInv /\ [Next]_vars =>
        [\A i \in AuthorityIds :
            authority[i].status # "Active" => authority'[i] = authority[i]]_vars
  BY NextIsStep, StepLeavesRetired
<1>2. AuthorityInv <=> SpendWithinLimits /\ ExhaustedIffUsedUp /\ Attenuated
  BY DEF AuthorityInv
<1> QED
  BY <1>1, <1>2, TypeCorrect, AuthoritiesSound, PTL DEF Spec, RetiredIsFinal

-----------------------------------------------------------------------------
(* Authorities implement allowances                                        *)

LEMMA GrantIsGrant ==
    ASSUME TypeOK, NEW a \in Agents, NEW p \in AuthorityIds \cup {0},
           NEW req \in IssueRequest, GrantStep(a, p, req)
    PROVE  Allowances!Next
<1> DEFINE n == authority_counter + 1
           granted == [state |-> "open", limit |-> authority'[n].max_total, used |-> 0]
<1>1. n \in 1 .. MaxAuthorities /\ authority'[n].max_total \in 0 .. MaxU64
  BY GrantEffect DEF U64
<1>2. \A i \in 1 .. MaxAuthorities :
        AllowanceOf(i)' = IF i = n THEN granted ELSE AllowanceOf(i)
  BY GrantEffect DEF AllowanceOf
<1>3. AllowanceOf(n) = Allowances!Ungranted
  BY GrantEffect DEF AllowanceOf, Allowances!Ungranted
<1>4. Allowances!Grant(n)
  BY <1>1, <1>2, <1>3 DEF Allowances!Grant
<1> QED
  BY <1>1, <1>4 DEF Allowances!Next

LEMMA SpendIsDraw ==
    ASSUME TypeOK, AuthorityInv, NEW i \in AuthorityIds, NEW amount \in U64,
           SpendStep(i, amount)
    PROVE  Allowances!Next
<1> DEFINE after == IF authority'[i].status = "Active" THEN "open" ELSE "closed"
           drawn == [state |-> after, limit |-> AllowanceOf(i).limit,
                     used |-> AllowanceOf(i).used + amount]
<1>1. i \in 1 .. MaxAuthorities /\ amount \in 1 .. MaxU64
  BY SpendEffect, LimitsAssumption DEF TypeOK, AuthorityIds
<1>2. /\ AllowanceOf(i).state = "open"
      /\ AllowanceOf(i).used = authority[i].spent
      /\ AllowanceOf(i).limit = authority[i].max_total
  BY SpendEffect DEF AllowanceOf
<1>3. \A j \in 1 .. MaxAuthorities :
        AllowanceOf(j)' = IF j = i THEN drawn ELSE AllowanceOf(j)
  BY <1>2, SpendEffect DEF AllowanceOf
<1>4. i \in Allowances!OpenIds
  BY <1>1, <1>2 DEF Allowances!OpenIds
<1>5. AllowanceOf(i).used + amount <= AllowanceOf(i).limit
  BY <1>2, SpendEffect
<1>6. Allowances!Draw(i)
  BY <1>1, <1>3, <1>5 DEF Allowances!Draw
<1> QED
  BY <1>4, <1>6 DEF Allowances!Next

LEMMA CloseIsClose ==
    ASSUME TypeOK, NEW S \in SUBSET AuthorityIds, NEW st \in {"Revoked", "Expired"},
           CloseStep(S, st)
    PROVE  Allowances!Next
<1>1. AuthorityIds \subseteq 1 .. MaxAuthorities /\ AuthorityIds' = AuthorityIds
  BY LimitsAssumption DEF TypeOK, AuthorityIds, CloseStep
<1>2. \A i \in AuthorityIds :
        /\ authority'[i].max_total = authority[i].max_total
        /\ authority'[i].spent = authority[i].spent
        /\ authority'[i].status = IF i \in S THEN st ELSE authority[i].status
  BY DEF CloseStep, TypeOK, AuthorityIds, Authority
<1>3. \A i \in S : authority[i].status = "Active"
  BY DEF CloseStep
<1>4. S \in SUBSET Allowances!OpenIds
  BY <1>1, <1>3 DEF Allowances!OpenIds, AllowanceOf
<1>5. \A i \in 1 .. MaxAuthorities :
        AllowanceOf(i)' =
            IF i \in S THEN [state |-> "closed", limit |-> AllowanceOf(i).limit,
                             used |-> AllowanceOf(i).used]
            ELSE AllowanceOf(i)
  BY <1>1, <1>2, <1>3 DEF AllowanceOf
<1>6. Allowances!Close(S)
  BY <1>1, <1>5 DEF Allowances!Close
<1> QED
  BY <1>4, <1>6 DEF Allowances!Next

LEMMA StepIsAllowanceStep ==
    ASSUME TypeOK, AuthorityInv, AuthorityStep
    PROVE  [Allowances!Next]_[i \in 1 .. MaxAuthorities |-> AllowanceOf(i)]
<1>1. CASE authority' = authority /\ authority_counter' = authority_counter
  BY <1>1 DEF AllowanceOf, AuthorityIds
<1> QED
  BY <1>1, GrantIsGrant, SpendIsDraw, CloseIsClose DEF AuthorityStep

\* Every mixture of payments, splits, revocations and expiries is a sequence
\* of grants, draws and closures of allowances.
THEOREM AuthoritiesImplementAllowances == Spec => AuthoritiesAreAllowances
<1>1. Init => Allowances!Init
  BY DEF Init, Allowances!Init, Allowances!Ungranted, AllowanceOf, AuthorityIds
<1>2. TypeOK /\ AuthorityInv /\ [Next]_vars =>
        [Allowances!Next]_[i \in 1 .. MaxAuthorities |-> AllowanceOf(i)]
  BY NextIsStep, StepIsAllowanceStep
<1>3. AuthorityInv <=> SpendWithinLimits /\ ExhaustedIffUsedUp /\ Attenuated
  BY DEF AuthorityInv
<1> QED
  BY <1>1, <1>2, <1>3, TypeCorrect, AuthoritiesSound, PTL
  DEF Spec, AuthoritiesAreAllowances, Allowances!Spec

-----------------------------------------------------------------------------
(* The delegation tree                                                     *)

\* The equation that defines AncestorsAnd0, for the ids up to n.
IsAncestors(f, n) ==
    f = [i \in 0 .. n |->
            IF i = 0 THEN {}
            ELSE LET parent_id == authority[i].parent_id
                 IN  {parent_id} \cup IF parent_id < i THEN f[parent_id] ELSE {}]

LEMMA ParentFacts ==
    ASSUME TypeOK, NEW i \in AuthorityIds
    PROVE  /\ i \in Nat /\ i > 0 /\ i \in 1 .. authority_counter
           /\ authority_counter \in Nat
           /\ authority[i] \in Authority
           /\ authority[i].parent_id \in Nat
           /\ authority[i].depth \in Nat
           /\ authority[i].parent_id < i => authority[i].parent_id \in {0} \cup AuthorityIds
<1>1. i \in 1 .. authority_counter /\ authority_counter \in Nat /\ authority[i] \in Authority
  BY LimitsAssumption DEF TypeOK, AuthorityIds
<1>2. authority[i].parent_id \in Nat /\ authority[i].depth \in Nat
  BY <1>1, LimitsAssumption DEF Authority
<1>3. AuthorityIds = 1 .. authority_counter
  BY DEF TypeOK, AuthorityIds
<1> QED
  BY <1>1, <1>2, <1>3

LEMMA AncestorsExist ==
    ASSUME TypeOK, NEW n \in 0 .. authority_counter
    PROVE  \E f : IsAncestors(f, n)
<1> DEFINE Failing == {k \in 0 .. authority_counter : ~ \E f : IsAncestors(f, k)}
<1>1. SUFFICES ASSUME Failing # {} PROVE FALSE
  OBVIOUS
<1>2. PICK m \in Failing : \A k \in Failing : m <= k
  <2>1. Failing \subseteq Nat
    OBVIOUS
  <2> HIDE DEF Failing
  <2> QED
    BY <1>1, <2>1, LeastElement
<1>3. m \in Nat /\ m <= authority_counter /\ authority_counter \in Nat
  BY LimitsAssumption DEF TypeOK
<1>4. CASE m = 0
  <2>1. IsAncestors([i \in 0 .. 0 |-> {}], 0)
    BY DEF IsAncestors
  <2> QED
    BY <1>4, <2>1
<1>5. CASE m > 0
  <2>1. m - 1 \in 0 .. authority_counter /\ m - 1 \notin Failing
    BY <1>2, <1>3, <1>5
  <2>2. PICK g : IsAncestors(g, m - 1)
    BY <2>1
  <2> DEFINE p == authority[m].parent_id
             h == [i \in 0 .. m |-> IF i < m THEN g[i]
                                    ELSE {p} \cup IF p < m THEN g[p] ELSE {}]
  <2>3. \A i \in 1 .. m : authority[i].parent_id \in Nat
    <3>1. \A i \in 1 .. m : i \in AuthorityIds
      BY <1>3 DEF TypeOK, AuthorityIds
    <3> QED
      BY <3>1, ParentFacts
  <2>4. ASSUME NEW i \in 0 .. m
        PROVE  h[i] = IF i = 0 THEN {}
                      ELSE LET parent_id == authority[i].parent_id
                           IN  {parent_id} \cup IF parent_id < i THEN h[parent_id] ELSE {}
    <3>1. CASE i = 0
      BY <3>1, <1>3, <1>5, <2>2 DEF IsAncestors
    <3>2. CASE i # 0 /\ i < m
      <4> DEFINE q == authority[i].parent_id
      <4>1. i \in 1 .. m /\ i \in 0 .. m - 1 /\ q \in Nat
        BY <3>2, <1>3, <2>3
      <4>2. g[i] = {q} \cup IF q < i THEN g[q] ELSE {}
        BY <3>2, <4>1, <2>2 DEF IsAncestors
      <4>3. q < i => h[q] = g[q]
        BY <3>2, <4>1, <1>3
      <4>4. h[i] = g[i]
        BY <3>2
      <4> QED
        BY <3>2, <4>2, <4>3, <4>4
    <3>3. CASE i = m
      <4>1. p \in Nat /\ m # 0 /\ m \in 0 .. m
        BY <1>3, <1>5, <2>3
      <4>2. h[m] = {p} \cup IF p < m THEN g[p] ELSE {}
        BY <4>1
      <4>3. p < m => h[p] = g[p]
        BY <4>1, <1>3
      <4> QED
        BY <3>3, <4>1, <4>2, <4>3
    <3> QED
      BY <3>1, <3>2, <3>3, <1>3
  <2>5. IsAncestors(h, m)
    <3>1. h = [i \in 0 .. m |-> h[i]]
      OBVIOUS
    <3> HIDE DEF h
    <3> QED
      BY <2>4, <3>1 DEF IsAncestors
  <2> QED
    BY <2>5
<1> QED
  BY <1>3, <1>4, <1>5

\* One step up the tree at a time: the ancestors of an authority are its
\* parent and the ancestors of the parent.
LEMMA AncestorsUnfold ==
    ASSUME TypeOK
    PROVE  /\ AncestorsAnd0[0] = {}
           /\ \A i \in AuthorityIds :
                authority[i].parent_id < i =>
                    AncestorsAnd0[i] =
                        {authority[i].parent_id} \cup AncestorsAnd0[authority[i].parent_id]
<1>1. authority_counter \in Nat /\ {0} \cup AuthorityIds = 0 .. authority_counter
  BY LimitsAssumption DEF TypeOK, AuthorityIds
<1>2. \E f : IsAncestors(f, authority_counter)
  BY <1>1, AncestorsExist
<1>3. IsAncestors(AncestorsAnd0, authority_counter)
  <2> DEFINE P(f) ==
          f = [i \in {0} \cup AuthorityIds |->
                IF i = 0 THEN {}
                ELSE LET parent_id == authority[i].parent_id
                     IN  {parent_id} \cup IF parent_id < i THEN f[parent_id] ELSE {}]
  <2>1. AncestorsAnd0 = CHOOSE f : P(f)
    BY DEF AncestorsAnd0
  <2>2. \A f : P(f) <=> IsAncestors(f, authority_counter)
    BY <1>1 DEF IsAncestors
  <2>3. P(CHOOSE f : P(f))
    <3>1. \E f : P(f)
      BY <1>2, <2>2
    <3> HIDE DEF P
    <3> QED
      BY <3>1
  <2> QED
    BY <2>1, <2>2, <2>3
<1>4. ASSUME NEW i \in AuthorityIds, authority[i].parent_id < i
      PROVE  AncestorsAnd0[i] =
                {authority[i].parent_id} \cup AncestorsAnd0[authority[i].parent_id]
  <2>1. i \in 0 .. authority_counter /\ i # 0
    BY ParentFacts
  <2> QED
    BY <1>3, <1>4, <2>1 DEF IsAncestors
<1>5. AncestorsAnd0[0] = {}
  BY <1>1, <1>3 DEF IsAncestors
<1> QED
  BY <1>4, <1>5

\* What a root has that Attenuated does not say.
RootsAreAtDepth0 ==
    \A i \in AuthorityIds : authority[i].parent_id = 0 => authority[i].depth = 0

LEMMA StepKeepsRoots ==
    ASSUME TypeOK, RootsAreAtDepth0, AuthorityStep
    PROVE  RootsAreAtDepth0'
<1>1. ASSUME NEW a \in Agents, NEW p \in AuthorityIds \cup {0},
             NEW req \in IssueRequest, GrantStep(a, p, req)
      PROVE  RootsAreAtDepth0'
  <2> DEFINE n == authority_counter + 1
             granted == IF p = 0 THEN RootAuthority(a, req)
                        ELSE ChildAuthority(a, p, authority[p], req)
  <2>1. granted.parent_id = 0 => granted.depth = 0
    BY DEF RootAuthority, ChildAuthority, NewAuthority
  <2>2. authority' = Added(authority, n, granted)
    BY <1>1 DEF GrantStep
  <2>3. authority'[n] = granted
    BY <2>2 DEF Added
  <2> QED
    BY <1>1, <2>1, <2>3, GrantEffect DEF RootsAreAtDepth0
<1>2. ASSUME NEW i \in AuthorityIds, NEW amount \in U64, SpendStep(i, amount)
      PROVE  RootsAreAtDepth0'
  <2>1. AuthorityIds' = AuthorityIds /\ authority[i] \in Authority
    BY <1>2 DEF SpendStep, AuthorityIds, TypeOK
  <2>2. \A j \in AuthorityIds : /\ authority'[j].parent_id = authority[j].parent_id
                                /\ authority'[j].depth = authority[j].depth
    BY <1>2, <2>1 DEF SpendStep, AfterSpend, AuthorityIds, Authority
  <2> QED
    BY <2>1, <2>2 DEF RootsAreAtDepth0
<1>3. ASSUME NEW S \in SUBSET AuthorityIds, NEW st \in {"Revoked", "Expired"},
             CloseStep(S, st)
      PROVE  RootsAreAtDepth0'
  <2>1. AuthorityIds' = AuthorityIds
    BY <1>3 DEF CloseStep, AuthorityIds
  <2>2. \A j \in AuthorityIds : /\ authority'[j].parent_id = authority[j].parent_id
                                /\ authority'[j].depth = authority[j].depth
    BY <1>3 DEF CloseStep, TypeOK, AuthorityIds, Authority
  <2> QED
    BY <2>1, <2>2 DEF RootsAreAtDepth0
<1>4. CASE authority' = authority
  BY <1>4 DEF RootsAreAtDepth0, AuthorityIds
<1> QED
  BY <1>1, <1>2, <1>3, <1>4 DEF AuthorityStep

\* One authority stays within the terms of another.
Within(auth, other) ==
    /\ auth.max_per_tx <= other.max_per_tx
    /\ auth.max_total <= other.max_total
    /\ other.categories # {} =>
            auth.categories # {} /\ auth.categories \subseteq other.categories

LEMMA WithinIsTransitive ==
    ASSUME NEW a \in Authority, NEW b \in Authority, NEW c \in Authority,
           Within(a, b), Within(b, c)
    PROVE  Within(a, c)
<1>1. \A x \in {a, b, c} : x.max_per_tx \in Nat /\ x.max_total \in Nat
  BY LimitsAssumption DEF Authority, U64
<1> QED
  BY <1>1 DEF Within

WithinAncestors(i) ==
    /\ Ancestors(i) \subseteq {p \in AuthorityIds : p < i}
    /\ IsFiniteSet(Ancestors(i))
    /\ Cardinality(Ancestors(i)) = authority[i].depth
    /\ \A p \in Ancestors(i) : Within(authority[i], authority[p])

LEMMA RootWithinAncestors ==
    ASSUME TypeOK, RootsAreAtDepth0, NEW i \in AuthorityIds, authority[i].parent_id = 0
    PROVE  WithinAncestors(i)
<1>1. AncestorsAnd0[i] = {0}
  BY ParentFacts, AncestorsUnfold
<1>2. Ancestors(i) = {}
  BY <1>1 DEF Ancestors
<1> QED
  BY <1>2, FS_EmptySet DEF RootsAreAtDepth0, WithinAncestors

LEMMA ChildWithinAncestors ==
    ASSUME TypeOK, Attenuated, NEW i \in AuthorityIds, NEW q \in AuthorityIds,
           authority[i].parent_id = q, WithinAncestors(q)
    PROVE  WithinAncestors(i)
<1>1. /\ i \in Nat /\ q \in Nat /\ q # 0 /\ q < i
      /\ authority[i] \in Authority /\ authority[q] \in Authority
      /\ \A p \in AuthorityIds : p \in Nat /\ authority[p] \in Authority
  BY ParentFacts DEF Attenuated
<1>2. /\ authority[i].depth = authority[q].depth + 1
      /\ Within(authority[i], authority[q])
  BY <1>1 DEF Attenuated, Within
<1>3. Ancestors(i) = Ancestors(q) \cup {q}
  <2>1. AncestorsAnd0[i] = {q} \cup AncestorsAnd0[q]
    BY <1>1, AncestorsUnfold
  <2> QED
    BY <1>1, <2>1 DEF Ancestors
<1>4. q \notin Ancestors(q)
  BY <1>1 DEF WithinAncestors
<1>5. IsFiniteSet(Ancestors(i)) /\ Cardinality(Ancestors(i)) = authority[i].depth
  BY <1>2, <1>3, <1>4, FS_AddElement DEF WithinAncestors
<1>6. ASSUME NEW p \in Ancestors(i)
      PROVE  p \in AuthorityIds /\ p < i /\ Within(authority[i], authority[p])
  <2>1. CASE p = q
    BY <2>1, <1>1, <1>2
  <2>2. CASE p # q
    <3>1. p \in AuthorityIds /\ p < q /\ Within(authority[q], authority[p])
      BY <2>2, <1>3 DEF WithinAncestors
    <3>2. Within(authority[i], authority[p])
      BY <3>1, <1>1, <1>2, WithinIsTransitive
    <3> QED
      BY <3>1, <3>2, <1>1
  <2> QED
    BY <2>1, <2>2
<1> QED
  BY <1>5, <1>6 DEF WithinAncestors

LEMMA AllWithinAncestors ==
    ASSUME TypeOK, Attenuated, RootsAreAtDepth0, NEW i \in AuthorityIds
    PROVE  WithinAncestors(i)
<1> DEFINE Failing == {k \in AuthorityIds : ~WithinAncestors(k)}
<1>1. SUFFICES ASSUME Failing # {} PROVE FALSE
  OBVIOUS
<1>2. PICK m \in Failing : \A k \in Failing : m <= k
  <2>1. Failing \subseteq Nat
    BY ParentFacts
  <2> HIDE DEF Failing
  <2> QED
    BY <1>1, <2>1, LeastElement
<1> DEFINE q == authority[m].parent_id
<1>3. m \in AuthorityIds /\ m \in Nat /\ q \in Nat
  BY <1>2, ParentFacts
<1>4. q # 0
  BY <1>2, <1>3, RootWithinAncestors
<1>5. q < m /\ q \in AuthorityIds
  BY <1>3, <1>4, ParentFacts DEF Attenuated
<1>6. WithinAncestors(q)
  BY <1>2, <1>3, <1>5
<1> QED
  BY <1>2, <1>3, <1>5, <1>6, ChildWithinAncestors

LEMMA InvNeverBeyond ==
    ASSUME TypeOK, AuthorityInv, RootsAreAtDepth0
    PROVE  NeverBeyondAncestors
<1> SUFFICES ASSUME NEW i \in AuthorityIds
             PROVE  /\ Cardinality(Ancestors(i)) = authority[i].depth
                    /\ authority[i].depth <= MAX_AUTHORITY_DEPTH
                    /\ \A p \in Ancestors(i) :
                        /\ authority[i].spent <= authority[p].max_total
                        /\ \A amount \in U64 :
                            amount <= authority[i].max_per_tx =>
                                amount <= authority[p].max_per_tx
                        /\ \A c \in Categories :
                            CategoryAllowed(authority[i], c) =>
                                CategoryAllowed(authority[p], c)
  BY DEF NeverBeyondAncestors
<1>1. WithinAncestors(i)
  BY AllWithinAncestors DEF AuthorityInv
<1>2. authority[i] \in Authority /\ authority[i].spent <= authority[i].max_total
  BY ParentFacts DEF AuthorityInv, SpendWithinLimits
<1>3. authority[i].depth <= MAX_AUTHORITY_DEPTH
  BY <1>2, LimitsAssumption DEF Authority
<1>4. ASSUME NEW p \in Ancestors(i)
      PROVE  /\ authority[i].spent <= authority[p].max_total
             /\ \A amount \in U64 :
                    amount <= authority[i].max_per_tx => amount <= authority[p].max_per_tx
             /\ \A c \in Categories :
                    CategoryAllowed(authority[i], c) => CategoryAllowed(authority[p], c)
  <2>1. p \in AuthorityIds /\ Within(authority[i], authority[p])
    BY <1>1 DEF WithinAncestors
  <2>2. authority[p] \in Authority
    BY <2>1, ParentFacts
  <2>3. \A x \in {authority[i], authority[p]} :
            x.spent \in Nat /\ x.max_per_tx \in Nat /\ x.max_total \in Nat
    BY <1>2, <2>2, LimitsAssumption DEF Authority, U64
  <2>4. \A amount \in U64 : amount \in Nat
    BY LimitsAssumption DEF U64
  <2>5. authority[i].spent <= authority[p].max_total
    BY <1>2, <2>1, <2>3 DEF Within
  <2>6. \A amount \in U64 :
            amount <= authority[i].max_per_tx => amount <= authority[p].max_per_tx
    BY <2>1, <2>3, <2>4 DEF Within
  <2>7. \A c \in Categories :
            CategoryAllowed(authority[i], c) => CategoryAllowed(authority[p], c)
    BY <2>1 DEF Within, CategoryAllowed
  <2> QED
    BY <2>5, <2>6, <2>7
<1> QED
  BY <1>1, <1>3, <1>4 DEF WithinAncestors

\* However long a chain of delegations, what its last authority admits every
\* authority above it admits too, and the chain is as long as its depth says.
THEOREM DelegatesNeverBeyondAncestors == Spec => []NeverBeyondAncestors
<1>1. Init => RootsAreAtDepth0
  BY DEF Init, RootsAreAtDepth0, AuthorityIds
<1>2. TypeOK /\ RootsAreAtDepth0 /\ [Next]_vars => RootsAreAtDepth0'
  BY NextIsStep, StepKeepsRoots
<1>3. TypeOK /\ SpendWithinLimits /\ ExhaustedIffUsedUp /\ Attenuated /\ RootsAreAtDepth0
        => NeverBeyondAncestors
  BY InvNeverBeyond DEF AuthorityInv
<1> QED
  BY <1>1, <1>2, <1>3, TypeCorrect, AuthoritiesSound, PTL DEF Spec
=============================================================================
