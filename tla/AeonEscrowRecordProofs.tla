----------------------- MODULE AeonEscrowRecordProofs -----------------------
(***************************************************************************)
(* Proofs about AeonEscrow: what the ledgers record of the escrows.  The   *)
(* reputation of an agent tells those it paid and was paid by, and the     *)
(* spent of an authority carries those locked under it.                    *)
(***************************************************************************)
EXTENDS AeonEscrowProofs, FiniteSetTheorems

Failures(a) ==
    {i \in EscrowIds : escrow[i].payer = a /\ escrow[i].status \in {"Cancelled", "Expired"}}
ReleasedFrom(a) == {i \in EscrowIds : escrow[i].payer = a /\ escrow[i].status = "Released"}
ReleasedTo(a) == {i \in EscrowIds : escrow[i].payee = a /\ escrow[i].status = "Released"}

FiniteRecords(a) ==
    IsFiniteSet(Failures(a)) /\ IsFiniteSet(ReleasedFrom(a)) /\ IsFiniteSet(ReleasedTo(a))

\* The record of a registered agent.
Recorded(a, c) ==
    /\ c.failed = Cardinality(Failures(a))
    /\ Cardinality(ReleasedFrom(a)) <= c.commitments
    /\ Cardinality(ReleasedTo(a)) <= c.settlements

\* ReputationRecordsEscrows made inductive: nothing was settled with an
\* agent before it registered, and nobody has an escrow with itself.
RecordInv ==
    /\ \A i \in EscrowIds : escrow[i].payer # escrow[i].payee
    /\ \A a \in Agents :
        /\ FiniteRecords(a)
        /\ a \in Registered => Recorded(a, cri[a])
        /\ a \notin Registered =>
                Failures(a) = {} /\ ReleasedFrom(a) = {} /\ ReleasedTo(a) = {}

-----------------------------------------------------------------------------
(* What the core does to a Cri                                             *)

\* c and d are two states of one Cri.
Grown(c, d) ==
    /\ d.failed = c.failed
    /\ c.commitments <= d.commitments
    /\ c.settlements <= d.settlements

CriGrows ==
    /\ \A a \in Registered : a \in Registered' /\ Grown(cri[a], cri'[a])
    /\ \A a \in Registered' : a \in Registered \/ cri'[a] = NewCri

LEMMA CriCounts ==
    ASSUME NEW c \in Cri
    PROVE  c.failed \in Nat /\ c.commitments \in Nat /\ c.settlements \in Nat
BY LimitsAssumption DEF Cri, U64

LEMMA CreditGrows ==
    ASSUME NEW c \in Cri, NEW amount
    PROVE  /\ Grown(c, c)
           /\ Grown(c, Committed(c, amount))
           /\ Grown(c, Settled(c, amount))
<1>1. c.failed \in Nat /\ c.commitments \in Nat /\ c.settlements \in Nat
  BY CriCounts
<1>2. /\ Committed(c, amount).failed = c.failed
      /\ Committed(c, amount).commitments = c.commitments + 1
      /\ Committed(c, amount).settlements = c.settlements
  BY DEF Committed, Cri
<1>3. /\ Settled(c, amount).failed = c.failed
      /\ Settled(c, amount).commitments = c.commitments
      /\ Settled(c, amount).settlements = c.settlements + 1
  BY DEF Settled, Cri
<1> QED
  BY <1>1, <1>2, <1>3 DEF Grown

LEMMA SameCriGrows ==
    ASSUME TypeOK, UNCHANGED cri
    PROVE  CriGrows
BY CreditGrows DEF CriGrows, TypeOK, Registered

LEMMA PayGrows ==
    ASSUME TypeOK, NEW payer \in Registered, NEW payee \in Registered, NEW amount,
           NEW id, NEW c, Pay(payer, payee, amount, id, c)
    PROVE  CriGrows
<1>1. /\ \A x \in Registered : cri[x] \in Cri
      /\ cri \in [Registered -> Cri]
      /\ payer # payee
      /\ cri' = [cri EXCEPT ![payer] = Committed(cri[payer], amount),
                            ![payee] = Settled(cri[payee], amount)]
  BY DEF TypeOK, Pay
<1>2. Registered' = Registered
  BY <1>1 DEF Registered
<1>3. \A x \in Registered : \/ cri'[x] = cri[x]
                            \/ cri'[x] = Committed(cri[x], amount)
                            \/ cri'[x] = Settled(cri[x], amount)
  BY <1>1
<1> QED
  BY <1>1, <1>2, <1>3, CreditGrows DEF CriGrows

LEMMA SplitGrows ==
    ASSUME TypeOK, NEW payer \in Registered, NEW a \in Registered,
           NEW b \in Registered \cup {NoAgent}, NEW amount_a, NEW amount_b,
           NEW id, NEW c, AtomicSplit(payer, a, b, amount_a, amount_b, id, c)
    PROVE  CriGrows
<1> DEFINE total == SplitTotal(amount_a, amount_b)
           b_cri == IF amount_b = 0 THEN cri[b] ELSE Settled(cri[b], amount_b)
<1>1. /\ \A x \in Registered : cri[x] \in Cri
      /\ cri' = WrittenBack(payer, Committed(cri[payer], total),
                            a, Settled(cri[a], amount_a), b, b_cri)
  BY DEF TypeOK, AtomicSplit
<1>2. Registered' = Registered
  BY <1>1 DEF Registered, WrittenBack
<1>3. \A x \in Registered : \/ cri'[x] = cri[x]
                            \/ cri'[x] = Committed(cri[x], total)
                            \/ cri'[x] = Settled(cri[x], amount_a)
                            \/ cri'[x] = Settled(cri[x], amount_b)
  BY <1>1 DEF WrittenBack
<1> QED
  BY <1>1, <1>2, <1>3, CreditGrows DEF CriGrows

LEMMA CoreCriGrows ==
    ASSUME TypeOK, [Next]_vars
    PROVE  CriGrows
<1>1. CASE UNCHANGED cri
  BY <1>1, SameCriGrows
<1>2. ASSUME NEW a \in Agents, RegisterAgent(a)
      PROVE  CriGrows
  BY <1>2, CreditGrows DEF RegisterAgent, Added, CriGrows, TypeOK, Registered
<1>3. CASE Lifecycle
  BY <1>1, <1>2, <1>3
  DEF Lifecycle, SetPaused, IssueAuthority, RevokeAuthority, ExpireAuthority
<1>4. CASE Spending
  BY <1>4, PayGrows, SplitGrows DEF Spending
<1>5. CASE Slashing \/ Environment \/ UNCHANGED vars
  BY <1>1, <1>5 DEF Slashing, SlashBond, Environment, SplTransfer, AdvanceSlot, vars
<1> QED
  BY <1>3, <1>4, <1>5 DEF Next

-----------------------------------------------------------------------------
(* The records of the escrows                                              *)

SameRecords(a) ==
    /\ Failures(a)' = Failures(a)
    /\ ReleasedFrom(a)' = ReleasedFrom(a)
    /\ ReleasedTo(a)' = ReleasedTo(a)

LEMMA RecordsCounted ==
    ASSUME NEW a, FiniteRecords(a)
    PROVE  /\ Cardinality(Failures(a)) \in Nat
           /\ Cardinality(ReleasedFrom(a)) \in Nat
           /\ Cardinality(ReleasedTo(a)) \in Nat
BY FS_CardinalityType DEF FiniteRecords

\* A step of the core, or one that settles nothing.
LEMMA CoreKeepsRecords ==
    ASSUME EscrowTypeOK, EscrowTypeOK', RecordInv, CriGrows,
           \A i \in EscrowIds' : escrow'[i].payer # escrow'[i].payee,
           \A a \in Agents : SameRecords(a)
    PROVE  RecordInv'
<1> SUFFICES ASSUME NEW a \in Agents
             PROVE  /\ FiniteRecords(a)'
                    /\ a \in Registered' => Recorded(a, cri[a])'
                    /\ a \notin Registered' =>
                        /\ Failures(a)' = {} /\ ReleasedFrom(a)' = {} /\ ReleasedTo(a)' = {}
  BY DEF RecordInv
<1>1. FiniteRecords(a) /\ FiniteRecords(a)'
  BY DEF RecordInv, FiniteRecords, SameRecords
<1>2. /\ Cardinality(ReleasedFrom(a)) \in Nat /\ Cardinality(ReleasedTo(a)) \in Nat
  BY <1>1, RecordsCounted
<1>3. CASE a \in Registered
  <2>1. Recorded(a, cri[a]) /\ Grown(cri[a], cri'[a]) /\ a \in Registered'
    BY <1>3 DEF RecordInv, CriGrows
  <2>2. /\ cri[a].commitments \in Nat /\ cri[a].settlements \in Nat
        /\ cri'[a].commitments \in Nat /\ cri'[a].settlements \in Nat
    <3>1. cri[a] \in Cri /\ cri'[a] \in Cri
      BY <1>3, <2>1 DEF EscrowTypeOK, TypeOK
    <3> QED
      BY <3>1, CriCounts
  <2>3. /\ cri'[a].failed = Cardinality(Failures(a))
        /\ Cardinality(ReleasedFrom(a)) <= cri'[a].commitments
        /\ Cardinality(ReleasedTo(a)) <= cri'[a].settlements
    BY <1>2, <2>1, <2>2 DEF Recorded, Grown
  <2>4. /\ cri'[a].failed = Cardinality(Failures(a)')
        /\ Cardinality(ReleasedFrom(a)') <= cri'[a].commitments
        /\ Cardinality(ReleasedTo(a)') <= cri'[a].settlements
    BY <2>3, Zenon DEF SameRecords
  <2> QED
    BY <1>1, <2>1, <2>4 DEF Recorded
<1>4. CASE a \notin Registered
  <2>1. Failures(a)' = {} /\ ReleasedFrom(a)' = {} /\ ReleasedTo(a)' = {}
    BY <1>4 DEF RecordInv, SameRecords
  <2>2. CASE a \in Registered'
    <3>1. cri'[a] = NewCri
      BY <1>4, <2>2 DEF CriGrows
    <3>2. cri'[a].failed = 0 /\ cri'[a].commitments = 0 /\ cri'[a].settlements = 0
      BY <3>1 DEF NewCri
    <3>3. /\ Cardinality(Failures(a)') = 0
          /\ Cardinality(ReleasedFrom(a)') = 0
          /\ Cardinality(ReleasedTo(a)') = 0
      BY <2>1, FS_EmptySet, Zenon
    <3>4. Recorded(a, cri[a])'
      BY <3>2, <3>3 DEF Recorded
    <3> QED
      BY <1>1, <2>2, <3>4
  <2> QED
    BY <1>1, <2>1, <2>2
<1> QED
  BY <1>3, <1>4

LEMMA CreateKeepsRecords ==
    ASSUME EscrowTypeOK, EscrowTypeOK', RecordInv, NEW payer \in Agents, NEW payee \in Agents,
           NEW amount, NEW id, NEW c, NEW terms,
           CreateEscrow(payer, payee, amount, id, c, terms)
    PROVE  RecordInv'
<1> DEFINE n == escrow_counter + 1
<1>1. /\ EscrowIds' = EscrowIds \cup {n} /\ n \notin EscrowIds
      /\ \A i \in EscrowIds : escrow'[i] = escrow[i]
  BY LimitsAssumption DEF EscrowIds, CreateEscrow, Added, EscrowTypeOK
<1>2. /\ escrow'[n].status = "Open"
      /\ escrow'[n].payer = payer /\ escrow'[n].payee = payee /\ payer # payee
  BY DEF CreateEscrow, Added, NewEscrow, EscrowTypeOK
<1> HIDE DEF n
<1>3. \A a \in Agents : SameRecords(a)
  BY <1>1, <1>2 DEF SameRecords, Failures, ReleasedFrom, ReleasedTo
<1>4. \A i \in EscrowIds' : escrow'[i].payer # escrow'[i].payee
  BY <1>1, <1>2 DEF RecordInv
<1>5. CriGrows
  BY SameCriGrows DEF CreateEscrow, EscrowTypeOK
<1> QED
  BY <1>3, <1>4, <1>5, CoreKeepsRecords

\* An escrow that closes, and the escrows that do not.
LEMMA ClosedEffect ==
    ASSUME EscrowTypeOK, NEW i \in EscrowIds, NEW status \in EscrowStatus,
           escrow' = Closed(i, status)
    PROVE  /\ EscrowIds' = EscrowIds
           /\ escrow'[i].status = status
           /\ escrow'[i].payer = escrow[i].payer /\ escrow'[i].payee = escrow[i].payee
           /\ \A j \in EscrowIds : j # i => escrow'[j] = escrow[j]
<1>1. escrow[i] \in Escrow
  BY EscrowFacts
<1> QED
  BY <1>1 DEF Closed, EscrowIds, Escrow, EscrowTypeOK

LEMMA OneMore ==
    ASSUME NEW S, NEW T, NEW i, IsFiniteSet(S), i \notin S, T = S \cup {i}
    PROVE  /\ IsFiniteSet(T)
           /\ Cardinality(T) = Cardinality(S) + 1
           /\ Cardinality(S) \in Nat
BY FS_AddElement, FS_CardinalityType

LEMMA ReleaseKeepsRecords ==
    ASSUME EscrowTypeOK, EscrowTypeOK', RecordInv, NEW i \in EscrowIds, NEW w,
           ReleaseEscrow(i, w)
    PROVE  RecordInv'
<1> DEFINE payer == escrow[i].payer
           payee == escrow[i].payee
           amount == escrow[i].amount
<1>1. /\ payer \in Agents /\ payee \in Agents /\ payer # payee
      /\ escrow[i].status = "Open" /\ payer \in Registered /\ payee \in Registered
  BY EscrowFacts DEF ReleaseEscrow, ReleaseAccepted, RecordInv
<1>2. /\ EscrowIds' = EscrowIds /\ escrow'[i].status = "Released"
      /\ escrow'[i].payer = payer /\ escrow'[i].payee = payee
      /\ \A j \in EscrowIds : j # i => escrow'[j] = escrow[j]
  BY ClosedEffect DEF ReleaseEscrow, EscrowStatus
<1>3. /\ cri \in [Registered -> Cri]
      /\ cri' = [cri EXCEPT ![payer] = Committed(cri[payer], amount),
                            ![payee] = Settled(cri[payee], amount)]
  BY DEF ReleaseEscrow, ReleaseAccepted, EscrowTypeOK, TypeOK
<1>4. Registered' = Registered
  BY <1>3 DEF Registered
<1>5. /\ cri'[payer].failed = cri[payer].failed
      /\ cri'[payer].commitments = cri[payer].commitments + 1
      /\ cri'[payer].settlements = cri[payer].settlements
      /\ cri'[payee].failed = cri[payee].failed
      /\ cri'[payee].commitments = cri[payee].commitments
      /\ cri'[payee].settlements = cri[payee].settlements + 1
  <2>1. cri[payer] \in Cri /\ cri[payee] \in Cri
    BY <1>1, <1>3
  <2>2. /\ cri'[payer] = Committed(cri[payer], amount)
        /\ cri'[payee] = Settled(cri[payee], amount)
    BY <1>1, <1>3
  <2> QED
    BY <2>1, <2>2 DEF Committed, Settled, Cri
<1>6. \A x \in Registered : x # payer /\ x # payee => cri'[x] = cri[x]
  BY <1>3
<1>7. \A a \in Agents :
        /\ Failures(a)' = Failures(a)
        /\ ReleasedFrom(a)' = IF a = payer THEN ReleasedFrom(a) \cup {i} ELSE ReleasedFrom(a)
        /\ ReleasedTo(a)' = IF a = payee THEN ReleasedTo(a) \cup {i} ELSE ReleasedTo(a)
  BY <1>1, <1>2 DEF Failures, ReleasedFrom, ReleasedTo
<1>8. \A a \in Agents : i \notin ReleasedFrom(a) /\ i \notin ReleasedTo(a)
  BY <1>1 DEF ReleasedFrom, ReleasedTo
<1>9. \A j \in EscrowIds' : escrow'[j].payer # escrow'[j].payee
  BY <1>1, <1>2 DEF RecordInv
<1> HIDE DEF payer, payee, amount
<1>10. ASSUME NEW a \in Agents
       PROVE  /\ FiniteRecords(a)'
              /\ a \in Registered => Recorded(a, cri[a])'
              /\ a \notin Registered =>
                    Failures(a)' = {} /\ ReleasedFrom(a)' = {} /\ ReleasedTo(a)' = {}
  <2>1. FiniteRecords(a) /\ (a \in Registered => Recorded(a, cri[a]))
    BY DEF RecordInv
  <2>2. /\ Cardinality(ReleasedFrom(a)) \in Nat /\ Cardinality(ReleasedTo(a)) \in Nat
    BY <2>1, RecordsCounted
  <2>3. CASE a = payer
    <3>1. /\ Failures(a)' = Failures(a) /\ ReleasedFrom(a)' = ReleasedFrom(a) \cup {i}
          /\ ReleasedTo(a)' = ReleasedTo(a)
      BY <1>1, <1>7, <2>3
    <3>2. IsFiniteSet(ReleasedFrom(a)')
          /\ Cardinality(ReleasedFrom(a)') = Cardinality(ReleasedFrom(a)) + 1
      BY <1>8, <2>1, <3>1, OneMore DEF FiniteRecords
    <3>3. FiniteRecords(a)'
      BY <2>1, <3>1, <3>2 DEF FiniteRecords
    <3>4. Recorded(a, cri[a]) /\ cri[a] \in Cri
      BY <1>1, <1>3, <2>1, <2>3
    <3>5. cri[a].commitments \in Nat /\ cri[a].settlements \in Nat
      BY <3>4, CriCounts
    <3>6. /\ cri'[a].failed = Cardinality(Failures(a))
          /\ Cardinality(ReleasedFrom(a)) + 1 <= cri'[a].commitments
          /\ Cardinality(ReleasedTo(a)) <= cri'[a].settlements
      BY <1>5, <2>2, <2>3, <3>4, <3>5 DEF Recorded
    <3>7. Recorded(a, cri[a])'
      BY <3>1, <3>2, <3>6, Zenon DEF Recorded
    <3> QED
      BY <1>1, <2>3, <3>3, <3>7
  <2>4. CASE a = payee
    <3>1. /\ Failures(a)' = Failures(a) /\ ReleasedTo(a)' = ReleasedTo(a) \cup {i}
          /\ ReleasedFrom(a)' = ReleasedFrom(a)
      BY <1>1, <1>7, <2>4
    <3>2. IsFiniteSet(ReleasedTo(a)')
          /\ Cardinality(ReleasedTo(a)') = Cardinality(ReleasedTo(a)) + 1
      BY <1>8, <2>1, <3>1, OneMore DEF FiniteRecords
    <3>3. FiniteRecords(a)'
      BY <2>1, <3>1, <3>2 DEF FiniteRecords
    <3>4. Recorded(a, cri[a]) /\ cri[a] \in Cri
      BY <1>1, <1>3, <2>1, <2>4
    <3>5. cri[a].commitments \in Nat /\ cri[a].settlements \in Nat
      BY <3>4, CriCounts
    <3>6. /\ cri'[a].failed = Cardinality(Failures(a))
          /\ Cardinality(ReleasedFrom(a)) <= cri'[a].commitments
          /\ Cardinality(ReleasedTo(a)) + 1 <= cri'[a].settlements
      BY <1>5, <2>2, <2>4, <3>4, <3>5 DEF Recorded
    <3>7. Recorded(a, cri[a])'
      BY <3>1, <3>2, <3>6, Zenon DEF Recorded
    <3> QED
      BY <1>1, <2>4, <3>3, <3>7
  <2>5. CASE a # payer /\ a # payee
    <3>1. /\ Failures(a)' = Failures(a) /\ ReleasedFrom(a)' = ReleasedFrom(a)
          /\ ReleasedTo(a)' = ReleasedTo(a)
      BY <1>7, <2>5
    <3>2. a \in Registered => cri'[a] = cri[a]
      BY <1>6, <2>5
    <3> QED
      BY <2>1, <3>1, <3>2, Zenon DEF RecordInv, FiniteRecords, Recorded
  <2> QED
    BY <2>3, <2>4, <2>5
<1> QED
  BY <1>4, <1>9, <1>10 DEF RecordInv

LEMMA CancelKeepsRecords ==
    ASSUME EscrowTypeOK, EscrowTypeOK', RecordInv, NEW canceller, NEW i \in EscrowIds,
           CancelEscrow(canceller, i)
    PROVE  RecordInv'
<1> DEFINE payer == escrow[i].payer
           status == StatusWhenCancelled(canceller, escrow[i], slot)
<1>1. /\ payer \in Agents /\ escrow[i].status = "Open" /\ payer \in Registered
  BY EscrowFacts DEF CancelEscrow, CancelAccepted
<1>2. status \in {"Cancelled", "Expired"}
  BY DEF StatusWhenCancelled
<1>3. /\ EscrowIds' = EscrowIds /\ escrow'[i].status = status
      /\ escrow'[i].payer = payer /\ escrow'[i].payee = escrow[i].payee
      /\ \A j \in EscrowIds : j # i => escrow'[j] = escrow[j]
  BY <1>2, ClosedEffect DEF CancelEscrow, EscrowStatus
<1> HIDE DEF status
<1>4. /\ cri \in [Registered -> Cri]
      /\ cri' = [cri EXCEPT ![payer] = FailedCommitment(cri[payer])]
  BY DEF CancelEscrow, EscrowTypeOK, TypeOK
<1>5. Registered' = Registered
  BY <1>4 DEF Registered
<1>6. /\ cri'[payer].failed = cri[payer].failed + 1
      /\ cri'[payer].commitments = cri[payer].commitments
      /\ cri'[payer].settlements = cri[payer].settlements
      /\ cri[payer] \in Cri
  <2>1. cri[payer] \in Cri /\ cri'[payer] = FailedCommitment(cri[payer])
    BY <1>1, <1>4
  <2> QED
    BY <2>1 DEF FailedCommitment, Cri
<1>7. \A x \in Registered : x # payer => cri'[x] = cri[x]
  BY <1>4
<1>8. \A a \in Agents :
        /\ Failures(a)' = IF a = payer THEN Failures(a) \cup {i} ELSE Failures(a)
        /\ ReleasedFrom(a)' = ReleasedFrom(a)
        /\ ReleasedTo(a)' = ReleasedTo(a)
  BY <1>1, <1>2, <1>3 DEF Failures, ReleasedFrom, ReleasedTo
<1>9. \A a \in Agents : i \notin Failures(a)
  BY <1>1 DEF Failures
<1>10. \A j \in EscrowIds' : escrow'[j].payer # escrow'[j].payee
  BY <1>3 DEF RecordInv
<1> HIDE DEF payer
<1>11. ASSUME NEW a \in Agents
       PROVE  /\ FiniteRecords(a)'
              /\ a \in Registered => Recorded(a, cri[a])'
              /\ a \notin Registered =>
                    Failures(a)' = {} /\ ReleasedFrom(a)' = {} /\ ReleasedTo(a)' = {}
  <2>1. FiniteRecords(a) /\ (a \in Registered => Recorded(a, cri[a]))
    BY DEF RecordInv
  <2>2. CASE a = payer
    <3>1. /\ Failures(a)' = Failures(a) \cup {i} /\ ReleasedFrom(a)' = ReleasedFrom(a)
          /\ ReleasedTo(a)' = ReleasedTo(a)
      BY <1>8, <2>2
    <3>2. IsFiniteSet(Failures(a)')
          /\ Cardinality(Failures(a)') = Cardinality(Failures(a)) + 1
      BY <1>9, <2>1, <3>1, OneMore DEF FiniteRecords
    <3>3. FiniteRecords(a)'
      BY <2>1, <3>1, <3>2 DEF FiniteRecords
    <3>4. Recorded(a, cri[a])
      BY <1>1, <2>1, <2>2
    <3>5. /\ cri'[a].failed = Cardinality(Failures(a)) + 1
          /\ Cardinality(ReleasedFrom(a)) <= cri'[a].commitments
          /\ Cardinality(ReleasedTo(a)) <= cri'[a].settlements
      BY <1>6, <2>2, <3>4, Zenon DEF Recorded
    <3>6. Recorded(a, cri[a])'
      BY <3>1, <3>2, <3>5, Zenon DEF Recorded
    <3> QED
      BY <1>1, <2>2, <3>3, <3>6
  <2>3. CASE a # payer
    <3>1. /\ Failures(a)' = Failures(a) /\ ReleasedFrom(a)' = ReleasedFrom(a)
          /\ ReleasedTo(a)' = ReleasedTo(a)
      BY <1>8, <2>3
    <3>2. a \in Registered => cri'[a] = cri[a]
      BY <1>7, <2>3
    <3> QED
      BY <2>1, <3>1, <3>2, Zenon DEF RecordInv, FiniteRecords, Recorded
  <2> QED
    BY <2>2, <2>3
<1> QED
  BY <1>5, <1>10, <1>11 DEF RecordInv

\* Failed commitments are the cancelled and expired escrows of a payer, and
\* released ones are counted for both parties, beside any payments, splits
\* and registrations.
THEOREM ReputationIsRecord == EscrowSpec => []ReputationRecordsEscrows
<1>1. EscrowInit => RecordInv
  <2> SUFFICES ASSUME EscrowInit PROVE RecordInv
    OBVIOUS
  <2>1. EscrowIds = {} /\ Registered = {}
    BY DEF EscrowInit, Init, EscrowIds, Registered
  <2>2. \A a : Failures(a) = {} /\ ReleasedFrom(a) = {} /\ ReleasedTo(a) = {}
    BY <2>1 DEF Failures, ReleasedFrom, ReleasedTo
  <2>3. \A a : FiniteRecords(a)
    BY <2>2, FS_EmptySet, Zenon DEF FiniteRecords
  <2> QED
    BY <2>1, <2>2, <2>3 DEF RecordInv
<1>2. EscrowTypeOK /\ EscrowTypeOK' /\ RecordInv /\ [EscrowNext]_escrowVars => RecordInv'
  <2> SUFFICES ASSUME EscrowTypeOK, EscrowTypeOK', RecordInv, [EscrowNext]_escrowVars
               PROVE  RecordInv'
    OBVIOUS
  <2>1. CASE ([Next]_vars \/ IntoEscrowVault) /\ UNCHANGED escrows
    <3>1. CriGrows
      BY <2>1, CoreCriGrows, SameCriGrows
      DEF IntoEscrowVault, SplTransfer, SlashBond, EscrowTypeOK
    <3>2. EscrowIds' = EscrowIds /\ escrow' = escrow
      BY <2>1 DEF escrows, EscrowIds
    <3>3. \A a \in Agents : SameRecords(a)
      BY <3>2 DEF SameRecords, Failures, ReleasedFrom, ReleasedTo
    <3>4. \A i \in EscrowIds' : escrow'[i].payer # escrow'[i].payee
      BY <3>2 DEF RecordInv
    <3> QED
      BY <3>1, <3>3, <3>4, CoreKeepsRecords
  <2> QED
    BY <2>1, CreateKeepsRecords, ReleaseKeepsRecords, CancelKeepsRecords
    DEF EscrowNext, escrowVars
<1>3. EscrowTypeOK /\ RecordInv => ReputationRecordsEscrows
  <2> SUFFICES ASSUME EscrowTypeOK, RecordInv, NEW a \in Registered
               PROVE  Recorded(a, cri[a])
    BY DEF ReputationRecordsEscrows, Recorded, Failures, ReleasedFrom, ReleasedTo
  <2> QED
    BY DEF EscrowTypeOK, TypeOK, RecordInv
<1> QED
  BY <1>1, <1>2, <1>3, EscrowTypeCorrect, PTL DEF EscrowSpec
-----------------------------------------------------------------------------
(* The charges of the escrows                                              *)

LockedUnder(id) == Units(EscrowsUnder(id), Amount, MaxU64)

\* EscrowsCharged made inductive: an escrow names an authority that was
\* issued before it, so a new authority starts with nothing locked under it.
ChargeInv ==
    /\ \A i \in EscrowIds : escrow[i].authority_id \in AuthorityIds \cup {0}
    /\ \A id \in AuthorityIds :
        /\ IsFiniteSet(LockedUnder(id))
        /\ Cardinality(LockedUnder(id)) <= authority[id].spent

LEMMA SpentIsNat ==
    ASSUME TypeOK, NEW id \in AuthorityIds
    PROVE  id # 0 /\ authority[id].spent \in Nat
<1>1. id \in 1 .. authority_counter /\ authority[id] \in Authority
  BY DEF TypeOK, AuthorityIds
<1>2. authority[id].spent \in Nat
  BY <1>1, LimitsAssumption DEF Authority, U64
<1> QED
  BY <1>1, <1>2

LEMMA SpentNeverFalls ==
    ASSUME TypeOK, AuthorityInv, AuthorityStep, NEW id \in AuthorityIds
    PROVE  id \in AuthorityIds' /\ authority[id].spent <= authority'[id].spent
<1>1. authority[id].spent \in Nat
  BY LimitsAssumption DEF TypeOK, AuthorityIds, Authority, U64
<1>2. ASSUME NEW a \in Agents, NEW p \in AuthorityIds \cup {0},
             NEW req \in IssueRequest, GrantStep(a, p, req)
      PROVE  id \in AuthorityIds' /\ authority[id].spent <= authority'[id].spent
  BY <1>1, <1>2, GrantEffect
<1>3. ASSUME NEW i \in AuthorityIds, NEW amount \in U64, SpendStep(i, amount)
      PROVE  id \in AuthorityIds' /\ authority[id].spent <= authority'[id].spent
  BY <1>1, <1>3, SpendEffect, LimitsAssumption DEF U64
<1>4. ASSUME NEW S \in SUBSET AuthorityIds, NEW st \in {"Revoked", "Expired"},
             CloseStep(S, st)
      PROVE  id \in AuthorityIds' /\ authority[id].spent <= authority'[id].spent
  BY <1>1, <1>4 DEF CloseStep, AuthorityIds, TypeOK, Authority
<1> QED
  BY <1>1, <1>2, <1>3, <1>4 DEF AuthorityStep, AuthorityIds

LEMMA IssuedUnspent ==
    ASSUME TypeOK, AuthorityStep, NEW id \in AuthorityIds', id \notin AuthorityIds
    PROVE  authority'[id].spent = 0 /\ id # 0
<1>1. PICK a \in Agents, p \in AuthorityIds \cup {0}, req \in IssueRequest :
        GrantStep(a, p, req)
  BY DEF AuthorityStep, SpendStep, CloseStep, AuthorityIds
<1> QED
  BY <1>1, GrantEffect

\* A step that locks nothing more, whatever it does to the authorities.
LEMMA SameLocksKeepCharges ==
    ASSUME TypeOK, TypeOK', AuthorityInv, ChargeInv, AuthorityStep, EscrowIds' = EscrowIds,
           \A i \in EscrowIds : /\ escrow'[i].authority_id = escrow[i].authority_id
                                /\ escrow'[i].amount = escrow[i].amount
    PROVE  ChargeInv'
<1>1. \A id : LockedUnder(id)' = LockedUnder(id)
  <2> SUFFICES ASSUME NEW id PROVE LockedUnder(id)' = LockedUnder(id)
    OBVIOUS
  <2>1. EscrowsUnder(id)' = EscrowsUnder(id)
    BY DEF EscrowsUnder
  <2>2. \A i \in EscrowsUnder(id) : Amount'[i] = Amount[i]
    BY DEF EscrowsUnder, Amount
  <2> QED
    BY <2>1, <2>2 DEF LockedUnder, Units
<1>2. \A i \in EscrowIds' : escrow'[i].authority_id \in AuthorityIds' \cup {0}
  BY SpentNeverFalls DEF ChargeInv
<1> SUFFICES ASSUME NEW id \in AuthorityIds'
             PROVE  /\ IsFiniteSet(LockedUnder(id)')
                    /\ Cardinality(LockedUnder(id)') <= authority'[id].spent
  BY <1>2 DEF ChargeInv
<1>3. CASE id \in AuthorityIds
  <2>1. /\ IsFiniteSet(LockedUnder(id))
        /\ Cardinality(LockedUnder(id)) <= authority[id].spent
    BY <1>3 DEF ChargeInv
  <2>2. authority[id].spent <= authority'[id].spent
    BY <1>3, SpentNeverFalls
  <2>3. authority[id].spent \in Nat /\ authority'[id].spent \in Nat
    <3>1. authority'[id] \in Authority
      BY DEF TypeOK, AuthorityIds
    <3>2. authority'[id].spent \in Nat
      BY <3>1, LimitsAssumption DEF Authority, U64
    <3> QED
      BY <1>3, <3>2, SpentIsNat
  <2>4. Cardinality(LockedUnder(id)) \in Nat
    BY <2>1, FS_CardinalityType
  <2>5. Cardinality(LockedUnder(id)) <= authority'[id].spent
    BY <2>1, <2>2, <2>3, <2>4
  <2> QED
    BY <1>1, <2>1, <2>5
<1>4. CASE id \notin AuthorityIds
  <2>1. authority'[id].spent = 0 /\ id # 0
    BY <1>4, IssuedUnspent
  <2>2. EscrowsUnder(id) = {}
    BY <1>4, <2>1 DEF EscrowsUnder, ChargeInv
  <2>3. LockedUnder(id) = {}
    BY <2>2 DEF LockedUnder, Units
  <2>4. IsFiniteSet({}) /\ Cardinality({}) = 0
    BY FS_EmptySet
  <2> QED
    BY <1>1, <2>1, <2>3, <2>4
<1> QED
  BY <1>3, <1>4

LEMMA CreateKeepsCharges ==
    ASSUME EscrowTypeOK, AuthorityInv, ChargeInv, NEW payer \in Agents, NEW payee \in Agents,
           NEW amount \in Amounts, NEW under \in AuthorityIds \cup {0}, NEW c, NEW terms,
           CreateEscrow(payer, payee, amount, under, c, terms)
    PROVE  ChargeInv'
<1> DEFINE n == escrow_counter + 1
<1>1. /\ amount \in U64 /\ amount \in 0 .. MaxU64 /\ TypeOK /\ MaxU64 \in Nat
  BY InputsAssumption, LimitsAssumption DEF EscrowTypeOK, U64
<1>2. /\ EscrowIds' = EscrowIds \cup {n} /\ n \notin EscrowIds
      /\ \A i \in EscrowIds : escrow'[i] = escrow[i]
  BY LimitsAssumption DEF EscrowIds, CreateEscrow, Added, EscrowTypeOK
<1>3. escrow'[n].authority_id = under /\ escrow'[n].amount = amount
  BY DEF CreateEscrow, Added, NewEscrow, EscrowTypeOK
<1> HIDE DEF n
<1>4. CommitSpent(under, amount) /\ MaySpend(payer, under, amount, c)
  BY DEF CreateEscrow
<1>5. ASSUME under # 0
      PROVE  /\ SpendStep(under, amount)
             /\ authority'[under].spent = authority[under].spent + amount
             /\ \A id \in AuthorityIds \ {under} : authority'[id] = authority[id]
             /\ AuthorityIds' = AuthorityIds
  <2>1. SpendStep(under, amount)
    BY <1>4, <1>5 DEF CommitSpent, MaySpend, SpendAllowed, Usable, SpendStep, CreateEscrow, config
  <2> QED
    BY <1>1, <1>5, <2>1, SpendEffect
<1>6. under = 0 => authority' = authority
  BY <1>4 DEF CommitSpent
<1>7. AuthorityIds' = AuthorityIds
  BY <1>5, <1>6 DEF AuthorityIds
<1>8. \A i \in EscrowIds' : escrow'[i].authority_id \in AuthorityIds' \cup {0}
  BY <1>2, <1>3, <1>7 DEF ChargeInv
<1> SUFFICES ASSUME NEW id \in AuthorityIds
             PROVE  /\ IsFiniteSet(LockedUnder(id)')
                    /\ Cardinality(LockedUnder(id)') <= authority'[id].spent
  BY <1>7, <1>8 DEF ChargeInv
<1>9. /\ IsFiniteSet(LockedUnder(id))
      /\ Cardinality(LockedUnder(id)) <= authority[id].spent
  BY DEF ChargeInv
<1>10. id # 0 /\ authority[id].spent \in Nat
  BY <1>1, SpentIsNat
<1>11. \A i \in EscrowIds : Amount'[i] = Amount[i]
  BY <1>2 DEF Amount
<1>12. Amount'[n] = amount
  BY <1>2, <1>3 DEF Amount
<1>13. EscrowsUnder(id) \subseteq EscrowIds
  BY DEF EscrowsUnder
<1>14. CASE id # under
  <2>1. EscrowsUnder(id)' = EscrowsUnder(id)
    BY <1>2, <1>3, <1>14 DEF EscrowsUnder
  <2>2. LockedUnder(id)' = LockedUnder(id)
    BY <1>11, <1>13, <2>1, UnitsAgree DEF LockedUnder
  <2>3. authority'[id] = authority[id]
    BY <1>5, <1>6, <1>14
  <2> QED
    BY <1>9, <2>2, <2>3
<1>15. CASE id = under
  <2>1. EscrowsUnder(id)' = EscrowsUnder(id) \cup {n} /\ n \notin EscrowsUnder(id)
    BY <1>2, <1>3, <1>15 DEF EscrowsUnder
  <2>2. Units(EscrowsUnder(id), Amount', MaxU64) = LockedUnder(id)
    BY <1>11, <1>13, UnitsAgree DEF LockedUnder
  <2>3. IsFiniteSet(Units(EscrowsUnder(id), Amount', MaxU64)) /\ Amount'[n] \in 0 .. MaxU64
    BY <1>1, <1>9, <1>12, <2>2
  <2>4. /\ IsFiniteSet(Units(EscrowsUnder(id) \cup {n}, Amount', MaxU64))
        /\ Cardinality(Units(EscrowsUnder(id) \cup {n}, Amount', MaxU64))
             = Cardinality(Units(EscrowsUnder(id), Amount', MaxU64)) + Amount'[n]
    BY <1>1, <2>1, <2>3, UnitsAdded
  <2>5. LockedUnder(id)' = Units(EscrowsUnder(id) \cup {n}, Amount', MaxU64)
    BY <2>1 DEF LockedUnder
  <2>6. Cardinality(LockedUnder(id)') = Cardinality(LockedUnder(id)) + amount
    BY <1>12, <2>2, <2>4, <2>5
  <2>7. authority'[id].spent = authority[id].spent + amount
    BY <1>5, <1>10, <1>15
  <2>8. Cardinality(LockedUnder(id)) \in Nat /\ amount \in Nat
    BY <1>1, <1>9, FS_CardinalityType
  <2>9. Cardinality(LockedUnder(id)') <= authority'[id].spent
    BY <1>9, <1>10, <2>6, <2>7, <2>8
  <2> QED
    BY <2>4, <2>5, <2>9
<1> QED
  BY <1>14, <1>15

LEMMA SettlementKeepsCharges ==
    ASSUME EscrowTypeOK, EscrowTypeOK', AuthorityInv, ChargeInv, AuthorityStep,
           NEW i \in EscrowIds, NEW status, escrow' = Closed(i, status)
    PROVE  ChargeInv'
<1>1. EscrowIds' = EscrowIds /\ TypeOK /\ TypeOK'
  BY DEF Closed, EscrowIds, EscrowTypeOK
<1>2. \A j \in EscrowIds : /\ escrow'[j].authority_id = escrow[j].authority_id
                           /\ escrow'[j].amount = escrow[j].amount
  BY EscrowFacts DEF Closed, EscrowIds, Escrow, EscrowTypeOK
<1> QED
  BY <1>1, <1>2, SameLocksKeepCharges

\* What was ever locked under an authority, settled or not, is within what
\* it was charged: no cancellation gives an allowance back.
THEOREM EscrowsStayCharged == EscrowSpec => []EscrowsCharged
<1>1. EscrowInit => ChargeInv
  BY DEF EscrowInit, Init, ChargeInv, EscrowIds, AuthorityIds
<1>2. EscrowTypeOK /\ EscrowTypeOK' /\ AuthorityInv /\ ChargeInv /\ [EscrowNext]_escrowVars
            => ChargeInv'
  <2> SUFFICES ASSUME EscrowTypeOK, EscrowTypeOK', AuthorityInv, ChargeInv,
                      [EscrowNext]_escrowVars
               PROVE  ChargeInv'
    OBVIOUS
  <2>1. TypeOK /\ TypeOK' /\ AuthorityStep
    BY EscrowNextIsStep DEF EscrowTypeOK
  <2>2. CASE UNCHANGED escrows
    <3>1. EscrowIds' = EscrowIds /\ escrow' = escrow
      BY <2>2 DEF escrows, EscrowIds
    <3> QED
      BY <2>1, <3>1, SameLocksKeepCharges
  <2>3. ASSUME NEW i \in EscrowIds,
               \/ \E w \in Witnesses : ReleaseEscrow(i, w)
               \/ \E a \in Agents : CancelEscrow(a, i)
        PROVE  ChargeInv'
    BY <2>1, <2>3, SettlementKeepsCharges DEF ReleaseEscrow, CancelEscrow
  <2> QED
    BY <2>2, <2>3, CreateKeepsCharges DEF EscrowNext, escrowVars
<1>3. ChargeInv => EscrowsCharged
  BY DEF ChargeInv, EscrowsCharged, LockedUnder
<1>4. AuthorityInv <=> SpendWithinLimits /\ ExhaustedIffUsedUp /\ Attenuated
  BY DEF AuthorityInv
<1> QED
  BY <1>1, <1>2, <1>3, <1>4, EscrowTypeCorrect, EscrowAuthoritiesSound, PTL DEF EscrowSpec
-----------------------------------------------------------------------------
(* Reputation beside escrows                                               *)

AmountsPositive == \A i \in EscrowIds : escrow[i].amount > 0

LEMMA StepKeepsAmounts ==
    ASSUME EscrowTypeOK, AmountsPositive, [EscrowNext]_escrowVars
    PROVE  AmountsPositive'
<1>1. CASE UNCHANGED escrows
  BY <1>1 DEF AmountsPositive, EscrowIds, escrows
<1>2. ASSUME NEW payer, NEW payee, NEW amount, NEW id, NEW c, NEW terms,
             CreateEscrow(payer, payee, amount, id, c, terms)
      PROVE  AmountsPositive'
  BY <1>2
  DEF AmountsPositive, CreateEscrow, MaySpend, NewEscrow, Added, EscrowIds, EscrowTypeOK
<1>3. ASSUME NEW i \in EscrowIds, NEW x, ReleaseEscrow(i, x) \/ CancelEscrow(x, i)
      PROVE  AmountsPositive'
  BY <1>3, EscrowFacts
  DEF AmountsPositive, ReleaseEscrow, CancelEscrow, Closed, EscrowIds, Escrow, EscrowTypeOK
<1> QED
  BY <1>1, <1>2, <1>3 DEF EscrowNext, escrowVars

LEMMA ReleaseCounts ==
    ASSUME EscrowTypeOK, CountsBackedByVolume, AmountsPositive, NEW i \in EscrowIds, NEW w,
           ReleaseEscrow(i, w)
    PROVE  CountsBackedByVolume'
<1> DEFINE payer == escrow[i].payer
           payee == escrow[i].payee
           amount == escrow[i].amount
<1>1. /\ amount \in U64 /\ amount > 0 /\ payer \in Registered /\ payee \in Registered
      /\ \A x \in Registered : cri[x] \in Cri /\ Backed(cri[x])
  BY EscrowFacts
  DEF ReleaseEscrow, ReleaseAccepted, EscrowTypeOK, TypeOK, CountsBackedByVolume, Backed,
      AmountsPositive
<1>2. Backed(Committed(cri[payer], amount)) /\ Backed(Settled(cri[payee], amount))
  BY <1>1, CreditBacked
<1>3. cri' = [cri EXCEPT ![payer] = Committed(cri[payer], amount),
                         ![payee] = Settled(cri[payee], amount)]
  BY DEF ReleaseEscrow
<1>4. Registered' = Registered /\ \A x \in Registered : Backed(cri'[x])
  BY <1>1, <1>2, <1>3 DEF Registered
<1> QED
  BY <1>4 DEF CountsBackedByVolume, Backed

LEMMA CancelCounts ==
    ASSUME EscrowTypeOK, CountsBackedByVolume, NEW a, NEW i \in EscrowIds, CancelEscrow(a, i)
    PROVE  CountsBackedByVolume'
<1> DEFINE payer == escrow[i].payer
<1>1. \A x \in Registered : cri[x] \in Cri /\ Backed(cri[x])
  BY DEF EscrowTypeOK, TypeOK, CountsBackedByVolume, Backed
<1>2. payer \in Registered /\ cri' = [cri EXCEPT ![payer] = FailedCommitment(cri[payer])]
  BY DEF CancelEscrow, CancelAccepted
<1>3. Backed(FailedCommitment(cri[payer]))
  BY <1>1, <1>2 DEF FailedCommitment, Backed, Cri
<1>4. Registered' = Registered /\ \A x \in Registered : Backed(cri'[x])
  BY <1>1, <1>2, <1>3 DEF Registered
<1> QED
  BY <1>4 DEF CountsBackedByVolume, Backed

\* Reputation cannot be had for nothing through escrows either: a release
\* credits both parties with its amount, which is never 0, and a
\* cancellation counts as no commitment.
THEOREM EscrowCountsBacked == EscrowSpec => []CountsBackedByVolume
<1>1. EscrowInit => CountsBackedByVolume /\ AmountsPositive
  BY InitCounts DEF EscrowInit, AmountsPositive, EscrowIds
<1>2. EscrowTypeOK /\ AmountsPositive /\ [EscrowNext]_escrowVars => AmountsPositive'
  BY StepKeepsAmounts
<1>3. EscrowTypeOK /\ CountsBackedByVolume /\ AmountsPositive /\ [EscrowNext]_escrowVars
            => CountsBackedByVolume'
  <2> SUFFICES ASSUME EscrowTypeOK, CountsBackedByVolume, AmountsPositive,
                      [EscrowNext]_escrowVars
               PROVE  CountsBackedByVolume'
    OBVIOUS
  <2>1. CASE [Next]_vars
    BY <2>1, NextCounts DEF EscrowTypeOK
  <2>2. CASE cri' = cri
    BY <2>2 DEF CountsBackedByVolume, Registered
  <2> QED
    BY <2>1, <2>2, ReleaseCounts, CancelCounts
    DEF EscrowNext, escrowVars, IntoEscrowVault, SplTransfer, SlashBond, CreateEscrow
<1> QED
  BY <1>1, <1>2, <1>3, EscrowTypeCorrect, PTL DEF EscrowSpec
=============================================================================
