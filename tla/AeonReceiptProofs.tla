-------------------------- MODULE AeonReceiptProofs --------------------------
(***************************************************************************)
(* Proofs about AeonReceipt and AeonClient: types, the chain of receipts   *)
(* of every agent, that the clients' transactions are steps of the         *)
(* program, and the ids that calls return.                                 *)
(***************************************************************************)
EXTENDS AeonClient, AeonAuthorityProofs, FiniteSetTheorems

\* What create_receipt does to the tables.
LEMMA CreateReceiptEffect ==
    ASSUME ReceiptTypeOK, NEW a \in Agents, NEW n, NEW p \in Payloads,
           CreateReceipt(a, n, p)
    PROVE  /\ receipt_counter \in Nat /\ n = receipt_counter + 1 /\ n \in 1 .. MaxReceipts
           /\ n \in Nat
           /\ receipt_counter' = n /\ receipt' \in [1 .. n -> Receipt]
           /\ \A k \in ReceiptIds : receipt'[k] = receipt[k]
           /\ receipt'[n].actor = a /\ receipt'[n].slot = slot
           /\ receipt'[n].prev_hash = chain[a].last_receipt_hash
           /\ ReceiptIds = 1 .. receipt_counter
           /\ ReceiptIds' = ReceiptIds \cup {n} /\ n \notin ReceiptIds
           /\ chain' \in [Agents -> Chain]
           /\ chain'[a].last_receipt_hash = n
           /\ chain'[a].receipt_count = chain[a].receipt_count + 1
           /\ \A b \in Agents : b # a => chain'[b] = chain[b]
           /\ UNCHANGED vars /\ slot' = slot
<1> DEFINE new == [actor |-> a, slot |-> slot, payload |-> p,
                   prev_hash |-> chain[a].last_receipt_hash]
           link == [last_receipt_hash |-> n,
                    receipt_count |-> chain[a].receipt_count + 1]
<1>1. receipt_counter \in Nat /\ n = receipt_counter + 1 /\ n \in 1 .. MaxReceipts /\ n \in Nat
  BY ReceiptInputsAssumption
  DEF ReceiptTypeOK, CreateReceipt, MayCreateReceipt, ExpectedId
<1>2. chain[a] \in Chain /\ chain \in [Agents -> Chain]
  BY DEF ReceiptTypeOK
<1>3. chain[a].last_receipt_hash \in Hash /\ chain[a].receipt_count \in 0 .. MaxReceipts
  BY <1>2 DEF Chain
<1>4. new \in Receipt
  BY <1>3, ReceiptInputsAssumption DEF Receipt, ReceiptTypeOK, TypeOK
<1>5. n \in Hash /\ chain[a].receipt_count + 1 \in 0 .. MaxReceipts
  BY <1>1, <1>3, ReceiptInputsAssumption DEF Hash, CreateReceipt, MayCreateReceipt
<1>6. link \in Chain
  BY <1>5 DEF Chain
<1>7. receipt' = Added(receipt, n, new) /\ chain' = [chain EXCEPT ![a] = link]
  BY DEF CreateReceipt, PrevHash
<1>8. ReceiptIds = 1 .. receipt_counter /\ n \notin ReceiptIds
  BY <1>1 DEF ReceiptTypeOK, ReceiptIds
<1> HIDE DEF new, link
<1>9. /\ receipt' \in [1 .. n -> Receipt] /\ receipt'[n] = new
      /\ \A k \in ReceiptIds : receipt'[k] = receipt[k]
  <2>1. receipt \in [1 .. receipt_counter -> Receipt]
    BY DEF ReceiptTypeOK
  <2>2. /\ Added(receipt, receipt_counter + 1, new) \in [1 .. receipt_counter + 1 -> Receipt]
        /\ Added(receipt, receipt_counter + 1, new)[receipt_counter + 1] = new
        /\ \A k \in 1 .. receipt_counter :
                Added(receipt, receipt_counter + 1, new)[k] = receipt[k]
    BY <1>1, <1>4, <2>1, AddedFacts
  <2> QED
    BY <1>1, <1>7, <1>8, <2>2, Zenon
<1>10. ReceiptIds' = ReceiptIds \cup {n}
  BY <1>7 DEF Added, ReceiptIds
<1>11. /\ chain' \in [Agents -> Chain] /\ chain'[a] = link
       /\ \A b \in Agents : b # a => chain'[b] = chain[b]
  BY <1>2, <1>6, <1>7
<1>12. UNCHANGED vars /\ slot' = slot /\ receipt_counter' = n
  BY DEF CreateReceipt, vars
<1>13. /\ new.actor = a /\ new.slot = slot /\ new.prev_hash = chain[a].last_receipt_hash
       /\ link.last_receipt_hash = n /\ link.receipt_count = chain[a].receipt_count + 1
  BY DEF new, link
<1> QED
  BY <1>1, <1>8, <1>9, <1>10, <1>11, <1>12, <1>13, Zenon

LEMMA ReceiptNextTypeOK ==
    ASSUME ReceiptTypeOK, [ReceiptNext]_receiptVars
    PROVE  ReceiptTypeOK'
<1>1. CASE [Next]_vars /\ UNCHANGED receipts
  BY <1>1, NextTypeOK DEF ReceiptTypeOK, receipts
<1>2. ASSUME NEW a \in Agents, NEW n, NEW p \in Payloads, CreateReceipt(a, n, p)
      PROVE  ReceiptTypeOK'
  <2>1. /\ n \in 1 .. MaxReceipts /\ receipt_counter' = n
        /\ receipt' \in [1 .. n -> Receipt] /\ chain' \in [Agents -> Chain]
        /\ UNCHANGED vars
    BY <1>2, CreateReceiptEffect
  <2>2. TypeOK'
    BY <2>1 DEF ReceiptTypeOK, TypeOK, vars, config, Registered
  <2>3. n \in 0 .. MaxReceipts
    BY <2>1
  <2> QED
    BY <2>1, <2>2, <2>3 DEF ReceiptTypeOK
<1> QED
  BY <1>1, <1>2 DEF ReceiptNext, receiptVars

LEMMA ReceiptInitTypeOK ==
    ASSUME ReceiptInit
    PROVE  ReceiptTypeOK
<1>1. TypeOK
  BY InitTypeOK DEF ReceiptInit
<1>2. /\ receipt_counter = 0 /\ 0 \in 0 .. MaxReceipts
      /\ receipt \in [1 .. receipt_counter -> Receipt]
  BY ReceiptInputsAssumption DEF ReceiptInit
<1>3. chain \in [Agents -> Chain]
  BY <1>2 DEF ReceiptInit, Chain, Hash
<1> QED
  BY <1>1, <1>2, <1>3 DEF ReceiptTypeOK

\* Receipt ids are dense and every Receipt and chain has its type.
THEOREM ReceiptTypeCorrect == ReceiptSpec => []ReceiptTypeOK
BY ReceiptInitTypeOK, ReceiptNextTypeOK, PTL DEF ReceiptSpec

-----------------------------------------------------------------------------
(* The chains                                                              *)

LEMMA SlotGrows ==
    ASSUME TypeOK, [Next]_vars
    PROVE  slot <= slot' /\ slot \in Nat
<1>1. slot \in Nat
  BY DEF TypeOK
<1>2. CASE UNCHANGED slot
  BY <1>1, <1>2
<1>3. CASE AdvanceSlot
  BY <1>1, <1>3 DEF AdvanceSlot
<1>4. CASE Lifecycle
  BY <1>2, <1>4
  DEF Lifecycle, RegisterAgent, SetPaused, IssueAuthority, RevokeAuthority, ExpireAuthority
<1>5. CASE Spending
  BY <1>2, <1>5 DEF Spending, Pay, AtomicSplit
<1>6. CASE Slashing \/ UNCHANGED vars
  BY <1>2, <1>6 DEF Slashing, SlashBond, vars
<1>7. CASE Environment
  BY <1>2, <1>3, <1>7 DEF Environment, SplTransfer
<1> QED
  BY <1>4, <1>5, <1>6, <1>7 DEF Next

\* The chains, with what makes them last: no receipt is of the future.
ChainInv ==
    /\ ReceiptsChained
    /\ \A k \in ReceiptIds : receipt[k].slot <= slot
    /\ \A a \in Agents : IsFiniteSet(ReceiptsOf(a))

LEMMA CreateKeepsChains ==
    ASSUME ReceiptTypeOK, ChainInv, NEW a \in Agents, NEW n, NEW p \in Payloads,
           CreateReceipt(a, n, p)
    PROVE  ChainInv'
<1>1. /\ receipt_counter \in Nat /\ n = receipt_counter + 1 /\ n \in Nat
      /\ receipt_counter' = n /\ slot' = slot
      /\ ReceiptIds = 1 .. receipt_counter
      /\ ReceiptIds' = ReceiptIds \cup {n} /\ n \notin ReceiptIds
      /\ \A k \in ReceiptIds : receipt'[k] = receipt[k]
      /\ receipt'[n].actor = a /\ receipt'[n].slot = slot
      /\ receipt'[n].prev_hash = chain[a].last_receipt_hash
  <2>1. receipt_counter \in Nat /\ n = receipt_counter + 1 /\ n \in Nat
    BY CreateReceiptEffect
  <2>2. receipt_counter' = n /\ slot' = slot /\ ReceiptIds = 1 .. receipt_counter
    BY CreateReceiptEffect
  <2>3. ReceiptIds' = ReceiptIds \cup {n} /\ n \notin ReceiptIds
    BY CreateReceiptEffect
  <2>4. \A k \in ReceiptIds : receipt'[k] = receipt[k]
    BY CreateReceiptEffect
  <2>5. /\ receipt'[n].actor = a /\ receipt'[n].slot = slot
        /\ receipt'[n].prev_hash = chain[a].last_receipt_hash
    BY CreateReceiptEffect
  <2> QED
    BY <2>1, <2>2, <2>3, <2>4, <2>5, Zenon
<1>2. /\ chain'[a].last_receipt_hash = n
      /\ chain'[a].receipt_count = chain[a].receipt_count + 1
      /\ \A b \in Agents : b # a => chain'[b] = chain[b]
  BY CreateReceiptEffect, Zenon
<1>3. \A k \in ReceiptIds : receipt[k].slot \in Nat /\ receipt[k].actor \in Agents
  BY DEF ReceiptTypeOK, ReceiptIds, Receipt
<1>4. slot \in Nat
  BY DEF ReceiptTypeOK, TypeOK
<1>5. ReceiptsOf(a)' = ReceiptsOf(a) \cup {n}
  BY <1>1 DEF ReceiptsOf
<1>6. \A b \in Agents : b # a => ReceiptsOf(b)' = ReceiptsOf(b)
  BY <1>1 DEF ReceiptsOf
<1>7. \A b \in Agents : ReceiptsOf(b) \subseteq 1 .. receipt_counter
  BY <1>1 DEF ReceiptsOf
<1>8. ASSUME NEW m, NEW b \in Agents, NEW k \in 1 .. n, LastBefore(m, b, k)
      PROVE  LastBefore(m, b, k)'
  <2>1. ReceiptsOf(b) \subseteq ReceiptsOf(b)' /\ ReceiptsOf(b)' \subseteq ReceiptsOf(b) \cup {n}
    BY <1>5, <1>6
  <2>2. k <= n /\ ~(n < k)
    BY <1>1
  <2> QED
    BY <1>8, <2>1, <2>2 DEF LastBefore
<1>9. LastBefore(n, a, n + 1)'
  BY <1>1, <1>5, <1>7 DEF LastBefore
<1>10. ASSUME NEW m, NEW b \in Agents, b # a, LastBefore(m, b, n)
       PROVE  LastBefore(m, b, n + 1)'
  <2>1. ReceiptsOf(b)' = ReceiptsOf(b) /\ \A k \in ReceiptsOf(b) : k \in Nat /\ k < n /\ k < n + 1
    BY <1>1, <1>6, <1>7, <1>10
  <2> QED
    BY <1>10, <2>1 DEF LastBefore
<1>11. /\ \A k \in ReceiptIds : LastBefore(receipt[k].prev_hash, receipt[k].actor, k)
       /\ \A b \in Agents : LastBefore(chain[b].last_receipt_hash, b, n)
  BY <1>1 DEF ChainInv, ReceiptsChained
<1>12. ASSUME NEW k \in ReceiptIds'
       PROVE  LastBefore(receipt[k].prev_hash, receipt[k].actor, k)'
  <2>1. k \in 1 .. n
    BY <1>1
  <2>2. CASE k = n
    <3>1. PICK m : m = chain[a].last_receipt_hash
      OBVIOUS
    <3>2. LastBefore(m, a, n)'
      BY <1>8, <1>11, <2>1, <2>2, <3>1
    <3>3. receipt'[k].prev_hash = m /\ receipt'[k].actor = a
      BY <1>1, <2>2, <3>1
    <3> QED
      BY <2>2, <3>2, <3>3 DEF LastBefore
  <2>3. CASE k \in ReceiptIds
    <3>1. PICK m, b : m = receipt[k].prev_hash /\ b = receipt[k].actor
      OBVIOUS
    <3>2. LastBefore(m, b, k)'
      BY <1>3, <1>8, <1>11, <2>1, <2>3, <3>1
    <3>3. receipt'[k].prev_hash = m /\ receipt'[k].actor = b
      BY <1>1, <2>3, <3>1
    <3> QED
      BY <3>2, <3>3 DEF LastBefore
  <2> QED
    BY <1>1, <2>2, <2>3
<1>13. ASSUME NEW j \in ReceiptIds', NEW k \in ReceiptIds', k < j
       PROVE  receipt'[k].slot <= receipt'[j].slot
  <2>1. k \in ReceiptIds
    BY <1>1, <1>13
  <2>2. CASE j = n
    BY <1>1, <2>1, <2>2 DEF ChainInv
  <2>3. CASE j \in ReceiptIds
    BY <1>1, <1>13, <2>1, <2>3 DEF ChainInv, ReceiptsChained
  <2> QED
    BY <1>1, <2>2, <2>3
<1>14. ASSUME NEW b \in Agents
       PROVE  LastBefore(chain[b].last_receipt_hash, b, receipt_counter + 1)'
  <2>1. PICK m : m = chain'[b].last_receipt_hash
    OBVIOUS
  <2>2. LastBefore(m, b, n + 1)'
    <3>1. CASE b = a
      BY <1>2, <1>9, <2>1, <3>1
    <3>2. CASE b # a
      BY <1>2, <1>10, <1>11, <2>1, <3>2
    <3> QED
      BY <3>1, <3>2
  <2> QED
    BY <1>1, <2>1, <2>2 DEF LastBefore
<1>15. ASSUME NEW b \in Agents
       PROVE  IsFiniteSet(ReceiptsOf(b)') /\ chain'[b].receipt_count = Cardinality(ReceiptsOf(b)')
  <2>1. IsFiniteSet(ReceiptsOf(b)) /\ chain[b].receipt_count = Cardinality(ReceiptsOf(b))
    BY DEF ChainInv, ReceiptsChained
  <2>2. CASE b # a
    BY <1>2, <1>6, <2>1, <2>2, Zenon
  <2>3. CASE b = a
    <3>1. n \notin ReceiptsOf(a)
      BY <1>1, <1>7
    <3>2. /\ IsFiniteSet(ReceiptsOf(a) \cup {n})
          /\ Cardinality(ReceiptsOf(a) \cup {n}) = Cardinality(ReceiptsOf(a)) + 1
      BY <2>1, <2>3, <3>1, FS_AddElement
    <3> QED
      BY <1>2, <1>5, <2>1, <2>3, <3>2, Zenon
  <2> QED
    BY <2>2, <2>3
<1>16. \A k \in ReceiptIds' : receipt'[k].slot <= slot'
  BY <1>1, <1>4 DEF ChainInv
<1>17. ReceiptsChained'
  BY <1>12, <1>13, <1>14, <1>15 DEF ReceiptsChained
<1> QED
  BY <1>15, <1>16, <1>17 DEF ChainInv

LEMMA NextKeepsChains ==
    ASSUME ReceiptTypeOK, ChainInv, [ReceiptNext]_receiptVars
    PROVE  ChainInv'
<1>1. CASE [Next]_vars /\ UNCHANGED receipts
  <2>1. slot <= slot' /\ slot \in Nat /\ slot' \in Nat
    BY <1>1, SlotGrows, NextTypeOK DEF ReceiptTypeOK, TypeOK
  <2>2. ReceiptIds' = ReceiptIds /\ receipt' = receipt
    BY <1>1 DEF ReceiptIds, receipts
  <2>3. \A k \in ReceiptIds : receipt[k].slot \in Nat
    BY DEF ReceiptTypeOK, ReceiptIds, Receipt
  <2>4. \A k \in ReceiptIds' : receipt'[k].slot <= slot'
    BY <2>1, <2>2, <2>3 DEF ChainInv
  <2>5. ReceiptsChained'
    BY <1>1 DEF ChainInv, ReceiptsChained, ReceiptIds, ReceiptsOf, LastBefore, receipts
  <2>6. \A a \in Agents : IsFiniteSet(ReceiptsOf(a)')
    BY <1>1 DEF ChainInv, ReceiptIds, ReceiptsOf, receipts
  <2> QED
    BY <2>4, <2>5, <2>6 DEF ChainInv
<1> QED
  BY <1>1, CreateKeepsChains DEF ReceiptNext, receiptVars

LEMMA InitChains ==
    ASSUME ReceiptInit
    PROVE  ChainInv
<1>1. ReceiptIds = {}
  BY DEF ReceiptInit, ReceiptIds
<1>2. \A a \in Agents : ReceiptsOf(a) = {}
  BY <1>1 DEF ReceiptsOf
<1>3. \A a \in Agents : chain[a].last_receipt_hash = 0 /\ chain[a].receipt_count = 0
  BY DEF ReceiptInit
<1>4. \A a \in Agents : LastBefore(chain[a].last_receipt_hash, a, receipt_counter + 1)
  BY <1>2, <1>3 DEF LastBefore
<1>5. \A a \in Agents : /\ IsFiniteSet(ReceiptsOf(a))
                        /\ chain[a].receipt_count = Cardinality(ReceiptsOf(a))
  BY <1>2, <1>3, FS_EmptySet
<1> QED
  BY <1>1, <1>4, <1>5 DEF ChainInv, ReceiptsChained

\* Every agent's receipts are one chain that its Cri ends and counts.
THEOREM ChainsHold == ReceiptSpec => []ReceiptsChained
<1>1. ChainInv => ReceiptsChained
  BY DEF ChainInv
<1> QED
  BY <1>1, InitChains, NextKeepsChains, ReceiptTypeCorrect, PTL DEF ReceiptSpec

\* Nobody can hide a receipt: whoever starts at the hash in the agent's Cri
\* and follows prev_hash meets every receipt the agent ever created.
ChainComplete ==
    \A a \in Agents, met \in SUBSET ReceiptIds :
        /\ chain[a].last_receipt_hash # 0 => chain[a].last_receipt_hash \in met
        /\ \A n \in met : receipt[n].prev_hash # 0 => receipt[n].prev_hash \in met
        => ReceiptsOf(a) \subseteq met

\* By the greatest receipt not met: the agent's next one names it.
LEMMA ChainsAreComplete ==
    ASSUME ReceiptTypeOK, ReceiptsChained
    PROVE  ChainComplete
<1> SUFFICES ASSUME NEW a \in Agents, NEW met \in SUBSET ReceiptIds,
                    chain[a].last_receipt_hash # 0 => chain[a].last_receipt_hash \in met,
                    \A n \in met : receipt[n].prev_hash # 0 => receipt[n].prev_hash \in met,
                    ReceiptsOf(a) \ met # {}
             PROVE  FALSE
  BY DEF ChainComplete
<1> DEFINE Missed == {k \in Nat : receipt_counter - k \in ReceiptsOf(a) \ met}
           last == chain[a].last_receipt_hash
<1>1. /\ receipt_counter \in Nat
      /\ \A n \in ReceiptsOf(a) : /\ n \in ReceiptIds /\ receipt[n].actor = a
                                  /\ n \in Nat /\ n # 0 /\ n <= receipt_counter
  BY ReceiptInputsAssumption DEF ReceiptTypeOK, ReceiptsOf, ReceiptIds
<1>2. PICK n \in ReceiptsOf(a) \ met : \A k \in ReceiptsOf(a) : k > n => k \in met
  <2>1. Missed # {}
    <3>1. PICK k \in ReceiptsOf(a) \ met : TRUE
      OBVIOUS
    <3>2. receipt_counter - k \in Nat /\ receipt_counter - (receipt_counter - k) = k
      BY <1>1, <3>1
    <3> QED
      BY <3>1, <3>2
  <2>2. PICK m \in Missed : \A k \in Missed : m <= k
    <3>1. Missed \subseteq Nat
      OBVIOUS
    <3> HIDE DEF Missed
    <3> QED
      BY <2>1, <3>1, LeastElement
  <2>3. ASSUME NEW k \in ReceiptsOf(a), k > receipt_counter - m, k \notin met
        PROVE  FALSE
    <3>1. k \in Nat /\ receipt_counter - k \in Nat /\ m \in Nat
      BY <1>1
    <3>2. receipt_counter - (receipt_counter - k) = k
      BY <1>1, <3>1
    <3>3. receipt_counter - k \in Missed
      BY <2>3, <3>1, <3>2
    <3> QED
      BY <1>1, <2>2, <2>3, <3>1, <3>3
  <2> QED
    BY <2>2, <2>3
<1> DEFINE Later == {k \in ReceiptsOf(a) : k > n}
<1>3. Later # {}
  <2>1. last \in ReceiptsOf(a) /\ n <= last
    BY <1>1 DEF ReceiptsChained, LastBefore
  <2>2. last # n
    BY <1>1, <2>1
  <2> QED
    BY <1>1, <2>1, <2>2
<1>4. PICK k \in Later : \A j \in Later : k <= j
  <2>1. Later \subseteq Nat
    BY <1>1
  <2> HIDE DEF Later
  <2> QED
    BY <1>3, <2>1, LeastElement
<1>5. k \in ReceiptsOf(a) /\ k > n /\ k \in met /\ k \in Nat
  BY <1>1, <1>2, <1>4
<1> DEFINE prev == receipt[k].prev_hash
<1>6. LastBefore(prev, a, k)
  BY <1>1, <1>5 DEF ReceiptsChained
<1>7. prev \in ReceiptsOf(a) /\ prev < k /\ n <= prev /\ prev # 0
  BY <1>1, <1>5, <1>6 DEF LastBefore
<1>8. prev \in met
  BY <1>5, <1>7
<1>9. prev > n
  BY <1>1, <1>2, <1>7, <1>8
<1>10. prev \in Later /\ prev \in Nat
  BY <1>1, <1>7, <1>9
<1>11. k <= prev
  <2> HIDE DEF Later, prev
  <2> QED
    BY <1>4, <1>10
<1> QED
  <2> HIDE DEF prev
  <2> QED
    BY <1>5, <1>7, <1>10, <1>11

\* The whole record of an agent follows from the one hash its Cri keeps.
THEOREM ChainsStayComplete == ReceiptSpec => []ChainComplete
BY ChainsAreComplete, ReceiptTypeCorrect, ChainsHold, PTL

\* Receipts leave the core alone: all that is proved of it holds here.
THEOREM ReceiptStepsAreCoreSteps == ReceiptSpec => Spec
<1>1. ReceiptInit => Init
  BY DEF ReceiptInit
<1>2. [ReceiptNext]_receiptVars => [Next]_vars
  <2>1. CASE ReceiptNext
    BY <2>1 DEF ReceiptNext, CreateReceipt
  <2>2. CASE UNCHANGED receiptVars
    BY <2>2 DEF receiptVars
  <2> QED
    BY <2>1, <2>2
<1> QED
  BY <1>1, <1>2, PTL DEF ReceiptSpec, Spec

-----------------------------------------------------------------------------
(* The clients                                                             *)

LEMMA SentFacts ==
    ASSUME ClientTypeOK
    PROVE  /\ MaxReceipts \in Nat
           /\ \A a \in Agents : sent[a] \in 0 .. MaxReceipts + 1 /\ sent[a] \in Nat
           /\ \A t \in late : /\ t[1] \in Agents /\ t[2] \in Nat
BY ReceiptInputsAssumption DEF ClientTypeOK

\* A transaction of a client is an instruction of the program or, refused,
\* changes nothing of it.
LEMMA ProcessedIsStep ==
    ASSUME NEW a \in Agents, NEW n \in Nat, NEW p \in Payloads, Processed(a, n, p)
    PROVE  [ReceiptNext]_receiptVars
BY DEF Processed, ReceiptNext

LEMMA ClientNextIsStep ==
    ASSUME ClientTypeOK, [ClientNext]_clientVars
    PROVE  [ReceiptNext]_receiptVars
<1>1. CASE Next /\ UNCHANGED <<receipts, clients>>
  BY <1>1 DEF ReceiptNext
<1>2. ASSUME NEW a \in Agents, ClientStep(a)
      PROVE  [ReceiptNext]_receiptVars
  BY <1>2, SentFacts, ProcessedIsStep DEF ClientStep, SendReceipt, Answered
<1>3. ASSUME NEW a \in Agents, TimesOut(a)
      PROVE  [ReceiptNext]_receiptVars
  BY <1>3 DEF TimesOut
<1>4. ASSUME NEW t \in late, ProcessedLate(t[1], t[2])
      PROVE  [ReceiptNext]_receiptVars
  BY <1>4, SentFacts, ProcessedIsStep DEF ProcessedLate
<1>5. CASE UNCHANGED clientVars
  BY <1>5 DEF clientVars
<1> QED
  BY <1>1, <1>2, <1>3, <1>4, <1>5 DEF ClientNext

\* What an answered call returns: the id after the counter, when the
\* program created the receipt, and else nothing.
LEMMA AnswerEffect ==
    ASSUME ClientTypeOK, NEW a \in Agents, Answered(a)
    PROVE  \/ returned' = returned
           \/ /\ returned' = [returned EXCEPT ![a] = returned[a] \cup {sent[a]}]
              /\ sent[a] \in 1 .. MaxReceipts
              /\ \E p \in Payloads : CreateReceipt(a, sent[a], p)
<1>1. PICK p \in Payloads :
        /\ Processed(a, sent[a], p)
        /\ returned' = IF MayCreateReceipt(a, sent[a], p)
                       THEN [returned EXCEPT ![a] = returned[a] \cup {sent[a]}]
                       ELSE returned
  BY DEF Answered, Returned
<1>2. CASE MayCreateReceipt(a, sent[a], p)
  <2>1. CreateReceipt(a, sent[a], p)
    BY <1>1, <1>2 DEF Processed
  <2>2. sent[a] \in 1 .. MaxReceipts
    BY <2>1, CreateReceiptEffect DEF ClientTypeOK
  <2> QED
    BY <1>1, <1>2, <2>1, <2>2
<1>3. CASE ~MayCreateReceipt(a, sent[a], p)
  BY <1>1, <1>3
<1> QED
  BY <1>2, <1>3

LEMMA ClientNextTypeOK ==
    ASSUME ClientTypeOK, [ClientNext]_clientVars
    PROVE  ClientTypeOK'
<1>1. ReceiptTypeOK'
  BY ClientNextIsStep, ReceiptNextTypeOK DEF ClientTypeOK
<1>2. CASE UNCHANGED clients
  BY <1>1, <1>2 DEF ClientTypeOK, clients
<1>3. ASSUME NEW a \in Agents, SendReceipt(a)
      PROVE  ClientTypeOK'
  <2>1. NextReceiptId \in 0 .. MaxReceipts + 1
    BY ReceiptInputsAssumption DEF NextReceiptId, ClientTypeOK, ReceiptTypeOK
  <2> QED
    BY <1>1, <1>3, <2>1 DEF SendReceipt, ClientTypeOK
<1>4. ASSUME NEW a \in Agents, Answered(a)
      PROVE  ClientTypeOK'
  <2>1. returned' \in [Agents -> SUBSET (1 .. MaxReceipts)]
    BY <1>4, AnswerEffect DEF ClientTypeOK
  <2>2. sent' \in [Agents -> 0 .. MaxReceipts + 1]
    BY <1>4, SentFacts DEF Answered, ClientTypeOK
  <2> QED
    BY <1>1, <1>4, <2>1, <2>2 DEF Answered, ClientTypeOK
<1>5. ASSUME NEW a \in Agents, TimesOut(a)
      PROVE  ClientTypeOK'
  <2>1. sent[a] \in 1 .. MaxReceipts + 1
    BY <1>5, SentFacts DEF TimesOut
  <2>2. late' \subseteq Agents \X (1 .. MaxReceipts + 1)
    BY <1>5, <2>1 DEF TimesOut, ClientTypeOK
  <2>3. sent' \in [Agents -> 0 .. MaxReceipts + 1]
    BY <1>5, SentFacts DEF TimesOut, ClientTypeOK
  <2>4. timeouts' \in 0 .. MaxTimeouts
    BY <1>5, ClientInputsAssumption DEF TimesOut, ClientTypeOK
  <2> QED
    BY <1>1, <1>5, <2>2, <2>3, <2>4 DEF TimesOut, ClientTypeOK
<1>6. ASSUME NEW t \in late, ProcessedLate(t[1], t[2])
      PROVE  ClientTypeOK'
  BY <1>1, <1>6 DEF ProcessedLate, ClientTypeOK
<1> QED
  BY <1>2, <1>3, <1>4, <1>5, <1>6 DEF ClientNext, ClientStep, clientVars

LEMMA ClientInitTypeOK ==
    ASSUME ClientInit
    PROVE  ClientTypeOK
<1>1. ReceiptTypeOK
  BY ReceiptInitTypeOK DEF ClientInit
<1>2. sent \in [Agents -> 0 .. MaxReceipts + 1] /\ timeouts \in 0 .. MaxTimeouts
  BY ReceiptInputsAssumption, ClientInputsAssumption DEF ClientInit
<1>3. late = {} /\ returned \in [Agents -> SUBSET (1 .. MaxReceipts)]
  BY DEF ClientInit
<1> QED
  BY <1>1, <1>2, <1>3 DEF ClientTypeOK

\* What a client holds between two of its steps has its type.
THEOREM ClientTypeCorrect == ClientSpec => []ClientTypeOK
BY ClientInitTypeOK, ClientNextTypeOK, PTL DEF ClientSpec

\* Clients that race, give up and have transactions processed late do to the
\* program only what its instructions do.
THEOREM ClientsImplementReceipts == ClientSpec => ReceiptSpec
<1>1. ClientInit => ReceiptInit
  BY DEF ClientInit
<1> QED
  BY <1>1, ClientNextIsStep, ClientTypeCorrect, PTL DEF ClientSpec, ReceiptSpec

\* However the clients' transactions interleave, the receipts are chained.
THEOREM ClientsKeepChains == ClientSpec => []ReceiptsChained
BY ClientsImplementReceipts, ChainsHold, PTL

\* No call returns the id of another client's receipt, or of none.
THEOREM ReturnedIdsAreMine == ClientSpec => []ReturnedIdIsMine
<1>1. ClientInit => ReturnedIdIsMine
  BY DEF ClientInit, ReturnedIdIsMine
<1>2. ClientTypeOK /\ ReturnedIdIsMine /\ [ClientNext]_clientVars => ReturnedIdIsMine'
  <2> SUFFICES ASSUME ClientTypeOK, ReturnedIdIsMine, [ClientNext]_clientVars
               PROVE  ReturnedIdIsMine'
    OBVIOUS
  <2>1. ReceiptTypeOK
    BY DEF ClientTypeOK
  <2>2. \A n \in ReceiptIds : n \in ReceiptIds' /\ receipt'[n] = receipt[n]
    <3>1. CASE UNCHANGED receipts
      BY <3>1 DEF receipts, ReceiptIds
    <3>2. ASSUME NEW a \in Agents, NEW n, NEW p \in Payloads, CreateReceipt(a, n, p)
          PROVE  \A k \in ReceiptIds : k \in ReceiptIds' /\ receipt'[k] = receipt[k]
      BY <2>1, <3>2, CreateReceiptEffect
    <3> QED
      BY <3>1, <3>2, ClientNextIsStep DEF ReceiptNext, receiptVars
  <2>3. \A a \in Agents : ReceiptsOf(a) \subseteq ReceiptsOf(a)'
    BY <2>2 DEF ReceiptsOf
  <2>4. CASE UNCHANGED returned
    BY <2>3, <2>4 DEF ReturnedIdIsMine
  <2>5. ASSUME NEW a \in Agents, Answered(a)
        PROVE  ReturnedIdIsMine'
    <3>1. CASE /\ returned' = [returned EXCEPT ![a] = returned[a] \cup {sent[a]}]
               /\ \E p \in Payloads : CreateReceipt(a, sent[a], p)
      <4>1. sent[a] \in ReceiptIds' /\ receipt'[sent[a]].actor = a
        BY <2>1, <3>1, CreateReceiptEffect
      <4>2. sent[a] \in ReceiptsOf(a)'
        BY <4>1 DEF ReceiptsOf
      <4>3. returned \in [Agents -> SUBSET (1 .. MaxReceipts)]
        BY DEF ClientTypeOK
      <4> QED
        BY <2>3, <3>1, <4>2, <4>3 DEF ReturnedIdIsMine
    <3> QED
      BY <2>4, <2>5, <3>1, AnswerEffect
  <2> QED
    BY <2>4, <2>5
    DEF ClientNext, ClientStep, clientVars, clients, SendReceipt, TimesOut, ProcessedLate
<1> QED
  BY <1>1, <1>2, ClientTypeCorrect, PTL DEF ClientSpec
=============================================================================
