----------------------------- MODULE AeonClient ------------------------------
(***************************************************************************)
(* Clients of the TypeScript SDK creating receipts.  createReceipt reads   *)
(* the counter (nextIds), sends a transaction with the id after it and     *)
(* awaits the outcome; other transactions may be processed in between.     *)
(* createEscrow, createOrg and issueAuthority get their ids the same way.  *)
(*                                                                         *)
(* The network is external: a transaction that was sent is processed       *)
(* later, once, if it is not dropped, and the caller may stop waiting for  *)
(* it before it is processed.  A caller whose call failed calls again.     *)
(***************************************************************************)
EXTENDS AeonReceipt

CONSTANTS
    Requests,    \* the number of receipts each client wants
    MaxTimeouts  \* bound of the calls that give up waiting

ASSUME ClientInputsAssumption == Requests \in Nat /\ MaxTimeouts \in Nat

VARIABLES
    sent,      \* by client, the id in the transaction it awaits; 0: none
    late,      \* transactions <<client, id>> that nobody awaits any more
    returned,  \* by client, the receiptIds its calls have returned
    timeouts   \* the calls that gave up

clients == <<sent, late, returned, timeouts>>
clientVars == <<receiptVars, clients>>

ClientTypeOK ==
    /\ ReceiptTypeOK
    /\ sent \in [Agents -> 0 .. MaxReceipts + 1]
    /\ late \subseteq Agents \X (1 .. MaxReceipts + 1)
    /\ returned \in [Agents -> SUBSET (1 .. MaxReceipts)]
    /\ timeouts \in 0 .. MaxTimeouts

ClientInit ==
    /\ ReceiptInit
    /\ sent = [a \in Agents |-> 0]
    /\ late = {}
    /\ returned = [a \in Agents |-> {}]
    /\ timeouts = 0

NextReceiptId_Mutant == receipt_counter
NextReceiptId == receipt_counter + 1

\* The first half of createReceipt: nextIds, and the transaction is sent.
SendReceipt(a) ==
    /\ sent[a] = 0
    /\ Cardinality(returned[a]) < Requests
    /\ sent' = [sent EXCEPT ![a] = NextReceiptId]
    /\ UNCHANGED <<receiptVars, late, returned, timeouts>>

\* The program refuses a transaction whose instruction fails.
Processed(a, receipt_id, payload) ==
    \/ CreateReceipt(a, receipt_id, payload)
    \/ ~MayCreateReceipt(a, receipt_id, payload) /\ UNCHANGED receiptVars

Returned_Mutant(a, payload) == [returned EXCEPT ![a] = returned[a] \cup {sent[a]}]

\* A transaction that was refused throws before the id is returned.
Returned(a, payload) ==
    IF MayCreateReceipt(a, sent[a], payload)
    THEN [returned EXCEPT ![a] = returned[a] \cup {sent[a]}]
    ELSE returned

\* The second half: the outcome arrives, the id or an exception.
Answered(a) ==
    /\ sent[a] # 0
    /\ \E payload \in Payloads :
        /\ Processed(a, sent[a], payload)
        /\ returned' = Returned(a, payload)
    /\ sent' = [sent EXCEPT ![a] = 0]
    /\ UNCHANGED <<late, timeouts>>

\* The call gives up waiting; its transaction is dropped or still under way.
TimesOut(a) ==
    /\ sent[a] # 0
    /\ timeouts < MaxTimeouts
    /\ timeouts' = timeouts + 1
    /\ late' \in {late, late \cup {<<a, sent[a]>>}}
    /\ sent' = [sent EXCEPT ![a] = 0]
    /\ UNCHANGED <<receiptVars, returned>>

ProcessedLate(a, receipt_id) ==
    /\ <<a, receipt_id>> \in late
    /\ \E payload \in Payloads : Processed(a, receipt_id, payload)
    /\ late' = late \ {<<a, receipt_id>>}
    /\ UNCHANGED <<sent, returned, timeouts>>

ClientStep(a) == SendReceipt(a) \/ Answered(a)

ClientNext ==
    \/ Next /\ UNCHANGED <<receipts, clients>>
    \/ \E a \in Agents : ClientStep(a) \/ TimesOut(a)
    \/ \E t \in late : ProcessedLate(t[1], t[2])

\* A caller keeps calling until it has its receipts, and the network
\* processes what it did not drop.
ClientFairness == \A a \in Agents : WF_clientVars(ClientStep(a))

ClientSpec == ClientInit /\ [][ClientNext]_clientVars /\ ClientFairness
-----------------------------------------------------------------------------
\* The id that a call returned is that of a receipt of the caller, although
\* other clients asked for the same id and a call that timed out may have
\* been processed after its caller asked again (`receipt_id == expected_id`
\* in create_receipt.rs).
ReturnedIdIsMine ==
    \A a \in Agents : returned[a] \subseteq ReceiptsOf(a)

\* client/README.md:274, "Concurrent txs with the same id fail safely [...];
\* retry with a fresh counter": unless the program is paused again and
\* again, every registered client gets all its receipts, whoever it races.
EveryRequestServed ==
    \A a \in Agents :
        <>[](~paused /\ a \in Registered) => <>(Cardinality(returned[a]) = Requests)
=============================================================================
