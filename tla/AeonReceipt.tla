---------------------------- MODULE AeonReceipt -----------------------------
(***************************************************************************)
(* Receipts, composed with the authority core.  Receipt ids are global and *)
(* dense; each receipt is linked to the one its actor created before, by   *)
(* the hash that the actor's Cri keeps.                                    *)
(*                                                                         *)
(* A hash is modelled by what it is a hash of.  The program computes it    *)
(* over a domain separator, the receipt id, the actor, the slot, the       *)
(* payload and the previous hash, so it stands for one receipt: hash n is  *)
(* the hash of receipt n, and 0 the 32 zero bytes of a new Cri.            *)
(***************************************************************************)
EXTENDS AeonAuthority

CONSTANTS
    MaxReceipts,  \* where receipt_counter + 1 overflows, scaled down
    MAX_PAYLOAD,  \* 1024
    Payloads      \* payloads create_receipt is called with, by their length

ASSUME ReceiptInputsAssumption ==
    /\ MaxReceipts \in Nat
    /\ MAX_PAYLOAD \in Nat
    /\ Payloads \subseteq Nat

VARIABLES
    receipt_counter,  \* Config.receipt_counter
    receipt,          \* the Receipt of each id created
    chain             \* the receipt fields of each agent's Cri

receipts == <<receipt_counter, receipt, chain>>
receiptVars == <<vars, receipts>>

ReceiptIds == DOMAIN receipt

Hash == 0 .. MaxReceipts

Receipt == [actor : Agents, slot : 1 .. MaxSlot, payload : Nat, prev_hash : Hash]

Chain == [last_receipt_hash : Hash, receipt_count : 0 .. MaxReceipts]

ReceiptTypeOK ==
    /\ TypeOK
    /\ receipt_counter \in 0 .. MaxReceipts
    /\ receipt \in [1 .. receipt_counter -> Receipt]
    /\ chain \in [Agents -> Chain]

ReceiptInit ==
    /\ Init
    /\ receipt_counter = 0
    /\ receipt = [n \in 1 .. 0 |-> 0]
    /\ chain = [a \in Agents |-> [last_receipt_hash |-> 0, receipt_count |-> 0]]

ExpectedId_Mutant(receipt_id) == receipt_id \in 1 .. receipt_counter + 1
ExpectedId(receipt_id) == receipt_id = receipt_counter + 1

PrevHash_Mutant(actor) == receipt_counter
PrevHash(actor) == chain[actor].last_receipt_hash

MayCreateReceipt(actor, receipt_id, payload) ==
    /\ ~paused
    /\ payload > 0 /\ payload <= MAX_PAYLOAD
    /\ receipt_counter < MaxReceipts
    /\ ExpectedId(receipt_id)
    /\ actor \in Registered
    /\ chain[actor].receipt_count < MaxReceipts

CreateReceipt(actor, receipt_id, payload) ==
    /\ MayCreateReceipt(actor, receipt_id, payload)
    /\ receipt' = Added(receipt, receipt_id,
            [actor |-> actor, slot |-> slot, payload |-> payload,
             prev_hash |-> PrevHash(actor)])
    /\ chain' = [chain EXCEPT ![actor] =
            [last_receipt_hash |-> receipt_id,
             receipt_count |-> chain[actor].receipt_count + 1]]
    /\ receipt_counter' = receipt_id
    /\ UNCHANGED vars

ReceiptNext ==
    \/ Next /\ UNCHANGED receipts
    \/ \E a \in Agents, n \in Nat, p \in Payloads : CreateReceipt(a, n, p)

ReceiptSpec == ReceiptInit /\ [][ReceiptNext]_receiptVars
-----------------------------------------------------------------------------
ReceiptsOf(a) == {n \in ReceiptIds : receipt[n].actor = a}

\* m is the last receipt of a before n, or 0 when there is none.
LastBefore(m, a, n) ==
    /\ m # 0 => m \in ReceiptsOf(a) /\ m < n
    /\ \A k \in ReceiptsOf(a) : k < n => k <= m

\* Every agent's receipts form one chain, however the receipts of several
\* agents interleave: each names the agent's previous one, the Cri names the
\* last one and counts them all, and the chain follows the clock.
ReceiptsChained ==
    /\ \A n \in ReceiptIds :
        /\ LastBefore(receipt[n].prev_hash, receipt[n].actor, n)
        /\ \A k \in ReceiptIds : k < n => receipt[k].slot <= receipt[n].slot
    /\ \A a \in Agents :
        /\ LastBefore(chain[a].last_receipt_hash, a, receipt_counter + 1)
        /\ chain[a].receipt_count = Cardinality(ReceiptsOf(a))
=============================================================================
