----------------------------- MODULE EscrowLock -----------------------------
(***************************************************************************)
(* What an escrow promises its two parties: the amount that was put into   *)
(* the vault leaves it once, in full, to the payee or back to the payer,   *)
(* and nothing else ever lowers the vault.  Nothing about conditions,      *)
(* deadlines, authorities or reputation.                                   *)
(***************************************************************************)
EXTENDS Integers

CONSTANTS Ids, Parties, MaxAmount

VARIABLES lock, vault, purse

vars == <<lock, vault, purse>>

NoLock == [state |-> "none"]

Init ==
    /\ lock = [i \in Ids |-> NoLock]
    /\ vault = [i \in Ids |-> 0]

Move(i, party, amount) ==
    /\ vault' = [vault EXCEPT ![i] = vault[i] + amount]
    /\ purse' = [purse EXCEPT ![party] = purse[party] - amount]

Hold(i) ==
    \E payer, payee \in Parties, amount \in 1 .. MaxAmount :
        /\ lock[i] = NoLock
        /\ payer # payee
        /\ lock' = [lock EXCEPT ![i] = [state |-> "held", payer |-> payer,
                                        payee |-> payee, amount |-> amount]]
        /\ Move(i, payer, amount)

Close(i, state, party) ==
    /\ lock' = [lock EXCEPT ![i] = [state |-> state, payer |-> lock[i].payer,
                                    payee |-> lock[i].payee, amount |-> lock[i].amount]]
    /\ Move(i, party, 0 - lock[i].amount)

Settle(i) ==
    /\ lock[i].state = "held"
    /\ \/ Close(i, "paid", lock[i].payee)
       \/ Close(i, "refunded", lock[i].payer)

\* What the parties do otherwise; anyone may add to a vault.
Elsewhere ==
    /\ lock' = lock
    /\ \A i \in Ids : vault'[i] >= vault[i]

Next == (\E i \in Ids : Hold(i) \/ Settle(i)) \/ Elsewhere

Spec == Init /\ [][Next]_vars
=============================================================================
