------------------------------ MODULE SplToken ------------------------------
(***************************************************************************)
(* The part of the SPL token program that the handlers call: one mint,     *)
(* balances kept by token account, and `transfer_checked`.  The program is *)
(* external; it is modelled from the way the handlers use it.              *)
(***************************************************************************)
EXTENDS Naturals

\* A transfer is accepted when the source holds the amount and the addition
\* in the destination does not overflow.  A transfer from an account to
\* itself needs the amount too, and changes nothing.
TransferAccepted(bal, from, to, amount, max) ==
    /\ amount <= bal[from]
    /\ from # to => bal[to] + amount <= max

AfterTransfer(bal, from, to, amount) ==
    IF from = to THEN bal
    ELSE [bal EXCEPT ![from] = bal[from] - amount,
                     ![to]   = bal[to] + amount]
=============================================================================
