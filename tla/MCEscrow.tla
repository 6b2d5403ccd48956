------------------------------ MODULE MCEscrow ------------------------------
(* Small instances of AeonEscrow for TLC. *)
EXTENDS AeonEscrow

CONSTANTS a1, a2, c1, w1, w2

FirstHoldsOne == [a \in Agents |-> IF a = a1 THEN 1 ELSE 0]

\* One authority at a time: no caps but the budget, and a bond.
MCRequests == {
    [budget |-> 2, max_per_tx |-> 2, max_total |-> 2, categories |-> {},
     expiry_slot |-> 1, bond_amount |-> 1]}

\* Slots 1 and 2 are at and after this deadline.
MCTerms == {
    [condition |-> "Receipt", data |-> w1, expiry_slot |-> 1],
    [condition |-> "Timeout", data |-> w1, expiry_slot |-> 1]}
-----------------------------------------------------------------------------
\* docs/FINAL_ARCHITECTURE.md:114, "All money paths [...] check paused":
\* nothing leaves an escrow vault in a step that starts paused.
PausedStopsMoney ==
    [][paused => \A i \in EscrowIds :
            balance'[EscrowVault(i)] >= balance[EscrowVault(i)]]_escrowVars
=============================================================================
