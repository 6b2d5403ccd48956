---------------------------- MODULE MCRevokeTree -----------------------------
(* Small instances of AeonRevokeTree for TLC. *)
EXTENDS AeonRevokeTree

CONSTANTS a1, a2, c1

NoTokens == [a \in Agents |-> 0]

\* Terms that admit delegation; they may expire under the call.
MCRequests == {
    [budget |-> 1, max_per_tx |-> 1, max_total |-> 1, categories |-> {},
     expiry_slot |-> 1, bond_amount |-> 0]}
=============================================================================
