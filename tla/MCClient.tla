------------------------------ MODULE MCClient -------------------------------
(* Small instances of AeonClient for TLC. *)
EXTENDS AeonClient

CONSTANTS a1, a2, c1

NoTokens == [a \in Agents |-> 0]
=============================================================================
