-------------------------------- MODULE MCOrg --------------------------------
(* Small instances of AeonOrg for TLC. *)
EXTENDS AeonOrg

CONSTANTS a1, a2, a3, c1

FirstHoldsThree == [a \in Agents |-> IF a = a1 THEN 3 ELSE 0]

\* A bond that can be slashed into a treasury.
MCRequests == {
    [budget |-> 1, max_per_tx |-> 1, max_total |-> 1, categories |-> {},
     expiry_slot |-> 0, bond_amount |-> 1]}
-----------------------------------------------------------------------------
(* Statements of the documentation that the code does not meet.            *)

\* README.md:97, "dissolve requires the exact complete set": a dissolution
\* pays every member its share of the treasury.
CompleteSetPaid ==
    [][\A o \in OrgIds : org'[o].status # org[o].status =>
        \A a \in Agents :
            Gain(a) >= ShareOf(o, a)]_orgVars

\* instructions/dissolve_org.rs:12, "distribute by share_bps to up to two
\* members (creator + one peer)": a dissolution pays nobody more than its
\* share of the treasury.
NobodyPaidTwice ==
    [][\A o \in OrgIds : org'[o].status # org[o].status =>
        \A a \in Agents :
            Gain(a) <= ShareOf(o, a)]_orgVars
=============================================================================
