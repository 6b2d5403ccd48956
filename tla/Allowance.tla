----------------------------- MODULE Allowance ------------------------------
(***************************************************************************)
(* What a spending authority promises its issuer: an allowance is granted  *)
(* once, with a limit; it can be drawn on while it is open and never past  *)
(* the limit; a closed allowance stays closed.  Nothing about parents,     *)
(* categories, slots or who pays whom.                                     *)
(***************************************************************************)
EXTENDS Naturals

CONSTANTS Ids, MaxAmount

VARIABLE allowance

Ungranted == [state |-> "ungranted", limit |-> 0, used |-> 0]

Init == allowance = [i \in Ids |-> Ungranted]

OpenIds == {i \in Ids : allowance[i].state = "open"}

Grant(i) ==
    /\ allowance[i] = Ungranted
    /\ \E limit \in 0 .. MaxAmount :
        allowance' = [allowance EXCEPT ![i] =
                        [state |-> "open", limit |-> limit, used |-> 0]]

\* A draw may leave the allowance open or close it for good.
Draw(i) ==
    \E amount \in 1 .. MaxAmount, after \in {"open", "closed"} :
        /\ allowance[i].used + amount <= allowance[i].limit
        /\ allowance' = [allowance EXCEPT ![i] =
                            [state |-> after, limit |-> allowance[i].limit,
                             used  |-> allowance[i].used + amount]]

\* Closing may take several allowances at once.
Close(S) ==
    allowance' = [i \in Ids |->
                    IF i \in S THEN [state |-> "closed",
                                     limit |-> allowance[i].limit,
                                     used  |-> allowance[i].used]
                    ELSE allowance[i]]

Next ==
    \/ \E i \in Ids : Grant(i)
    \/ \E i \in OpenIds : Draw(i)
    \/ \E S \in SUBSET OpenIds : Close(S)

Spec == Init /\ [][Next]_allowance
=============================================================================
