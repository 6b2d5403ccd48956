---------------------------- MODULE MCAuthority -----------------------------
(* Small instances of AeonAuthority for TLC. *)
EXTENDS AeonAuthority, FiniteSetsExt

CONSTANTS a1, a2, c1, c2

Request(budget, per_tx, total, cats, expiry, posted) ==
    [budget |-> budget, max_per_tx |-> per_tx, max_total |-> total,
     categories |-> cats, expiry_slot |-> expiry, bond_amount |-> posted]

FirstHoldsTwo == [a \in Agents |-> IF a = a1 THEN 2 ELSE 0]

\* Open terms with a bond; a cap below the budget, a category and an expiry.
MCRequests == {
    Request(2, 2, 2, {}, 0, 1),
    Request(2, 1, 1, {c1}, 1, 0)}

\* Chains of delegations: each request narrows something the others leave
\* open, and only the third of them fits under every parent.  The last asks
\* for a bond, under a mint that admits none.
ChainRequests == {
    Request(2, 2, 2, {}, 0, 0),
    Request(2, 1, 0, {c1, c2}, 0, 0),
    Request(1, 2, 1, {c1}, 0, 0),
    Request(1, 1, 1, {c1}, 0, 1)}
-----------------------------------------------------------------------------
(* Statements of the documentation that the code does not meet.            *)

\* docs/SECURITY_MODEL.md:143, "parents enforce remaining at spend time":
\* a parent and its direct children together spend no more than its budget.
SubtreeWithinBudget ==
    \A i \in AuthorityIds :
        LET children == {c \in AuthorityIds : authority[c].parent_id = i}
        IN  authority[i].spent + MapThenSumSet(LAMBDA c : authority[c].spent, children)
                <= authority[i].budget

\* docs/SECURITY_MODEL.md:80, "revoke_authority may pass remaining_accounts
\* as direct children to cascade": the agent of an Active authority can
\* revoke it together with an Active direct child.
CascadeAccepted ==
    \A i, c \in AuthorityIds :
        (/\ authority[c].parent_id = i
         /\ authority[i].status = "Active"
         /\ authority[c].status = "Active")
            => ENABLED RevokeAuthority(authority[i].agent, i, {c})

\* README.md:40, the CRI "accumulates volume and commitments": when a step
\* raises some agent's volume, every wallet the step pays into belongs to an
\* agent whose volume grows by at least as much.
EveryLegCounted ==
    [][(\E a \in Registered : cri'[a].volume # cri[a].volume) =>
        \A a \in Registered :
            balance'[Wallet(a)] > balance[Wallet(a)] =>
                cri'[a].volume - cri[a].volume
                    >= balance'[Wallet(a)] - balance[Wallet(a)]]_vars
=============================================================================
