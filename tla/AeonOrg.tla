------------------------------- MODULE AeonOrg -------------------------------
(***************************************************************************)
(* Organizations, composed with the authority core.  An organization has   *)
(* members with a role and a share, and a treasury that anyone may pay     *)
(* into.  Its Admins split the treasury among members while it is Active   *)
(* and dissolve it, which pays out shares; what is left is reclaimed.      *)
(* Only create_org reads the pause flag.                                   *)
(***************************************************************************)
EXTENDS AeonAuthority

CONSTANTS
    FULL_SHARE_BPS,  \* 10_000: the share that is the whole; scaled down
    MaxMembers,      \* the largest member_count: u16::MAX, scaled down
    Shares,          \* the share_bps the instructions are called with
    OrgAmounts       \* the amounts put into treasuries and split

ASSUME OrgInputsAssumption ==
    /\ FULL_SHARE_BPS \in Nat \ {0}
    /\ MaxMembers \in Nat \ {0}
    /\ Shares \subseteq Nat
    /\ OrgAmounts \subseteq U64

VARIABLES
    org_counter,  \* Config.org_counter
    org,          \* the Organization of each id created
    member        \* by organization and agent, the OrgMember

orgs == <<org_counter, org, member>>
orgVars == <<vars, orgs>>

OrgIds == DOMAIN org

OrgStatus == {"Active", "Dissolving", "Closed"}
MemberRole == {"Admin", "Member", "Viewer"}

Organization ==
    [creator : Agents, member_count : 1 .. MaxMembers,
     total_share_bps : 0 .. FULL_SHARE_BPS, status : OrgStatus]

\* An account that was never created has role "None".
OrgMember == [role : MemberRole \cup {"None"}, share_bps : 0 .. FULL_SHARE_BPS]

NotMember == [role |-> "None", share_bps |-> 0]

OrgTypeOK ==
    /\ TypeOK
    /\ org_counter \in 0 .. MaxOrgs
    /\ org \in [1 .. org_counter -> Organization]
    /\ member \in [1 .. org_counter -> [Agents -> OrgMember]]

OrgInit ==
    /\ Init
    /\ org_counter = 0
    /\ org = [o \in 1 .. 0 |-> 0]
    /\ member = [o \in 1 .. 0 |-> 0]

Treasury(o) == balance[OrgTreasury(o)]

IsMember(o, agent) == member[o][agent].role # "None"

Administers_Mutant(admin, o) == member[o][admin].role = "Admin"

\* What join_org, set_member_share, org_split and dissolve_org ask of their
\* signer.
Administers(admin, o) ==
    /\ org[o].status = "Active"
    /\ member[o][admin].role = "Admin"

(***************************************************************************)
(* Members and their shares                                                *)
(***************************************************************************)
\* A creator that asks for no share gets the whole.
CreateOrg(creator, creator_share_bps) ==
    LET o == org_counter + 1
        share == IF creator_share_bps = 0 THEN FULL_SHARE_BPS ELSE creator_share_bps
    IN  /\ ~paused
        /\ creator_share_bps <= FULL_SHARE_BPS
        /\ o <= MaxOrgs
        /\ creator \in Registered
        /\ org_counter' = o
        /\ org' = Added(org, o, [creator |-> creator, member_count |-> 1,
                                 total_share_bps |-> share, status |-> "Active"])
        /\ member' = Added(member, o, [a \in Agents |->
                IF a = creator THEN [role |-> "Admin", share_bps |-> share]
                               ELSE NotMember])
        /\ UNCHANGED vars

HasRoom_Mutant(o, share_bps) == org[o].member_count < MaxMembers

\* The checked_add of both totals, and the limit of the shares.
HasRoom(o, share_bps) ==
    /\ org[o].total_share_bps + share_bps <= FULL_SHARE_BPS
    /\ org[o].member_count < MaxMembers

JoinOrg(admin, o, agent, role, share_bps) ==
    /\ Administers(admin, o)
    /\ agent \in Registered
    /\ ~IsMember(o, agent)
    /\ share_bps <= FULL_SHARE_BPS
    /\ HasRoom(o, share_bps)
    /\ org' = [org EXCEPT ![o].total_share_bps = org[o].total_share_bps + share_bps,
                          ![o].member_count = org[o].member_count + 1]
    /\ member' = [member EXCEPT ![o][agent] = [role |-> role, share_bps |-> share_bps]]
    /\ UNCHANGED <<vars, org_counter>>

Reshared_Mutant(total, old, new) == total + new
Reshared(total, old, new) == (total - old) + new

SetMemberShare(admin, o, target, new_share_bps) ==
    LET old == member[o][target].share_bps
        new_total == Reshared(org[o].total_share_bps, old, new_share_bps)
    IN  /\ Administers(admin, o)
        /\ IsMember(o, target)
        /\ new_share_bps <= FULL_SHARE_BPS
        /\ old <= org[o].total_share_bps
        /\ new_total <= FULL_SHARE_BPS
        /\ org' = [org EXCEPT ![o].total_share_bps = new_total]
        /\ member' = [member EXCEPT ![o][target].share_bps = new_share_bps]
        /\ UNCHANGED <<vars, org_counter>>

(***************************************************************************)
(* The treasury                                                            *)
(***************************************************************************)
\* Tokens move between a treasury and another account, and nothing else
\* changes but, for a dissolution, the status.
TreasuryMoves(from, to, amount) ==
    /\ Accepted(from, to, amount)
    /\ balance' = AfterTransfer(balance, from, to, amount)
    /\ UNCHANGED <<config, cri, authority, bond, slot, orgs>>

DepositToOrg(agent, o, amount) ==
    /\ amount > 0
    /\ org[o].status = "Active"
    /\ IsMember(o, agent)
    /\ TreasuryMoves(Wallet(agent), OrgTreasury(o), amount)

MayReceive_Mutant(o, recipient) == TRUE
MayReceive(o, recipient) == member[o][recipient].role \in {"Admin", "Member"}

OrgSplit(admin, o, recipient, amount) ==
    /\ amount > 0
    /\ Administers(admin, o)
    /\ MayReceive(o, recipient)
    /\ TreasuryMoves(OrgTreasury(o), Wallet(recipient), amount)

payout_share(treasury, bps) == (treasury * bps) \div FULL_SHARE_BPS

StatusWhenDissolved_Mutant == "Dissolving"
StatusWhenDissolved == "Closed"

\* Both shares are taken of the treasury as it was when the handler began.
ShareOf(o, agent) == payout_share(Treasury(o), member[o][agent].share_bps)

AdminPaid(admin, o) ==
    AfterTransfer(balance, OrgTreasury(o), Wallet(admin), ShareOf(o, admin))

\* b is the optional member_b: any member, the admin and Viewers included.
MayDissolve(admin, o, b) ==
    /\ Administers(admin, o)
    /\ Accepted(OrgTreasury(o), Wallet(admin), ShareOf(o, admin))
    /\ b # NoAgent =>
        /\ IsMember(o, b)
        /\ TransferAccepted(AdminPaid(admin, o), OrgTreasury(o), Wallet(b),
                            ShareOf(o, b), MaxU64)
        /\ ShareOf(o, admin) + ShareOf(o, b) <= Treasury(o)

DissolveOrg(admin, o, b) ==
    /\ MayDissolve(admin, o, b)
    /\ balance' = IF b = NoAgent THEN AdminPaid(admin, o)
                  ELSE AfterTransfer(AdminPaid(admin, o), OrgTreasury(o), Wallet(b),
                                     ShareOf(o, b))
    /\ org' = [org EXCEPT ![o].status = StatusWhenDissolved]
    /\ UNCHANGED <<config, cri, authority, bond, slot, org_counter, member>>

\* The destination is any token account of the mint.
MayReclaim(agent, o, destination) ==
    /\ org[o].status = "Closed"
    /\ IsMember(o, agent)
    /\ agent = org[o].creator \/ member[o][agent].role = "Admin"
    /\ Treasury(o) > 0
    /\ Accepted(OrgTreasury(o), destination, Treasury(o))

ReclaimOrgResidual(agent, o, destination) ==
    /\ MayReclaim(agent, o, destination)
    /\ TreasuryMoves(OrgTreasury(o), destination, Treasury(o))

(***************************************************************************)
(* The treasuries are token accounts like others: they may be donated to,  *)
(* and a bond may be slashed into one.                                     *)
(***************************************************************************)
IntoTreasury ==
    \E a \in Agents, o \in OrgIds :
        \/ \E amount \in OrgAmounts : SplTransfer(a, OrgTreasury(o), amount)
        \/ \E i \in AuthorityIds : SlashBond(a, i, OrgTreasury(o))

Destinations == Wallets \cup BondVaults \cup {OrgTreasury(o) : o \in OrgIds}

OrgNext ==
    \/ (Next \/ IntoTreasury) /\ UNCHANGED orgs
    \/ \E a \in Agents, share \in Shares : CreateOrg(a, share)
    \/ \E a, b \in Agents, o \in OrgIds :
        \/ \E role \in MemberRole, share \in Shares : JoinOrg(a, o, b, role, share)
        \/ \E share \in Shares : SetMemberShare(a, o, b, share)
        \/ \E amount \in OrgAmounts : OrgSplit(a, o, b, amount)
    \/ \E a \in Agents, o \in OrgIds :
        \/ \E amount \in OrgAmounts : DepositToOrg(a, o, amount)
        \/ \E b \in Agents \cup {NoAgent} : DissolveOrg(a, o, b)
        \/ \E d \in Destinations : ReclaimOrgResidual(a, o, d)

OrgSpec == OrgInit /\ [][OrgNext]_orgVars
-----------------------------------------------------------------------------
(***************************************************************************)
(* Safety                                                                  *)
(***************************************************************************)
ShareBps(o) == [a \in Agents |-> member[o][a].share_bps]

MembersOf(o) == {a \in Agents : IsMember(o, a)}

\* The totals that create_org, join_org and set_member_share keep up to date
\* one step at a time are those of the member accounts, in any order of
\* joins and changes: the sum of the shares, never above the whole, and the
\* number of members.
SharesAddUp ==
    \A o \in OrgIds :
        /\ org[o].total_share_bps = Cardinality(Units(Agents, ShareBps(o), FULL_SHARE_BPS))
        /\ org[o].member_count = Cardinality(MembersOf(o))

\* No organization traps its tokens, and no pause does: while it is Active
\* its creator can dissolve it, and what the treasury holds or is given
\* afterwards its creator can reclaim.
TreasuryRecoverable ==
    \A o \in OrgIds :
        IF org[o].status = "Active"
        THEN MayDissolve(org[o].creator, o, NoAgent)
        ELSE Treasury(o) > 0 =>
                MayReclaim(org[o].creator, o, Wallet(org[o].creator))

Gain(a) == balance'[Wallet(a)] - balance[Wallet(a)]
Paid == {a \in Agents : balance'[Wallet(a)] > balance[Wallet(a)]}

SplitPays(o) ==
    /\ org'[o] = org[o]
    /\ \E a \in Agents :
        /\ member[o][a].role \in {"Admin", "Member"}
        /\ Paid = {a} /\ Gain(a) = Treasury(o) - Treasury(o)'

DissolutionPays(o) ==
    /\ org[o].status = "Active" /\ org'[o].status = "Closed"
    /\ \A a \in Paid :
        \/ Gain(a) = ShareOf(o, a)
        \/ Paid = {a} /\ Gain(a) = ShareOf(o, a) + ShareOf(o, a)

ReclaimEmpties(o) == org[o].status = "Closed" /\ Treasury(o)' = 0

\* A treasury falls in three ways only: by a split, all of it to one member
\* who is no Viewer; by the dissolution, to members and by their shares of
\* the whole treasury; and, once Closed, all at once.
TreasuryPaysMembers ==
    [][\A o \in OrgIds :
        Treasury(o)' < Treasury(o) =>
            SplitPays(o) \/ DissolutionPays(o) \/ ReclaimEmpties(o)]_orgVars

\* A dissolved organization stays as it was dissolved: nobody joins, no
\* share changes and it is not dissolved again.
ClosedIsFinal ==
    [][\A o \in OrgIds :
        org[o].status # "Active" => org'[o] = org[o] /\ member'[o] = member[o]]_orgVars
=============================================================================
