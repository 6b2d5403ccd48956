----------------------------- MODULE AeonState ------------------------------
(***************************************************************************)
(* The accounts of the AEON program and the pure rules its handlers share: *)
(* who may spend how much under an authority, what a child authority       *)
(* receives, how a reputation account (CRI) is credited.                   *)
(*                                                                         *)
(* An account is a record that keeps the fields some rule reads.  Left     *)
(* out: bumps, hashes of names, last_active_slot and created_slot (no      *)
(* handler reads them), blocked_recipients and require_min_reserve (no     *)
(* instruction can make them anything but empty and 0).                    *)
(***************************************************************************)
EXTENDS Naturals, FiniteSets, SplToken

CONSTANTS
    Agents,              \* public keys that sign and hold tokens
    NoAgent,             \* an Option<Pubkey> that is None
    Categories,          \* 16-byte spending categories
    MAX_AUTHORITY_DEPTH, \* constants.rs: 3
    MAX_CATEGORIES,      \* constants.rs: 8
    MaxU64,              \* the largest amount: u64::MAX, scaled down
    MaxAuthorities,      \* where authority_counter + 1 overflows, scaled down
    MaxEscrows,          \* where escrow_counter + 1 overflows, scaled down
    MaxOrgs,             \* where org_counter + 1 overflows, scaled down
    MintIsClassic        \* the mint belongs to the classic token program

ASSUME LimitsAssumption ==
    /\ MAX_AUTHORITY_DEPTH \in Nat
    /\ MAX_CATEGORIES \in Nat
    /\ MaxU64 \in Nat
    /\ MaxAuthorities \in Nat
    /\ MaxEscrows \in Nat
    /\ MaxOrgs \in Nat
    /\ MintIsClassic \in BOOLEAN

ASSUME NoAgentAssumption == NoAgent \notin Agents

U64 == 0 .. MaxU64

\* Numbers f[x] up to n taken apart: one element per unit of each.  The
\* cardinality is the sum of f over S.
Units(S, f, n) == {unit \in S \X (1 .. n) : unit[2] <= f[unit[1]]}

(***************************************************************************)
(* Token accounts: one per agent, and the vaults the program's PDAs own.   *)
(***************************************************************************)
Wallet(a) == <<"wallet", a>>
BondVault(i) == <<"bond", i>>
EscrowVault(i) == <<"escrow", i>>
OrgTreasury(o) == <<"treasury", o>>

Wallets == {"wallet"} \X Agents
BondVaults == {"bond"} \X (1 .. MaxAuthorities)
EscrowVaults == {"escrow"} \X (1 .. MaxEscrows)
OrgTreasuries == {"treasury"} \X (1 .. MaxOrgs)
Account == Wallets \cup BondVaults \cup EscrowVaults \cup OrgTreasuries

(***************************************************************************)
(* CRI                                                                     *)
(***************************************************************************)
Cri == [settlements : U64, commitments : U64, failed : U64, volume : U64]

NewCri == [settlements |-> 0, commitments |-> 0, failed |-> 0, volume |-> 0]

\* Mutants of this module and of those below have names ending in _Mutant:
\* each is its neighbour with one plausible bug, put in the neighbour's place
\* to see that a property notices.  No specification uses them.
CanSettle_Mutant(c, amount) == c.settlements < MaxU64
Committed_Mutant(c, amount) == [c EXCEPT !.commitments = c.commitments + 1]

\* The checked_add of a counter and of the volume.
CanCommit(c, amount) == c.commitments < MaxU64 /\ c.volume + amount <= MaxU64
CanSettle(c, amount) == c.settlements < MaxU64 /\ c.volume + amount <= MaxU64

Committed(c, amount) ==
    [c EXCEPT !.commitments = c.commitments + 1, !.volume = c.volume + amount]

Settled(c, amount) ==
    [c EXCEPT !.settlements = c.settlements + 1, !.volume = c.volume + amount]

(***************************************************************************)
(* Authorities.  parent_id 0 marks a root, expiry_slot 0 never expires, an *)
(* empty set of categories admits every category.                          *)
(***************************************************************************)
AuthorityStatus == {"Active", "Revoked", "Expired", "Exhausted"}

Authority ==
    [agent : Agents, parent_id : 0 .. MaxAuthorities,
     depth : 0 .. MAX_AUTHORITY_DEPTH,
     budget : U64, spent : U64, max_per_tx : U64, max_total : U64,
     categories : SUBSET Categories, expiry_slot : Nat,
     status : AuthorityStatus, bond_amount : U64]

\* What the caller of issue_authority asks for.
IssueRequest ==
    [budget : U64, max_per_tx : U64, max_total : U64,
     categories : SUBSET Categories, expiry_slot : Nat, bond_amount : U64]

PastExpiry(auth, now) == auth.expiry_slot # 0 /\ now > auth.expiry_slot

CategoryAllowed(auth, category) ==
    auth.categories = {} \/ category \in auth.categories

Usable_Mutant(auth, payer, now) == auth.agent = payer /\ ~PastExpiry(auth, now)
WithinTerms_Mutant(auth, amount) ==
    amount <= auth.max_per_tx /\ auth.spent + amount <= auth.budget
AfterSpend_Mutant(auth, amount) ==
    [auth EXCEPT
        !.spent  = auth.spent + amount,
        !.status = IF auth.spent + amount > auth.budget THEN "Exhausted"
                                                        ELSE auth.status]

Usable(auth, payer, now) ==
    /\ auth.agent = payer
    /\ ~PastExpiry(auth, now)
    /\ auth.status = "Active"

WithinTerms(auth, amount) ==
    /\ amount <= auth.max_per_tx
    /\ auth.spent + amount <= MaxU64
    /\ auth.spent + amount <= auth.max_total
    /\ auth.spent + amount <= auth.budget

\* The gate in front of every transfer made under an authority.
SpendAllowed(auth, payer, amount, category, now, funds) ==
    /\ Usable(auth, payer, now)
    /\ WithinTerms(auth, amount)
    /\ CategoryAllowed(auth, category)
    /\ amount <= funds

\* The commit after the transfer: spent grows, a used-up budget exhausts it.
AfterSpend(auth, amount) ==
    [auth EXCEPT
        !.spent  = auth.spent + amount,
        !.status = IF auth.spent + amount >= auth.budget THEN "Exhausted"
                                                         ELSE auth.status]

Lesser(m, n) == IF m <= n THEN m ELSE n

NewAuthority(agent, parent_id, depth, per_tx, total, cats, req) ==
    [agent |-> agent, parent_id |-> parent_id, depth |-> depth,
     budget |-> req.budget, spent |-> 0,
     max_per_tx |-> per_tx, max_total |-> Lesser(total, req.budget),
     categories |-> cats, expiry_slot |-> req.expiry_slot,
     status |-> "Active", bond_amount |-> req.bond_amount]

RootAuthority(agent, req) ==
    NewAuthority(agent, 0, 0, req.max_per_tx, req.max_total,
                 req.categories, req)

ChildCategories_Mutant(parent, requested) ==
    IF parent.categories = {} THEN requested ELSE requested \cap parent.categories

\* A child asking for no category takes over the parent's; otherwise it
\* gets what both name.
ChildCategories(parent, requested) ==
    IF parent.categories = {} THEN requested
    ELSE IF requested = {} THEN parent.categories
    ELSE requested \cap parent.categories

ChildAuthority_Mutant(agent, parent_id, parent, req) ==
    NewAuthority(agent, parent_id, parent.depth + 1, req.max_per_tx,
                 Lesser(req.max_total, parent.max_total),
                 ChildCategories(parent, req.categories), req)

\* expiry_slot is the caller's: the parent's plays no part.
ChildAuthority(agent, parent_id, parent, req) ==
    NewAuthority(agent, parent_id, parent.depth + 1,
                 Lesser(req.max_per_tx, parent.max_per_tx),
                 Lesser(req.max_total, parent.max_total),
                 ChildCategories(parent, req.categories), req)

\* The parent's clock is not consulted: an expired parent still marked
\* Active may delegate, and nothing is reserved from its budget.
MayDelegate(parent, agent, req) ==
    /\ parent.status = "Active"
    /\ parent.agent = agent
    /\ parent.depth + 1 <= MAX_AUTHORITY_DEPTH
    /\ parent.spent <= parent.budget
    /\ req.budget <= parent.budget - parent.spent
    /\ req.categories # {} => ChildCategories(parent, req.categories) # {}

(***************************************************************************)
(* Bonds.  An account that was never created has status "None".            *)
(***************************************************************************)
Bond == [amount : U64, status : {"None", "Active", "Slashed"}]

NoBond == [amount |-> 0, status |-> "None"]

(***************************************************************************)
(* The bytes of an Authority account: an 8-byte discriminator and then the *)
(* fields, all of fixed size.  The cascade of revoke_authority serialises  *)
(* discriminator and fields into the bytes after the discriminator.        *)
(***************************************************************************)
DISCRIMINATOR == 8
AUTHORITY_INIT_SPACE ==
    8 + 32 + 8 + 1 + 4 * 8 + 1 + 8 * 16 + 1 + 4 * 32 + 8 + 8 + 1 + 8 + 1
CascadeWriteFits ==
    LET room == (DISCRIMINATOR + AUTHORITY_INIT_SPACE) - DISCRIMINATOR
    IN  DISCRIMINATOR + AUTHORITY_INIT_SPACE <= room

\* A table of accounts with one more account in it.
Added(table, id, account) ==
    [i \in DOMAIN table \cup {id} |-> IF i = id THEN account ELSE table[i]]
=============================================================================
