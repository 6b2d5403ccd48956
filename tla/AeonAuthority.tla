--------------------------- MODULE AeonAuthority ----------------------------
(***************************************************************************)
(* The core of the AEON program: agents and their CRI, hierarchical        *)
(* spending authorities, the payments made under them, and bonds.          *)
(*                                                                         *)
(* An instruction is a Solana transaction: it runs alone on the accounts   *)
(* it writes and an error anywhere undoes all of it.  Each handler is one  *)
(* action, whose guard is the conjunction of the account constraints, the  *)
(* require!s and the success of the token transfers it makes; a handler    *)
(* that returns an error takes no step.                                    *)
(***************************************************************************)
EXTENDS AeonState

CONSTANTS
    InitialWallet,  \* tokens each agent holds when the program is deployed
    IssueRequests,  \* the arguments issue_authority is called with
    Amounts,        \* the amounts payments are made in
    MaxSlot         \* bound of the clock

ASSUME InputsAssumption ==
    /\ InitialWallet \in [Agents -> U64]
    /\ IssueRequests \subseteq IssueRequest
    /\ Amounts \subseteq U64
    /\ MaxSlot \in Nat \ {0}

\* The token accounts when the program is deployed: the vaults do not exist.
InitialBalance ==
    [t \in Account |-> IF t \in Wallets THEN InitialWallet[t[2]] ELSE 0]

\* external: the supply of a mint is a u64, and all its tokens are somewhere.
ASSUME SupplyAssumption ==
    /\ IsFiniteSet(Units(Account, InitialBalance, MaxU64))
    /\ Cardinality(Units(Account, InitialBalance, MaxU64)) <= MaxU64

VARIABLES
    paused,             \* Config.paused
    authority_counter,  \* Config.authority_counter
    cri,                \* the Cri (and AgentIdentity) of each registered agent
    authority,          \* the Authority of each id issued
    bond,               \* the AuthorityBond of each id
    balance,            \* external: tokens by token account
    slot                \* external: Clock::slot

config == <<paused, authority_counter>>
vars == <<config, cri, authority, bond, balance, slot>>

Registered == DOMAIN cri
AuthorityIds == DOMAIN authority

TypeOK ==
    /\ paused \in BOOLEAN
    /\ authority_counter \in 0 .. MaxAuthorities
    /\ Registered \subseteq Agents /\ cri \in [Registered -> Cri]
    /\ authority \in [1 .. authority_counter -> Authority]
    /\ bond \in [1 .. MaxAuthorities -> Bond]
    /\ balance \in [Account -> U64]
    /\ slot \in 1 .. MaxSlot

\* The state initialize_config leaves behind.
Init ==
    /\ paused = FALSE
    /\ authority_counter = 0
    /\ cri = [a \in {} |-> NewCri]
    /\ authority = [i \in 1 .. 0 |-> 0]
    /\ bond = [i \in 1 .. MaxAuthorities |-> NoBond]
    /\ balance = InitialBalance
    /\ slot = 1

Accepted(from, to, amount) == TransferAccepted(balance, from, to, amount, MaxU64)

(***************************************************************************)
(* Registration and the admin's switch                                     *)
(***************************************************************************)
RegisterAgent(agent) ==
    /\ ~paused
    /\ agent \notin Registered
    /\ cri' = Added(cri, agent, NewCri)
    /\ UNCHANGED <<config, authority, bond, balance, slot>>

SetPaused(p) ==
    /\ paused' = p
    /\ UNCHANGED <<authority_counter, cri, authority, bond, balance, slot>>

(***************************************************************************)
(* Life of an authority                                                    *)
(***************************************************************************)
PostBond_Mutant(agent, id, amount) ==
    \/ /\ MintIsClassic
       /\ bond[id].status = "None"
       /\ Accepted(Wallet(agent), BondVault(id), amount)
       /\ bond' = [bond EXCEPT ![id] = [amount |-> amount, status |-> "Active"]]
       /\ balance' = AfterTransfer(balance, Wallet(agent), BondVault(id), amount)
    \/ ~MintIsClassic /\ UNCHANGED <<bond, balance>>

\* The vault must be the associated account as the classic token program
\* derives it, so a mint of another program admits no bond.
PostBond(agent, id, amount) ==
    /\ MintIsClassic
    /\ bond[id].status = "None"
    /\ Accepted(Wallet(agent), BondVault(id), amount)
    /\ bond' = [bond EXCEPT ![id] = [amount |-> amount, status |-> "Active"]]
    /\ balance' = AfterTransfer(balance, Wallet(agent), BondVault(id), amount)

IssueAuthority(agent, parent_id, req) ==
    LET id == authority_counter + 1
        granted == IF parent_id = 0 THEN RootAuthority(agent, req)
                   ELSE ChildAuthority(agent, parent_id, authority[parent_id], req)
    IN  /\ ~paused
        /\ req.budget > 0
        /\ Cardinality(req.categories) <= MAX_CATEGORIES
        /\ id <= MaxAuthorities
        /\ agent \in Registered
        /\ parent_id # 0 => MayDelegate(authority[parent_id], agent, req)
        /\ authority_counter' = id
        /\ authority' = Added(authority, id, granted)
        /\ \/ req.bond_amount > 0 /\ PostBond(agent, id, req.bond_amount)
           \/ req.bond_amount = 0 /\ UNCHANGED <<bond, balance>>
        /\ UNCHANGED <<paused, cri, slot>>

\* children are the remaining accounts; each is written back through
\* try_serialize whether or not its status changed.
MayRevoke(agent, id, children) ==
    /\ authority[id].agent = agent
    /\ authority[id].status = "Active"
    /\ \A c \in children : /\ authority[c].parent_id = id
                           /\ authority[c].agent = agent
                           /\ CascadeWriteFits

RevokeAuthority(agent, id, children) ==
    /\ MayRevoke(agent, id, children)
    /\ authority' = [i \in AuthorityIds |->
            IF i = id \/ (i \in children /\ authority[i].status = "Active")
            THEN [authority[i] EXCEPT !.status = "Revoked"]
            ELSE authority[i]]
    /\ UNCHANGED <<config, cri, bond, balance, slot>>

ExpireAuthority(agent, id) ==
    /\ authority[id].agent = agent
    /\ authority[id].status = "Active"
    /\ PastExpiry(authority[id], slot)
    /\ authority' = [authority EXCEPT ![id].status = "Expired"]
    /\ UNCHANGED <<config, cri, bond, balance, slot>>

(***************************************************************************)
(* Spending.  authority_id 0 spends without an authority.                  *)
(***************************************************************************)
MaySpend_Mutant(payer, id, amount, category) ==
    /\ amount > 0
    /\ id # 0 => /\ ~paused
                 /\ SpendAllowed(authority[id], payer, amount, category, slot,
                                 balance[Wallet(payer)])

\* What pay, atomic_split and create_escrow require before they transfer.
MaySpend(payer, id, amount, category) ==
    /\ ~paused
    /\ amount > 0
    /\ id # 0 => SpendAllowed(authority[id], payer, amount, category, slot,
                              balance[Wallet(payer)])

CommitSpent_Mutant(id, amount) == authority' = authority

CommitSpent(id, amount) ==
    authority' = IF id = 0 THEN authority
                 ELSE [authority EXCEPT ![id] = AfterSpend(authority[id], amount)]

Pay(payer, payee, amount, id, category) ==
    /\ payer # payee
    /\ MaySpend(payer, id, amount, category)
    /\ Accepted(Wallet(payer), Wallet(payee), amount)
    /\ CanCommit(cri[payer], amount)
    /\ CanSettle(cri[payee], amount)
    /\ balance' = AfterTransfer(balance, Wallet(payer), Wallet(payee), amount)
    /\ CommitSpent(id, amount)
    /\ cri' = [cri EXCEPT ![payer] = Committed(cri[payer], amount),
                          ![payee] = Settled(cri[payee], amount)]
    /\ UNCHANGED <<config, bond, slot>>

\* The three Cri accounts are read into copies when the instruction starts
\* and written back in the order payer, payee_a, payee_b when it ends.
\* Only payer # payee_a is checked, so the last copy of one account wins.
WrittenBack(payer, payer_cri, a, a_cri, b, b_cri) ==
    [x \in Registered |-> IF x = b THEN b_cri
                          ELSE IF x = a THEN a_cri
                          ELSE IF x = payer THEN payer_cri
                          ELSE cri[x]]

SplitTotal_Mutant(amount_a, amount_b) == amount_a

SplitTotal(amount_a, amount_b) == amount_a + amount_b

\* amount_b = 0 stands for a call with one amount; the third Cri may be
\* passed all the same.
AtomicSplit(payer, a, b, amount_a, amount_b, id, category) ==
    LET total == SplitTotal(amount_a, amount_b)
        one == AfterTransfer(balance, Wallet(payer), Wallet(a), amount_a)
        b_cri == IF amount_b = 0 THEN cri[b] ELSE Settled(cri[b], amount_b)
    IN  /\ amount_a > 0
        /\ amount_b > 0 => b # NoAgent
        /\ total <= MaxU64
        /\ payer # a
        /\ MaySpend(payer, id, total, category)
        /\ Accepted(Wallet(payer), Wallet(a), amount_a)
        /\ amount_b > 0 => /\ TransferAccepted(one, Wallet(payer), Wallet(b),
                                               amount_b, MaxU64)
                           /\ CanSettle(cri[b], amount_b)
        /\ CanCommit(cri[payer], total)
        /\ CanSettle(cri[a], amount_a)
        /\ balance' = IF amount_b = 0 THEN one
                      ELSE AfterTransfer(one, Wallet(payer), Wallet(b), amount_b)
        /\ CommitSpent(id, total)
        /\ cri' = WrittenBack(payer, Committed(cri[payer], total),
                              a, Settled(cri[a], amount_a), b, b_cri)
        /\ UNCHANGED <<config, bond, slot>>

Slashable_Mutant(slasher, id) ==
    authority[id].agent = slasher /\ authority[id].bond_amount > 0

\* The signer is the bonded agent itself.
Slashable(slasher, id) ==
    /\ authority[id].agent = slasher
    /\ authority[id].bond_amount > 0
    /\ bond[id].status = "Active"

Slashed_Mutant(id) == bond[id]
Slashed(id) == [bond[id] EXCEPT !.status = "Slashed"]

\* The destination is any token account of the mint.
SlashBond(slasher, id, destination) ==
    /\ Slashable(slasher, id)
    /\ Accepted(BondVault(id), destination, bond[id].amount)
    /\ bond' = [bond EXCEPT ![id] = Slashed(id)]
    /\ balance' = AfterTransfer(balance, BondVault(id), destination, bond[id].amount)
    /\ UNCHANGED <<config, cri, authority, slot>>

(***************************************************************************)
(* The world outside the program                                           *)
(***************************************************************************)
\* An agent moves its own tokens with the token program directly.
SplTransfer(agent, to, amount) ==
    /\ Accepted(Wallet(agent), to, amount)
    /\ balance' = AfterTransfer(balance, Wallet(agent), to, amount)
    /\ UNCHANGED <<config, cri, authority, bond, slot>>

AdvanceSlot ==
    /\ slot < MaxSlot
    /\ slot' = slot + 1
    /\ UNCHANGED <<config, cri, authority, bond, balance>>

Lifecycle ==
    \/ \E a \in Agents : RegisterAgent(a)
    \/ \E p \in BOOLEAN : SetPaused(p)
    \/ \E a \in Agents, p \in AuthorityIds \cup {0}, req \in IssueRequests :
            IssueAuthority(a, p, req)
    \/ \E a \in Agents, i \in AuthorityIds :
        \/ \E children \in SUBSET AuthorityIds : RevokeAuthority(a, i, children)
        \/ ExpireAuthority(a, i)

Spending ==
    \E payer, a \in Registered, id \in AuthorityIds \cup {0}, c \in Categories,
       amount \in Amounts :
        \/ Pay(payer, a, amount, id, c)
        \/ \E b \in Registered \cup {NoAgent}, amount_b \in Amounts \cup {0} :
                AtomicSplit(payer, a, b, amount, amount_b, id, c)

Slashing ==
    \E a \in Agents, i \in AuthorityIds, d \in Wallets \cup BondVaults :
        SlashBond(a, i, d)

Environment ==
    \/ \E a \in Agents, t \in Wallets \cup BondVaults, amount \in Amounts :
            SplTransfer(a, t, amount)
    \/ AdvanceSlot

Next == Lifecycle \/ Spending \/ Slashing \/ Environment

Spec == Init /\ [][Next]_vars
-----------------------------------------------------------------------------
(***************************************************************************)
(* Safety                                                                  *)
(***************************************************************************)

\* Whatever was paid, split or escrowed under an authority stays within its
\* cumulative cap, and the cap within the budget (pay.rs, atomic_split.rs,
\* create_escrow.rs check new_spent; issue_authority.rs caps max_total).
SpendWithinLimits ==
    \A i \in AuthorityIds :
        /\ authority[i].spent <= authority[i].max_total
        /\ authority[i].max_total <= authority[i].budget

\* The status word agrees with the ledger: an authority is Exhausted exactly
\* when its budget is used up, so no other path (revoke, expire) can retire
\* a used-up authority or leave one Active.
ExhaustedIffUsedUp ==
    \A i \in AuthorityIds :
        (authority[i].status = "Exhausted") <=> (authority[i].spent = authority[i].budget)

\* A child is an attenuation of its parent for as long as both exist: it
\* belongs to the same agent, is one level deeper, and its amounts and
\* categories are within the parent's (issue_authority.rs, parent branch).
Attenuated ==
    \A i \in AuthorityIds :
        LET child == authority[i] IN
        child.parent_id # 0 =>
            /\ child.parent_id < i
            /\ LET parent == authority[child.parent_id] IN
                /\ child.agent = parent.agent
                /\ child.depth = parent.depth + 1
                /\ child.budget <= parent.budget
                /\ child.max_per_tx <= parent.max_per_tx
                /\ child.max_total <= parent.max_total
                /\ parent.categories # {} =>
                        /\ child.categories # {}
                        /\ child.categories \subseteq parent.categories

\* The ids above an authority in its delegation tree, and 0.
AncestorsAnd0[i \in {0} \cup AuthorityIds] ==
    IF i = 0 THEN {}
    ELSE LET parent_id == authority[i].parent_id
         IN  {parent_id} \cup IF parent_id < i THEN AncestorsAnd0[parent_id] ELSE {}

Ancestors(i) == AncestorsAnd0[i] \ {0}

\* No chain of delegations ends in an authority that admits a payment some
\* ancestor's own terms would refuse (amount per transaction, cumulative
\* amount, category), nor in one deeper than MAX_AUTHORITY_DEPTH levels.
NeverBeyondAncestors ==
    \A i \in AuthorityIds :
        /\ Cardinality(Ancestors(i)) = authority[i].depth
        /\ authority[i].depth <= MAX_AUTHORITY_DEPTH
        /\ \A p \in Ancestors(i) :
            /\ authority[i].spent <= authority[p].max_total
            /\ \A amount \in U64 :
                amount <= authority[i].max_per_tx => amount <= authority[p].max_per_tx
            /\ \A c \in Categories :
                CategoryAllowed(authority[i], c) => CategoryAllowed(authority[p], c)

\* A posted bond is there to be slashed: while it is Active its vault holds
\* at least its amount, whatever is donated, slashed elsewhere or revoked,
\* and it belongs to an authority that says so (slash_bond.rs).  Nor does an
\* authority state a bond that was never posted (issue_authority.rs:228).
BondBacked ==
    /\ \A i \in 1 .. MaxAuthorities :
        bond[i].status = "Active" =>
            /\ bond[i].amount <= balance[BondVault(i)]
            /\ i \in AuthorityIds
            /\ bond[i].amount = authority[i].bond_amount
    /\ \A i \in AuthorityIds :
        authority[i].bond_amount > 0 => bond[i].status \in {"Active", "Slashed"}

\* Reputation cannot be had for nothing: every counted settlement or
\* commitment carries at least one unit of volume, so the u64 counters can
\* never overflow before the volume does (pay.rs, atomic_split.rs).
CountsBackedByVolume ==
    \A a \in Registered :
        cri[a].settlements + cri[a].commitments <= cri[a].volume

(***************************************************************************)
(* Refinement                                                              *)
(***************************************************************************)
AllowanceOf(i) ==
    IF i \in AuthorityIds
    THEN [state |-> IF authority[i].status = "Active" THEN "open" ELSE "closed",
          limit |-> authority[i].max_total,
          used  |-> authority[i].spent]
    ELSE [state |-> "ungranted", limit |-> 0, used |-> 0]

Allowances == INSTANCE Allowance WITH
    Ids <- 1 .. MaxAuthorities,
    MaxAmount <- MaxU64,
    allowance <- [i \in 1 .. MaxAuthorities |-> AllowanceOf(i)]

\* Seen from outside, the authorities are allowances: whatever mixture of
\* payments, splits, revocations and expiries runs, each step grants one,
\* draws on an open one within its cap, or closes open ones for good.
AuthoritiesAreAllowances == Allowances!Spec

(***************************************************************************)
(* Action properties                                                       *)
(***************************************************************************)

\* A retired authority never comes back and nothing is spent under it again:
\* once its status is not Active no instruction changes it.
RetiredIsFinal ==
    [][\A i \in AuthorityIds :
        authority[i].status # "Active" => authority'[i] = authority[i]]_vars

\* The budget is charged for all that leaves: in a step that charges an
\* authority, the wallets of other agents do not fall and the wallet of its
\* agent falls by no more than the charge, over both legs of a split.
ChargeCoversOutflow ==
    [][\A i \in AuthorityIds :
        authority'[i].spent # authority[i].spent =>
            \A a \in Agents :
                balance[Wallet(a)] <= balance'[Wallet(a)] +
                    (IF a = authority[i].agent
                     THEN authority'[i].spent - authority[i].spent ELSE 0)]_vars

\* What is in a bond vault leaves it at most once, by exactly the bond's
\* amount, in the step that marks the bond Slashed.
BondPaidOnce ==
    [][\A i \in 1 .. MaxAuthorities :
        balance'[BondVault(i)] < balance[BondVault(i)] =>
            /\ bond[i].status = "Active" /\ bond'[i].status = "Slashed"
            /\ balance'[BondVault(i)] = balance[BondVault(i)] - bond[i].amount]_vars

\* The kill switch: in a step that starts paused no authority is issued or
\* charged and no reputation is earned (the require!(!paused) of the entry
\* points); revoking, expiring and slashing go on.
PauseStopsSpending ==
    [][paused =>
        /\ authority_counter' = authority_counter
        /\ cri' = cri
        /\ \A i \in AuthorityIds : authority'[i].spent = authority[i].spent]_vars
=============================================================================
