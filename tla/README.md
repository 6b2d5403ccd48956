# Verification of the AEON program

TLA+ models of the AEON Solana program (`programs/aeon/src`), the TLC runs that
check them, and theorems about them that TLAPS proves.  Line numbers refer to
the files under `programs/aeon/src/instructions` unless a path is given.

## 1. The system

The program holds no state of its own: every instruction reads and writes the
accounts it is passed.  A transaction runs alone on the accounts it writes, and
an error anywhere in it undoes all of it.

| Component | State | Operations | Talks to | Hard behaviour |
|---|---|---|---|---|
| Config | admin, mint, four id counters, `paused` | `initialize_config`, `set_paused` | read by every entry point; counters written by issue, create_escrow, create_org, create_receipt | each handler tests `paused` by itself |
| Agents, CRI | one `AgentIdentity` and one `Cri` per agent | `register_agent` | credited by pay, atomic_split, release, cancel, create_receipt | u64 counters that only grow; two copies of one account in one instruction |
| Authorities | one `Authority` per id: budget, spent, caps, categories, parent, expiry, status | `issue_authority`, `revoke_authority`, `expire_authority` | charged by pay, atomic_split, create_escrow | delegation trees, stale parents, cascade, caps under interleaving |
| Payments | none | `pay`, `atomic_split` | token program, authorities, CRI | second leg fails after the first; spent must follow the transfer |
| Bonds | one `AuthorityBond` and vault per bonded authority | part of `issue_authority`, `slash_bond` | token program | donations to and slashes into vaults, double slash |
| Escrows | one `Escrow` and vault per id | `create_escrow`, `release_escrow`, `cancel_escrow` | token program, authorities, CRI | deadline races, settlement after revocation or during a pause |
| Organizations | `Organization`, `OrgMember`s, treasury | seven instructions, `create_org` to `reclaim_org_residual` | token program | share sums kept incrementally, dissolution with a member left out, rounding |
| Receipts | `Receipt` per id, chain head in `Cri` | `create_receipt` | Config, CRI | global ids, per-agent chains |
| SDK (`client/`) | snapshots of accounts | `nextIds`, `revokeTree`, one method per instruction | RPC | ids read and used in two steps, a plan carried out against a changing tree |
| Token program | token accounts | `transfer_checked` | external | refuses for lack of funds, overflow, frozen accounts |

What makes each correct, in a line: authorities are never overdrawn, never
revived and never wider than their ancestors; a charge pays for what left the
wallet; bonds and escrows leave their vault once and in full; reputation says
what happened; the pause flag stops new business; shares add up; receipts form
one chain per agent.

## 2. Modules

| Module | Contents |
|---|---|
| `SplToken` | external: acceptance and effect of `transfer_checked` |
| `AeonState` | account records, and the rules the handlers share (the spending gate, attenuation of a child, CRI updates, size of the cascade's write) |
| `AeonAuthority` | the core: registration, pause, authorities, payments, bonds; plain token transfers and the clock around it |
| `AeonEscrow` | the three escrow instructions composed with the whole core: `EscrowNext` is `Next` or an escrow step, over the same balances, authorities and CRI |
| `Allowance` | abstract: an allowance is granted once, drawn on while open and within its limit, closed for good |
| `EscrowLock` | abstract: what a vault took in leaves it once, in full, to the payee or back to the payer; nothing else lowers it |
| `AeonOrg` | the seven organization instructions composed with the whole core, donations into treasuries and bonds slashed into them included |
| `AeonReceipt` | `create_receipt` composed with the core; the receipt fields of `Cri` |
| `AeonClient` | SDK clients over `AeonReceipt`: an id read and used in two steps, transactions refused, dropped, or processed after the call gave up |
| `AeonRevokeTree` | the SDK's `scanAuthorities`, `planRevokeTree` and `revokeTree` over the core |
| `AeonAuthorityProofs` | lemmas about the shared rules, about sums and about least elements; type correctness |
| `AeonAuthorityInvProofs` | the inductive invariant of the authorities, what a step of each kind does to them, the refinement of `Allowance`, chains of delegations |
| `AeonAuthorityLedgerProofs` | money, its conservation, bonds, reputation and the pause |
| `AeonEscrowProofs` | types of the composition, the authorities, bonds and tokens under it, funded escrows, who can settle one, the refinement of `EscrowLock` |
| `AeonEscrowRecordProofs` | what escrows leave behind: reputation, and charges |
| `AeonOrgProofs` | types, the core beside organizations, sums of shares, what leaves a treasury and what can always be got out, closed organizations |
| `AeonReceiptProofs` | the chains of receipts; clients implement the program; the ids their calls return |
| `AeonRevokeTreeProofs` | what a call of `revokeTree` knows of the tree, the order of its transactions, what a complete call achieves |
| `MCAuthority`, `MCEscrow`, `MCOrg`, `MCClient`, `MCRevokeTree` | instances for TLC, and the documentation's statements that the code does not meet |

### How state and actions correspond to the code

One action is one instruction.  Its guard is the conjunction of the account
constraints, the `require!`s, the `checked_` arithmetic and the acceptance of
the token transfers; it takes no step when the handler returns an error, since
the transaction then leaves nothing behind.  PDA derivation is abstracted to
indexing a table by the id or the agent that seeds it; an account that must
exist is an index in the table's domain, one that is `init`ed is one that was
not.  `authority_id`, `escrow_id` and `org_id` arguments must equal the counter
plus one and are therefore not parameters; `receipt_id` is one, because the
clients get it wrong.

- `balance` has one token account per agent and per vault.  The mint and owner
  constraints of the `Accounts` structs choose the account and disappear.
- `cri` has the registered agents as its domain.  `AgentIdentity.active` is set
  by registration and cleared by nothing, so registered and active are one.
- `WrittenBack` in `AtomicSplit` models Anchor's life of a mutable account: it is
  read into a copy at the start and written back at the end in the order of the
  struct.  When `payee_b` is the payer or `payee_a`, or a `payee_b_cri` is passed
  with a single amount, two copies of one account exist and the last one wins.
- `CascadeWriteFits` computes, from the field sizes, whether the write of
  `revoke_authority.rs:48-51` fits: the child is serialised with its 8-byte
  discriminator into a slice that starts after the discriminator.  It never
  does, so a revocation that names children is refused.
- `slash_bond` constrains the vault it takes from by its owner and mint only.  The
  model has one vault per bond, the one `issue_authority` fills; another token
  account that somebody opens for the bond's PDA is left out.
- `MintIsClassic` stands for the program that owns the mint: the bond vault is
  derived as a classic associated account (`issue_authority.rs:247`).
- `member[o][a]` is the `OrgMember` of an agent, with role `"None"` where the account
  was never created; no instruction closes one, so a member stays a member.
  `DissolveOrg` takes both shares of the treasury as it was at the start, and its
  optional second member may be any member, the signer included.
- A receipt's hash is the hash of one receipt (domain separator, id, actor, slot,
  payload, previous hash), so it is modelled by that receipt's id, and the 32 zero
  bytes of a new `Cri` by 0.  A payload is modelled by its length, which is all that
  `create_receipt` asks of it.  That the receipt's account is `init`ed
  (`create_receipt.rs:25`) follows from the sequence of ids, which the guard has.
- A client's call is two steps, up to the `await` and after it (`SendReceipt`,
  `Answered`); other clients and instructions act in between.  `TimesOut` is a call
  that gives up: its transaction is dropped or stays in `late` and is processed
  whenever (`ProcessedLate`).  `createEscrow`, `createOrg` and `issueAuthority` get
  their ids by the same `nextIds`.
- `scanAuthorities` is one step per account fetched, `revokeTree` one step per
  transaction sent, so that anything may happen between two of them.  A fetch
  that fails is skipped like an account that does not exist (`misses`).  The scan
  stops at `ScanMaxId`, which the caller chooses, and ids are counted over all
  agents: the descendants of a root need not lie within it.
- Not kept: hashes of names and metadata, `last_active_slot`, `created_slot`,
  `failed_settlements` (nothing writes it), `blocked_recipients` and
  `require_min_reserve` (nothing makes them anything but empty and 0), events.
- Outside the program: agents move their own tokens with the token program
  (`SplTransfer`, into any account that exists, vaults included), and the clock
  advances (`AdvanceSlot`).

## 3. Runs

| Run | Checks | Instance |
|---|---|---|
| `authority` | types, spending within limits, exhausted iff used up, children attenuated, stated bonds posted and backed, counts backed by volume; retired is final, a charge covers the outflow, a bond is paid once, the pause stops spending | 2 agents, 2 authorities, depth 1, amounts up to 2, 2 slots, 2 tokens |
| `chain` | no descendant admits what an ancestor would refuse, depth counts ancestors; no bond is stated that was not posted | 1 agent, 4 authorities, depth 2, 2 categories, a mint of another token program |
| `escrow` | types, open escrows funded, charges survive cancellation, reputation records outcomes, the payer can always take back, the deadline separates the parties; escrows implement `EscrowLock`, authorities `Allowance` | 2 agents, 1 authority, 2 escrows, 2 slots, 1 token |
| `org` | types, recorded totals are the sums of the member accounts, no organization traps tokens, what a treasury pays and to whom, a closed organization stays as it is | 3 agents, 1 organization, 1 bonded authority, 3 tokens, shares out of 2 |
| `client` | types, one chain of receipts per agent, a returned id is the caller's receipt; every request is served in the end | 2 clients wanting 2 receipts each, 6 ids, 2 calls that give up, 2 slots |
| `revoke_tree` | types, what was seen below goes down first; all of the tree within the scan comes down in the end | 2 agents, 4 authorities of which 3 are scanned, depth 2, 1 fetch that fails, 2 slots |
| `subtree` | *violated*: a subtree stays within its root's budget | as `authority` |
| `cascade` | *violated*: a parent can be revoked together with an Active child | as `authority` |
| `split_cri` | *violated*: every paid leg of a split is counted | as `authority` |
| `paused` | *violated*: no vault pays out while paused | as `escrow` |
| `complete_set` | *violated*: a dissolution pays every member its share | as `org` |
| `paid_twice` | *violated*: a dissolution pays nobody more than its share | as `org` |

**Why the bounds are enough.**  `MaxU64` is the width of all integers; 2 lets a
counter or a volume reach its limit after two payments, an authority be drawn
on twice, and a budget be met exactly, left over, or missed by one.  Two
authorities make a parent and a child or two roots; deeper trees are left to
`chain`, where agents do not matter because a tree has one agent.  Two slots put
an expiry in the present and in the past (`>` against `>=`).  Amounts of 1 and a
second leg of 1 make totals of 2.  In `escrow` two escrows follow each other or,
through a donation, overlap with tokens of another origin in the vaults.
`MaxAuthorities`, `MaxEscrows`, `MaxOrgs` and `MaxReceipts` are where the id counters
overflow.

In `org` the whole is 2 basis points: a share can be nothing, half or all of a
treasury, half of an odd treasury is rounded down, a share of 1 can join one of
1 and not one of 2, and three members leave one whom no dissolution names.  The
member count never meets `MaxMembers` otherwise than by every agent being in.
One organization suffices for the instructions, none of which touches two; that
their treasuries stay apart for any number is part of the proofs.  Three tokens
fill a treasury past what it pays out, and its vault receives a bond before and
after it is closed.  In `client` six ids are more than the four receipts wanted
and the two late ones, so the counter does not run out under a caller; two calls
that give up let a late transaction of one client succeed, fail, or race the
next call of the same client.  In `revoke_tree` three scanned authorities make a
chain of three levels or two children, every one of which may be issued, expire
or be revoked between any two steps of a call, and the fourth lies past the scan:
below any of them, beside them, or another agent's.

Deadlock checking is on.  The program acts only when somebody sends an
instruction, so nothing it does by itself is bound to happen; where no fairness
is assumed, a property says instead that an action stays possible
(`PayerCanTakeBack`, `TreasuryRecoverable`).  It says so with the action's guard
(`CancelAccepted`, `MayDissolve`, `MayReclaim`): each of these actions is its guard
and an assignment to every variable, so the guard is what enables it, and a
guard, unlike `ENABLED`, can be proved about.

### Fairness

Only callers and the network are fair, and only in two runs.

- `client`: `WF(ClientStep(a))` for each client.  A caller that has not got all its
  receipts calls again (`client/README.md:274`: "retry with a fresh counter"), and
  the network answers a call unless the call gives up, which it does finitely
  often.  Nobody else is fair: late transactions may be processed never, the
  clock may stop.  `EveryRequestServed` further supposes that from some time on the
  program is not paused and the client is registered, since `create_receipt`
  refuses it otherwise.  It needs no fairness stronger than weak: whenever a
  client loses the race for an id, a receipt was created, and only finitely many
  are wanted or late.
- `revoke_tree`: `WF(Call)`, one caller that goes on with its call and starts the
  next when one has ended.  Issuing, spending, expiring and the other agents are
  free to act or not.  `TreeComesDown` is about the ids that a scan reaches, up to
  `ScanMaxId`.  Of the tree beyond it nothing like that is true: a delegate that
  got a later id, others having taken those in between, is never fetched and
  stays Active under a root that is Revoked, however often the caller calls.  The
  example's default is `rootId + 16` (`client/examples/04-revoke-tree.ts:121`); a
  caller that passes the program's authority counter reads every authority issued
  so far.  `TreeComesDown` holds although a single call may do nothing: a batch
  that names children is refused (see `cascade`), which ends the call after the
  deepest authorities are down, and the next scan finds their parents without
  Active children.  A child past the scan does not hold its parent up, because no
  batch names it.

### What the violated runs show

- `subtree`: `docs/SECURITY_MODEL.md:143` says of over-subscribed children that
  parents enforce the remaining budget at spend time.  A payment under a child
  reads and charges the child alone.
- `cascade`: `docs/SECURITY_MODEL.md:80` and `README.md:21` describe a cascade
  that `revoke_authority.rs:49` makes impossible.  Revoking without children
  works, and revoking every node by itself is the way around.
- `split_cri`: `README.md:40` says a CRI accumulates volume; the volume of one leg
  is lost when both legs pay the same agent.
- `paused`: `docs/FINAL_ARCHITECTURE.md:114` says all money paths check `paused`;
  the settlement of escrows does not (`docs/RELEASE_NOTES_v0.2.0.md:48` states the
  narrower scope).
- `complete_set`: `README.md:97` requires the exact complete set of members for a
  dissolution.  `dissolve_org` pays the signing Admin and at most one other; the
  rest stays in the treasury, where an Admin may reclaim it to any account.
- `paid_twice`: `dissolve_org.rs:12` speaks of up to two members, the creator and a
  peer.  `member_b` is only required to be a member, and the Admin is one.

## 4. Proofs

Proved for every number of agents, authorities, amounts and slots, from
`LimitsAssumption` and `NoAgentAssumption` (`AeonState`), `InputsAssumption` and
`SupplyAssumption` (`AeonAuthority`), `EscrowInputsAssumption` (`AeonEscrow`),
`OrgInputsAssumption` (`AeonOrg`), `ReceiptInputsAssumption` (`AeonReceipt`),
`ClientInputsAssumption` (`AeonClient`) and `CallerAssumption` (`AeonRevokeTree`).
`SupplyAssumption` is the one that is not about types: when the program is deployed
all accounts together hold finitely many tokens, and no more than a u64 can
count.  The token program guarantees it, since it keeps the supply of a mint in a
u64 and every mint and burn adjusts it.  Only conservation and what follows from
it (no transfer overflows in its destination) use it.

The core, for `Spec`:

| Theorem | States | Argument |
|---|---|---|
| `TypeCorrect` | `[]TypeOK` | one lemma per instruction; `TransferFacts`, `CriFacts`, `SpendFacts` turn the `checked_` guards into u64 membership |
| `SpendingStaysWithinLimits`, `ExhaustionIsExact`, `ChildrenAttenuate` | `[]SpendWithinLimits`, `[]ExhaustedIffUsedUp`, `[]Attenuated` | from `AuthoritiesSound`: the three together, with `TypeOK`, are inductive |
| `DelegatesNeverBeyondAncestors` | `[]NeverBeyondAncestors` | `AuthorityInv` and `RootsAreAtDepth0`, then induction over the ids (below) |
| `RetiredStaysRetired` | `RetiredIsFinal` | a charge requires `Active`; every other step is a grant, a closing, or leaves authorities alone |
| `AuthoritiesImplementAllowances` | `AuthoritiesAreAllowances` | the same classification: a grant is `Grant`, a charge `Draw`, a revocation or expiry `Close` |
| `TokensAreConserved` | the tokens of all accounts are as many as in the beginning | a transfer replaces two numbers of a sum (`UnitsReplaced`, twice) |
| `NoTransferOverflows` | any two balances together are a u64 | two numbers are within the sum of all (`TwoWithinSum`), which is the supply |
| `ChargesCoverOutflow` | `ChargeCoversOutflow` | a payment or split lowers one wallet by at most what it commits (`Outflow`) |
| `BondsBacked`, `BondsPaidOnce` | `[]BondBacked`, `BondPaidOnce` | per step and bond: untouched and vault not lower, posted and backed, or taken once (`BondStep`); an authority that appears with a bond has it posted in the same step (`IssuedBonded`) |
| `CountsBacked` | `[]CountsBackedByVolume` | every copy of a Cri that a handler may write back carries at least as much volume as counts |
| `PauseHolds` | `PauseStopsSpending` | the guards of the entry points, and revocation, expiry and slashing leaving spent, counter and Cri alone |

Escrows and organizations, for `EscrowSpec` and `OrgSpec`:

| Theorem | States | Argument |
|---|---|---|
| `EscrowTypeCorrect`, `OrgTypeCorrect` | `[]EscrowTypeOK`, `[]OrgTypeOK` | as `TypeCorrect` |
| `EscrowAuthoritiesSound`, `EscrowsNeverBeyondAncestors`, `EscrowRetiredStaysRetired`, `EscrowAuthoritiesImplementAllowances`, and the same of organizations (`OrgAuthoritiesSound`, ...) | all that is proved of authorities | `create_escrow` is one more charge, no other step of an escrow or an organization touches an authority: every step is an `AuthorityStep` |
| `EscrowChargesCoverOutflow`, `EscrowBondsBacked`, `EscrowBondsPaidOnce`, `OrgChargesCoverOutflow`, `OrgBondsBacked`, `OrgBondsPaidOnce` | the ledger properties of the core | vaults and treasuries are no bond's vault and no wallet, so that the new steps are `BondStep`s too |
| `EscrowCountsBacked`, `OrgCountsBacked`, `OrgPauseHolds` | `[]CountsBackedByVolume`; `PauseStopsSpending` beside organizations | an escrow's amount is positive (`AmountsPositive`); no organization instruction touches a Cri.  Escrows settle during a pause, see `paused` |
| `EscrowTokensConserved`, `OrgTokensConserved` | tokens conserved, no overflow | every new step makes transfers only |
| `EscrowsFunded` | `[]EscrowFunded` | no core step lowers an escrow vault (`CoreKeepsVaults`); a settlement lowers its own only |
| `EscrowsImplementLocks` | `EscrowsAreLocks` | creation is `Hold`, release and cancellation are `Settle`, all else `Elsewhere` |
| `PayersCanTakeBack` | `[]PayerCanTakeBack` | `EscrowFunded` for the vault, `EscrowTokensConserved` for the wallet |
| `DeadlinesSeparate` | `[]DeadlineSeparates` | a third party cancels only past the expiry, where `Releasable` refuses |
| `EscrowsStayCharged` | `[]EscrowsCharged` | `ChargeInv`: besides, an escrow's authority was issued before it, so that a new authority has nothing locked under it |
| `ReputationIsRecord` | `[]ReputationRecordsEscrows` | `RecordInv`: besides, nothing was settled with an agent before it registered, and nobody has an escrow with itself |
| `SharesAlwaysAddUp` | `[]SharesAddUp` | `SharesInv`: besides, an agent that is no member has no share; `UnitsReplaced` and `ReplacedCounted` do the counting |
| `TreasuriesRecoverable` | `[]TreasuryRecoverable` | `CreatorInv`: an organization is Active or Closed and its creator stays an Admin; a share is no more than the treasury (`PayoutFacts`); `OrgTokensConserved` |
| `TreasuryPays` | `TreasuryPaysMembers` | nothing but a split, a dissolution or a reclaim lowers a treasury (`CoreKeepsVaults`, `MovesTakeFromSource`), and `DissolutionMoves` says what it pays |
| `ClosedStaysClosed` | `ClosedIsFinal` | every instruction that changes an organization asks for `Active` |

Receipts and the SDK:

| Theorem | States | Argument |
|---|---|---|
| `ReceiptTypeCorrect`, `ClientTypeCorrect` | `[]ReceiptTypeOK`, `[]ClientTypeOK` | one lemma per step |
| `ChainsHold` | `[]ReceiptsChained` for `ReceiptSpec` | `ChainInv`: besides, no receipt is of the future |
| `ChainsStayComplete` | following `prev_hash` from an agent's Cri meets all its receipts | were one missed, take the greatest; the agent's next receipt, or its Cri, names it |
| `ReceiptStepsAreCoreSteps` | `Spec` for `ReceiptSpec`, hence all that is proved of the core | `create_receipt` changes nothing of it |
| `ClientsImplementReceipts`, `ClientsKeepChains` | `ReceiptSpec`, `[]ReceiptsChained` for `ClientSpec` | a processed transaction is an instruction or changes nothing |
| `ReturnedIdsAreMine` | `[]ReturnedIdIsMine` | a call returns an id only in the step that creates its receipt, and receipts never change |
| `TreeStepsAreCoreSteps` | `Spec` for `TreeSpec` | the one step of a call that sends something sends `revoke_authority` for ids that exist |
| `TreeTypeCorrect`, `TreeInvariant` | `[]TreeTypeOK`, `[]TreeInv` | `NodesMatch` and `PlanMatch`, below |
| `DescendantsGoFirst` | `DescendantsFirst` | a plan's first batch is the deepest, and all that was seen below it is deeper (`SubtreeIsDeeper`), so it has left the plan or was never in it |
| `CompleteCalls` | a call that gets to its last batch leaves nothing Active of the tree it saw | as `DescendantsGoFirst`, for all that has left the plan |

**The inductive invariant.**  `AuthorityInv` is the conjunction of
`SpendWithinLimits`, `ExhaustedIffUsedUp` and `Attenuated`.  None of them is
inductive without `TypeOK`: the bounds need the additions not to wrap, and
`Attenuated` needs ids to be dense, so that a grant cannot fall on a parent's id.
Together with it each is preserved, because no instruction changes the terms of
an authority it does not create, and the gate of a charge is what
`SpendWithinLimits` says.  The proof goes through a classification: every step is
a `GrantStep` (a new id), a `SpendStep` (spent, and perhaps the status, of one id),
a `CloseStep` (statuses only), or leaves authorities alone (`NextIsStep`).
`StepKeepsInv` is proved for the kinds, not for the instructions, which is why
the composition with escrows costs one lemma (`EscrowNextIsStep`), and the
refinement of `Allowance` and `RetiredIsFinal` follow from the same four kinds.
`EscrowFunded` is inductive with `EscrowTypeOK`.

**Sums.**  Tokens, the shares of an organization and the amounts locked under an
authority are sums over sets of any size.  Each is written as the cardinality of a
set with one element per unit (`Units`), so that replacing one number of the sum
is a union with one product in place of another, which the library's theorems on
finite sets can count (`UnitsAdded`, `UnitsReplaced`), where a fold would need
induction over data.

**Induction over ids.**  `NeverBeyondAncestors` is about chains of any length, and
`Attenuated` about one link.  The induction theorems of the library take an operator
as a parameter, which the provers cannot instantiate; a least element serves
instead.  `LeastElement` (a set of naturals that is not empty has a least one)
follows from the well-foundedness of inclusion among finite sets, and three
proofs go by the least id, or the greatest, for which the claim fails:

- the equation that defines `AncestorsAnd0` has a solution (`AncestorsExist`), which
  nothing may take for granted of a recursive function;
- every authority is within the amounts and categories of all its ancestors and as deep as they are
  many (`AllWithinAncestors`, from the parent to the child);
- a chain of receipts misses none (`ChainsAreComplete`).

**What a call knows.**  Between two steps of `revokeTree` anything may happen to the
tree.  `NodesMatch` says what of the scan stays true all the same: an authority never
moves in the tree, and one seen retired is retired.  `PlanMatch` says that of the
Active ones the call saw, all but those still in the plan are retired.  Neither
says that what is in the plan is Active, or that the scan saw everything, because
neither is so.  `Subtree` is defined by closed sets, so that what holds of a closed
set holds of a subtree: nothing needs the order in which the search goes.

Model-checked only:

- liveness under fairness, `EveryRequestServed` and `TreeComesDown`, which this
  prover does not reach; `CompleteCalls` and `RetiredIsFinal` are the safety part
  of the latter;
- that the six documented statements fail, which is what the violated runs show.

## 5. Not modelled, and why

- The oracle registry is declared and used by nothing.
- Events and error codes carry no state; the entry points of `lib.rs` only
  dispatch, and are what the disjuncts of the next-state relations stand for.
- The SDK methods that send one instruction add nothing to that instruction;
  address derivation, encoding of categories and account types are conversions
  that no property is about.  Reads from a lagging RPC node are covered as far as
  a stale counter or a missed account goes.
- Token-2022 fees and hooks and frozen accounts: a refused transfer is an
  instruction that takes no step; mints that take a fee are outside.
- A handler is not taken apart into load, check, transfer and write back: a
  transaction runs alone on its accounts and is undone as a whole, so that the
  order of its effects shows only where two copies of one account are written
  back (`WrittenBack`).  The atomicity is the runtime's and is taken as given.
- Generated types, the fuzz harness, scripts, demos and the documentation site.

## 6. History of the work

In this order: `SplToken`, `AeonState`, `AeonAuthority` with `Allowance` and its proofs;
`AeonEscrow` with `EscrowLock` and its proofs; `AeonOrg`, `AeonReceipt`, `AeonClient` and
`AeonRevokeTree`; the proofs about organizations, receipts, clients and the
reputation of escrows; conservation of tokens, what is always possible, the
ledger properties of the core in the compositions, chains of delegations and the
revocation of trees.

Open: `EscrowSpec`, `OrgSpec`, `ReceiptSpec` and `TreeSpec` each extend the core, and no
specification composes escrows with organizations.  They share the
accounts of the core and each other's vaults as destinations.  The clients'
theorems are about one of the four calls that get an id by `nextIds`.
