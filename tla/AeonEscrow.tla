----------------------------- MODULE AeonEscrow -----------------------------
(***************************************************************************)
(* Escrows, composed with the authority core.  An escrow is charged to an  *)
(* authority like a payment, keeps its amount in a vault of its own, and   *)
(* is settled by a release to the payee or a cancellation to the payer.    *)
(* Settlement reads neither the pause flag nor the authority.              *)
(***************************************************************************)
EXTENDS AeonAuthority

CONSTANTS
    Witnesses,    \* 32-byte receipt witnesses
    EscrowTerms   \* the conditions create_escrow is called with

VARIABLES
    escrow_counter,  \* Config.escrow_counter
    escrow           \* the Escrow of each id created

escrows == <<escrow_counter, escrow>>
escrowVars == <<vars, escrows>>

EscrowIds == DOMAIN escrow

Condition == {"Immediate", "Receipt", "Oracle", "Multisig", "Timeout"}

\* data is the first half of condition_data, which only a receipt reads;
\* expiry_slot 0 means no expiry.
Terms == [condition : Condition, data : Witnesses, expiry_slot : Nat]

EscrowStatus == {"Open", "Released", "Cancelled", "Expired"}

Escrow ==
    [payer : Agents, payee : Agents, amount : U64,
     authority_id : 0 .. MaxAuthorities, terms : Terms, status : EscrowStatus]

ASSUME EscrowInputsAssumption == EscrowTerms \subseteq Terms

EscrowTypeOK ==
    /\ TypeOK
    /\ escrow_counter \in 0 .. MaxEscrows
    /\ escrow \in [1 .. escrow_counter -> Escrow]

EscrowInit ==
    /\ Init
    /\ escrow_counter = 0
    /\ escrow = [i \in 1 .. 0 |-> 0]

(***************************************************************************)
(* create_escrow.  Neither party need be registered.                       *)
(***************************************************************************)
NewEscrow(payer, payee, amount, authority_id, terms) ==
    [payer |-> payer, payee |-> payee, amount |-> amount,
     authority_id |-> authority_id, terms |-> terms, status |-> "Open"]

CreateEscrow(payer, payee, amount, id, category, terms) ==
    LET n == escrow_counter + 1
    IN  /\ n <= MaxEscrows
        /\ payer # payee
        /\ MaySpend(payer, id, amount, category)
        /\ Accepted(Wallet(payer), EscrowVault(n), amount)
        /\ balance' = AfterTransfer(balance, Wallet(payer), EscrowVault(n), amount)
        /\ CommitSpent(id, amount)
        /\ escrow' = Added(escrow, n, NewEscrow(payer, payee, amount, id, terms))
        /\ escrow_counter' = n
        /\ UNCHANGED <<config, cri, bond, slot>>

(***************************************************************************)
(* release_escrow and cancel_escrow                                        *)
(***************************************************************************)
EscrowPastExpiry(e, now) == e.terms.expiry_slot # 0 /\ now > e.terms.expiry_slot

Releasable_Mutant(e, witness, now) ==
    \/ e.terms.condition = "Immediate"
    \/ e.terms.condition = "Receipt" /\ witness = e.terms.data
    \/ e.terms.condition = "Timeout" /\ now >= e.terms.expiry_slot

\* Oracle and Multisig are never met.
Releasable(e, witness, now) ==
    \/ /\ ~EscrowPastExpiry(e, now)
       /\ \/ e.terms.condition = "Immediate"
          \/ e.terms.condition = "Receipt" /\ witness = e.terms.data
    \/ /\ e.terms.condition = "Timeout"
       /\ e.terms.expiry_slot # 0
       /\ now >= e.terms.expiry_slot

Closed_Mutant(i, status) == escrow

Closed(i, status) == [escrow EXCEPT ![i].status = status]

\* The releaser is any signer; both parties' Cri must exist.
ReleaseAccepted(i, witness) ==
    LET e == escrow[i]
    IN  /\ e.status = "Open"
        /\ Releasable(e, witness, slot)
        /\ Accepted(EscrowVault(i), Wallet(e.payee), e.amount)
        /\ {e.payer, e.payee} \subseteq Registered
        /\ CanCommit(cri[e.payer], e.amount)
        /\ CanSettle(cri[e.payee], e.amount)

ReleaseEscrow(i, witness) ==
    LET e == escrow[i]
    IN  /\ ReleaseAccepted(i, witness)
        /\ balance' = AfterTransfer(balance, EscrowVault(i), Wallet(e.payee), e.amount)
        /\ escrow' = Closed(i, "Released")
        /\ cri' = [cri EXCEPT ![e.payer] = Committed(cri[e.payer], e.amount),
                              ![e.payee] = Settled(cri[e.payee], e.amount)]
        /\ UNCHANGED <<config, authority, bond, slot, escrow_counter>>

MayCancel_Mutant(canceller, e, now) ==
    canceller = e.payer /\ (e.terms.expiry_slot = 0 \/ EscrowPastExpiry(e, now))

MayCancel(canceller, e, now) == canceller = e.payer \/ EscrowPastExpiry(e, now)

StatusWhenCancelled_Mutant(canceller, e, now) ==
    IF EscrowPastExpiry(e, now) /\ canceller # e.payer THEN "Released" ELSE "Cancelled"

StatusWhenCancelled(canceller, e, now) ==
    IF EscrowPastExpiry(e, now) /\ canceller # e.payer THEN "Expired" ELSE "Cancelled"

FailedCommitment_Mutant(c) == [c EXCEPT !.commitments = c.commitments + 1]
FailedCommitment(c) == [c EXCEPT !.failed = c.failed + 1]

CancelAccepted(canceller, i) ==
    LET e == escrow[i]
    IN  /\ e.status = "Open"
        /\ MayCancel(canceller, e, slot)
        /\ Accepted(EscrowVault(i), Wallet(e.payer), e.amount)
        /\ e.payer \in Registered
        /\ cri[e.payer].failed < MaxU64

\* The authority gets nothing back.
CancelEscrow(canceller, i) ==
    LET e == escrow[i]
    IN  /\ CancelAccepted(canceller, i)
        /\ balance' = AfterTransfer(balance, EscrowVault(i), Wallet(e.payer), e.amount)
        /\ escrow' = Closed(i, StatusWhenCancelled(canceller, e, slot))
        /\ cri' = [cri EXCEPT ![e.payer] = FailedCommitment(cri[e.payer])]
        /\ UNCHANGED <<config, authority, bond, slot, escrow_counter>>

(***************************************************************************)
(* The escrow vaults are token accounts like others: they may be donated   *)
(* to, and a bond may be slashed into one.                                 *)
(***************************************************************************)
IntoEscrowVault ==
    \E a \in Agents, i \in EscrowIds :
        \/ \E amount \in Amounts : SplTransfer(a, EscrowVault(i), amount)
        \/ \E b \in AuthorityIds : SlashBond(a, b, EscrowVault(i))

EscrowNext ==
    \/ (Next \/ IntoEscrowVault) /\ UNCHANGED escrows
    \/ \E payer, payee \in Agents, amount \in Amounts,
          id \in AuthorityIds \cup {0}, c \in Categories, terms \in EscrowTerms :
            CreateEscrow(payer, payee, amount, id, c, terms)
    \/ \E i \in EscrowIds :
        \/ \E w \in Witnesses : ReleaseEscrow(i, w)
        \/ \E a \in Agents : CancelEscrow(a, i)

EscrowSpec == EscrowInit /\ [][EscrowNext]_escrowVars
-----------------------------------------------------------------------------
(***************************************************************************)
(* Safety                                                                  *)
(***************************************************************************)

\* An open escrow can be paid: its vault holds its amount, whatever is
\* donated, slashed or settled elsewhere (create_escrow.rs, and the signed
\* transfers of release_escrow.rs and cancel_escrow.rs).
EscrowFunded ==
    \A i \in EscrowIds :
        escrow[i].status = "Open" => escrow[i].amount <= balance[EscrowVault(i)]

Amount == [i \in EscrowIds |-> escrow[i].amount]
EscrowsUnder(id) == {i \in EscrowIds : escrow[i].authority_id = id}

\* An authority stays charged for what was ever locked under it, settled,
\* refunded or open: cancelling an escrow does not let its payer spend the
\* same allowance again (create_escrow.rs, cancel_escrow.rs).
EscrowsCharged ==
    \A id \in AuthorityIds :
        Cardinality(Units(EscrowsUnder(id), Amount, MaxU64)) <= authority[id].spent

\* Reputation tells how the escrows ended: an agent's failed commitments are
\* its cancelled and expired escrows, and its released ones are among its
\* commitments (settlements, for the payee), through all the payments and
\* splits that write the same accounts.
ReputationRecordsEscrows ==
    \A a \in Registered :
        /\ cri[a].failed = Cardinality({i \in EscrowIds :
                escrow[i].payer = a /\ escrow[i].status \in {"Cancelled", "Expired"}})
        /\ Cardinality({i \in EscrowIds :
                escrow[i].payer = a /\ escrow[i].status = "Released"})
             <= cri[a].commitments
        /\ Cardinality({i \in EscrowIds :
                escrow[i].payee = a /\ escrow[i].status = "Released"})
             <= cri[a].settlements

\* No escrow traps its payer's tokens: as long as it is open, its payer, once
\* registered, can cancel it, paused or not, whatever its condition and
\* deadline and whatever became of the authority it was charged to.
PayerCanTakeBack ==
    \A i \in EscrowIds :
        (/\ escrow[i].status = "Open"
         /\ escrow[i].payer \in Registered
         /\ cri[escrow[i].payer].failed < MaxU64)
            => CancelAccepted(escrow[i].payer, i)

\* The deadline separates the parties: when a third party may send the
\* tokens back, nobody may send them on any more, except for a Timeout
\* escrow, which stays open to both (`>` in cancel_escrow.rs and in the
\* EscrowExpired test of release_escrow.rs, `>=` in its Timeout arm).
DeadlineSeparates ==
    \A i \in EscrowIds :
        LET e == escrow[i] IN
        (/\ \E a \in Agents \ {e.payer} : CancelAccepted(a, i)
         /\ \E w \in Witnesses : ReleaseAccepted(i, w))
            => e.terms.condition = "Timeout"
-----------------------------------------------------------------------------
(***************************************************************************)
(* Refinement                                                              *)
(***************************************************************************)
LockState(status) ==
    CASE status = "Open" -> "held"
      [] status = "Released" -> "paid"
      [] status \in {"Cancelled", "Expired"} -> "refunded"

LockOf(i) ==
    IF i \in EscrowIds
    THEN [state |-> LockState(escrow[i].status), payer |-> escrow[i].payer,
          payee |-> escrow[i].payee, amount |-> escrow[i].amount]
    ELSE [state |-> "none"]

Lock == [i \in 1 .. MaxEscrows |-> LockOf(i)]
Vault == [i \in 1 .. MaxEscrows |-> balance[EscrowVault(i)]]
Purse == [a \in Agents |-> balance[Wallet(a)]]

Locks == INSTANCE EscrowLock WITH
    Ids <- 1 .. MaxEscrows, Parties <- Agents, MaxAmount <- MaxU64,
    lock <- Lock, vault <- Vault, purse <- Purse

\* Escrows are locks: what one took in goes out once and in full, to the
\* payee if its status says Released and to the payer otherwise, and no
\* other instruction or transfer lowers an escrow vault.
EscrowsAreLocks == Locks!Spec
=============================================================================
