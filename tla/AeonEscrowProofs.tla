-------------------------- MODULE AeonEscrowProofs --------------------------
(***************************************************************************)
(* Proofs about AeonEscrow: types; authorities, bonds and tokens of the    *)
(* core under the composition; who can settle an escrow and when; and the  *)
(* refinement of EscrowLock.                                               *)
(***************************************************************************)
EXTENDS AeonEscrow, AeonAuthorityLedgerProofs

LEMMA EscrowAccountFacts ==
    ASSUME NEW i \in 1 .. MaxEscrows
    PROVE  /\ EscrowVault(i) \in Account
           /\ \A a \in Agents : EscrowVault(i) # Wallet(a)
           /\ \A j \in 1 .. MaxAuthorities : EscrowVault(i) # BondVault(j)
           /\ \A j \in 1 .. MaxEscrows : EscrowVault(i) = EscrowVault(j) => i = j
           /\ EscrowVault(i) \notin Wallets
           /\ EscrowVault(i) \in OtherVaults
BY DEF Wallet, BondVault, EscrowVault, Account, Wallets, BondVaults, EscrowVaults, OtherVaults

\* What a typed state says of one escrow.
LEMMA EscrowFacts ==
    ASSUME EscrowTypeOK, NEW i \in EscrowIds
    PROVE  /\ i \in 1 .. MaxEscrows /\ i \in 1 .. escrow_counter
           /\ escrow[i] \in Escrow
           /\ escrow[i].payer \in Agents /\ escrow[i].payee \in Agents
           /\ escrow[i].amount \in U64
<1>1. i \in 1 .. escrow_counter /\ escrow[i] \in Escrow
  BY DEF EscrowTypeOK, EscrowIds
<1>2. i \in 1 .. MaxEscrows
  BY <1>1, LimitsAssumption DEF EscrowTypeOK
<1> QED
  BY <1>1, <1>2 DEF Escrow

-----------------------------------------------------------------------------
(* Type correctness                                                        *)

LEMMA CreateTypeOK ==
    ASSUME EscrowTypeOK, NEW payer \in Agents, NEW payee \in Agents,
           NEW amount \in Amounts, NEW id \in AuthorityIds \cup {0}, NEW c,
           NEW terms \in EscrowTerms,
           CreateEscrow(payer, payee, amount, id, c, terms)
    PROVE  EscrowTypeOK'
<1> DEFINE n == escrow_counter + 1
           new == NewEscrow(payer, payee, amount, id, terms)
<1>1. TypeOK /\ amount \in U64 /\ n \in 1 .. MaxEscrows /\ terms \in Terms
  BY InputsAssumption, EscrowInputsAssumption, LimitsAssumption DEF EscrowTypeOK, CreateEscrow
<1>2. authority' \in [1 .. authority_counter -> Authority]
  BY <1>1, CommitTypeOK DEF CreateEscrow
<1>3. balance' \in [Account -> U64]
  BY <1>1, AccountFacts, EscrowAccountFacts, TransferFacts DEF CreateEscrow, Accepted, TypeOK
<1>4. TypeOK'
  BY <1>1, <1>2, <1>3 DEF TypeOK, CreateEscrow, config, Registered
<1>5. new \in Escrow
  <2>1. id \in 0 .. MaxAuthorities
    BY <1>1, LimitsAssumption DEF TypeOK, AuthorityIds
  <2> QED
    BY <2>1, <1>1 DEF NewEscrow, Escrow, EscrowStatus
<1>6. escrow' \in [1 .. n -> Escrow]
  <2>1. escrow_counter \in Nat /\ escrow \in [1 .. escrow_counter -> Escrow]
    BY LimitsAssumption DEF EscrowTypeOK
  <2>2. escrow' = Added(escrow, n, new)
    BY DEF CreateEscrow
  <2> QED
    BY <2>1, <2>2, <1>5, AddedFacts
<1>7. escrow_counter' = n /\ n \in 0 .. MaxEscrows
  BY <1>1, LimitsAssumption DEF CreateEscrow
<1> QED
  BY <1>4, <1>6, <1>7 DEF EscrowTypeOK

LEMMA ClosedTypeOK ==
    ASSUME EscrowTypeOK, NEW i \in EscrowIds, NEW status \in EscrowStatus
    PROVE  Closed(i, status) \in [1 .. escrow_counter -> Escrow]
BY EscrowFacts DEF Closed, EscrowTypeOK, Escrow

LEMMA ReleaseTypeOK ==
    ASSUME EscrowTypeOK, NEW i \in EscrowIds, NEW w, ReleaseEscrow(i, w)
    PROVE  EscrowTypeOK'
<1> DEFINE e == escrow[i]
<1>1. /\ TypeOK /\ i \in 1 .. MaxEscrows
      /\ e.payer \in Agents /\ e.payee \in Agents /\ e.amount \in U64
  BY EscrowFacts DEF EscrowTypeOK
<1>2. balance' \in [Account -> U64]
  BY <1>1, AccountFacts, EscrowAccountFacts, TransferFacts DEF ReleaseEscrow, ReleaseAccepted, Accepted, TypeOK
<1>3. cri' \in [Registered -> Cri]
  BY <1>1, CriFacts DEF ReleaseEscrow, ReleaseAccepted, TypeOK, Registered
<1>4. Registered' = Registered
  BY <1>3 DEF Registered
<1>5. TypeOK'
  BY <1>1, <1>2, <1>3, <1>4 DEF TypeOK, ReleaseEscrow, config
<1>6. escrow' \in [1 .. escrow_counter -> Escrow] /\ escrow_counter' = escrow_counter
  BY ClosedTypeOK DEF ReleaseEscrow, EscrowStatus
<1> QED
  BY <1>5, <1>6 DEF EscrowTypeOK

LEMMA CancelTypeOK ==
    ASSUME EscrowTypeOK, NEW a, NEW i \in EscrowIds, CancelEscrow(a, i)
    PROVE  EscrowTypeOK'
<1> DEFINE e == escrow[i]
<1>1. /\ TypeOK /\ i \in 1 .. MaxEscrows
      /\ e.payer \in Agents /\ e.payer \in Registered /\ e.amount \in U64
  BY EscrowFacts DEF EscrowTypeOK, CancelEscrow, CancelAccepted
<1>2. balance' \in [Account -> U64]
  BY <1>1, AccountFacts, EscrowAccountFacts, TransferFacts DEF CancelEscrow, CancelAccepted, Accepted, TypeOK
<1>3. FailedCommitment(cri[e.payer]) \in Cri
  <2>1. cri[e.payer] \in Cri /\ cri[e.payer].failed < MaxU64
    BY <1>1 DEF CancelEscrow, CancelAccepted, TypeOK
  <2>2. cri[e.payer].failed + 1 \in U64
    BY <2>1, LimitsAssumption DEF Cri, U64
  <2> QED
    BY <2>1, <2>2 DEF Cri, FailedCommitment
<1>4. cri' \in [Registered -> Cri]
  BY <1>1, <1>3 DEF CancelEscrow, TypeOK, Registered
<1>5. Registered' = Registered
  BY <1>4 DEF Registered
<1>6. TypeOK'
  BY <1>1, <1>2, <1>4, <1>5 DEF TypeOK, CancelEscrow, config
<1>7. escrow' \in [1 .. escrow_counter -> Escrow] /\ escrow_counter' = escrow_counter
  BY ClosedTypeOK DEF CancelEscrow, EscrowStatus, StatusWhenCancelled
<1> QED
  BY <1>6, <1>7 DEF EscrowTypeOK

LEMMA IntoVaultTypeOK ==
    ASSUME EscrowTypeOK, IntoEscrowVault
    PROVE  TypeOK'
<1>1. TypeOK /\ \A i \in EscrowIds : EscrowVault(i) \in Account
  BY EscrowFacts, EscrowAccountFacts DEF EscrowTypeOK
<1> QED
  BY <1>1, SplTransferTypeOK, SlashTypeOK, InputsAssumption DEF IntoEscrowVault

\* The composition keeps every account typed.
THEOREM EscrowTypeCorrect == EscrowSpec => []EscrowTypeOK
<1>1. EscrowInit => EscrowTypeOK
  <2> SUFFICES ASSUME EscrowInit PROVE EscrowTypeOK
    OBVIOUS
  <2>1. TypeOK
    BY InitTypeOK DEF EscrowInit
  <2>2. escrow_counter = 0 /\ escrow \in [1 .. escrow_counter -> Escrow]
    BY DEF EscrowInit
  <2> QED
    BY <2>1, <2>2, LimitsAssumption DEF EscrowTypeOK
<1>2. EscrowTypeOK /\ [EscrowNext]_escrowVars => EscrowTypeOK'
  <2> SUFFICES ASSUME EscrowTypeOK, [EscrowNext]_escrowVars PROVE EscrowTypeOK'
    OBVIOUS
  <2>1. CASE ([Next]_vars \/ IntoEscrowVault) /\ UNCHANGED escrows
    BY <2>1, NextTypeOK, IntoVaultTypeOK DEF EscrowTypeOK, escrows
  <2> QED
    BY <2>1, CreateTypeOK, ReleaseTypeOK, CancelTypeOK DEF EscrowNext, escrowVars
<1> QED
  BY <1>1, <1>2, PTL DEF EscrowSpec

-----------------------------------------------------------------------------
(* The authorities, now charged by escrows as well                         *)

LEMMA EscrowNextIsStep ==
    ASSUME EscrowTypeOK, [EscrowNext]_escrowVars
    PROVE  AuthorityStep
<1>1. TypeOK
  BY DEF EscrowTypeOK
<1>2. CASE [Next]_vars
  BY <1>1, <1>2, NextIsStep
<1>3. CASE UNCHANGED <<authority, authority_counter>>
  BY <1>3 DEF AuthorityStep
<1>4. ASSUME NEW payer \in Agents, NEW payee \in Agents, NEW amount \in Amounts,
             NEW id \in AuthorityIds \cup {0}, NEW c, NEW terms,
             CreateEscrow(payer, payee, amount, id, c, terms)
      PROVE  AuthorityStep
  BY <1>1, <1>4, InputsAssumption, CommitIsStep DEF CreateEscrow, config
<1> QED
  BY <1>2, <1>3, <1>4
  DEF EscrowNext, escrowVars, IntoEscrowVault, SplTransfer, SlashBond,
      ReleaseEscrow, CancelEscrow, config

\* Spending limits, exhaustion and attenuation survive the composition.
THEOREM EscrowAuthoritiesSound ==
    EscrowSpec => [](SpendWithinLimits /\ ExhaustedIffUsedUp /\ Attenuated)
<1>1. EscrowInit => AuthorityInv
  BY DEF EscrowInit, Init, AuthorityInv, SpendWithinLimits, ExhaustedIffUsedUp,
         Attenuated, AuthorityIds
<1>2. EscrowTypeOK /\ AuthorityInv /\ [EscrowNext]_escrowVars => AuthorityInv'
  BY EscrowNextIsStep, StepKeepsInv DEF EscrowTypeOK
<1>3. AuthorityInv => SpendWithinLimits /\ ExhaustedIffUsedUp /\ Attenuated
  BY DEF AuthorityInv
<1> QED
  BY <1>1, <1>2, <1>3, EscrowTypeCorrect, PTL DEF EscrowSpec

\* What escrows lock under an authority is within its ancestors' terms too.
THEOREM EscrowsNeverBeyondAncestors == EscrowSpec => []NeverBeyondAncestors
<1>1. EscrowInit => RootsAreAtDepth0
  BY DEF EscrowInit, Init, RootsAreAtDepth0, AuthorityIds
<1>2. EscrowTypeOK /\ RootsAreAtDepth0 /\ [EscrowNext]_escrowVars => RootsAreAtDepth0'
  BY EscrowNextIsStep, StepKeepsRoots DEF EscrowTypeOK
<1>3. EscrowTypeOK /\ SpendWithinLimits /\ ExhaustedIffUsedUp /\ Attenuated
        /\ RootsAreAtDepth0 => NeverBeyondAncestors
  BY InvNeverBeyond DEF AuthorityInv, EscrowTypeOK
<1> QED
  BY <1>1, <1>2, <1>3, EscrowTypeCorrect, EscrowAuthoritiesSound, PTL DEF EscrowSpec

\* Authorities that escrows charge are allowances still.
THEOREM EscrowAuthoritiesImplementAllowances == EscrowSpec => AuthoritiesAreAllowances
<1>1. EscrowInit => Allowances!Init
  BY DEF EscrowInit, Init, Allowances!Init, Allowances!Ungranted, AllowanceOf, AuthorityIds
<1>2. EscrowTypeOK /\ AuthorityInv /\ [EscrowNext]_escrowVars =>
        [Allowances!Next]_[i \in 1 .. MaxAuthorities |-> AllowanceOf(i)]
  BY EscrowNextIsStep, StepIsAllowanceStep DEF EscrowTypeOK
<1>3. AuthorityInv <=> SpendWithinLimits /\ ExhaustedIffUsedUp /\ Attenuated
  BY DEF AuthorityInv
<1> QED
  BY <1>1, <1>2, <1>3, EscrowTypeCorrect, EscrowAuthoritiesSound, PTL
  DEF EscrowSpec, AuthoritiesAreAllowances, Allowances!Spec
-----------------------------------------------------------------------------
(* The vaults                                                              *)

LEMMA EscrowsKeepVaults ==
    ASSUME EscrowTypeOK, [Next]_vars \/ IntoEscrowVault
    PROVE  \A i \in 1 .. MaxEscrows : balance[EscrowVault(i)] <= balance'[EscrowVault(i)]
<1>1. TypeOK /\ \A i \in 1 .. MaxEscrows : EscrowVault(i) \in OtherVaults
  BY EscrowAccountFacts DEF EscrowTypeOK
<1>2. CASE [Next]_vars
  <2>1. VaultsKept
    BY <1>1, <1>2, CoreKeepsVaults
  <2> QED
    BY <1>1, <2>1 DEF VaultsKept
<1>3. CASE IntoEscrowVault
  <2>1. \A i \in EscrowIds : EscrowVault(i) \in Account
    BY EscrowFacts, EscrowAccountFacts
  <2>2. VaultsKept
    BY <1>1, <1>3, <2>1, DonationKeepsVaults, SlashKeepsVaults, InputsAssumption
    DEF IntoEscrowVault
  <2> QED
    BY <1>1, <2>2 DEF VaultsKept
<1> QED
  BY <1>2, <1>3

\* The tokens of a settlement: out of one vault, into one wallet.
LEMMA VaultTransfer ==
    ASSUME EscrowTypeOK, NEW i \in 1 .. MaxEscrows, NEW a \in Agents, NEW amount \in U64,
           Accepted(EscrowVault(i), Wallet(a), amount),
           balance' = AfterTransfer(balance, EscrowVault(i), Wallet(a), amount)
    PROVE  /\ balance' \in [Account -> U64]
           /\ balance'[EscrowVault(i)] = balance[EscrowVault(i)] - amount
           /\ balance'[Wallet(a)] = balance[Wallet(a)] + amount
           /\ \A t \in Account \ {EscrowVault(i), Wallet(a)} : balance'[t] = balance[t]
BY EscrowAccountFacts, AccountFacts, TransferFacts DEF Accepted, EscrowTypeOK, TypeOK

\* The tokens of a new escrow: out of the payer's wallet, into its vault.
LEMMA VaultFunding ==
    ASSUME EscrowTypeOK, NEW i \in 1 .. MaxEscrows, NEW a \in Agents, NEW amount \in U64,
           Accepted(Wallet(a), EscrowVault(i), amount),
           balance' = AfterTransfer(balance, Wallet(a), EscrowVault(i), amount)
    PROVE  /\ balance' \in [Account -> U64]
           /\ balance'[EscrowVault(i)] = balance[EscrowVault(i)] + amount
           /\ balance'[Wallet(a)] = balance[Wallet(a)] - amount
           /\ \A t \in Account \ {EscrowVault(i), Wallet(a)} : balance'[t] = balance[t]
BY EscrowAccountFacts, AccountFacts, TransferFacts DEF Accepted, EscrowTypeOK, TypeOK
-----------------------------------------------------------------------------
(* Open escrows are funded                                                 *)

LEMMA CreateFunds ==
    ASSUME EscrowTypeOK, EscrowFunded, NEW payer \in Agents, NEW payee \in Agents,
           NEW amount \in Amounts, NEW id, NEW c, NEW terms,
           CreateEscrow(payer, payee, amount, id, c, terms)
    PROVE  EscrowFunded'
<1> DEFINE n == escrow_counter + 1
<1>1. /\ amount \in U64 /\ n \in 1 .. MaxEscrows /\ escrow_counter \in Nat
      /\ balance \in [Account -> U64]
  BY InputsAssumption, LimitsAssumption DEF CreateEscrow, EscrowTypeOK, TypeOK
<1>2. /\ balance' \in [Account -> U64]
      /\ balance'[EscrowVault(n)] = balance[EscrowVault(n)] + amount
      /\ \A t \in Account \ {EscrowVault(n), Wallet(payer)} : balance'[t] = balance[t]
  BY <1>1, VaultFunding DEF CreateEscrow
<1>3. EscrowIds' = EscrowIds \cup {n} /\ \A i \in EscrowIds : escrow'[i] = escrow[i]
  BY <1>1 DEF EscrowIds, CreateEscrow, Added, EscrowTypeOK
<1>4. escrow'[n].amount = amount
  BY <1>1 DEF CreateEscrow, Added, NewEscrow, EscrowTypeOK
<1>5. amount <= balance'[EscrowVault(n)]
  BY <1>1, <1>2, EscrowAccountFacts, LimitsAssumption DEF U64
<1>6. ASSUME NEW i \in EscrowIds
      PROVE  balance'[EscrowVault(i)] = balance[EscrowVault(i)]
  <2>1. i \in 1 .. MaxEscrows /\ i # n
    BY <1>1, EscrowFacts
  <2> QED
    BY <1>1, <1>2, <2>1, EscrowAccountFacts
<1> QED
  BY <1>3, <1>4, <1>5, <1>6 DEF EscrowFunded

\* What a settlement of escrow i, to the wallet of agent a, does.
Settles(i, a, status) ==
    /\ escrow[i].status = "Open"
    /\ Accepted(EscrowVault(i), Wallet(a), escrow[i].amount)
    /\ balance' = AfterTransfer(balance, EscrowVault(i), Wallet(a), escrow[i].amount)
    /\ escrow' = Closed(i, status)

LEMMA SettlesFunds ==
    ASSUME EscrowTypeOK, EscrowFunded, NEW i \in EscrowIds, NEW a \in Agents,
           NEW status \in {"Released", "Cancelled", "Expired"}, Settles(i, a, status)
    PROVE  EscrowFunded'
<1>1. /\ i \in 1 .. MaxEscrows /\ escrow[i].amount \in U64
      /\ \A t \in Account \ {EscrowVault(i), Wallet(a)} : balance'[t] = balance[t]
  BY EscrowFacts, VaultTransfer DEF Settles
<1>2. EscrowIds' = EscrowIds /\ escrow'[i].status = status
      /\ \A j \in EscrowIds : j # i => escrow'[j] = escrow[j]
  BY EscrowFacts DEF Settles, Closed, EscrowIds, Escrow, EscrowTypeOK
<1>3. ASSUME NEW j \in EscrowIds, j # i
      PROVE  balance'[EscrowVault(j)] = balance[EscrowVault(j)]
  BY <1>1, <1>3, EscrowFacts, EscrowAccountFacts
<1> QED
  BY <1>2, <1>3 DEF EscrowFunded

LEMMA SettlementsSettle ==
    ASSUME EscrowTypeOK, NEW i \in EscrowIds
    PROVE  /\ \A w : ReleaseEscrow(i, w) => Settles(i, escrow[i].payee, "Released")
           /\ \A a : CancelEscrow(a, i) =>
                 \E status \in {"Cancelled", "Expired"} : Settles(i, escrow[i].payer, status)
BY DEF ReleaseEscrow, ReleaseAccepted, CancelEscrow, CancelAccepted, Settles,
       StatusWhenCancelled

\* The vault of an open escrow holds its amount.
THEOREM EscrowsFunded == EscrowSpec => []EscrowFunded
<1>1. EscrowInit => EscrowFunded
  BY DEF EscrowInit, EscrowFunded, EscrowIds
<1>2. EscrowTypeOK /\ EscrowTypeOK' /\ EscrowFunded /\ [EscrowNext]_escrowVars => EscrowFunded'
  <2> SUFFICES ASSUME EscrowTypeOK, EscrowTypeOK', EscrowFunded, [EscrowNext]_escrowVars
               PROVE  EscrowFunded'
    OBVIOUS
  <2>1. CASE ([Next]_vars \/ IntoEscrowVault) /\ UNCHANGED escrows
    <3>1. /\ escrow' = escrow
          /\ \A i \in 1 .. MaxEscrows : balance[EscrowVault(i)] <= balance'[EscrowVault(i)]
      BY <2>1, EscrowsKeepVaults DEF escrows
    <3>2. ASSUME NEW i \in EscrowIds, escrow[i].status = "Open"
          PROVE  escrow[i].amount <= balance'[EscrowVault(i)]
      <4>1. /\ escrow[i].amount \in Nat /\ balance[EscrowVault(i)] \in Nat
            /\ balance'[EscrowVault(i)] \in Nat
        <5>1. escrow[i].amount \in U64 /\ EscrowVault(i) \in Account
          BY EscrowFacts, EscrowAccountFacts
        <5>2. balance \in [Account -> U64] /\ balance' \in [Account -> U64]
          BY DEF EscrowTypeOK, TypeOK
        <5> QED
          BY <5>1, <5>2, LimitsAssumption DEF U64
      <4>2. balance[EscrowVault(i)] <= balance'[EscrowVault(i)]
        BY <3>1, EscrowFacts
      <4>3. escrow[i].amount <= balance[EscrowVault(i)]
        BY <3>2 DEF EscrowFunded
      <4> QED
        BY <4>1, <4>2, <4>3
    <3> QED
      BY <3>1, <3>2 DEF EscrowFunded, EscrowIds
  <2>2. ASSUME NEW i \in EscrowIds,
               \/ \E w \in Witnesses : ReleaseEscrow(i, w)
               \/ \E a \in Agents : CancelEscrow(a, i)
        PROVE  EscrowFunded'
    BY <2>2, SettlementsSettle, SettlesFunds, EscrowFacts
  <2> QED
    BY <2>1, <2>2, CreateFunds DEF EscrowNext, escrowVars
<1> QED
  BY <1>1, <1>2, EscrowTypeCorrect, PTL DEF EscrowSpec
-----------------------------------------------------------------------------
(* Tokens: conserved, and within reach of the payer                        *)

LEMMA EscrowNextConserves ==
    ASSUME EscrowTypeOK, TokensConserved, [EscrowNext]_escrowVars
    PROVE  TokensConserved'
<1>1. TypeOK
  BY DEF EscrowTypeOK
<1>2. CASE [Next]_vars
  BY <1>1, <1>2, NextConserves
<1>3. CASE IntoEscrowVault
  <2>1. \A i \in EscrowIds : EscrowVault(i) \in Account
    BY EscrowFacts, EscrowAccountFacts
  <2> QED
    BY <1>1, <1>3, <2>1, SlashConserves, MoveConserves, AccountFacts, InputsAssumption
    DEF IntoEscrowVault, SplTransfer
<1>4. ASSUME NEW payer \in Agents, NEW payee, NEW amount \in Amounts, NEW id, NEW c,
             NEW terms, CreateEscrow(payer, payee, amount, id, c, terms)
      PROVE  TokensConserved'
  <2>1. escrow_counter + 1 \in 1 .. MaxEscrows /\ amount \in U64
    BY <1>4, LimitsAssumption, InputsAssumption DEF CreateEscrow, EscrowTypeOK
  <2>2. EscrowVault(escrow_counter + 1) \in Account /\ Wallet(payer) \in Account
    BY <2>1, EscrowAccountFacts, AccountFacts
  <2> QED
    BY <1>1, <1>4, <2>1, <2>2, MoveConserves DEF CreateEscrow
<1>5. ASSUME NEW i \in EscrowIds, NEW a \in Agents, NEW status, Settles(i, a, status)
      PROVE  TokensConserved'
  <2>1. EscrowVault(i) \in Account /\ Wallet(a) \in Account /\ escrow[i].amount \in U64
    BY EscrowFacts, EscrowAccountFacts, AccountFacts
  <2> QED
    BY <1>1, <1>5, <2>1, MoveConserves DEF Settles
<1> QED
  BY <1>2, <1>3, <1>4, <1>5, SettlementsSettle, EscrowFacts DEF EscrowNext, escrowVars

\* Escrows make and lose no token, and no transfer of theirs overflows.
THEOREM EscrowTokensConserved == EscrowSpec => [](TokensConserved /\ NoOverflow)
<1>1. EscrowInit => TokensConserved
  BY InitConserves DEF EscrowInit
<1>2. EscrowTypeOK /\ TokensConserved /\ [EscrowNext]_escrowVars => TokensConserved'
  BY EscrowNextConserves
<1>3. EscrowTypeOK /\ TokensConserved => NoOverflow
  BY ConservedDoesNotOverflow DEF EscrowTypeOK
<1> QED
  BY <1>1, <1>2, <1>3, EscrowTypeCorrect, PTL DEF EscrowSpec

\* A registered payer can cancel its open escrow whatever else happened: the
\* vault holds the amount and, tokens being conserved, the payer's wallet
\* has room for it.
THEOREM PayersCanTakeBack == EscrowSpec => []PayerCanTakeBack
<1>1. EscrowTypeOK /\ EscrowFunded /\ NoOverflow => PayerCanTakeBack
  <2> SUFFICES ASSUME EscrowTypeOK, EscrowFunded, NoOverflow, NEW i \in EscrowIds,
                      escrow[i].status = "Open", escrow[i].payer \in Registered,
                      cri[escrow[i].payer].failed < MaxU64
               PROVE  CancelAccepted(escrow[i].payer, i)
    BY DEF PayerCanTakeBack
  <2> DEFINE vault == EscrowVault(i)
             w == Wallet(escrow[i].payer)
             amount == escrow[i].amount
  <2>1. vault \in Account /\ w \in Account /\ vault # w /\ amount \in U64
    BY EscrowFacts, EscrowAccountFacts, AccountFacts
  <2>2. /\ balance[vault] \in Nat /\ balance[w] \in Nat /\ amount \in Nat
        /\ MaxU64 \in Nat
    BY <2>1, LimitsAssumption DEF EscrowTypeOK, TypeOK, U64
  <2>3. amount <= balance[vault]
    BY DEF EscrowFunded
  <2>4. balance[w] + balance[vault] <= MaxU64
    BY <2>1 DEF NoOverflow
  <2>5. balance[w] + amount <= MaxU64
    BY <2>2, <2>3, <2>4
  <2>6. Accepted(vault, w, amount)
    BY <2>3, <2>5 DEF Accepted, TransferAccepted
  <2> QED
    BY <2>6 DEF CancelAccepted, MayCancel
<1> QED
  BY <1>1, EscrowTypeCorrect, EscrowsFunded, EscrowTokensConserved, PTL

\* Once a third party may cancel nobody may release, but for Timeout escrows.
THEOREM DeadlinesSeparate == EscrowSpec => []DeadlineSeparates
<1>1. DeadlineSeparates
  BY DEF DeadlineSeparates, CancelAccepted, ReleaseAccepted, MayCancel, Releasable
<1> QED
  BY <1>1, PTL

-----------------------------------------------------------------------------
(* Bonds and charges beside escrows                                        *)

LEMMA EscrowNextBondStep ==
    ASSUME EscrowTypeOK, [EscrowNext]_escrowVars
    PROVE  BondStep
<1>1. TypeOK
  BY DEF EscrowTypeOK
<1>2. CASE [Next]_vars
  BY <1>1, <1>2, NextBondStep
<1>3. CASE IntoEscrowVault
  <2>1. \A i \in EscrowIds : EscrowVault(i) \in Account
    BY EscrowFacts, EscrowAccountFacts
  <2> QED
    BY <1>1, <1>3, <2>1, SlashBondStep, TransferOutflow, OutflowBondStep, InputsAssumption
    DEF IntoEscrowVault, SplTransfer
<1>4. ASSUME NEW payer \in Agents, NEW payee, NEW amount \in Amounts, NEW id, NEW c,
             NEW terms, CreateEscrow(payer, payee, amount, id, c, terms)
      PROVE  BondStep
  <2>1. escrow_counter + 1 \in 1 .. MaxEscrows /\ amount \in U64
    BY <1>4, LimitsAssumption, InputsAssumption DEF CreateEscrow, EscrowTypeOK
  <2>2. EscrowVault(escrow_counter + 1) \in Account
    BY <2>1, EscrowAccountFacts
  <2> QED
    BY <1>1, <1>4, <2>1, <2>2, TransferOutflow, OutflowBondStep DEF CreateEscrow
<1>5. ASSUME NEW i \in EscrowIds, NEW a \in Agents, NEW status, Settles(i, a, status),
             bond' = bond
      PROVE  BondStep
  <2>1. i \in 1 .. MaxEscrows /\ escrow[i].amount \in U64
    BY EscrowFacts
  <2>2. \A t \in Account \ {EscrowVault(i), Wallet(a)} : balance'[t] = balance[t]
    BY <1>5, <2>1, VaultTransfer DEF Settles
  <2>3. \A j \in 1 .. MaxAuthorities : /\ BondVault(j) \in Account \ {EscrowVault(i), Wallet(a)}
                                       /\ balance[BondVault(j)] \in Nat
    BY <2>1, EscrowAccountFacts, AccountFacts, LimitsAssumption DEF EscrowTypeOK, TypeOK, U64
  <2> QED
    BY <1>5, <2>2, <2>3, OutsideBondStep
<1>6. \A i \in EscrowIds : \A x : ReleaseEscrow(i, x) \/ CancelEscrow(x, i) => bond' = bond
  BY DEF ReleaseEscrow, CancelEscrow
<1> QED
  BY <1>2, <1>3, <1>4, <1>5, <1>6, SettlementsSettle, EscrowFacts DEF EscrowNext, escrowVars

LEMMA EscrowNextIssuesBonded ==
    ASSUME EscrowTypeOK, [EscrowNext]_escrowVars
    PROVE  IssuedBonded
<1>1. CASE [Next]_vars
  BY <1>1, NextIssuesBonded DEF EscrowTypeOK
<1>2. CASE AuthorityIds' = AuthorityIds
  BY <1>2 DEF IssuedBonded
<1>3. ASSUME NEW payer, NEW payee, NEW amount, NEW id, NEW c, NEW terms,
             CreateEscrow(payer, payee, amount, id, c, terms)
      PROVE  AuthorityIds' = AuthorityIds
  BY <1>3 DEF CreateEscrow, CommitSpent, AuthorityIds
<1>4. \A i \in EscrowIds : \A x : ReleaseEscrow(i, x) \/ CancelEscrow(x, i)
            => AuthorityIds' = AuthorityIds
  BY DEF ReleaseEscrow, CancelEscrow, AuthorityIds
<1>5. IntoEscrowVault => AuthorityIds' = AuthorityIds
  BY DEF IntoEscrowVault, SplTransfer, SlashBond, AuthorityIds
<1> QED
  BY <1>1, <1>2, <1>3, <1>4, <1>5 DEF EscrowNext, escrowVars

\* Bonds stay backed although escrows move tokens beside them.
THEOREM EscrowBondsBacked == EscrowSpec => []BondBacked
<1>1. EscrowInit => BondBacked
  BY InitBonds DEF EscrowInit
<1>2. EscrowTypeOK /\ EscrowTypeOK' /\ AuthorityInv /\ BondBacked /\ [EscrowNext]_escrowVars
            => BondBacked'
  BY EscrowNextIsStep, EscrowNextBondStep, EscrowNextIssuesBonded, StepKeepsBonds
  DEF EscrowTypeOK
<1>3. AuthorityInv <=> SpendWithinLimits /\ ExhaustedIffUsedUp /\ Attenuated
  BY DEF AuthorityInv
<1> QED
  BY <1>1, <1>2, <1>3, EscrowTypeCorrect, EscrowAuthoritiesSound, PTL DEF EscrowSpec

\* No settlement takes from a bond vault.
THEOREM EscrowBondsPaidOnce == EscrowSpec => BondPaidOnce
<1>1. EscrowTypeOK /\ EscrowTypeOK' /\ [EscrowNext]_escrowVars =>
        [\A i \in 1 .. MaxAuthorities :
            balance'[BondVault(i)] < balance[BondVault(i)] =>
                /\ bond[i].status = "Active" /\ bond'[i].status = "Slashed"
                /\ balance'[BondVault(i)] = balance[BondVault(i)] - bond[i].amount]_vars
  BY EscrowNextBondStep, FallsOnce DEF Falls, EscrowTypeOK
<1> QED
  BY <1>1, EscrowTypeCorrect, PTL DEF EscrowSpec, BondPaidOnce

LEMMA EscrowNextCovered ==
    ASSUME EscrowTypeOK, EscrowTypeOK', AuthorityInv, [EscrowNext]_escrowVars,
           NEW i \in AuthorityIds
    PROVE  Covered(i)
<1>1. TypeOK /\ TypeOK'
  BY DEF EscrowTypeOK
<1>2. CASE [Next]_vars
  BY <1>1, <1>2, NextCovered
<1>3. CASE authority' = authority
  BY <1>3 DEF Covered
<1>4. ASSUME NEW payer \in Agents, NEW payee, NEW amount \in Amounts,
             NEW id \in AuthorityIds \cup {0}, NEW c, NEW terms,
             CreateEscrow(payer, payee, amount, id, c, terms)
      PROVE  Covered(i)
  <2>1. escrow_counter + 1 \in 1 .. MaxEscrows /\ amount \in U64
    BY <1>4, LimitsAssumption, InputsAssumption DEF CreateEscrow, EscrowTypeOK
  <2>2. EscrowVault(escrow_counter + 1) \in Account
    BY <2>1, EscrowAccountFacts
  <2>3. Outflow(payer, amount)
    BY <1>1, <1>4, <2>1, <2>2, TransferOutflow DEF CreateEscrow
  <2> QED
    BY <1>1, <1>4, <2>1, <2>3, CommitCovered DEF CreateEscrow, config
<1> QED
  BY <1>2, <1>3, <1>4
  DEF EscrowNext, escrowVars, IntoEscrowVault, SplTransfer, SlashBond, ReleaseEscrow, CancelEscrow

\* An escrow is charged for what it takes from its payer's wallet.
THEOREM EscrowChargesCoverOutflow == EscrowSpec => ChargeCoversOutflow
<1>1. EscrowTypeOK /\ EscrowTypeOK' /\ AuthorityInv /\ [EscrowNext]_escrowVars =>
        [\A i \in AuthorityIds :
            authority'[i].spent # authority[i].spent =>
                \A a \in Agents :
                    balance[Wallet(a)] <= balance'[Wallet(a)] +
                        (IF a = authority[i].agent
                         THEN authority'[i].spent - authority[i].spent ELSE 0)]_vars
  BY EscrowNextCovered DEF Covered
<1>2. AuthorityInv <=> SpendWithinLimits /\ ExhaustedIffUsedUp /\ Attenuated
  BY DEF AuthorityInv
<1> QED
  BY <1>1, <1>2, EscrowTypeCorrect, EscrowAuthoritiesSound, PTL
  DEF EscrowSpec, ChargeCoversOutflow

\* No escrow is charged to a retired authority, and no settlement revives one.
THEOREM EscrowRetiredStaysRetired == EscrowSpec => RetiredIsFinal
<1>1. EscrowTypeOK /\ AuthorityInv /\ [EscrowNext]_escrowVars =>
        [\A i \in AuthorityIds :
            authority[i].status # "Active" => authority'[i] = authority[i]]_vars
  BY EscrowNextIsStep, StepLeavesRetired DEF EscrowTypeOK
<1>2. AuthorityInv <=> SpendWithinLimits /\ ExhaustedIffUsedUp /\ Attenuated
  BY DEF AuthorityInv
<1> QED
  BY <1>1, <1>2, EscrowTypeCorrect, EscrowAuthoritiesSound, PTL DEF EscrowSpec, RetiredIsFinal
-----------------------------------------------------------------------------
(* Escrows implement EscrowLock                                            *)

\* Tokens moved between one vault and one wallet, seen from the locks.
LEMMA TokensMoved ==
    ASSUME EscrowTypeOK, NEW i \in 1 .. MaxEscrows, NEW a \in Agents, NEW d \in Int,
           balance'[EscrowVault(i)] = balance[EscrowVault(i)] + d,
           balance'[Wallet(a)] = balance[Wallet(a)] - d,
           \A t \in Account \ {EscrowVault(i), Wallet(a)} : balance'[t] = balance[t]
    PROVE  Locks!Move(i, a, d)
<1>1. \A j \in 1 .. MaxEscrows : j # i => balance'[EscrowVault(j)] = balance[EscrowVault(j)]
  BY EscrowAccountFacts
<1>2. \A b \in Agents : b # a => balance'[Wallet(b)] = balance[Wallet(b)]
  BY EscrowAccountFacts, AccountFacts
<1> QED
  BY <1>1, <1>2 DEF Locks!Move, Vault, Purse

LEMMA CreateHolds ==
    ASSUME EscrowTypeOK, NEW payer \in Agents, NEW payee \in Agents,
           NEW amount \in Amounts, NEW id, NEW c, NEW terms,
           CreateEscrow(payer, payee, amount, id, c, terms),
           NEW n, n = escrow_counter + 1
    PROVE  Locks!Hold(n)
<1> DEFINE held == [state |-> "held", payer |-> payer, payee |-> payee, amount |-> amount]
<1>1. /\ amount \in U64 /\ n \in 1 .. MaxEscrows /\ escrow_counter \in Nat
      /\ payer # payee
  BY InputsAssumption, LimitsAssumption DEF CreateEscrow, EscrowTypeOK, TypeOK
<1>2. amount \in 1 .. MaxU64 /\ amount \in Int
  BY <1>1, LimitsAssumption DEF CreateEscrow, MaySpend, U64
<1>3. Locks!Move(n, payer, amount)
  <2>1. /\ balance'[EscrowVault(n)] = balance[EscrowVault(n)] + amount
        /\ balance'[Wallet(payer)] = balance[Wallet(payer)] - amount
        /\ \A t \in Account \ {EscrowVault(n), Wallet(payer)} : balance'[t] = balance[t]
    BY <1>1, VaultFunding DEF CreateEscrow
  <2> QED
    BY <1>1, <1>2, <2>1, TokensMoved
<1>4. n \notin EscrowIds /\ EscrowIds' = EscrowIds \cup {n}
  BY <1>1 DEF EscrowIds, CreateEscrow, Added, EscrowTypeOK
<1>5. /\ \A i \in EscrowIds : escrow'[i] = escrow[i]
      /\ escrow'[n] = NewEscrow(payer, payee, amount, id, terms)
  BY <1>1, <1>4 DEF EscrowIds, CreateEscrow, Added
<1>6. Lock[n] = [state |-> "none"]
  BY <1>1, <1>4 DEF Lock, LockOf
<1>7. LockOf(n)' = held
  BY <1>4, <1>5 DEF LockOf, NewEscrow, LockState
<1>8. \A i \in 1 .. MaxEscrows : i # n => LockOf(i)' = LockOf(i)
  BY <1>4, <1>5 DEF LockOf, LockState
<1>9. Lock' = [Lock EXCEPT ![n] = held]
  BY <1>1, <1>7, <1>8 DEF Lock
<1> QED
  BY <1>1, <1>2, <1>3, <1>6, <1>9 DEF Locks!Hold, Locks!NoLock

\* A settlement closes the lock of its escrow in favour of the agent paid.
LEMMA SettlesCloses ==
    ASSUME EscrowTypeOK, NEW i \in EscrowIds, NEW a \in Agents,
           NEW status \in {"Released", "Cancelled", "Expired"}, Settles(i, a, status)
    PROVE  Lock[i].state = "held" /\ Locks!Close(i, LockState(status), a)
<1> DEFINE amount == escrow[i].amount
           closed == [state |-> LockState(status), payer |-> Lock[i].payer,
                      payee |-> Lock[i].payee, amount |-> Lock[i].amount]
<1>1. i \in 1 .. MaxEscrows /\ amount \in U64 /\ amount \in Int
  BY EscrowFacts, LimitsAssumption DEF U64
<1>2. Lock[i] = [state |-> "held", payer |-> escrow[i].payer,
                 payee |-> escrow[i].payee, amount |-> amount]
  BY <1>1 DEF Lock, LockOf, LockState, Settles
<1>3. Locks!Move(i, a, 0 - amount)
  <2> DEFINE d == 0 - amount
  <2>1. /\ balance'[EscrowVault(i)] = balance[EscrowVault(i)] - amount
        /\ balance'[Wallet(a)] = balance[Wallet(a)] + amount
        /\ \A t \in Account \ {EscrowVault(i), Wallet(a)} : balance'[t] = balance[t]
    BY <1>1, VaultTransfer DEF Settles
  <2>2. balance[EscrowVault(i)] \in Int /\ balance[Wallet(a)] \in Int
    BY <1>1, EscrowAccountFacts, AccountFacts, LimitsAssumption DEF EscrowTypeOK, TypeOK, U64
  <2>3. /\ balance'[EscrowVault(i)] = balance[EscrowVault(i)] + d
        /\ balance'[Wallet(a)] = balance[Wallet(a)] - d
        /\ d \in Int
    BY <1>1, <2>1, <2>2
  <2> QED
    BY <1>1, <2>1, <2>3, TokensMoved
<1>4. /\ EscrowIds' = EscrowIds
      /\ escrow'[i] = [escrow[i] EXCEPT !.status = status]
      /\ \A j \in EscrowIds : j # i => escrow'[j] = escrow[j]
  BY DEF Settles, Closed, EscrowIds
<1>5. LockOf(i)' = closed
  <2>1. /\ escrow'[i].status = status /\ escrow'[i].payer = escrow[i].payer
        /\ escrow'[i].payee = escrow[i].payee /\ escrow'[i].amount = amount
    BY <1>4, EscrowFacts DEF Escrow
  <2> QED
    BY <1>2, <1>4, <2>1 DEF LockOf, LockState
<1>6. \A j \in 1 .. MaxEscrows : j # i => LockOf(j)' = LockOf(j)
  BY <1>4 DEF LockOf, LockState
<1>7. Lock' = [Lock EXCEPT ![i] = closed]
  BY <1>1, <1>5, <1>6 DEF Lock
<1> QED
  BY <1>2, <1>3, <1>7 DEF Locks!Close

LEMMA SettlementIsSettle ==
    ASSUME EscrowTypeOK, NEW i \in EscrowIds,
           \/ \E w \in Witnesses : ReleaseEscrow(i, w)
           \/ \E a \in Agents : CancelEscrow(a, i)
    PROVE  Locks!Settle(i)
<1>1. /\ i \in 1 .. MaxEscrows /\ escrow[i].payer \in Agents /\ escrow[i].payee \in Agents
  BY EscrowFacts
<1>2. Lock[i].payer = escrow[i].payer /\ Lock[i].payee = escrow[i].payee
  BY <1>1 DEF Lock, LockOf
<1>3. CASE \E w \in Witnesses : ReleaseEscrow(i, w)
  <2>1. Settles(i, escrow[i].payee, "Released")
    BY <1>3, SettlementsSettle
  <2>2. Lock[i].state = "held" /\ Locks!Close(i, "paid", Lock[i].payee)
    BY <1>1, <1>2, <2>1, SettlesCloses DEF LockState
  <2> QED
    BY <2>2 DEF Locks!Settle
<1>4. CASE \E a \in Agents : CancelEscrow(a, i)
  <2>1. PICK status \in {"Cancelled", "Expired"} : Settles(i, escrow[i].payer, status)
    BY <1>4, SettlementsSettle
  <2>2. Lock[i].state = "held" /\ Locks!Close(i, "refunded", Lock[i].payer)
    BY <1>1, <1>2, <2>1, SettlesCloses DEF LockState
  <2> QED
    BY <2>2 DEF Locks!Settle
<1> QED
  BY <1>3, <1>4

\* Every instruction and transfer is a step of the locks.
THEOREM EscrowsImplementLocks == EscrowSpec => EscrowsAreLocks
<1>1. EscrowInit => Locks!Init
  <2> SUFFICES ASSUME EscrowInit PROVE Locks!Init
    OBVIOUS
  <2>1. \A i \in 1 .. MaxEscrows : balance[EscrowVault(i)] = 0
    BY EscrowAccountFacts DEF EscrowInit, Init, InitialBalance
  <2>2. \A i \in 1 .. MaxEscrows : LockOf(i) = [state |-> "none"]
    BY DEF EscrowInit, EscrowIds, LockOf
  <2> QED
    BY <2>1, <2>2 DEF Locks!Init, Locks!NoLock, Lock, Vault
<1>2. EscrowTypeOK /\ [EscrowNext]_escrowVars => [Locks!Next]_<<Lock, Vault, Purse>>
  <2> SUFFICES ASSUME EscrowTypeOK, [EscrowNext]_escrowVars PROVE Locks!Next
    OBVIOUS
  <2>1. CASE ([Next]_vars \/ IntoEscrowVault) /\ UNCHANGED escrows
    <3>1. Lock' = Lock
      BY <2>1 DEF escrows, Lock, LockOf, EscrowIds, LockState
    <3>2. \A i \in 1 .. MaxEscrows : Vault'[i] >= Vault[i]
      <4>1. ASSUME NEW i \in 1 .. MaxEscrows PROVE Vault'[i] >= Vault[i]
        <5>1. balance[EscrowVault(i)] <= balance'[EscrowVault(i)]
          BY <2>1, EscrowsKeepVaults
        <5> QED
          BY <5>1 DEF Vault
      <4> QED
        BY <4>1
    <3> QED
      BY <3>1, <3>2 DEF Locks!Next, Locks!Elsewhere
  <2>2. ASSUME NEW payer \in Agents, NEW payee \in Agents, NEW amount \in Amounts,
               NEW id, NEW c, NEW terms, CreateEscrow(payer, payee, amount, id, c, terms)
        PROVE  Locks!Next
    <3>1. escrow_counter + 1 \in 1 .. MaxEscrows
      BY <2>2, LimitsAssumption DEF CreateEscrow, EscrowTypeOK
    <3> QED
      BY <2>2, <3>1, CreateHolds DEF Locks!Next
  <2>3. ASSUME NEW i \in EscrowIds,
               \/ \E w \in Witnesses : ReleaseEscrow(i, w)
               \/ \E a \in Agents : CancelEscrow(a, i)
        PROVE  Locks!Next
    BY <2>3, SettlementIsSettle, EscrowFacts DEF Locks!Next
  <2> QED
    BY <2>1, <2>2, <2>3 DEF EscrowNext, escrowVars
<1> QED
  BY <1>1, <1>2, EscrowTypeCorrect, PTL
  DEF EscrowSpec, EscrowsAreLocks, Locks!Spec, Locks!vars
=============================================================================
