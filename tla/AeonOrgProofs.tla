---------------------------- MODULE AeonOrgProofs ----------------------------
(***************************************************************************)
(* Proofs about AeonOrg: types, what the core promises under the           *)
(* composition, what may leave a treasury and that its creator can reach   *)
(* what it holds, the sums of members and shares.                          *)
(***************************************************************************)
EXTENDS AeonOrg, AeonAuthorityLedgerProofs

LEMMA OrgAccountFacts ==
    ASSUME NEW o \in 1 .. MaxOrgs
    PROVE  /\ OrgTreasury(o) \in Account
           /\ OrgTreasury(o) \in OtherVaults
           /\ \A a \in Agents : OrgTreasury(o) # Wallet(a)
           /\ \A p \in 1 .. MaxOrgs : OrgTreasury(o) = OrgTreasury(p) => o = p
BY DEF Wallet, OrgTreasury, Account, OrgTreasuries, OtherVaults

\* What a typed state says of one organization.
LEMMA OrgFacts ==
    ASSUME OrgTypeOK, NEW o \in OrgIds
    PROVE  /\ o \in 1 .. MaxOrgs /\ o \in 1 .. org_counter
           /\ org[o] \in Organization
           /\ member[o] \in [Agents -> OrgMember]
           /\ org[o].total_share_bps \in Nat /\ org[o].member_count \in Nat
           /\ \A a \in Agents : /\ member[o][a].share_bps \in 0 .. FULL_SHARE_BPS
                                /\ member[o][a].share_bps \in Nat
           /\ Treasury(o) \in U64
<1>1. o \in 1 .. org_counter /\ org[o] \in Organization /\ member[o] \in [Agents -> OrgMember]
  BY DEF OrgTypeOK, OrgIds
<1>2. o \in 1 .. MaxOrgs
  BY <1>1, LimitsAssumption DEF OrgTypeOK
<1>3. org[o].total_share_bps \in Nat /\ org[o].member_count \in Nat
  BY <1>1, OrgInputsAssumption DEF Organization
<1>4. \A a \in Agents : /\ member[o][a].share_bps \in 0 .. FULL_SHARE_BPS
                        /\ member[o][a].share_bps \in Nat
  BY <1>1, OrgInputsAssumption DEF OrgMember
<1>5. Treasury(o) \in U64
  BY <1>2, OrgAccountFacts DEF OrgTypeOK, TypeOK, Treasury
<1> QED
  BY <1>1, <1>2, <1>3, <1>4, <1>5

LEMMA ProductMonotone ==
    ASSUME NEW t \in Nat, NEW b \in Nat, NEW f \in Nat, b <= f
    PROVE  t * b \in Nat /\ t * b <= f * t
OBVIOUS

LEMMA ProductCancels ==
    ASSUME NEW q \in Nat, NEW t \in Nat, NEW f \in Nat \ {0}, f * q <= f * t
    PROVE  q <= t
<1> SUFFICES ASSUME q >= t + 1 PROVE FALSE
  OBVIOUS
<1>1. f * q >= f * (t + 1)
  OBVIOUS
<1> QED
  BY <1>1

LEMMA QuotientWithin ==
    ASSUME NEW p \in Nat, NEW f \in Nat \ {0}
    PROVE  p \div f \in Nat /\ f * (p \div f) <= p
OBVIOUS

\* A share of a treasury is a number of tokens, of those it has.
LEMMA PayoutFacts ==
    ASSUME NEW treasury \in Nat, NEW bps \in 0 .. FULL_SHARE_BPS
    PROVE  /\ payout_share(treasury, bps) \in Nat
           /\ payout_share(treasury, bps) <= treasury
<1> DEFINE p == treasury * bps
           q == p \div FULL_SHARE_BPS
           back == FULL_SHARE_BPS * q
           whole == FULL_SHARE_BPS * treasury
<1>1. FULL_SHARE_BPS \in Nat \ {0} /\ bps \in Nat /\ bps <= FULL_SHARE_BPS
  BY OrgInputsAssumption
<1>2. p \in Nat /\ p <= whole
  BY <1>1, ProductMonotone
<1> HIDE DEF p
<1>3. q \in Nat /\ back <= p
  BY <1>1, <1>2, QuotientWithin
<1> HIDE DEF q
<1>4. back \in Nat /\ whole \in Nat
  BY <1>1, <1>3
<1> HIDE DEF back, whole
<1>5. back <= whole
  BY <1>2, <1>3, <1>4
<1>6. q <= treasury
  BY <1>1, <1>3, <1>5, ProductCancels DEF back, whole
<1> QED
  BY <1>3, <1>6 DEF payout_share, p, q

LEMMA ShareFacts ==
    ASSUME OrgTypeOK, NEW o \in OrgIds, NEW a \in Agents
    PROVE  /\ ShareOf(o, a) \in Nat /\ ShareOf(o, a) <= Treasury(o)
           /\ ShareOf(o, a) \in U64
<1>1. /\ Treasury(o) \in U64 /\ Treasury(o) \in Nat /\ Treasury(o) <= MaxU64
      /\ member[o][a].share_bps \in 0 .. FULL_SHARE_BPS /\ MaxU64 \in Nat
  BY OrgFacts, LimitsAssumption DEF U64
<1>2. ShareOf(o, a) \in Nat /\ ShareOf(o, a) <= Treasury(o)
  BY <1>1, PayoutFacts DEF ShareOf
<1> QED
  BY <1>1, <1>2 DEF U64

-----------------------------------------------------------------------------
(* Type correctness                                                        *)

LEMMA CreateOrgTypeOK ==
    ASSUME OrgTypeOK, NEW creator \in Agents, NEW bps \in Shares, CreateOrg(creator, bps)
    PROVE  OrgTypeOK'
<1> DEFINE o == org_counter + 1
           share == IF bps = 0 THEN FULL_SHARE_BPS ELSE bps
           new == [creator |-> creator, member_count |-> 1,
                   total_share_bps |-> share, status |-> "Active"]
           members == [a \in Agents |->
                IF a = creator THEN [role |-> "Admin", share_bps |-> share] ELSE NotMember]
<1>1. org_counter \in Nat /\ o \in 0 .. MaxOrgs /\ share \in 0 .. FULL_SHARE_BPS
  BY OrgInputsAssumption, LimitsAssumption DEF OrgTypeOK, CreateOrg
<1>2. 1 \in 1 .. MaxMembers /\ 0 \in 0 .. FULL_SHARE_BPS
  BY OrgInputsAssumption
<1>3. new \in Organization
  BY <1>1, <1>2 DEF Organization, OrgStatus
<1>4. members \in [Agents -> OrgMember]
  BY <1>1, <1>2 DEF OrgMember, NotMember, MemberRole
<1>5. org' = Added(org, o, new) /\ member' = Added(member, o, members) /\ org_counter' = o
  BY DEF CreateOrg
<1>6. org' \in [1 .. o -> Organization] /\ member' \in [1 .. o -> [Agents -> OrgMember]]
  <2> HIDE DEF new, members
  <2> QED
    BY <1>1, <1>3, <1>4, <1>5, AddedFacts DEF OrgTypeOK
<1>7. TypeOK'
  BY DEF CreateOrg, OrgTypeOK, TypeOK, vars, config, Registered
<1> QED
  BY <1>1, <1>5, <1>6, <1>7 DEF OrgTypeOK

\* A step that changes one organization, or one of its members, and nothing
\* of the core.
LEMMA ChangedTypeOK ==
    ASSUME OrgTypeOK, NEW o \in OrgIds, NEW new \in Organization,
           NEW a \in Agents, NEW m \in OrgMember,
           org' = [org EXCEPT ![o] = new], member' = [member EXCEPT ![o][a] = m],
           UNCHANGED <<vars, org_counter>>
    PROVE  OrgTypeOK'
<1>1. TypeOK'
  BY DEF OrgTypeOK, TypeOK, vars, config, Registered
<1>2. org' \in [1 .. org_counter -> Organization]
  BY DEF OrgTypeOK
<1>3. member[o] \in [Agents -> OrgMember]
  BY OrgFacts
<1>4. [member[o] EXCEPT ![a] = m] \in [Agents -> OrgMember]
  BY <1>3
<1>5. member' = [member EXCEPT ![o] = [member[o] EXCEPT ![a] = m]]
  OBVIOUS
<1>6. member' \in [1 .. org_counter -> [Agents -> OrgMember]]
  BY <1>4, <1>5 DEF OrgTypeOK
<1> QED
  BY <1>1, <1>2, <1>6 DEF OrgTypeOK

LEMMA JoinTypeOK ==
    ASSUME OrgTypeOK, NEW admin \in Agents, NEW o \in OrgIds, NEW agent \in Agents,
           NEW role \in MemberRole, NEW bps \in Shares, JoinOrg(admin, o, agent, role, bps)
    PROVE  OrgTypeOK'
<1> DEFINE total == org[o].total_share_bps + bps
           count == org[o].member_count + 1
           new == [[org[o] EXCEPT !.total_share_bps = total] EXCEPT !.member_count = count]
           m == [role |-> role, share_bps |-> bps]
<1>1. org[o] \in Organization /\ bps \in Nat /\ bps <= FULL_SHARE_BPS
  BY OrgFacts, OrgInputsAssumption DEF JoinOrg
<1>2. total \in 0 .. FULL_SHARE_BPS /\ count \in 1 .. MaxMembers
  BY <1>1, OrgInputsAssumption, OrgFacts DEF JoinOrg, HasRoom
<1> HIDE DEF total, count
<1>3. new \in Organization
  BY <1>1, <1>2 DEF Organization
<1>4. m \in OrgMember
  BY <1>1, OrgInputsAssumption DEF OrgMember
<1>5. org' = [org EXCEPT ![o] = new] /\ member' = [member EXCEPT ![o][agent] = m]
  BY DEF JoinOrg, total, count
<1>6. UNCHANGED <<vars, org_counter>>
  BY DEF JoinOrg
<1> HIDE DEF new, m
<1> QED
  BY <1>3, <1>4, <1>5, <1>6, ChangedTypeOK

LEMMA ReshareTypeOK ==
    ASSUME OrgTypeOK, NEW admin \in Agents, NEW o \in OrgIds, NEW target \in Agents,
           NEW bps \in Shares, SetMemberShare(admin, o, target, bps)
    PROVE  OrgTypeOK'
<1> DEFINE old == member[o][target].share_bps
           total == Reshared(org[o].total_share_bps, old, bps)
           new == [org[o] EXCEPT !.total_share_bps = total]
           m == [member[o][target] EXCEPT !.share_bps = bps]
<1>1. /\ org[o] \in Organization /\ member[o][target] \in OrgMember
      /\ bps \in Nat /\ bps <= FULL_SHARE_BPS /\ old \in Nat /\ org[o].total_share_bps \in Nat
  BY OrgFacts, OrgInputsAssumption DEF SetMemberShare
<1>2. total \in 0 .. FULL_SHARE_BPS
  BY <1>1, OrgInputsAssumption DEF SetMemberShare, Reshared
<1> HIDE DEF total
<1>3. new \in Organization
  BY <1>1, <1>2 DEF Organization
<1>4. m \in OrgMember
  BY <1>1, OrgInputsAssumption DEF OrgMember
<1>5. org' = [org EXCEPT ![o] = new]
  BY DEF SetMemberShare, total
<1>6. member' = [member EXCEPT ![o][target] = m]
  BY DEF SetMemberShare
<1>7. UNCHANGED <<vars, org_counter>>
  BY DEF SetMemberShare
<1> HIDE DEF new, m
<1> QED
  BY <1>3, <1>4, <1>5, <1>6, <1>7, ChangedTypeOK

LEMMA TreasuryMovesTypeOK ==
    ASSUME OrgTypeOK, NEW from \in Account, NEW to \in Account, NEW amount \in U64,
           TreasuryMoves(from, to, amount)
    PROVE  OrgTypeOK'
<1>1. balance' \in [Account -> U64]
  BY TransferFacts DEF TreasuryMoves, Accepted, OrgTypeOK, TypeOK
<1>2. TypeOK'
  BY <1>1 DEF TreasuryMoves, OrgTypeOK, TypeOK, config, Registered
<1> QED
  BY <1>2 DEF TreasuryMoves, OrgTypeOK, orgs

\* What a dissolution does to the balances.
LEMMA DissolutionMoves ==
    ASSUME OrgTypeOK, NEW admin \in Agents, NEW o \in OrgIds,
           NEW b \in Agents \cup {NoAgent}, DissolveOrg(admin, o, b)
    PROVE  /\ balance' \in [Account -> U64]
           /\ \A t \in Account : t # OrgTreasury(o) => balance'[t] >= balance[t]
           /\ \A a \in Agents :
                \/ balance'[Wallet(a)] = balance[Wallet(a)]
                \/ balance'[Wallet(a)] = balance[Wallet(a)] + ShareOf(o, a)
                \/ /\ balance'[Wallet(a)] = balance[Wallet(a)] + ShareOf(o, a) + ShareOf(o, a)
                   /\ \A c \in Agents :
                        c # a => balance'[Wallet(c)] = balance[Wallet(c)]
<1> DEFINE t == OrgTreasury(o)
           one == AfterTransfer(balance, t, Wallet(admin), ShareOf(o, admin))
<1>1. /\ balance \in [Account -> U64] /\ t \in Account /\ t # Wallet(admin)
      /\ Wallet(admin) \in Account
      /\ \A a \in Agents : /\ Wallet(a) \in Account /\ Wallet(a) # t
                           /\ balance[Wallet(a)] \in Nat
  BY OrgFacts, OrgAccountFacts, AccountFacts, LimitsAssumption DEF OrgTypeOK, TypeOK, U64
<1>2. \A a \in Agents : ShareOf(o, a) \in Nat /\ ShareOf(o, a) \in U64
  BY ShareFacts
<1>3. TransferAccepted(balance, t, Wallet(admin), ShareOf(o, admin), MaxU64)
  BY DEF DissolveOrg, MayDissolve, Accepted
<1>4. b \in Agents => /\ TransferAccepted(one, t, Wallet(b), ShareOf(o, b), MaxU64)
                      /\ balance' = AfterTransfer(one, t, Wallet(b), ShareOf(o, b))
  BY NoAgentAssumption DEF DissolveOrg, MayDissolve, AdminPaid
<1>5. b = NoAgent => balance' = one
  BY DEF DissolveOrg, AdminPaid
<1>6. ShareOf(o, admin) \in U64
  BY <1>2
<1>7. /\ one \in [Account -> U64]
      /\ \A u \in Account : u # t => one[u] >= balance[u]
      /\ \A u \in Account : u # t /\ u # Wallet(admin) => one[u] = balance[u]
      /\ one[Wallet(admin)] = balance[Wallet(admin)] + ShareOf(o, admin)
  BY <1>1, <1>3, <1>6, TransferFacts
<1>8. CASE b = NoAgent
  <2>1. \A a \in Agents : /\ a # admin => balance'[Wallet(a)] = balance[Wallet(a)]
                          /\ a = admin => balance'[Wallet(a)] = balance[Wallet(a)] + ShareOf(o, a)
    BY <1>1, <1>5, <1>7, <1>8, AccountFacts
  <2> QED
    BY <1>5, <1>7, <1>8, <2>1
<1>9. CASE b \in Agents
  <2> HIDE DEF one
  <2>1. ShareOf(o, b) \in U64
    BY <1>2, <1>9
  <2>2. /\ balance' \in [Account -> U64]
        /\ \A u \in Account : u # t => balance'[u] >= one[u]
        /\ \A u \in Account : u # t /\ u # Wallet(b) => balance'[u] = one[u]
        /\ balance'[Wallet(b)] = one[Wallet(b)] + ShareOf(o, b)
    BY <1>1, <1>4, <1>7, <1>9, <2>1, TransferFacts
  <2>3. \A u \in Account : u # t => balance'[u] >= balance[u]
    <3> SUFFICES ASSUME NEW u \in Account, u # t PROVE balance'[u] >= balance[u]
      OBVIOUS
    <3>1. balance[u] \in Nat /\ one[u] \in Nat /\ balance'[u] \in Nat
      BY <1>1, <1>7, <2>2, LimitsAssumption DEF U64
    <3>2. one[u] >= balance[u] /\ balance'[u] >= one[u]
      BY <1>7, <2>2
    <3> QED
      BY <3>1, <3>2
  <2>4. CASE b = admin
    <3>1. balance'[Wallet(b)] = balance[Wallet(b)] + ShareOf(o, b) + ShareOf(o, b)
      BY <1>7, <2>2, <2>4
    <3>2. \A a \in Agents : a # b => balance'[Wallet(a)] = balance[Wallet(a)]
      BY <1>1, <1>7, <1>9, <2>2, <2>4, AccountFacts
    <3> QED
      BY <1>9, <2>2, <2>3, <3>1, <3>2
  <2>5. CASE b # admin
    <3>1. balance'[Wallet(b)] = balance[Wallet(b)] + ShareOf(o, b)
      BY <1>1, <1>7, <1>9, <2>2, <2>5, AccountFacts
    <3>2. balance'[Wallet(admin)] = balance[Wallet(admin)] + ShareOf(o, admin)
      BY <1>1, <1>7, <1>9, <2>2, <2>5, AccountFacts
    <3>3. \A a \in Agents : a # b /\ a # admin => balance'[Wallet(a)] = balance[Wallet(a)]
      BY <1>1, <1>7, <1>9, <2>2, AccountFacts
    <3> QED
      BY <2>2, <2>3, <3>1, <3>2, <3>3
  <2> QED
    BY <2>4, <2>5
<1> QED
  BY <1>8, <1>9

LEMMA DissolveTypeOK ==
    ASSUME OrgTypeOK, NEW admin \in Agents, NEW o \in OrgIds,
           NEW b \in Agents \cup {NoAgent}, DissolveOrg(admin, o, b)
    PROVE  OrgTypeOK'
<1>1. balance' \in [Account -> U64]
  BY DissolutionMoves
<1>2. TypeOK'
  BY <1>1 DEF DissolveOrg, OrgTypeOK, TypeOK, config, Registered
<1>3. [org[o] EXCEPT !.status = StatusWhenDissolved] \in Organization
  BY OrgFacts DEF Organization, OrgStatus, StatusWhenDissolved
<1>4. org' = [org EXCEPT ![o] = [org[o] EXCEPT !.status = StatusWhenDissolved]]
  BY DEF DissolveOrg
<1>5. org' \in [1 .. org_counter -> Organization]
  BY <1>3, <1>4 DEF OrgTypeOK
<1> QED
  BY <1>2, <1>5 DEF DissolveOrg, OrgTypeOK

\* The tokens a treasury instruction moves are within u64.
LEMMA MovedAmounts ==
    ASSUME OrgTypeOK, NEW o \in OrgIds
    PROVE  /\ OrgTreasury(o) \in Account /\ Treasury(o) \in U64
           /\ Destinations \subseteq Account
           /\ OrgAmounts \subseteq U64
<1>1. \A p \in OrgIds : OrgTreasury(p) \in Account
  BY OrgFacts, OrgAccountFacts
<1> QED
  BY <1>1, OrgFacts, AccountFacts, OrgInputsAssumption DEF Destinations

LEMMA OrgNextTypeOK ==
    ASSUME OrgTypeOK, [OrgNext]_orgVars
    PROVE  OrgTypeOK'
<1>1. CASE ([Next]_vars \/ IntoTreasury) /\ UNCHANGED orgs
  <2>1. TypeOK /\ \A o \in OrgIds : OrgTreasury(o) \in Account
    BY MovedAmounts DEF OrgTypeOK
  <2>2. TypeOK'
    BY <1>1, <2>1, NextTypeOK, SplTransferTypeOK, SlashTypeOK, OrgInputsAssumption
    DEF IntoTreasury
  <2> QED
    BY <1>1, <2>2 DEF OrgTypeOK, orgs
<1>2. ASSUME NEW a \in Agents, NEW o \in OrgIds, NEW amount \in OrgAmounts,
             DepositToOrg(a, o, amount)
      PROVE  OrgTypeOK'
  BY <1>2, MovedAmounts, AccountFacts, TreasuryMovesTypeOK DEF DepositToOrg
<1>3. ASSUME NEW a \in Agents, NEW o \in OrgIds, NEW b \in Agents, NEW amount \in OrgAmounts,
             OrgSplit(a, o, b, amount)
      PROVE  OrgTypeOK'
  BY <1>3, MovedAmounts, AccountFacts, TreasuryMovesTypeOK DEF OrgSplit
<1>4. ASSUME NEW a \in Agents, NEW o \in OrgIds, NEW d \in Destinations,
             ReclaimOrgResidual(a, o, d)
      PROVE  OrgTypeOK'
  BY <1>4, MovedAmounts, TreasuryMovesTypeOK DEF ReclaimOrgResidual, MayReclaim
<1> QED
  BY <1>1, <1>2, <1>3, <1>4, CreateOrgTypeOK, JoinTypeOK, ReshareTypeOK, DissolveTypeOK
  DEF OrgNext, orgVars

\* The composition keeps every account typed: shares stay within the whole,
\* counters and balances within their widths.
THEOREM OrgTypeCorrect == OrgSpec => []OrgTypeOK
<1>1. OrgInit => OrgTypeOK
  <2> SUFFICES ASSUME OrgInit PROVE OrgTypeOK
    OBVIOUS
  <2>1. TypeOK
    BY InitTypeOK DEF OrgInit
  <2>2. org_counter = 0 /\ org \in [1 .. org_counter -> Organization]
    BY DEF OrgInit
  <2>3. member \in [1 .. org_counter -> [Agents -> OrgMember]]
    BY DEF OrgInit
  <2> QED
    BY <2>1, <2>2, <2>3, LimitsAssumption DEF OrgTypeOK
<1>2. OrgTypeOK /\ [OrgNext]_orgVars => OrgTypeOK'
  BY OrgNextTypeOK
<1> QED
  BY <1>1, <1>2, PTL DEF OrgSpec

-----------------------------------------------------------------------------
(* The authorities, and organizations that are Closed                      *)

\* The instructions of organizations write no authority and no Cri.
LEMMA OrgLeavesLedgers ==
    ASSUME [OrgNext]_orgVars
    PROVE  [Next]_vars \/ UNCHANGED <<authority, authority_counter, cri>>
<1> DEFINE Left == UNCHANGED <<authority, authority_counter, cri>>
<1>1. UNCHANGED vars => Left
  BY DEF vars, config
<1>2. IntoTreasury => Left
  BY DEF IntoTreasury, SplTransfer, SlashBond, config
<1>3. \A from, to, amount : TreasuryMoves(from, to, amount) => Left
  BY DEF TreasuryMoves, config
<1>4. \A a, o, b : DissolveOrg(a, o, b) => Left
  BY DEF DissolveOrg, config
<1> HIDE DEF Left
<1>5. \A a, bps : CreateOrg(a, bps) => Left
  BY <1>1 DEF CreateOrg
<1>6. /\ \A a, o, b, role, bps : JoinOrg(a, o, b, role, bps) => Left
      /\ \A a, o, b, bps : SetMemberShare(a, o, b, bps) => Left
  BY <1>1 DEF JoinOrg, SetMemberShare
<1>7. /\ \A a, o, amount : DepositToOrg(a, o, amount) => Left
      /\ \A a, o, b, amount : OrgSplit(a, o, b, amount) => Left
      /\ \A a, o, d : ReclaimOrgResidual(a, o, d) => Left
  BY <1>3 DEF DepositToOrg, OrgSplit, ReclaimOrgResidual
<1>8. [Next]_vars \/ Left
  BY <1>1, <1>2, <1>4, <1>5, <1>6, <1>7 DEF OrgNext, orgVars
<1> QED
  BY <1>8 DEF Left

LEMMA OrgNextIsStep ==
    ASSUME OrgTypeOK, [OrgNext]_orgVars
    PROVE  AuthorityStep
BY OrgLeavesLedgers, NextIsStep DEF OrgTypeOK, AuthorityStep

\* Spending limits, exhaustion and attenuation hold beside organizations.
THEOREM OrgAuthoritiesSound ==
    OrgSpec => [](SpendWithinLimits /\ ExhaustedIffUsedUp /\ Attenuated)
<1>1. OrgInit => AuthorityInv
  BY DEF OrgInit, Init, AuthorityInv, SpendWithinLimits, ExhaustedIffUsedUp,
         Attenuated, AuthorityIds
<1>2. OrgTypeOK /\ AuthorityInv /\ [OrgNext]_orgVars => AuthorityInv'
  BY OrgNextIsStep, StepKeepsInv DEF OrgTypeOK
<1>3. AuthorityInv => SpendWithinLimits /\ ExhaustedIffUsedUp /\ Attenuated
  BY DEF AuthorityInv
<1> QED
  BY <1>1, <1>2, <1>3, OrgTypeCorrect, PTL DEF OrgSpec

\* Beside organizations, too, the authorities are allowances.
THEOREM OrgAuthoritiesImplementAllowances == OrgSpec => AuthoritiesAreAllowances
<1>1. OrgInit => Allowances!Init
  BY DEF OrgInit, Init, Allowances!Init, Allowances!Ungranted, AllowanceOf, AuthorityIds
<1>2. OrgTypeOK /\ AuthorityInv /\ [OrgNext]_orgVars =>
        [Allowances!Next]_[i \in 1 .. MaxAuthorities |-> AllowanceOf(i)]
  BY OrgNextIsStep, StepIsAllowanceStep DEF OrgTypeOK
<1>3. AuthorityInv <=> SpendWithinLimits /\ ExhaustedIffUsedUp /\ Attenuated
  BY DEF AuthorityInv
<1> QED
  BY <1>1, <1>2, <1>3, OrgTypeCorrect, OrgAuthoritiesSound, PTL
  DEF OrgSpec, AuthoritiesAreAllowances, Allowances!Spec

\* Organizations open no way past the terms of an ancestor.
THEOREM OrgsNeverBeyondAncestors == OrgSpec => []NeverBeyondAncestors
<1>1. OrgInit => RootsAreAtDepth0
  BY DEF OrgInit, Init, RootsAreAtDepth0, AuthorityIds
<1>2. OrgTypeOK /\ RootsAreAtDepth0 /\ [OrgNext]_orgVars => RootsAreAtDepth0'
  BY OrgNextIsStep, StepKeepsRoots DEF OrgTypeOK
<1>3. OrgTypeOK /\ SpendWithinLimits /\ ExhaustedIffUsedUp /\ Attenuated
        /\ RootsAreAtDepth0 => NeverBeyondAncestors
  BY InvNeverBeyond DEF AuthorityInv, OrgTypeOK
<1> QED
  BY <1>1, <1>2, <1>3, OrgTypeCorrect, OrgAuthoritiesSound, PTL DEF OrgSpec

\* No step reopens a Closed organization or changes its members.
THEOREM ClosedStaysClosed == OrgSpec => ClosedIsFinal
<1>1. OrgTypeOK /\ [OrgNext]_orgVars =>
        [\A o \in OrgIds :
            org[o].status # "Active" => org'[o] = org[o] /\ member'[o] = member[o]]_orgVars
  <2> SUFFICES ASSUME OrgTypeOK, [OrgNext]_orgVars, NEW o \in OrgIds,
                      org[o].status # "Active"
               PROVE  org'[o] = org[o] /\ member'[o] = member[o]
    OBVIOUS
  <2>1. CASE UNCHANGED <<org, member>>
    BY <2>1
  <2>2. ASSUME NEW a \in Agents, NEW bps, CreateOrg(a, bps)
        PROVE  org'[o] = org[o] /\ member'[o] = member[o]
    <3>1. o # org_counter + 1 /\ o \in DOMAIN org /\ o \in DOMAIN member
      BY LimitsAssumption DEF OrgTypeOK, OrgIds
    <3> QED
      BY <2>2, <3>1 DEF CreateOrg, Added
  <2>3. ASSUME NEW a \in Agents, NEW b \in Agents, NEW p \in OrgIds, NEW role, NEW bps,
               JoinOrg(a, p, b, role, bps) \/ SetMemberShare(a, p, b, bps)
        PROVE  org'[o] = org[o] /\ member'[o] = member[o]
    BY <2>3 DEF JoinOrg, SetMemberShare, Administers, OrgTypeOK, OrgIds
  <2>4. ASSUME NEW a \in Agents, NEW p \in OrgIds, NEW b, DissolveOrg(a, p, b)
        PROVE  org'[o] = org[o] /\ member'[o] = member[o]
    BY <2>4 DEF DissolveOrg, MayDissolve, Administers, OrgTypeOK, OrgIds
  <2> QED
    BY <2>1, <2>2, <2>3, <2>4
    DEF OrgNext, orgVars, orgs, DepositToOrg, OrgSplit, TreasuryMoves, ReclaimOrgResidual
<1> QED
  BY <1>1, OrgTypeCorrect, PTL DEF OrgSpec, ClosedIsFinal

-----------------------------------------------------------------------------
(* What leaves a treasury                                                  *)

\* A transfer between a treasury and another account takes from the
\* treasury it names, and from no other.
LEMMA MovesTakeFromSource ==
    ASSUME OrgTypeOK, NEW from \in Account, NEW to \in Account, NEW amount \in U64,
           TreasuryMoves(from, to, amount), NEW o \in OrgIds, Treasury(o)' < Treasury(o)
    PROVE  /\ from = OrgTreasury(o) /\ from # to
           /\ balance'[from] = balance[from] - amount
           /\ balance'[to] = balance[to] + amount
           /\ \A u \in Account : u # from /\ u # to => balance'[u] = balance[u]
<1> DEFINE t == OrgTreasury(o)
<1>1. /\ balance \in [Account -> U64] /\ t \in Account
      /\ TransferAccepted(balance, from, to, amount, MaxU64)
      /\ balance' = AfterTransfer(balance, from, to, amount)
  BY MovedAmounts DEF OrgTypeOK, TypeOK, TreasuryMoves, Accepted
<1>2. balance' \in [Account -> U64]
  BY <1>1, TransferFacts
<1>3. balance[t] \in Nat /\ balance'[t] \in Nat
  BY <1>1, <1>2, LimitsAssumption DEF U64
<1>4. balance'[t] < balance[t]
  BY DEF Treasury
<1>5. t = from
  <2> SUFFICES ASSUME t # from PROVE FALSE
    OBVIOUS
  <2>1. balance'[t] >= balance[t]
    BY <1>1, TransferFacts
  <2> QED
    BY <1>3, <1>4, <2>1
<1>6. from # to
  <2> SUFFICES ASSUME from = to PROVE FALSE
    OBVIOUS
  <2>1. balance' = balance
    BY <1>1, TransferFacts
  <2> QED
    BY <1>3, <1>4, <2>1
<1> QED
  BY <1>1, <1>5, <1>6, TransferFacts

LEMMA SplitPaysOne ==
    ASSUME OrgTypeOK, NEW admin \in Agents, NEW p \in OrgIds, NEW b \in Agents,
           NEW amount \in OrgAmounts, OrgSplit(admin, p, b, amount),
           NEW o \in OrgIds, Treasury(o)' < Treasury(o)
    PROVE  SplitPays(o)
<1>1. amount \in U64 /\ amount > 0
  BY MovedAmounts DEF OrgSplit
<1>2. /\ OrgTreasury(p) \in Account /\ Wallet(b) \in Account
      /\ TreasuryMoves(OrgTreasury(p), Wallet(b), amount)
  BY MovedAmounts, AccountFacts DEF OrgSplit
<1>3. /\ OrgTreasury(p) = OrgTreasury(o)
      /\ balance'[OrgTreasury(p)] = balance[OrgTreasury(p)] - amount
      /\ balance'[Wallet(b)] = balance[Wallet(b)] + amount
      /\ \A u \in Account :
            u # OrgTreasury(p) /\ u # Wallet(b) => balance'[u] = balance[u]
  BY <1>1, <1>2, MovesTakeFromSource
<1>4. p = o
  BY <1>3, OrgFacts, OrgAccountFacts
<1>5. /\ amount \in Nat /\ balance[OrgTreasury(o)] \in Nat
      /\ \A a \in Agents : balance[Wallet(a)] \in Nat /\ Wallet(a) \in Account
  BY <1>1, <1>2, <1>3, AccountFacts, LimitsAssumption DEF OrgTypeOK, TypeOK, U64
<1>6. Gain(b) = Treasury(o) - Treasury(o)'
  BY <1>3, <1>4, <1>5 DEF Gain, Treasury
<1>7. \A a \in Agents : a # b => balance'[Wallet(a)] = balance[Wallet(a)]
  BY <1>3, <1>4, <1>5, OrgFacts, OrgAccountFacts, AccountFacts
<1>8. balance'[Wallet(b)] > balance[Wallet(b)]
  BY <1>1, <1>3, <1>5
<1>9. Paid = {b}
  BY <1>5, <1>7, <1>8 DEF Paid
<1>10. org' = org /\ member[o][b].role \in {"Admin", "Member"}
  BY <1>4 DEF OrgSplit, TreasuryMoves, orgs, MayReceive
<1> QED
  BY <1>6, <1>9, <1>10 DEF SplitPays

LEMMA DissolutionPaysShares ==
    ASSUME OrgTypeOK, NEW admin \in Agents, NEW p \in OrgIds,
           NEW b \in Agents \cup {NoAgent}, DissolveOrg(admin, p, b),
           NEW o \in OrgIds, Treasury(o)' < Treasury(o)
    PROVE  DissolutionPays(o)
<1>1. p = o
  <2> SUFFICES ASSUME p # o PROVE FALSE
    OBVIOUS
  <2>1. OrgTreasury(o) # OrgTreasury(p) /\ OrgTreasury(o) \in Account
    BY OrgFacts, OrgAccountFacts
  <2>2. /\ balance'[OrgTreasury(o)] >= balance[OrgTreasury(o)]
        /\ balance' \in [Account -> U64]
    BY <2>1, DissolutionMoves
  <2>3. balance[OrgTreasury(o)] \in Nat /\ balance'[OrgTreasury(o)] \in Nat
    BY <2>1, <2>2, LimitsAssumption DEF OrgTypeOK, TypeOK, U64
  <2> QED
    BY <2>2, <2>3 DEF Treasury
<1>2. org[o].status = "Active" /\ org'[o].status = "Closed"
  BY <1>1 DEF DissolveOrg, MayDissolve, Administers, StatusWhenDissolved, OrgTypeOK, OrgIds, Organization
<1>3. ASSUME NEW a \in Paid
      PROVE  \/ Gain(a) = ShareOf(o, a)
             \/ Paid = {a} /\ Gain(a) = ShareOf(o, a) + ShareOf(o, a)
  <2> DEFINE share == ShareOf(o, a)
  <2>1. /\ a \in Agents
        /\ balance'[Wallet(a)] > balance[Wallet(a)]
        /\ \A c \in Agents : balance[Wallet(c)] \in Nat
    BY <1>3, AccountFacts, LimitsAssumption DEF Paid, OrgTypeOK, TypeOK, U64
  <2>2. \/ balance'[Wallet(a)] = balance[Wallet(a)]
        \/ balance'[Wallet(a)] = balance[Wallet(a)] + share
        \/ /\ balance'[Wallet(a)] = balance[Wallet(a)] + share + share
           /\ \A c \in Agents : c # a => balance'[Wallet(c)] = balance[Wallet(c)]
    BY <1>1, <2>1, DissolutionMoves
  <2>3. share \in Nat
    BY <2>1, ShareFacts
  <2> HIDE DEF share
  <2>4. balance'[Wallet(a)] # balance[Wallet(a)]
    BY <2>1
  <2>5. CASE balance'[Wallet(a)] = balance[Wallet(a)] + share
    <3>1. Gain(a) = share
      BY <2>1, <2>3, <2>5 DEF Gain
    <3> QED
      BY <3>1 DEF share
  <2>6. CASE /\ balance'[Wallet(a)] = balance[Wallet(a)] + share + share
             /\ \A c \in Agents : c # a => balance'[Wallet(c)] = balance[Wallet(c)]
    <3>1. Gain(a) = share + share
      BY <2>1, <2>3, <2>6 DEF Gain
    <3>2. Paid = {a}
      BY <2>1, <2>6 DEF Paid
    <3> QED
      BY <3>1, <3>2 DEF share
  <2> QED
    BY <2>2, <2>4, <2>5, <2>6
<1> QED
  BY <1>2, <1>3 DEF DissolutionPays

LEMMA ReclaimTakesAll ==
    ASSUME OrgTypeOK, NEW a \in Agents, NEW p \in OrgIds, NEW d \in Destinations,
           ReclaimOrgResidual(a, p, d), NEW o \in OrgIds, Treasury(o)' < Treasury(o)
    PROVE  ReclaimEmpties(o)
<1>1. /\ OrgTreasury(p) \in Account /\ d \in Account /\ Treasury(p) \in U64
      /\ TreasuryMoves(OrgTreasury(p), d, Treasury(p))
  BY MovedAmounts DEF ReclaimOrgResidual, MayReclaim
<1>2. /\ OrgTreasury(p) = OrgTreasury(o)
      /\ balance'[OrgTreasury(p)] = balance[OrgTreasury(p)] - Treasury(p)
  BY <1>1, MovesTakeFromSource
<1>3. p = o
  BY <1>2, OrgFacts, OrgAccountFacts
<1>4. Treasury(o)' = 0
  BY <1>1, <1>2, <1>3, LimitsAssumption DEF Treasury, U64
<1> QED
  BY <1>3, <1>4 DEF ReclaimEmpties, ReclaimOrgResidual, MayReclaim

\* A treasury falls by a split to one member, by the dissolution and its
\* shares, or all at once when Closed: the core, donations, deposits and
\* slashed bonds take nothing from one.
THEOREM TreasuryPays == OrgSpec => TreasuryPaysMembers
<1>1. OrgTypeOK /\ [OrgNext]_orgVars =>
        [\A o \in OrgIds :
            Treasury(o)' < Treasury(o) =>
                SplitPays(o) \/ DissolutionPays(o) \/ ReclaimEmpties(o)]_orgVars
  <2> SUFFICES ASSUME OrgTypeOK, [OrgNext]_orgVars, NEW o \in OrgIds,
                      Treasury(o)' < Treasury(o)
               PROVE  SplitPays(o) \/ DissolutionPays(o) \/ ReclaimEmpties(o)
    OBVIOUS
  <2>1. TypeOK /\ OrgTypeOK'
    BY OrgNextTypeOK DEF OrgTypeOK
  <2>2. OrgTreasury(o) \in OtherVaults /\ OrgTreasury(o) \in Account
    BY OrgFacts, OrgAccountFacts
  <2>3. balance[OrgTreasury(o)] \in Nat /\ balance'[OrgTreasury(o)] \in Nat
    BY <2>1, <2>2, LimitsAssumption DEF OrgTypeOK, TypeOK, U64
  <2>4. ~VaultsKept
    BY <2>2, <2>3 DEF VaultsKept, Treasury
  <2>5. ~[Next]_vars /\ ~UNCHANGED balance
    BY <2>1, <2>4, CoreKeepsVaults, SameBalanceKeepsVaults
  <2>6. ~IntoTreasury
    BY <2>1, <2>4, MovedAmounts, DonationKeepsVaults, SlashKeepsVaults DEF IntoTreasury
  <2>7. ASSUME NEW a \in Agents, NEW p \in OrgIds, NEW amount \in OrgAmounts,
               DepositToOrg(a, p, amount)
        PROVE  FALSE
    <3>1. /\ Accepted(Wallet(a), OrgTreasury(p), amount)
          /\ balance' = AfterTransfer(balance, Wallet(a), OrgTreasury(p), amount)
          /\ OrgTreasury(p) \in Account /\ amount \in U64
      BY <2>7, MovedAmounts DEF DepositToOrg, TreasuryMoves
    <3> QED
      BY <2>1, <2>4, <3>1, TransferOutflow, OutflowKeepsVaults
  <2>8. ASSUME NEW a \in Agents, NEW p \in OrgIds, NEW b, NEW role, NEW bps,
               CreateOrg(a, bps) \/ JoinOrg(a, p, b, role, bps) \/ SetMemberShare(a, p, b, bps)
        PROVE  FALSE
    BY <2>5, <2>8 DEF CreateOrg, JoinOrg, SetMemberShare, vars
  <2> QED
    BY <2>5, <2>6, <2>7, <2>8, SplitPaysOne, DissolutionPaysShares, ReclaimTakesAll
    DEF OrgNext, orgVars
<1> QED
  BY <1>1, OrgTypeCorrect, PTL DEF OrgSpec, TreasuryPaysMembers

-----------------------------------------------------------------------------
(* Tokens: conserved, and within reach of the creator                      *)

LEMMA DissolveConserves ==
    ASSUME OrgTypeOK, TokensConserved, NEW admin \in Agents, NEW o \in OrgIds,
           NEW b \in Agents \cup {NoAgent}, DissolveOrg(admin, o, b)
    PROVE  TokensConserved'
<1> DEFINE t == OrgTreasury(o)
           paid == ShareOf(o, admin)
           paid_b == ShareOf(o, b)
           one == AdminPaid(admin, o)
<1>1. /\ TypeOK /\ t \in Account /\ Wallet(admin) \in Account /\ paid \in U64
      /\ Accepted(t, Wallet(admin), paid)
      /\ one = AfterTransfer(balance, t, Wallet(admin), paid)
  BY MovedAmounts, AccountFacts, ShareFacts DEF OrgTypeOK, DissolveOrg, MayDissolve, AdminPaid
<1>2. CASE b = NoAgent
  <2>1. balance' = one
    BY <1>2 DEF DissolveOrg
  <2> HIDE DEF t, paid, one
  <2> QED
    BY <1>1, <2>1, MoveConserves
<1>3. CASE b \in Agents
  <2>1. /\ Wallet(b) \in Account /\ paid_b \in U64
        /\ TransferAccepted(one, t, Wallet(b), paid_b, MaxU64)
        /\ balance' = AfterTransfer(one, t, Wallet(b), paid_b)
    BY <1>3, NoAgentAssumption, AccountFacts, ShareFacts DEF DissolveOrg, MayDissolve
  <2> HIDE DEF t, paid, one, paid_b
  <2> QED
    BY <1>1, <2>1, TwoMovesConserve
<1> QED
  BY <1>2, <1>3

LEMMA OrgNextConserves ==
    ASSUME OrgTypeOK, TokensConserved, [OrgNext]_orgVars
    PROVE  TokensConserved'
<1>1. TypeOK
  BY DEF OrgTypeOK
<1>2. CASE [Next]_vars
  BY <1>1, <1>2, NextConserves
<1>3. CASE IntoTreasury
  BY <1>1, <1>3, MovedAmounts, SlashConserves, MoveConserves, AccountFacts
  DEF IntoTreasury, SplTransfer
<1>4. CASE UNCHANGED balance
  BY <1>4, SameBalanceConserves
<1>5. ASSUME NEW from \in Account, NEW to \in Account, NEW amount \in U64,
             TreasuryMoves(from, to, amount)
      PROVE  TokensConserved'
  BY <1>1, <1>5, MoveConserves DEF TreasuryMoves
<1>6. ASSUME NEW a \in Agents, NEW o \in OrgIds
      PROVE  /\ \A amount \in OrgAmounts : DepositToOrg(a, o, amount) => TokensConserved'
             /\ \A b \in Agents, amount \in OrgAmounts :
                    OrgSplit(a, o, b, amount) => TokensConserved'
             /\ \A d \in Destinations : ReclaimOrgResidual(a, o, d) => TokensConserved'
  BY <1>5, MovedAmounts, AccountFacts DEF DepositToOrg, OrgSplit, ReclaimOrgResidual
<1>7. /\ \A a, bps : CreateOrg(a, bps) => TokensConserved'
      /\ \A a, o, b, role, bps : JoinOrg(a, o, b, role, bps) => TokensConserved'
      /\ \A a, o, b, bps : SetMemberShare(a, o, b, bps) => TokensConserved'
  BY <1>4 DEF CreateOrg, JoinOrg, SetMemberShare, vars
<1> QED
  BY <1>2, <1>3, <1>6, <1>7, DissolveConserves DEF OrgNext, orgVars

\* Treasuries make and lose no token, and no transfer of theirs overflows.
THEOREM OrgTokensConserved == OrgSpec => [](TokensConserved /\ NoOverflow)
<1>1. OrgInit => TokensConserved
  BY InitConserves DEF OrgInit
<1>2. OrgTypeOK /\ TokensConserved /\ [OrgNext]_orgVars => TokensConserved'
  BY OrgNextConserves
<1>3. OrgTypeOK /\ TokensConserved => NoOverflow
  BY ConservedDoesNotOverflow DEF OrgTypeOK
<1> QED
  BY <1>1, <1>2, <1>3, OrgTypeCorrect, PTL DEF OrgSpec

\* An organization is Active or Closed, and its creator is an Admin of it
\* for ever.
CreatorInv ==
    \A o \in OrgIds : /\ org[o].status \in {"Active", "Closed"}
                      /\ member[o][org[o].creator].role = "Admin"

LEMMA OrgNextKeepsCreators ==
    ASSUME OrgTypeOK, CreatorInv, [OrgNext]_orgVars
    PROVE  CreatorInv'
<1>1. CASE UNCHANGED <<org, member>>
  BY <1>1 DEF CreatorInv, OrgIds
<1>2. ASSUME NEW a \in Agents, NEW bps, CreateOrg(a, bps)
      PROVE  CreatorInv'
  BY <1>2 DEF CreatorInv, CreateOrg, Added, OrgTypeOK, OrgIds
<1>3. ASSUME NEW p \in OrgIds, NEW new, NEW ms, NEW admin,
             org' = [org EXCEPT ![p] = new], member' = [member EXCEPT ![p] = ms],
             new.status \in {"Active", "Closed"}, new.creator = org[p].creator,
             ms[org[p].creator].role = "Admin"
      PROVE  CreatorInv'
  BY <1>3 DEF CreatorInv, OrgTypeOK, OrgIds
<1>4. ASSUME NEW a, NEW p \in OrgIds, NEW b \in Agents, NEW role, NEW bps,
             JoinOrg(a, p, b, role, bps)
      PROVE  CreatorInv'
  <2> DEFINE new == [[org[p] EXCEPT !.total_share_bps = org[p].total_share_bps + bps]
                        EXCEPT !.member_count = org[p].member_count + 1]
             ms == [member[p] EXCEPT ![b] = [role |-> role, share_bps |-> bps]]
  <2>1. org' = [org EXCEPT ![p] = new] /\ member' = [member EXCEPT ![p] = ms]
    BY <1>4 DEF JoinOrg
  <2>2. new.status = org[p].status /\ new.creator = org[p].creator
    BY OrgFacts DEF Organization
  <2>3. b # org[p].creator
    BY <1>4 DEF JoinOrg, IsMember, CreatorInv
  <2>4. ms[org[p].creator].role = "Admin"
    BY <2>3, OrgFacts DEF CreatorInv, Organization
  <2> HIDE DEF new, ms
  <2> QED
    BY <1>3, <2>1, <2>2, <2>4 DEF CreatorInv
<1>5. ASSUME NEW a, NEW p \in OrgIds, NEW b \in Agents, NEW bps, SetMemberShare(a, p, b, bps)
      PROVE  CreatorInv'
  <2> DEFINE new == [org[p] EXCEPT !.total_share_bps =
                        Reshared(org[p].total_share_bps, member[p][b].share_bps, bps)]
             ms == [member[p] EXCEPT ![b] = [member[p][b] EXCEPT !.share_bps = bps]]
  <2>1. org' = [org EXCEPT ![p] = new] /\ member' = [member EXCEPT ![p] = ms]
    BY <1>5 DEF SetMemberShare
  <2>2. new.status = org[p].status /\ new.creator = org[p].creator
    BY OrgFacts DEF Organization
  <2>3. ms[org[p].creator].role = "Admin"
    BY OrgFacts DEF CreatorInv, Organization, OrgMember
  <2> HIDE DEF new, ms
  <2> QED
    BY <1>3, <2>1, <2>2, <2>3 DEF CreatorInv
<1>6. ASSUME NEW a, NEW p \in OrgIds, NEW b, DissolveOrg(a, p, b)
      PROVE  CreatorInv'
  BY <1>6, OrgFacts
  DEF CreatorInv, DissolveOrg, StatusWhenDissolved, OrgTypeOK, OrgIds, Organization
<1> QED
  BY <1>1, <1>2, <1>4, <1>5, <1>6
  DEF OrgNext, orgVars, orgs, DepositToOrg, OrgSplit, TreasuryMoves, ReclaimOrgResidual

\* A treasury can pay any wallet what it holds, or less.
LEMMA TreasuryCanPay ==
    ASSUME OrgTypeOK, NoOverflow, NEW o \in OrgIds, NEW a \in Agents, NEW amount \in Nat,
           amount <= Treasury(o)
    PROVE  Accepted(OrgTreasury(o), Wallet(a), amount)
<1> DEFINE t == OrgTreasury(o)
           w == Wallet(a)
<1>1. t \in Account /\ w \in Account /\ t # w
  BY OrgFacts, OrgAccountFacts, AccountFacts
<1>2. balance[t] \in Nat /\ balance[w] \in Nat /\ MaxU64 \in Nat
  BY <1>1, LimitsAssumption DEF OrgTypeOK, TypeOK, U64
<1>3. amount <= balance[t]
  BY DEF Treasury
<1>4. balance[w] + balance[t] <= MaxU64
  BY <1>1 DEF NoOverflow
<1>5. balance[w] + amount <= MaxU64
  BY <1>2, <1>3, <1>4
<1> QED
  BY <1>3, <1>5 DEF Accepted, TransferAccepted

\* The creator of an organization can always get at its tokens: it dissolves
\* an Active one, whatever the shares, and reclaims what a Closed one holds.
THEOREM TreasuriesRecoverable == OrgSpec => []TreasuryRecoverable
<1>1. OrgInit => CreatorInv
  BY DEF OrgInit, CreatorInv, OrgIds
<1>2. OrgTypeOK /\ CreatorInv /\ [OrgNext]_orgVars => CreatorInv'
  BY OrgNextKeepsCreators
<1>3. OrgTypeOK /\ CreatorInv /\ NoOverflow => TreasuryRecoverable
  <2> SUFFICES ASSUME OrgTypeOK, CreatorInv, NoOverflow, NEW o \in OrgIds
               PROVE  IF org[o].status = "Active"
                      THEN MayDissolve(org[o].creator, o, NoAgent)
                      ELSE Treasury(o) > 0 =>
                            MayReclaim(org[o].creator, o, Wallet(org[o].creator))
    BY DEF TreasuryRecoverable
  <2> DEFINE creator == org[o].creator
  <2>1. creator \in Agents /\ Treasury(o) \in Nat
    BY OrgFacts, LimitsAssumption DEF Organization, U64
  <2>2. ShareOf(o, creator) \in Nat /\ ShareOf(o, creator) <= Treasury(o)
    BY <2>1, ShareFacts
  <2>3. /\ Accepted(OrgTreasury(o), Wallet(creator), ShareOf(o, creator))
        /\ Accepted(OrgTreasury(o), Wallet(creator), Treasury(o))
    BY <2>1, <2>2, TreasuryCanPay
  <2>4. org[o].status \in {"Active", "Closed"} /\ member[o][creator].role = "Admin"
    BY DEF CreatorInv
  <2> QED
    BY <2>3, <2>4 DEF MayDissolve, MayReclaim, Administers, IsMember
<1> QED
  BY <1>1, <1>2, <1>3, OrgTypeCorrect, OrgTokensConserved, PTL DEF OrgSpec

-----------------------------------------------------------------------------
(* The core's promises beside organizations                                *)

LEMMA TreasuryMovesBondStep ==
    ASSUME OrgTypeOK, NEW from \in Account, \A i \in 1 .. MaxAuthorities : from # BondVault(i),
           NEW to \in Account, NEW amount \in U64, TreasuryMoves(from, to, amount)
    PROVE  BondStep
<1>1. /\ balance \in [Account -> U64] /\ TransferAccepted(balance, from, to, amount, MaxU64)
      /\ balance' = AfterTransfer(balance, from, to, amount) /\ bond' = bond
  BY DEF OrgTypeOK, TypeOK, TreasuryMoves, Accepted
<1>2. \A t \in Account : t # from => balance'[t] >= balance[t]
  BY <1>1, TransferFacts
<1>3. balance' \in [Account -> U64]
  BY <1>1, TransferFacts
<1>4. \A i \in 1 .. MaxAuthorities : balance[BondVault(i)] <= balance'[BondVault(i)]
  <2> SUFFICES ASSUME NEW i \in 1 .. MaxAuthorities
               PROVE  balance[BondVault(i)] <= balance'[BondVault(i)]
    OBVIOUS
  <2>1. BondVault(i) \in Account /\ BondVault(i) # from
    BY AccountFacts
  <2>2. balance[BondVault(i)] \in Nat /\ balance'[BondVault(i)] \in Nat
    BY <1>1, <1>3, <2>1, LimitsAssumption DEF U64
  <2> QED
    BY <1>2, <2>1, <2>2
<1> QED
  BY <1>1, <1>4, OutsideBondStep

LEMMA DissolveBondStep ==
    ASSUME OrgTypeOK, NEW admin \in Agents, NEW o \in OrgIds,
           NEW b \in Agents \cup {NoAgent}, DissolveOrg(admin, o, b)
    PROVE  BondStep
<1>1. \A i \in 1 .. MaxAuthorities : balance[BondVault(i)] <= balance'[BondVault(i)]
  <2> SUFFICES ASSUME NEW i \in 1 .. MaxAuthorities
               PROVE  balance[BondVault(i)] <= balance'[BondVault(i)]
    OBVIOUS
  <2>1. BondVault(i) \in Account /\ BondVault(i) # OrgTreasury(o)
    BY AccountFacts, OrgFacts, OrgAccountFacts, OtherVaultFacts
  <2>2. balance' \in [Account -> U64] /\ balance'[BondVault(i)] >= balance[BondVault(i)]
    BY <2>1, DissolutionMoves
  <2>3. balance[BondVault(i)] \in Nat /\ balance'[BondVault(i)] \in Nat
    BY <2>1, <2>2, LimitsAssumption DEF OrgTypeOK, TypeOK, U64
  <2> QED
    BY <2>2, <2>3
<1> QED
  BY <1>1, OutsideBondStep DEF DissolveOrg

LEMMA OrgNextBondStep ==
    ASSUME OrgTypeOK, [OrgNext]_orgVars
    PROVE  BondStep
<1>1. TypeOK
  BY DEF OrgTypeOK
<1>2. CASE [Next]_vars
  BY <1>1, <1>2, NextBondStep
<1>3. CASE IntoTreasury
  BY <1>1, <1>3, MovedAmounts, SlashBondStep, TransferOutflow, OutflowBondStep
  DEF IntoTreasury, SplTransfer
<1>4. \A o \in OrgIds, i \in 1 .. MaxAuthorities : OrgTreasury(o) # BondVault(i)
  BY OrgFacts, OrgAccountFacts, OtherVaultFacts
<1>5. ASSUME NEW a \in Agents, NEW o \in OrgIds
      PROVE  /\ \A amount \in OrgAmounts : DepositToOrg(a, o, amount) => BondStep
             /\ \A b \in Agents, amount \in OrgAmounts : OrgSplit(a, o, b, amount) => BondStep
             /\ \A d \in Destinations : ReclaimOrgResidual(a, o, d) => BondStep
  BY <1>4, TreasuryMovesBondStep, MovedAmounts, AccountFacts
  DEF DepositToOrg, OrgSplit, ReclaimOrgResidual
<1>6. UNCHANGED vars => BondStep
  BY <1>1, NextBondStep
<1>7. /\ \A a, bps : CreateOrg(a, bps) => BondStep
      /\ \A a, o, b, role, bps : JoinOrg(a, o, b, role, bps) => BondStep
      /\ \A a, o, b, bps : SetMemberShare(a, o, b, bps) => BondStep
  BY <1>6 DEF CreateOrg, JoinOrg, SetMemberShare
<1> QED
  BY <1>2, <1>3, <1>5, <1>7, DissolveBondStep DEF OrgNext, orgVars

LEMMA OrgNextIssuesBonded ==
    ASSUME OrgTypeOK, [OrgNext]_orgVars
    PROVE  IssuedBonded
<1>1. CASE [Next]_vars
  BY <1>1, NextIssuesBonded DEF OrgTypeOK
<1>2. CASE authority' = authority
  BY <1>2 DEF IssuedBonded, AuthorityIds
<1>3. IntoTreasury => authority' = authority
  BY DEF IntoTreasury, SplTransfer, SlashBond
<1>4. /\ \A a, bps : CreateOrg(a, bps) => authority' = authority
      /\ \A a, o, b, role, bps : JoinOrg(a, o, b, role, bps) => authority' = authority
      /\ \A a, o, b, bps : SetMemberShare(a, o, b, bps) => authority' = authority
      /\ \A a, o, amount : DepositToOrg(a, o, amount) => authority' = authority
  BY DEF CreateOrg, JoinOrg, SetMemberShare, DepositToOrg, TreasuryMoves, vars
<1>5. /\ \A a, o, b, amount : OrgSplit(a, o, b, amount) => authority' = authority
      /\ \A a, o, b : DissolveOrg(a, o, b) => authority' = authority
      /\ \A a, o, d : ReclaimOrgResidual(a, o, d) => authority' = authority
  BY DEF OrgSplit, DissolveOrg, ReclaimOrgResidual, TreasuryMoves
<1> QED
  BY <1>1, <1>2, <1>3, <1>4, <1>5 DEF OrgNext, orgVars

\* Bonds stay backed although treasuries move tokens beside them.
THEOREM OrgBondsBacked == OrgSpec => []BondBacked
<1>1. OrgInit => BondBacked
  BY InitBonds DEF OrgInit
<1>2. OrgTypeOK /\ OrgTypeOK' /\ AuthorityInv /\ BondBacked /\ [OrgNext]_orgVars => BondBacked'
  BY OrgNextIsStep, OrgNextBondStep, OrgNextIssuesBonded, StepKeepsBonds DEF OrgTypeOK
<1>3. AuthorityInv <=> SpendWithinLimits /\ ExhaustedIffUsedUp /\ Attenuated
  BY DEF AuthorityInv
<1> QED
  BY <1>1, <1>2, <1>3, OrgTypeCorrect, OrgAuthoritiesSound, PTL DEF OrgSpec

\* No split, dissolution or reclaim takes from a bond vault, also not when
\* it pays into one.
THEOREM OrgBondsPaidOnce == OrgSpec => BondPaidOnce
<1>1. OrgTypeOK /\ OrgTypeOK' /\ [OrgNext]_orgVars =>
        [\A i \in 1 .. MaxAuthorities :
            balance'[BondVault(i)] < balance[BondVault(i)] =>
                /\ bond[i].status = "Active" /\ bond'[i].status = "Slashed"
                /\ balance'[BondVault(i)] = balance[BondVault(i)] - bond[i].amount]_vars
  BY OrgNextBondStep, FallsOnce DEF Falls, OrgTypeOK
<1> QED
  BY <1>1, OrgTypeCorrect, PTL DEF OrgSpec, BondPaidOnce

\* What leaves a wallet into a treasury is charged to no authority, and what
\* an authority is charged for covers what leaves a wallet.
THEOREM OrgChargesCoverOutflow == OrgSpec => ChargeCoversOutflow
<1>1. OrgTypeOK /\ OrgTypeOK' /\ AuthorityInv /\ [OrgNext]_orgVars =>
        [\A i \in AuthorityIds :
            authority'[i].spent # authority[i].spent =>
                \A a \in Agents :
                    balance[Wallet(a)] <= balance'[Wallet(a)] +
                        (IF a = authority[i].agent
                         THEN authority'[i].spent - authority[i].spent ELSE 0)]_vars
  <2> SUFFICES ASSUME OrgTypeOK, OrgTypeOK', AuthorityInv, [OrgNext]_orgVars,
                      NEW i \in AuthorityIds
               PROVE  Covered(i)
    BY DEF Covered
  <2>1. CASE [Next]_vars
    BY <2>1, NextCovered DEF OrgTypeOK
  <2>2. CASE authority' = authority
    BY <2>2 DEF Covered
  <2> QED
    BY <2>1, <2>2, OrgLeavesLedgers
<1>2. AuthorityInv <=> SpendWithinLimits /\ ExhaustedIffUsedUp /\ Attenuated
  BY DEF AuthorityInv
<1> QED
  BY <1>1, <1>2, OrgTypeCorrect, OrgAuthoritiesSound, PTL DEF OrgSpec, ChargeCoversOutflow

\* No organization revives a retired authority.
THEOREM OrgRetiredStaysRetired == OrgSpec => RetiredIsFinal
<1>1. OrgTypeOK /\ AuthorityInv /\ [OrgNext]_orgVars =>
        [\A i \in AuthorityIds :
            authority[i].status # "Active" => authority'[i] = authority[i]]_vars
  BY OrgNextIsStep, StepLeavesRetired DEF OrgTypeOK
<1>2. AuthorityInv <=> SpendWithinLimits /\ ExhaustedIffUsedUp /\ Attenuated
  BY DEF AuthorityInv
<1> QED
  BY <1>1, <1>2, OrgTypeCorrect, OrgAuthoritiesSound, PTL DEF OrgSpec, RetiredIsFinal

\* Treasuries go on paying while the program is paused, and still nothing is
\* issued, charged or credited.
THEOREM OrgPauseHolds == OrgSpec => PauseStopsSpending
<1>1. OrgTypeOK /\ [OrgNext]_orgVars => [paused => NothingSpent]_vars
  <2> SUFFICES ASSUME OrgTypeOK, [OrgNext]_orgVars, paused PROVE NothingSpent
    OBVIOUS
  <2>1. CASE [Next]_vars
    BY <2>1, PausedNextSpendsNothing DEF OrgTypeOK
  <2>2. CASE UNCHANGED <<authority, authority_counter, cri>>
    BY <2>2 DEF NothingSpent
  <2> QED
    BY <2>1, <2>2, OrgLeavesLedgers
<1> QED
  BY <1>1, OrgTypeCorrect, PTL DEF OrgSpec, PauseStopsSpending, NothingSpent

\* Organizations pay without earning anybody reputation.
THEOREM OrgCountsBacked == OrgSpec => []CountsBackedByVolume
<1>1. OrgInit => CountsBackedByVolume
  BY InitCounts DEF OrgInit
<1>2. OrgTypeOK /\ CountsBackedByVolume /\ [OrgNext]_orgVars => CountsBackedByVolume'
  <2> SUFFICES ASSUME OrgTypeOK, CountsBackedByVolume, [OrgNext]_orgVars
               PROVE  CountsBackedByVolume'
    OBVIOUS
  <2>1. CASE [Next]_vars
    BY <2>1, NextCounts DEF OrgTypeOK
  <2>2. CASE cri' = cri
    BY <2>2 DEF CountsBackedByVolume, Registered
  <2> QED
    BY <2>1, <2>2, OrgLeavesLedgers
<1> QED
  BY <1>1, <1>2, OrgTypeCorrect, PTL DEF OrgSpec

-----------------------------------------------------------------------------
(* The sums of shares and members                                          *)

\* The units of an assignment of shares.
BpsUnits(share) == Units(Agents, share, FULL_SHARE_BPS)

\* The shares of nobody but one agent.
LEMMA UnitsOfCreator ==
    ASSUME NEW a \in Agents, NEW k \in 0 .. FULL_SHARE_BPS
    PROVE  LET s == [x \in Agents |-> IF x = a THEN k ELSE 0] IN
           IsFiniteSet(BpsUnits(s)) /\ Cardinality(BpsUnits(s)) = k
<1> DEFINE s == [x \in Agents |-> IF x = a THEN k ELSE 0]
<1>1. k \in Nat /\ k <= FULL_SHARE_BPS /\ FULL_SHARE_BPS \in Nat
  BY OrgInputsAssumption
<1>2. BpsUnits(s) = {a} \X (1 .. k)
  BY <1>1 DEF BpsUnits, Units
<1>3. IsFiniteSet({a} \X (1 .. k)) /\ Cardinality({a} \X (1 .. k)) = k
  BY <1>1, UnitsOfOne
<1> HIDE DEF s
<1>4. IsFiniteSet(BpsUnits(s)) /\ Cardinality(BpsUnits(s)) = k
  BY <1>2, <1>3, Zenon
<1> QED
  BY <1>4 DEF s

SharesIn(ms) == [a \in Agents |-> ms[a].share_bps]
MembersIn(ms) == {a \in Agents : ms[a].role # "None"}

\* The totals of an organization o with the member accounts ms; an agent
\* that is no member has no share.
Counted(o, ms) ==
    /\ IsFiniteSet(BpsUnits(SharesIn(ms)))
    /\ o.total_share_bps = Cardinality(BpsUnits(SharesIn(ms)))
    /\ IsFiniteSet(MembersIn(ms))
    /\ o.member_count = Cardinality(MembersIn(ms))
    /\ \A a \in Agents : ms[a].role = "None" => ms[a].share_bps = 0

SharesInv == \A o \in OrgIds : Counted(org[o], member[o])

LEMMA CreatedCounted ==
    ASSUME NEW creator \in Agents, NEW k \in 0 .. FULL_SHARE_BPS,
           NEW o, o.member_count = 1, o.total_share_bps = k
    PROVE  Counted(o, [a \in Agents |->
                IF a = creator THEN [role |-> "Admin", share_bps |-> k] ELSE NotMember])
<1> DEFINE ms == [a \in Agents |->
                IF a = creator THEN [role |-> "Admin", share_bps |-> k] ELSE NotMember]
           s == [x \in Agents |-> IF x = creator THEN k ELSE 0]
<1>1. SharesIn(ms) = s
  BY DEF SharesIn, NotMember
<1>2. MembersIn(ms) = {creator}
  BY DEF MembersIn, NotMember
<1>3. \A a \in Agents : ms[a].role = "None" => ms[a].share_bps = 0
  BY DEF NotMember
<1>4. IsFiniteSet(BpsUnits(s)) /\ Cardinality(BpsUnits(s)) = k
  BY UnitsOfCreator
<1>5. IsFiniteSet({creator}) /\ Cardinality({creator}) = 1
  BY FS_Singleton
<1> HIDE DEF ms, s
<1>6. Counted(o, ms)
  BY <1>1, <1>2, <1>3, <1>4, <1>5, Zenon DEF Counted
<1> QED
  BY <1>6 DEF ms

\* A member account replaced: the sum follows, and so does the number when
\* the totals are moved by the difference.
LEMMA ReplacedCounted ==
    ASSUME NEW ms \in [Agents -> OrgMember], NEW a \in Agents, NEW m \in OrgMember,
           m.role # "None", NEW old, NEW new, Counted(old, ms),
           new.total_share_bps = (old.total_share_bps - ms[a].share_bps) + m.share_bps,
           new.member_count = IF ms[a].role = "None" THEN old.member_count + 1
                                                     ELSE old.member_count
    PROVE  Counted(new, [ms EXCEPT ![a] = m])
<1> DEFINE ns == [ms EXCEPT ![a] = m]
           s == SharesIn(ms)
           r == [s EXCEPT ![a] = m.share_bps]
<1>1. m.share_bps \in 0 .. FULL_SHARE_BPS /\ s \in [Agents -> 0 .. FULL_SHARE_BPS]
  BY DEF OrgMember, SharesIn
<1>2. SharesIn(ns) = r
  BY DEF SharesIn
<1>3. IsFiniteSet(BpsUnits(s)) /\ old.total_share_bps = Cardinality(BpsUnits(s))
  BY DEF Counted
<1>4. IsFiniteSet(BpsUnits(r))
      /\ Cardinality(BpsUnits(r)) = (Cardinality(BpsUnits(s)) - s[a]) + m.share_bps
  <2> DEFINE k == m.share_bps
  <2>1. FULL_SHARE_BPS \in Nat /\ r[a] = k /\ \A x \in Agents \ {a} : r[x] = s[x]
    BY <1>1, OrgInputsAssumption
  <2>2. /\ IsFiniteSet(Units(Agents, s, FULL_SHARE_BPS))
        /\ k \in 0 .. FULL_SHARE_BPS /\ s \in [Agents -> 0 .. FULL_SHARE_BPS]
    BY <1>1, <1>3 DEF BpsUnits
  <2> HIDE DEF s, k, r
  <2>3. /\ IsFiniteSet(Units(Agents, r, FULL_SHARE_BPS))
        /\ Cardinality(Units(Agents, r, FULL_SHARE_BPS))
                = (Cardinality(Units(Agents, s, FULL_SHARE_BPS)) - s[a]) + k
    BY <2>1, <2>2, UnitsReplaced
  <2> QED
    BY <2>3 DEF BpsUnits, k
<1>5. s[a] = ms[a].share_bps
  BY DEF SharesIn
<1>6. IsFiniteSet(MembersIn(ms)) /\ old.member_count = Cardinality(MembersIn(ms))
  BY DEF Counted
<1>7. MembersIn(ns) = MembersIn(ms) \cup {a}
  BY DEF MembersIn
<1>8. a \in MembersIn(ms) <=> ms[a].role # "None"
  BY DEF MembersIn
<1>9. /\ IsFiniteSet(MembersIn(ms) \cup {a})
      /\ Cardinality(MembersIn(ms) \cup {a}) =
            IF a \in MembersIn(ms) THEN Cardinality(MembersIn(ms))
                                   ELSE Cardinality(MembersIn(ms)) + 1
  BY <1>6, FS_AddElement
<1>10. \A x \in Agents : ns[x].role = "None" => ns[x].share_bps = 0
  BY DEF Counted
<1> HIDE DEF s, r, ns
<1>11. new.total_share_bps = Cardinality(BpsUnits(r))
  BY <1>3, <1>4, <1>5, Zenon
<1>12. new.member_count = Cardinality(MembersIn(ns))
  BY <1>6, <1>7, <1>8, <1>9, Zenon
<1>13. IsFiniteSet(BpsUnits(SharesIn(ns))) /\ new.total_share_bps = Cardinality(BpsUnits(SharesIn(ns)))
  BY <1>2, <1>4, <1>11, Zenon
<1>14. IsFiniteSet(MembersIn(ns))
  BY <1>7, <1>9, Zenon
<1>15. Counted(new, ns)
  BY <1>10, <1>12, <1>13, <1>14, Zenon DEF Counted
<1> QED
  BY <1>15 DEF ns

LEMMA ChangedKeepsCounts ==
    ASSUME OrgTypeOK, SharesInv, NEW p \in OrgIds, NEW new, NEW ms, Counted(new, ms),
           org' = [org EXCEPT ![p] = new], member' = [member EXCEPT ![p] = ms]
    PROVE  SharesInv'
<1> SUFFICES ASSUME NEW o \in OrgIds' PROVE Counted(org'[o], member'[o])
  BY DEF SharesInv
<1>1. o \in OrgIds
  BY DEF OrgIds
<1>2. CASE o = p
  <2>1. org'[o] = new /\ member'[o] = ms
    BY <1>1, <1>2 DEF OrgTypeOK, OrgIds
  <2> QED
    BY <2>1
<1>3. CASE o # p
  <2>1. org'[o] = org[o] /\ member'[o] = member[o]
    BY <1>1, <1>3 DEF OrgTypeOK, OrgIds
  <2>2. Counted(org[o], member[o])
    BY <1>1 DEF SharesInv
  <2> QED
    BY <2>1, <2>2
<1> QED
  BY <1>2, <1>3

LEMMA CreateKeepsCounts ==
    ASSUME OrgTypeOK, SharesInv, NEW creator \in Agents, NEW bps \in Shares,
           CreateOrg(creator, bps)
    PROVE  SharesInv'
<1> DEFINE id == org_counter + 1
           share == IF bps = 0 THEN FULL_SHARE_BPS ELSE bps
           new == [creator |-> creator, member_count |-> 1,
                   total_share_bps |-> share, status |-> "Active"]
           ms == [a \in Agents |->
                IF a = creator THEN [role |-> "Admin", share_bps |-> share] ELSE NotMember]
<1>1. share \in 0 .. FULL_SHARE_BPS
  BY OrgInputsAssumption DEF CreateOrg
<1>2. Counted(new, ms)
  <2> HIDE DEF share
  <2> QED
    BY <1>1, CreatedCounted
<1>3. org' = Added(org, id, new) /\ member' = Added(member, id, ms)
  BY DEF CreateOrg
<1>4. DOMAIN org = 1 .. org_counter /\ DOMAIN member = 1 .. org_counter
  BY DEF OrgTypeOK
<1> HIDE DEF new, ms, id
<1> SUFFICES ASSUME NEW o \in OrgIds' PROVE Counted(org'[o], member'[o])
  BY DEF SharesInv
<1>5. o \in OrgIds \cup {id} /\ o \in DOMAIN member \cup {id}
  BY <1>3, <1>4 DEF Added, OrgIds
<1>6. CASE o = id
  <2>1. org'[o] = new /\ member'[o] = ms
    BY <1>3, <1>6 DEF Added
  <2> QED
    BY <1>2, <2>1
<1>7. CASE o # id
  <2>1. org'[o] = org[o] /\ member'[o] = member[o] /\ o \in OrgIds
    BY <1>3, <1>5, <1>7 DEF Added, OrgIds
  <2>2. Counted(org[o], member[o])
    BY <2>1 DEF SharesInv
  <2> QED
    BY <2>1, <2>2
<1> QED
  BY <1>6, <1>7

LEMMA JoinKeepsCounts ==
    ASSUME OrgTypeOK, SharesInv, NEW admin \in Agents, NEW o \in OrgIds, NEW agent \in Agents,
           NEW role \in MemberRole, NEW bps \in Shares, JoinOrg(admin, o, agent, role, bps)
    PROVE  SharesInv'
<1> DEFINE new == [[org[o] EXCEPT !.total_share_bps = org[o].total_share_bps + bps]
                        EXCEPT !.member_count = org[o].member_count + 1]
           m == [role |-> role, share_bps |-> bps]
           ms == [member[o] EXCEPT ![agent] = m]
<1>1. /\ org[o] \in Organization /\ member[o] \in [Agents -> OrgMember]
      /\ org[o].total_share_bps \in Nat /\ bps \in Nat
  BY OrgFacts, OrgInputsAssumption
<1>2. m \in OrgMember /\ m.role # "None"
  BY <1>1, OrgInputsAssumption DEF JoinOrg, OrgMember, MemberRole
<1>3. Counted(org[o], member[o]) /\ member[o][agent].role = "None"
  BY DEF SharesInv, JoinOrg, IsMember
<1>4. member[o][agent].share_bps = 0
  BY <1>3 DEF Counted
<1>5. /\ new.total_share_bps = (org[o].total_share_bps - member[o][agent].share_bps) + m.share_bps
      /\ new.member_count = org[o].member_count + 1
  BY <1>1, <1>4 DEF Organization
<1>6. org' = [org EXCEPT ![o] = new] /\ member' = [member EXCEPT ![o] = ms]
  BY DEF JoinOrg
<1> HIDE DEF new, m
<1>7. Counted(new, ms)
  BY <1>1, <1>2, <1>3, <1>5, ReplacedCounted
<1> HIDE DEF ms
<1> QED
  BY <1>6, <1>7, ChangedKeepsCounts

LEMMA ReshareKeepsCounts ==
    ASSUME OrgTypeOK, SharesInv, NEW admin \in Agents, NEW o \in OrgIds, NEW target \in Agents,
           NEW bps \in Shares, SetMemberShare(admin, o, target, bps)
    PROVE  SharesInv'
<1> DEFINE total == Reshared(org[o].total_share_bps, member[o][target].share_bps, bps)
           new == [org[o] EXCEPT !.total_share_bps = total]
           m == [member[o][target] EXCEPT !.share_bps = bps]
           ms == [member[o] EXCEPT ![target] = m]
<1>1. /\ org[o] \in Organization /\ member[o] \in [Agents -> OrgMember]
      /\ member[o][target] \in OrgMember /\ bps \in Nat
  BY OrgFacts, OrgInputsAssumption
<1>2. m \in OrgMember /\ m.role # "None" /\ m.share_bps = bps
  BY <1>1, OrgInputsAssumption DEF SetMemberShare, IsMember, OrgMember
<1>3. Counted(org[o], member[o]) /\ member[o][target].role # "None"
  BY DEF SharesInv, SetMemberShare, IsMember
<1>4. /\ new.total_share_bps = (org[o].total_share_bps - member[o][target].share_bps) + m.share_bps
      /\ new.member_count = org[o].member_count
  BY <1>1, <1>2 DEF Organization, Reshared
<1>5. org' = [org EXCEPT ![o] = new]
  BY DEF SetMemberShare
<1>6. member' = [member EXCEPT ![o] = ms]
  BY DEF SetMemberShare
<1> HIDE DEF new, m
<1>7. Counted(new, ms)
  BY <1>1, <1>2, <1>3, <1>4, ReplacedCounted
<1> HIDE DEF ms
<1> QED
  BY <1>5, <1>6, <1>7, ChangedKeepsCounts

LEMMA DissolveKeepsCounts ==
    ASSUME OrgTypeOK, SharesInv, NEW admin \in Agents, NEW o \in OrgIds, NEW b,
           DissolveOrg(admin, o, b)
    PROVE  SharesInv'
<1> DEFINE new == [org[o] EXCEPT !.status = StatusWhenDissolved]
<1>1. org[o] \in Organization /\ Counted(org[o], member[o])
  BY OrgFacts DEF SharesInv
<1>2. /\ new.total_share_bps = org[o].total_share_bps
      /\ new.member_count = org[o].member_count
  BY <1>1 DEF Organization
<1>3. org' = [org EXCEPT ![o] = new] /\ member' = [member EXCEPT ![o] = member[o]]
  BY DEF DissolveOrg, OrgTypeOK
<1> HIDE DEF new
<1>4. Counted(new, member[o])
  BY <1>1, <1>2, Zenon DEF Counted
<1> QED
  BY <1>3, <1>4, ChangedKeepsCounts

\* The totals of an organization are the sums over its member accounts,
\* whatever joins and changes of shares made them.
THEOREM SharesAlwaysAddUp == OrgSpec => []SharesAddUp
<1>1. OrgInit => SharesInv
  BY DEF OrgInit, SharesInv, OrgIds
<1>2. OrgTypeOK /\ SharesInv /\ [OrgNext]_orgVars => SharesInv'
  <2> SUFFICES ASSUME OrgTypeOK, SharesInv, [OrgNext]_orgVars PROVE SharesInv'
    OBVIOUS
  <2>1. CASE UNCHANGED <<org, member>>
    BY <2>1 DEF SharesInv, OrgIds
  <2> QED
    BY <2>1, CreateKeepsCounts, JoinKeepsCounts, ReshareKeepsCounts, DissolveKeepsCounts
    DEF OrgNext, orgVars, orgs, DepositToOrg, OrgSplit, TreasuryMoves, ReclaimOrgResidual
<1>3. SharesInv => SharesAddUp
  <2> SUFFICES ASSUME SharesInv, NEW o \in OrgIds
               PROVE  /\ org[o].total_share_bps = Cardinality(Units(Agents, ShareBps(o), FULL_SHARE_BPS))
                      /\ org[o].member_count = Cardinality(MembersOf(o))
    BY DEF SharesAddUp
  <2>1. Counted(org[o], member[o])
    BY DEF SharesInv
  <2>2. Units(Agents, ShareBps(o), FULL_SHARE_BPS) = BpsUnits(SharesIn(member[o]))
    BY DEF BpsUnits, ShareBps, SharesIn
  <2>3. MembersOf(o) = MembersIn(member[o])
    BY DEF MembersOf, MembersIn, IsMember
  <2> QED
    BY <2>1, <2>2, <2>3, Zenon DEF Counted
<1> QED
  BY <1>1, <1>2, <1>3, OrgTypeCorrect, PTL DEF OrgSpec
=============================================================================
