SPECIFICATION Spec
CONSTANTS
    a1 = a1
    a2 = a2
    c1 = c1
    c2 = c2
    Agents = {a1, a2}
    NoAgent = NoAgent
    Categories = {c1, c2}
    MAX_AUTHORITY_DEPTH = 1
    MAX_CATEGORIES = 2
    MaxU64 = 2
    MaxAuthorities = 2
    MaxEscrows = 0
    MaxOrgs = 0
    MintIsClassic = TRUE
    InitialWallet <- FirstHoldsTwo
    IssueRequests <- MCRequests
    Amounts = {1}
    MaxSlot = 2
INVARIANTS
    TypeOK
    SpendWithinLimits
    ExhaustedIffUsedUp
    Attenuated
    BondBacked
    CountsBackedByVolume
PROPERTIES
    RetiredIsFinal
    ChargeCoversOutflow
    BondPaidOnce
    PauseStopsSpending
