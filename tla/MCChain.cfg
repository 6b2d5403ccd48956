SPECIFICATION Spec
CONSTANTS
    a1 = a1
    a2 = a2
    c1 = c1
    c2 = c2
    Agents = {a1}
    NoAgent = NoAgent
    Categories = {c1, c2}
    MAX_AUTHORITY_DEPTH = 2
    MAX_CATEGORIES = 2
    MaxU64 = 2
    MaxAuthorities = 4
    MaxEscrows = 0
    MaxOrgs = 0
    MintIsClassic = FALSE
    InitialWallet <- FirstHoldsTwo
    IssueRequests <- ChainRequests
    Amounts = {1}
    MaxSlot = 1
INVARIANTS
    NeverBeyondAncestors
    BondBacked
