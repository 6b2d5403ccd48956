SPECIFICATION TreeSpec
CONSTANTS
    a1 = a1
    a2 = a2
    c1 = c1
    Agents = {a1, a2}
    NoAgent = NoAgent
    Categories = {c1}
    MAX_AUTHORITY_DEPTH = 2
    MAX_CATEGORIES = 1
    MaxU64 = 1
    MaxAuthorities = 4
    MaxEscrows = 0
    MaxOrgs = 0
    MintIsClassic = TRUE
    InitialWallet <- NoTokens
    IssueRequests <- MCRequests
    Amounts = {}
    MaxSlot = 2
    Caller = a1
    RootId = 1
    ScanMaxId = 3
    MaxMisses = 1
INVARIANTS
    TreeTypeOK
PROPERTIES
    DescendantsFirst
    TreeComesDown
