SPECIFICATION EscrowSpec
CONSTANTS
    a1 = a1
    a2 = a2
    c1 = c1
    w1 = w1
    w2 = w2
    Agents = {a1, a2}
    NoAgent = NoAgent
    Categories = {c1}
    MAX_AUTHORITY_DEPTH = 0
    MAX_CATEGORIES = 1
    MaxU64 = 2
    MaxAuthorities = 1
    MaxEscrows = 2
    MaxOrgs = 0
    MintIsClassic = TRUE
    InitialWallet <- FirstHoldsOne
    IssueRequests <- MCRequests
    Amounts = {1}
    MaxSlot = 2
    Witnesses = {w1, w2}
    EscrowTerms <- MCTerms
PROPERTY PausedStopsMoney
