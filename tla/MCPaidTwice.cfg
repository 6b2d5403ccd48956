SPECIFICATION OrgSpec
CONSTANTS
    a1 = a1
    a2 = a2
    a3 = a3
    c1 = c1
    Agents = {a1, a2, a3}
    NoAgent = NoAgent
    Categories = {c1}
    MAX_AUTHORITY_DEPTH = 0
    MAX_CATEGORIES = 1
    MaxU64 = 3
    MaxAuthorities = 1
    MaxEscrows = 0
    MaxOrgs = 1
    MintIsClassic = TRUE
    InitialWallet <- FirstHoldsThree
    IssueRequests <- MCRequests
    Amounts = {}
    MaxSlot = 1
    FULL_SHARE_BPS = 2
    MaxMembers = 3
    Shares = {0, 1, 2}
    OrgAmounts = {1}
PROPERTY NobodyPaidTwice
