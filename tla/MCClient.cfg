SPECIFICATION ClientSpec
CONSTANTS
    a1 = a1
    a2 = a2
    c1 = c1
    Agents = {a1, a2}
    NoAgent = NoAgent
    Categories = {c1}
    MAX_AUTHORITY_DEPTH = 0
    MAX_CATEGORIES = 1
    MaxU64 = 0
    MaxAuthorities = 0
    MaxEscrows = 0
    MaxOrgs = 0
    MintIsClassic = TRUE
    InitialWallet <- NoTokens
    IssueRequests = {}
    Amounts = {}
    MaxSlot = 2
    MaxReceipts = 6
    MAX_PAYLOAD = 1024
    Payloads = {1024}
    Requests = 2
    MaxTimeouts = 2
INVARIANTS
    ClientTypeOK
    ReceiptsChained
    ReturnedIdIsMine
PROPERTIES
    EveryRequestServed
