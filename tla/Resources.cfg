SPECIFICATION ResourcesSpec
CONSTANTS
    MAX_CLIENTS_SUPPORTED = 2
    p1 = p1
    p2 = p2
    p3 = p3
    Peers = {p1, p2, p3}
    NoPeer = NoPeer
    SERVER_NUM_RECV_BUFFS = 6
    MAX_RECV_BUFFS = 3
    FEW_RECEIVES = 1
    Leavers = {0}
    MaxSends = 3
    MaxSessions = 2
    MAX_ALLOCATED_ENTRIES = 4
    FEW_ENTRIES = 2
    MaxRounds = 3
    BUFFER_SIZE = 12
    CLIENT_HEADER_LEN = 2
    SERVER_HEADER_LEN = 4
    page_size = 6
    INT_MAX = 63
    v0 = v0
    v1 = v1
    v2 = v2
    v3 = v3
    v4 = v4
    v7 = v7
    v9 = v9
    v10 = v10
    v20 = v20
    KeyLens = {1, 4, 5}
    Values = {v0, v1, v2, v3, v4, v7, v9, v10, v20}
    StrLen <- MCStrLen
    NUL = NUL
    NoValue = NoValue
SYMMETRY Symmetry
INVARIANTS
    ResourcesTypeOK
    SlotsAreCounted
    NoSlotOverrun
    ClientsKnowTheirSlots
    CountsAgree
    UsedBuffersArePosted
    NeverRunsShort
    RequestsAreIntact
    CountIsExact
    RecordsAreInOnePlace
    AccessesAreInside
    GetReturnsTheString
CHECK_DEADLOCK FALSE
