SPECIFICATION HistorySpec
CONSTANTS
    c1 = c1
    c2 = c2
    k1 = k1
    small = small
    middle = middle
    large = large
    Clients = {c1}
    Keys = {k1}
    Values = {middle, large}
    Empty = Empty
    Torn = Torn
    NoReq = NoReq
    NoKey = NoKey
    NoClient = NoClient
    KeyLen <- MCKeyLen
    StrLen <- MCStrLen
    MaxOps = 3
    SERVER_WC_BATCH = 2
    WINDOW = 250
    Unreliable = {}
    Delivering = {}
    Reusing = {}
    MaxSessions = 1
INVARIANTS
    SetValueIsNotEmpty
