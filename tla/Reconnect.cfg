SPECIFICATION Spec
CONSTANTS
    c1 = c1
    c2 = c2
    k1 = k1
    k2 = k2
    small = small
    large = large
    Clients = {c1}
    Keys = {k1, k2}
    Values = {small, large}
    Empty = Empty
    Torn = Torn
    NoReq = NoReq
    NoKey = NoKey
    NoClient = NoClient
    KeyLen <- MCKeyLen
    StrLen <- MCStrLen
    MaxOps = 2
    SERVER_WC_BATCH = 2
    WINDOW = 250
    Unreliable = {c1}
    Delivering = {}
    Reusing = {}
    MaxSessions = 2
INVARIANTS
    LocksAreAccountedFor
