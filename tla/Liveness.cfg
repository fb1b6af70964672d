SPECIFICATION FairSpec
CONSTANTS
    c1 = c1
    c2 = c2
    k1 = k1
    small = small
    middle = middle
    large = large
    Clients = {c1, c2}
    Keys = {k1}
    Values = {large}
    Empty = Empty
    Torn = Torn
    NoReq = NoReq
    NoKey = NoKey
    NoClient = NoClient
    KeyLen <- MCKeyLen
    StrLen <- MCStrLen
    MaxOps = 2
    SERVER_WC_BATCH = 1
    WINDOW = 2
    Unreliable = {}
    Delivering = {c1, c2}
    Reusing = {c1, c2}
    MaxSessions = 1
PROPERTIES
    GetsReturn
    LocksAreReleased
    QueuedRequestsAreServed
    ClosesReturn
