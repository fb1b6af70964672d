SPECIFICATION Spec
CONSTANTS
    p1 = p1
    p2 = p2
    p3 = p3
    MAX_CLIENTS_SUPPORTED = 2
    Peers = {p1, p2, p3}
    NoPeer = NoPeer
INVARIANTS
    TurnsAwayOnlyWhenFull
CHECK_DEADLOCK FALSE
