\* Two services on one socket, one of them probing it, and a peer that answers or falls silent.
CONSTANTS
    Transports = {t1, t2}
    Probing = {t1}
    Calls = {c1, c2}
    Interval = 3
    Timeout = 2
    Latency = 1
    MaxStrays = 1
SPECIFICATION FairSpec
INVARIANTS
    HealthyStaysOpen
    AnswersItsOwnCall
    DeadPeerIsClosed
PROPERTIES
    OpenRequestSettles
CHECK_DEADLOCK FALSE
