\* Each app transport beside a peer that answers or falls silent, with two calls, a close by
\* the application, by the socket or by the heartbeat, and a timeout shorter than the interval.
CONSTANTS
    Calls = {c1, c2}
    Interval = 3
    Timeout = 2
    Latency = 1
    Watchers = {w1, w2}
    Nobody = Nobody
SPECIFICATION FairSpec
INVARIANTS
    HealthyStaysOpen
    DeadPeerIsClosed
PROPERTIES
    RequestSettles
    ImplementsRpcCalls
CHECK_DEADLOCK FALSE
