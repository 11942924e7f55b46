\* One accepted connection, its own service and another that shares it.
CONSTANTS
    Services = {s1, s2}
    Requests = {q1}
    Interval = 3
    Timeout = 2
    Latency = 1
SPECIFICATION FairSpec
INVARIANTS
    NothingStays
    HeldUntilClosed
    NothingSentAfterClose
    HealthyStaysOpen
    SilentIsFoundOut
PROPERTIES
    BusyIsNotProbed
    SilentIsDropped
CHECK_DEADLOCK FALSE
