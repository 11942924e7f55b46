\* What the transport promises of a missed pong, on a socket handed over while it connects.
CONSTANTS
    Transports = {t1}
    Probing = {t1}
    Calls = {c1}
    Interval = 3
    Timeout = 2
    Latency = 1
    MaxStrays = 1
SPECIFICATION Spec
INVARIANTS
    EveryDeadPeerIsClosed
CHECK_DEADLOCK FALSE
