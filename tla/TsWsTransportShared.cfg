\* What the README promises of two services on one socket: each probing, they close it though no pong was missed.
CONSTANTS
    Transports = {t1, t2}
    Probing = {t1, t2}
    Calls = {}
    Interval = 3
    Timeout = 2
    Latency = 1
    MaxStrays = 2
SPECIFICATION Spec
INVARIANTS
    HealthyStaysOpen
CHECK_DEADLOCK FALSE
