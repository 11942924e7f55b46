\* What close owes the waiters: a call that registers after close is never settled.
CONSTANTS
    Calls = {c1, c2}
    Readers = {r1}
    MaxForeign = 0
    MaxPings = 0
    MaxCloses = 0
SPECIFICATION FairSpec
PROPERTIES
    EveryWaiterIsSettled
CHECK_DEADLOCK FALSE
