\* One loop with one slot and two messages for it.
CONSTANTS
    Messages = {m1, m2}
    Loops = {l1}
    Prefetch = 1
    MaxServes = 1
    MaxLosses = 1
    Lost = Lost
SPECIFICATION LiveSpec
INVARIANTS
    NoneWaitsBehindAnother
PROPERTIES
    ShutdownReturns
    HandedIsStarted
CHECK_DEADLOCK FALSE
