\* Two calls, two readers, a close, and a reply of another service under the same ids: safety, the
\* refinement of RpcCalls, and liveness under the executor's and the driver's fairness.
CONSTANTS
    Calls = {c1, c2}
    Readers = {r1, r2}
    MaxForeign = 1
    MaxPings = 1
    MaxCloses = 1
SPECIFICATION FairSpec
INVARIANTS
    AnswersItsOwnCall
    SlotHasOneOwner
    NoLostWakeup
PROPERTIES
    ImplementsRpcCalls
    OwnedIsSettled
    CloseSettlesTheRegistered
CHECK_DEADLOCK FALSE
