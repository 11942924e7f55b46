\* Two loops, each started twice, and one message they may both end up with.
CONSTANTS
    Messages = {m1}
    Loops = {l1, l2}
    Prefetch = 1
    MaxServes = 2
    MaxLosses = 1
    Lost = Lost
SPECIFICATION Spec
INVARIANTS
    AckedAfterServed
    DrainedBeforeReturn
    NoSpuriousRerun
    AtMostOneLateStart
SYMMETRY Symmetry
CHECK_DEADLOCK FALSE
