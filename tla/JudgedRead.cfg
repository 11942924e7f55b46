\* Eighteen declared types, and every payload made of what each of their places may hold.
CONSTANTS
    KeyOrder <- Order
    Models <- Declared
    Types <- AllTypes
    Depth <- DepthOf
    Payloads <- Given
    BrokenInBelow <- BrokenInAgain
    WalksBelow <- WalksAgain
    HeldSaysBelow <- HeldSaysAgain
    ReadAsBelow <- ReadAsAgain
    HeldElementsBelow <- HeldElementsAgain
    DecodeExprBelow <- DecodeExprAgain
    ReachesBelow <- ReachesAgain
    HeldWalkBelow <- HeldWalkAgain
    ReadBelow <- ReadAgain
    HeldStatementsBelow <- HeldStatementsAgain
    InnermostBelow <- InnermostAgain
    HoldsAnUnjudgedBelow <- HoldsAnUnjudgedAgain
    DecodedBelow <- DecodedAgain
SPECIFICATION Spec
INVARIANTS
    AcceptedBreaksNoRule
    EachRuleIsNamedOnce
    ReadersAgree
CHECK_DEADLOCK FALSE
