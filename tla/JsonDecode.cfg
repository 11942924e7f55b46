CONSTANTS
    KeyOrder <- MCKeyOrder
    Numerals <- MCNumerals
    Types <- MCTypes
    AllTypes <- MCAllTypes
    Depth <- MCDepth
    SoundBelow <- SoundAgain
    FormsBelow <- FormsAgain
    ReadsWholeBelow <- ReadsWholeAgain
    ClaimedBelow <- ClaimedAgain
    ArmsBelow <- ArmsAgain
    FieldsBelow <- FieldsAgain
    ComplaintsBelow <- ComplaintsAgain
    DigitsAsNumbersBelow <- DigitsAsNumbersAgain
    KeptInBelow <- KeptInAgain
    LawfulBelow <- LawfulAgain
    HoldsCorrectedBelow <- HoldsCorrectedAgain
    Taken <- MCCalls
    Correction <- CorrectedOf
    IsRead <- ReadsOf
    Lists <- ListsOf
    Rewritten <- DigitsSettled
    Decisions <- DecisionsOf
    Resolutions <- ResolutionsOf
SPECIFICATION Spec
INVARIANTS
    PipeKeepsItsOrder
    AcceptedIsWhatWasHeld
    FoundIsThere
    RepairsSuffice
CHECK_DEADLOCK FALSE
