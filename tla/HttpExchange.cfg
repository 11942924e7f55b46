SPECIFICATION Spec
CONSTANTS
  Numerals = {"7", "8"}
  Illegal = {"bell"}
  Services <- MCServices
  Texts <- MCTexts
  Lists <- MCLists
  Refused <- MCRefused
INVARIANTS
  RightHandler ArgumentsArrive ReachesTheHandler OutcomeIsTheHandlers FaultMeansNotRun
CHECK_DEADLOCK FALSE
