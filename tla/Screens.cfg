SPECIFICATION ScreenSpec
CONSTANTS
  Choices = {"a", "b"}
  Start = "a"
  MaxMoves = 2
INVARIANTS ScreenTypeOK ScreenIsConsistent
PROPERTIES ScreenCatchesUp
CHECK_DEADLOCK FALSE
