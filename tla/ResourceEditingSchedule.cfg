SPECIFICATION EditSpec
CONSTANTS
  MaxLoads = 1
  MaxHints = 1
  MaxSubmits = 1
INVARIANT JobKeepsItsSchedule
CHECK_DEADLOCK FALSE
