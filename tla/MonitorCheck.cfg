SPECIFICATION Spec
CONSTANTS
  Workers = {w1, w2}
  Editors = {e1}
  Nobody = Nobody
  Dead = Dead
  MaxThreshold = 2
  MaxTasks = 1
  MaxCrashes = 1
  MaxExpiries = 1
SYMMETRY WorkerSymmetry
INVARIANTS
  TypeOK
  StatusIsTrue
PROPERTIES
  IncidentsEarned
  ResultsRepairStatus
  ObservedOncePerPeriod
CHECK_DEADLOCK FALSE
