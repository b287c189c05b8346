SPECIFICATION Spec
CONSTANTS
  Workers = {w1}
  Editors = {e1}
  Nobody = Nobody
  Dead = Dead
  MaxThreshold = 1
  MaxTasks = 1
  MaxCrashes = 0
  MaxExpiries = 0
PROPERTY PauseEndsInPending
CHECK_DEADLOCK FALSE
