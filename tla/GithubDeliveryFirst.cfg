SPECIFICATION Spec
CONSTANTS
  Deliveries = {d1, d2}
  Workers = {w1, w2}
  Nobody = Nobody
  Dead = Dead
  InitialItem = 0
  RecoveryBatch = 2
  MaxTasks = 1
  MaxOutages = 0
  MaxCrashes = 0
  MaxExpiries = 0
PROPERTY StaleNeverOverwrites
CHECK_DEADLOCK FALSE
