SPECIFICATION BeatSpec
CONSTANTS
  Deliveries = {d1, d2}
  Workers = {w1, w2}
  Nobody = Nobody
  Dead = Dead
  InitialItem = 0
  RecoveryBatch = 1
  MaxTasks = 1
  MaxOutages = 1
  MaxCrashes = 1
  MaxExpiries = 1
  Editors = {e1}
  MaxThreshold = 1
INVARIANTS TypeOK ProcessedIsMirrored StoredOnce
PROPERTIES DeliveriesProcessed DueChecksRun
CHECK_DEADLOCK FALSE
