SPECIFICATION Spec
CONSTANTS
  Replies = {r1}
  Openers = {o1}
  Workers = {w1, w2}
  Nobody = Nobody
  Dead = Dead
  MaxRetries = 1
  MaxCrashes = 1
  MaxExpiries = 1
  MaxDuplicates = 1
INVARIANTS
  TypeOK
  OneWorkerPerMessage
  EveryCopyAccounted
  RecordIsTrue
PROPERTY SentIsFinal
CHECK_DEADLOCK FALSE
