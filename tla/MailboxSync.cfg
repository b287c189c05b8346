SPECIFICATION FairSpec
CONSTANTS
  Messages = {m1, m2}
  WithFiles = {m1}
  Workers = {w1, w2}
  Nobody = Nobody
  Dead = Dead
  MaxChanges = 2
  MaxTasks = 1
  MaxErrors = 1
  MaxCrashes = 1
  MaxExpiries = 1
  MaxSwitches = 1
INVARIANTS TypeOK CheckpointCovers
PROPERTIES LinkNeverGoesBack MailGetsIn
CHECK_DEADLOCK FALSE
