SPECIFICATION RecordsSpec
CONSTANTS
  Content = "malware"
  Workers = {w1, w2}
  Nobody = Nobody
  Dead = Dead
  MaxRetries = 1
  MaxTasks = 2
  MaxOutages = 2
  MaxCrashes = 1
  MaxExpiries = 1
  MaxSwitches = 1
  KbContent = "malware"
  KbWorkers = {w1, w2, w3}
  KbMaxTasks = 3
  KbMaxOutages = 1
  KbMaxCrashes = 2
  KbMaxSwitches = 2
  Editors = {e1, e2}
  Uploads = {u1}
  DocNobody = DocNobody
  Contents = {c1, c2}
  Summaries = {s1, s2}
  MaxVersions = 4
  Tabs = {{"task"}, {"ticket"}}
  Targets = {"task"}
  WorkItems <- TaskMovesOut
  LeftRunning <- OneOnTask
  MaxTimeRequests = 2
INVARIANTS RecordsTypeOK QuarantineHolds KbRowIsSound HistoryIsSound TimeIsSound
PROPERTIES KeepsTheGate KbKeepsTheGate HistoryIsKept ScansEnd WorkspaceCatchesUp
CHECK_DEADLOCK FALSE
