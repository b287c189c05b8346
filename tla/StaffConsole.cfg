SPECIFICATION ConsoleSpec
CONSTANTS
  MaxLoads = 1
  MaxHints = 1
  MaxSubmits = 2
  Clients = {c1, c2}
  NoClient = NoClient
  NoReference = NoReference
  MaxPosts = 2
  Rows = {r1, r2, r3}
  New = New
  MaxSends = 2
  MaxReads = 2
  Items = {i1, i2, i3}
  NoItem = NoItem
  MaxRequests = 2
  MaxSaves = 2
INVARIANTS ConsoleTypeOK  RecordsNotBlanked ReferencesStayWithOwner PageShowsServer
 
CHECK_DEADLOCK FALSE
