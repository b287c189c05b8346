SPECIFICATION FairSpec
CONSTANTS
  Replies = {r1}
  Openers = {}
  Workers = {w1, w2}
  Nobody = Nobody
  Dead = Dead
  MaxRetries = 2
  MaxCrashes = 1
  MaxExpiries = 0
  MaxDuplicates = 2
PROPERTIES ImplementsOutboundMail Settles
CHECK_DEADLOCK FALSE
