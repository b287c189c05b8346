SPECIFICATION DocSpec
CONSTANTS
  Editors = {e1}
  Uploads = {u1}
  DocNobody = DocNobody
  Contents = {c1, c2}
  Summaries = {s1, s2}
  MaxVersions = 3
PROPERTY ArchivedTakesNoAttachment
CHECK_DEADLOCK FALSE
