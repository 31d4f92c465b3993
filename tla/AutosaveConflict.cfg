SPECIFICATION Spec
CONSTANTS
  a = a
  b = b
  n1 = n1
  n2 = n2
  e1 = e1
  v = v
  raw = raw
  None = None
  Tabs = {a, b}
  Nodes = {n1, n2}
  Values = {v, raw}
  Edges = {e1}
  Ends <- MCEnds
  Canon <- MCCanon
  Drafts <- MCDrafts
  FirstGraph <- MCFirst
  MaxEdits <- MCEdits
  MaxBreaks <- MCBreaks
  MaxRevision = 5
  MaxBatch = 3
  MaxReplays = 1
PROPERTIES
  SavesOwnNodes
CHECK_DEADLOCK FALSE
