SPECIFICATION Spec
CONSTANTS
  c1 = c1
  c2 = c2
  p1 = p1
  p2 = p2
  NoId = NoId
  NoPath = NoPath
  Calls = {c1, c2}
  Paths = {p1, p2}
  DailyPath = p1
  Worlds <- MCWorlds
SYMMETRY Symmetry
INVARIANTS TypeOK OneFilePerId AckedEditsKept FailedCallsLeaveNoTrace
PROPERTIES RewriteSeesOtherWriters RegularLocksObeyed
