SPECIFICATION Spec
CONSTANTS
  h1 = h1
  h2 = h2
  p1 = p1
  p2 = p2
  p3 = p3
  u1 = u1
  t1 = t1
  t2 = t2
  Handler = {h1, h2}
  Printer = {p1, p2, p3}
  URL = {u1}
  Token = {t1, t2}
  None = None
  Absent = Absent
  Empty = Empty
  Garbled = Garbled
  Requests <- MCRequests
  Installed <- MCInstalled
  MaxFeed = 2
  SaveFails = TRUE
  MaxRequests = 2
  MaxCrashes = 1
INVARIANTS TypeOK JobUsesOwnSetting SettledAgrees
PROPERTIES ConnInUse
\* A process whose file does not parse is not there to answer.
CHECK_DEADLOCK FALSE
