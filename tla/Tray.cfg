SPECIFICATION Spec
CONSTANTS
  p1 = p1
  p2 = p2
  r1 = r1
  Printer = {p1, p2}
  NonAscii = {p2}
  Role = {r1}
  None = None
  Installed <- MCInstalled
  Saves <- MCSaves
  JobFormats = {"pdf", "jpeg", "text", "zpl"}
  Frames <- MCFrames
  Widths = {384, 576}
  Documents <- MCDocuments
  Limits = {2000, 150}
  minDIB = 256
  MaxAttempts = 12
  MaxLeft = 2
  MaxSaves = 1
  MaxFrames = 2
  MaxJobs = 1
INVARIANTS TrayTestsLikePanel
CHECK_DEADLOCK FALSE
