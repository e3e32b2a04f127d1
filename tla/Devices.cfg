CONSTANTS
  None = None
  Absent = Absent
  Receipts <- MCReceipts
  Bodies <- MCBodies
  Options <- MCOptions
  Pictures <- MCPictures
  Containers <- MCContainers
  Pages <- MCPages
  Levels = {0, 1, 2, 3}
  Areas <- MCAreas
  Margins = {0, 25, 300}
  firstDIBCap = 50
  inch = 254
  BackupCounts = {0, 3}
  maxSize = 3
  LineSize <- MCLine
  MaxLines = 11
  MaxFaults = 2
INIT MCInit
NEXT MCNext
INVARIANTS ReceiptOnPaper InkFromPaper ContainerWholeOrRefused DrawsWholePage LogKeepsNewest
CHECK_DEADLOCK FALSE
