SPECIFICATION Spec
CONSTANTS
  InboxCap = 2
  OutCap = 1
  MaxFrames = 4
INVARIANTS TypeOK
PROPERTIES ImplementsLink PumpEnds SendReturns
CHECK_DEADLOCK FALSE
