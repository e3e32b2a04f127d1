CONSTANTS
  None = None
  Process = {1, 2}
  MaxWrites = 1
  MaxFaults = 0
  MaxCommands = 1
  MaxJobs = 1
SPECIFICATION Spec
INVARIANTS OneHolder
CHECK_DEADLOCK FALSE
