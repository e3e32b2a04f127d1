CONSTANTS
  None = None
  Process = {1, 2, 3}
  MaxWrites = 2
  MaxFaults = 2
  MaxCommands = 2
  MaxJobs = 1
SPECIFICATION Spec
INVARIANTS OneAgent RegisterTakesEffect
PROPERTIES AgentComesBack
CHECK_DEADLOCK FALSE
