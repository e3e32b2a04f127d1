SPECIFICATION Spec
CONSTANTS
  Job = {j1}
  NoJob = NoJob
  Frame <- ResultFrames
  MaxDone = 1
  FileFails = FALSE
  Clock = {0}
  MaxBackoff = 1
  MaxFaults = 1
  MaxExtra = 0
INVARIANTS ExactlyOnce
