SPECIFICATION FairSpec
CONSTANTS
  Job = {j1}
  NoJob = NoJob
  Frame <- ResultFrames
  MaxDone = 1
  FileFails = TRUE
  Clock = {0}
  MaxBackoff = 1
  MaxFaults = 3
  MaxExtra = 1
PROPERTIES EveryJobAnswered BufferDrains
