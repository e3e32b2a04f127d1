SPECIFICATION Spec
CONSTANTS
  Job = {j1, j2}
  NoJob = NoJob
  Frame <- ResultFrames
  MaxDone = 1
  FileFails = FALSE
  Clock = {0}
  MaxBackoff = 1
  MaxFaults = 2
  MaxExtra = 1
SYMMETRY Perms
INVARIANTS TypeOK ReprintOnlyAfterLapse PrintAccount CompletedWasPrinted StateMatchesPhase BufferOnlyWhenDead
PROPERTIES NoFailureAfterCompletion KeepsPromise
