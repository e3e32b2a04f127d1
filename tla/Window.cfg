SPECIFICATION Spec
CONSTANTS
  Job = {j1, j2, j3, j4, j5}
  Frame = {f1}
  MaxDone = 3
  PerSecond = 2
  StepsBack = FALSE
  FileFails = FALSE
  MaxSecond = 5
  MaxPending = 1
SYMMETRY Perms
INVARIANTS TypeOK RecentSeen WindowBounded
PROPERTIES RestartKeepsAll
