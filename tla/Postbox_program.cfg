CONSTANTS
  Cores = {0, 1, 2}
  SyncMax = 3
  InitialSeq = {0}
  WaitsFirst = TRUE
  MaxCalls = 3
  Pair1 = 0
  Pair2 = 1
  Long = 3
  Short = 2
  Programs <- AllPrograms
SPECIFICATION ProgramSpec
INVARIANTS NobodyWaitsInACircle ProbeMissesNothing
PROPERTIES MatchedProgramsFinish
