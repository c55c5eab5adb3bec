\* Four host threads without cores, and numbers that wrap after two messages.
SPECIFICATION Spec
CONSTANTS
  Threads = {0, 1, 2, 3}
  SyncMax = 3
  MASTER = 0
  Leftover = {FALSE}
  FunctionOf <- FunctionTable
  Programs <- AllPrograms
INVARIANT ResultsRight
PROPERTY EveryProgramEnds
