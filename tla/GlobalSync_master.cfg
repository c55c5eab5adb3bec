CONSTANTS
  baseHostPid = 2
  total_threads = 2
  FoundInHeap = {0}
  MaxRounds = 2
SPECIFICATION FairSpec

PROPERTIES EverySyncReturns
CHECK_DEADLOCK FALSE
