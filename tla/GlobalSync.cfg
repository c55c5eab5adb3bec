CONSTANTS
  baseHostPid = 2
  total_threads = 4
  FoundInHeap = {0, 2}
  MaxRounds = 2
SPECIFICATION FairSpec
INVARIANTS TypeOK HandshakeHolds NobodyIsStuck
PROPERTIES ThreadSyncSpec EverySyncReturns
CHECK_DEADLOCK FALSE
