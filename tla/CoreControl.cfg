CONSTANTS
  TotalCores = 3
  Intent = {0, 2}
  BusyMax = 3
  MaxCalls = 2
  BootBeforeWatch = TRUE
SPECIFICATION FairSpec
INVARIANTS ServedOnce OwnAnswer HostOwnsMailbox NobodyAbandoned IndInv
PROPERTIES EveryCallReturns RunEnds
