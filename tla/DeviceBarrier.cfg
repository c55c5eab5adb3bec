CONSTANTS
  TotalCores = 4
  Intent = {1, 2, 3}
  Left = {0, 3}
  HostFirst = TRUE
  SetupFirst = TRUE
  MaxRounds = 3
SPECIFICATION FairSpec
INVARIANT IndInv
PROPERTIES SyncPointSpec EverySyncReturns
