CONSTANTS
  TotalCores = 2
  Intent = {0, 1}
  BusyMax = 7
  MaxCalls = 3
  BootBeforeWatch = TRUE
  Threads = {"t0", "t1"}
  LastBytes = {0}
  Length = 3
  MCCommands = {"maths"}
  MCTransfers = {"send", "recv", "sendrecv"}
  MCOnce = {"maths", "recv", "sendrecv"}
  Programs <- MCPrograms
SPECIFICATION CallsSpec
CHECK_DEADLOCK FALSE
INVARIANTS CallsTypeOK ThreadGetsItsMessage CoreGetsItsMessage AnsweredOnce
  SomebodyGoesOn
PROPERTIES MatchedCallsReturn
