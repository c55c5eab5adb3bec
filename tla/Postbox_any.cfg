CONSTANTS
  Cores = {0, 1}
  SyncMax = 3
  InitialSeq <- AnswerSeqs
  WaitsFirst = TRUE
  MaxCalls = 2
SPECIFICATION Spec
INVARIANTS TypeOK ProbeIsStable
PROPERTIES RendezvousSpec
CHECK_DEADLOCK FALSE
