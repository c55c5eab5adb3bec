\* All the combinations of MCCompileRun's parts, on core 3 of 16.
SPECIFICATION Spec
CONSTANTS
  Programs <- Sound
  Unresolved <- Undefined
  VarDepth = 4
  StackStart = 10000
  HeapStart = 20000
  Fuel = 400
  IntLimit = 32768
  LocalCore = 3
  ActiveCores = 16
INVARIANTS PlacesFilled PrintsWhatItMeans SymbolsFit StackExact
