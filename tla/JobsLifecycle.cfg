SPECIFICATION FairSpec
CONSTANTS
  Jobs = {j1, j2}
  SymbolCount <- OneSymbol
  HasRows = {1}
  MaxActiveJobs = 1
  MaxGeneration = 2
  Faults = {"crash"}
INVARIANTS
  NoDuplicateRows
PROPERTIES
  WorkersExit
  ImplementsLifecycle
CHECK_DEADLOCK FALSE
