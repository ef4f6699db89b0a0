SPECIFICATION Spec
CONSTANTS
  Jobs = {j1}
  SymbolCount <- TwoSymbols
  HasRows = {1, 2}
  MaxActiveJobs = 1
  MaxGeneration = 2
  Faults = {"crash", "store"}
INVARIANTS
  CompletedRowsStored
CHECK_DEADLOCK FALSE
