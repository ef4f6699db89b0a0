SPECIFICATION Spec
CONSTANTS
  Jobs = {j1}
  SymbolCount <- TwoSymbols
  HasRows = {1, 2}
  MaxActiveJobs = 1
  MaxGeneration = 2
  Faults = {"crash", "torn"}
INVARIANTS
  NoDuplicateRows
CHECK_DEADLOCK FALSE
