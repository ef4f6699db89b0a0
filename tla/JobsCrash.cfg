SPECIFICATION Spec
CONSTANTS
  Jobs = {j1, j2}
  SymbolCount <- TwoSymbols
  HasRows = {1}
  MaxActiveJobs = 1
  MaxGeneration = 2
  Faults = {"crash", "torn"}
SYMMETRY JobSymmetry
INVARIANTS
  TypeOK
  ActiveJobsBounded
  ActiveJobHasWorker
  OutcomeIsHonest
  OneResultPerSymbol
  CompletedRowsStored
  SavedBeforeShown
PROPERTIES
  ProgressKept
  FinishedIsFinal
  CancellationSticks
  WorkersAdvance
CHECK_DEADLOCK FALSE
