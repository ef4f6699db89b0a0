SPECIFICATION FairSpec
CONSTANTS
  Clients = {t1, t2}
  Faults = {"provider"}
  Window = 2
  Limits = {0, 1}
  MaxRetries = 2
  RetrySleep = 1
INVARIANTS
  TypeOK
  PaceRestored
PROPERTIES
  CallsEnd
CHECK_DEADLOCK FALSE
