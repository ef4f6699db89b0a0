SPECIFICATION FairSpec
CONSTANTS
  c1 = c1
  c2 = c2
  s1 = s1
  s2 = s2
  Callers = {c1, c2}
  Services = {s1}
  Home <- OneService
  Keys = {1}
  Offline = {}
  MaxQueries = 3
  Faults = {"clear"}
INVARIANTS
  LeaseIsHeld
  RefreshIsFresh
PROPERTIES
  QueriesEnd
CHECK_DEADLOCK FALSE
