SPECIFICATION FairSpec
CONSTANTS
  c1 = c1
  c2 = c2
  s1 = s1
  s2 = s2
  Callers = {c1, c2}
  Services = {s1}
  Home <- OneService
  Keys = {1}
  Offline = {}
  MaxQueries = 3
  Faults = {"crash"}
INVARIANTS
  RefreshIsFresh
CHECK_DEADLOCK FALSE
