SPECIFICATION Spec
CONSTANTS
  c1 = c1
  c2 = c2
  s1 = s1
  s2 = s2
  Callers = {c1, c2}
  Services = {s1, s2}
  Home <- TwoServices
  Keys = {1}
  Offline = {s1}
  MaxQueries = 2
  Faults = {}
INVARIANTS
  OfflineStaysOffline
CHECK_DEADLOCK FALSE
