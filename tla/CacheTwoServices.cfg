SPECIFICATION FairSpec
CONSTANTS
  c1 = c1
  c2 = c2
  s1 = s1
  s2 = s2
  Callers = {c1, c2}
  Services = {s1, s2}
  Home <- TwoServices
  Keys = {1, 2}
  Offline = {}
  MaxQueries = 2
  Faults = {"crash", "store"}
INVARIANTS
  TypeOK
  SingleFlight
  AnswerInWindow
  LockIsHeld
PROPERTIES
  QueriesAdvance
  KeepsPromise
CHECK_DEADLOCK FALSE
