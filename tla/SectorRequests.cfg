SPECIFICATION FairSpec
CONSTANTS
  a = a
  b = b
  Clients = {r1, r2}
  Symbols = {a, b}
  Boards = {1, 2}
  Seeds = {1}
  Members <- TwoBoards
  Wide = {TRUE, FALSE}
  Limits = {0, 1}
  MaxRequests = 2
  Faults = {"timeout", "upstream_failed", "empty", "store"}
INVARIANTS
  NothingHidden
  ScanIsAnswered
  TimeoutsLeaveNoMark
PROPERTIES
  RequestsEnd
CHECK_DEADLOCK FALSE
