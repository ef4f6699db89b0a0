SPECIFICATION Spec
CONSTANTS
  a = a
  b = b
  Clients = {r1}
  Symbols = {a, b}
  Boards = {1, 2}
  Seeds = {1}
  Members <- TwoBoards
  Wide = {TRUE}
  Limits = {1}
  MaxRequests = 2
  Faults = {"upstream_failed"}
INVARIANTS
  MissIsReal
CHECK_DEADLOCK FALSE
