SPECIFICATION FairGatewaySpec
CONSTANTS
  a = a
  b = b
  Clients = {r1, r2}
  Faults = {"provider", "deadline", "store"}
  SlotCounts = {1, 2}
  LastDate = 2
  Stocks = {a, b}
  Reports <- SomeReports
  Candidates = {2}
  RowLimits = {0, 1}
  Keys <- SomeKeys
  Sources = {1, 2, 3, 4}
  Items = {1, 2, 3, 4}
  IdOf <- ItemIds
  UrlOf <- Urls
  SourceOf <- Publishers
  Seeds = {1, 2}
  Services = {"funds", "feeds", "sources", "queries"}
  MaxQueries = 2
  MaxRequests = 3
INVARIANTS
  GatewayTypeOK
  SlotsBound
  ReportIsWhole
  FundNotForgotten
  OneEventPerKey
  CachedAnswerIsWhole
  SourcesRegistered
PROPERTIES
  HoldingsNeverBack
  FirstSeenKept
  RequestsEnd
CHECK_DEADLOCK FALSE
