SPECIFICATION Spec
CONSTANTS
  t1 = t1
  t2 = t2
  NoEntry = NoEntry
  NoEtag = NoEtag
  Threads <- MCThreads
  Calls <- JoinedCalls
  Responses <- JoinedResponses
  Origin <- JoinedOrigin
  Hash <- Exact
  HeaderOrder <- MCHeaderOrder
  HeaderValues <- MCHeaderValues
  BodyLimit = 3
  MaxItemSize = 3
  Capacity = 4
  Overhead = 1
  MaxTime = 0
INVARIANTS
  HitMatchesVariant
