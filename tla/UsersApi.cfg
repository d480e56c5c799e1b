SPECIFICATION ApiSpec
CONSTANTS
  c1 = c1
  c2 = c2
  Clients <- TwoClients
  Ops <- ApiOps
  MaxId = 2
  MaxWrites = 2
  DbFails = TRUE
  CacheFails = TRUE
  Cancels = FALSE
  RailsWrites = TRUE
  None = None
  Placeholder = Placeholder
  Free = Free
  Unread = Unread
SYMMETRY TwoSymmetry
INVARIANTS
  ApiTypeOK
  StaleIsExplained
  SingleLoadPerId
  WaitersAreServed
PROPERTIES
  StaleTableSpec
  AnswersAreWhole
  RepliesAreTrue
