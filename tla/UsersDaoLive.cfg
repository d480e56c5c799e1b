SPECIFICATION FairSpec
CONSTANTS
  c1 = c1
  c2 = c2
  Clients <- TwoClients
  Ops <- AllOps
  MaxId = 1
  MaxWrites = 2
  DbFails = TRUE
  CacheFails = TRUE
  Cancels = TRUE
  RailsWrites = TRUE
  None = None
  Placeholder = Placeholder
  Free = Free
  Unread = Unread
PROPERTIES
  EventuallyForgotten
  CallsReturn
