SPECIFICATION Spec
CONSTANTS
  c1 = c1
  c2 = c2
  Clients <- TwoClients
  Ops <- CreateOps
  MaxId = 1
  MaxWrites = 1
  DbFails = FALSE
  CacheFails = FALSE
  Cancels = FALSE
  RailsWrites = FALSE
  None = None
  Placeholder = Placeholder
  Free = Free
  Unread = Unread
INVARIANTS
  PlaceholderMeansAbsent
