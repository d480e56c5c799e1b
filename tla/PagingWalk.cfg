SPECIFICATION FairSpec
CONSTANTS
  MaxId = 5
  MaxLastID = 9
  DefaultLimit = 2
  MaxLimit = 3
  Limits <- MCLimits
INVARIANTS
  TypeOK
  WalkIsComplete
  ListedOnce
PROPERTY WalkEnds
