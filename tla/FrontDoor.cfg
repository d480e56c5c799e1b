SPECIFICATION Spec
CONSTANTS
  Names <- MCNames
  Segments <- MCSegments
  Cases <- MCCases
  MaxHops = 3
INVARIANTS
  TypeOK
  OnlyTheUserGetsIn
  NothingSlipsBy
  NothingInTheClear
  RedirectLeadsHome
