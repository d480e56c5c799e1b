SPECIFICATION Spec
CONSTANTS
  Files = {f1, f2}
  NoFile = NoFile
  NoEntry = NoEntry
  Answers <- MCAnswers
INVARIANTS
  TypeOK
  GetsPromised
  NothingMixed
  LogAddsUp
  PathStaysInside
