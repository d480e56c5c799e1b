SPECIFICATION AppFairSpec
INVARIANTS
  AppTypeOK
  StopEndsAccepting
  FailedStartEndsAccepting
  StopIsNoFailure
  StopWaitsForExit
  ExitIsClassified
  ServedToTheEnd
PROPERTIES
  StopEndsStart
  ShutdownEnds
