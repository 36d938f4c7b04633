CONSTANTS
  Slices = 2
  Plan <- FrontLoaded
SPECIFICATION FairSpec
INVARIANTS
  AtMostTwice
  OverfillHasCause
  ReduceNeverOver
PROPERTIES
  ReportCloses
CHECK_DEADLOCK FALSE
