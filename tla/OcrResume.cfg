CONSTANTS
  PageCount = 3
  Blank <- MCBlank
  MaxPipe = 2
  MaxAttempts = 3
SPECIFICATION FairSpec
INVARIANTS
  IndexNeverPartial
  WholeUnlessCut
  SkippedIsStaged
PROPERTY
  EveryRunEnds
CHECK_DEADLOCK FALSE
