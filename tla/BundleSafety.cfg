CONSTANTS
  b1 = b1  b2 = b2  quiz = quiz  map = map
  Tasks <- TwoTasks
  Types <- TwoTypes
  Reviewed <- Quiz
  Offers <- BundleAndOne
  MaxConcurrent = 1
  MaxRow = 1
SPECIFICATION FairSpec
INVARIANTS NothingUnreviewed BundleOfSession GeneratingHasTask
PROPERTIES CancelledIsSaid EveryCallEnds
