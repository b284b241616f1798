CONSTANTS
  t1 = t1
  t2 = t2
  k1 = k1
  NoKey = NoKey
  Topics <- MCTopics
  Keys <- MCKeys
  Hints <- MCHints
  MaxAttempts = 2
  MaxResources = 2
  MaxProfiles = 2
  MaxDay = 1
SYMMETRY MCSymmetry
SPECIFICATION Spec
INVARIANTS
  BooksAgree
  RepeatedKeySameAnswer
  WrongComesBack
  CachedIsCurrent
CHECK_DEADLOCK FALSE
