CONSTANTS
  f1 = f1
  f2 = f2
  n1 = n1
  n2 = n2
  r1 = r1
  r2 = r2
  j1 = j1
  g1 = g1
  g2 = g2
  g3 = g3
  p1 = p1
  p2 = p2
  q1 = q1
  q2 = q2
  NoGeneration = NoGeneration
  NoThread = NoThread
  Generations <- MCGenerations
  Publishers <- MCPublishers
  Readers <- MCReaders
  NoFile = NoFile
  NoCollection = NoCollection
  Files <- MCFiles
  Collections <- MCCollections
  Clients <- MCClients
  Jobs <- MCJobs
  MaxDocs = 2
  MaxCols = 2
  MaxRequests = 6
  ChunkMax = 7
  ChunkMin = 3
  ChunkOverlap = 2
  MaxBlocks = 4
  TooLarge = TooLarge
  PromptLimit = 9
  MaxItems = 3
  Texts <- MCTexts
  Cells <- MCCells
  MaxLevel = 3
  MaxLines = 6
  MaxSize = 4
SYMMETRY MCSymmetry
SPECIFICATION MCSpec
INVARIANTS
  ImportedIsReachable
  PurgedIsGone
  PublishedIsServed
  PhraseIsInOnePiece
  ChunksKeepTheirPlace
  HeadingsAreAbove
  PromptFits
PROPERTIES
  PromptIsMeant
CHECK_DEADLOCK FALSE
