CONSTANTS
  d1 = d1
  j1 = j1
  j2 = j2
  c1 = c1
  c2 = c2
  None = None
  Docs = {d1}
  Jobs = {j1}
  Clients = {c1}
  MaxWorkers = 2
  MaxTries = 2
  MaxEvents = 1
  MaxVersion = 4
  Faulty = {j1, c1}
SPECIFICATION FairSpec
PROPERTIES
  CallsReturnOrAreLost
  EveryRunEnds
