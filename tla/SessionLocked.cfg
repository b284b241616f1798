CONSTANTS
  c1 = c1  c2 = c2  c3 = c3
  Clients <- TwoClients
  Kinds <- Messages
  Calls <- Deletes
  Faults <- AllFaults
  MaxTurns = 1
  MaxVersion = 2
  MaxId = 2
  ReuseIds = FALSE
SPECIFICATION FairSpec
PROPERTIES ImplementsLifecycle ResourceOfCurrentProfile EveryMessageEnds
