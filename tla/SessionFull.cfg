CONSTANTS
  c1 = c1  c2 = c2  c3 = c3
  Clients <- ThreeClients
  Kinds <- AllKinds
  Calls <- AllCalls
  Faults <- AllFaults
  MaxTurns = 1
  MaxVersion = 2
  MaxId = 2
  ReuseIds = FALSE
SYMMETRY Symmetry3
SPECIFICATION Spec
INVARIANTS ProfiledHasProfile
PROPERTIES AnsweredIsStable
