CONSTANTS
  d1 = d1
  j1 = j1
  j2 = j2
  c1 = c1
  c2 = c2
  None = None
  Docs = {d1}
  Jobs = {j1}
  Clients = {c1, c2}
  MaxWorkers = 2
  MaxTries = 2
  MaxEvents = 0
  MaxVersion = 4
  Faulty = {j1}
SPECIFICATION Spec
SYMMETRY ClientSymmetry
INVARIANTS
  ActiveHasWorker
PROPERTIES
  ImplementsLifecycle
