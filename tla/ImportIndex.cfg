CONSTANTS
  d1 = d1
  j1 = j1
  j2 = j2
  c1 = c1
  c2 = c2
  None = None
  Docs = {d1}
  Jobs = {j1, j2}
  Clients = {c1}
  MaxWorkers = 2
  MaxTries = 1
  MaxEvents = 0
  MaxVersion = 0
  Faulty = {}
SPECIFICATION Spec
SYMMETRY JobSymmetry
INVARIANT
  CompletedIsSearchable
