CONSTANTS
p1 = p1  p2 = p2  k1 = k1
  NoId = NoId NoKey = NoKey NoChange = NoChange NoFile = NoFile NoBackend = NoBackend
  Ids = {legacyId, p1, p2}
  LegacyId = legacyId
  Keys = {k1}
  MaxProfiles = 2
  Clients = {c1, c2}
  Asked <- SomeChanges
SPECIFICATION FairSpec
INVARIANTS Agree ChangesAreValid
PROPERTIES ImplementsSettings EveryChangeAnswered
