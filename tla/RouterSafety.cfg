CONSTANTS
  c1 = c1
  c2 = c2
  p1 = p1
  p2 = p2
  None = None
  Clients = {c1, c2}
  Profiles = {p1, p2}
  Snapshots = {s1, s2}
  Configs <- OneEnabled
  Selections <- ThreeSelections
  Delays = {0, 1}
  FailureThreshold = 1
  Cooldowns <- LongCooldown
  MaxAttempts = 2
  MaxProfiles = 2
  Timeout = 2
  Slots = 2
SPECIFICATION Spec
SYMMETRY Symmetry
INVARIANTS
  OpenWhileLeased
PROPERTIES
  ImplementsLeases
  SleptIsRetried
