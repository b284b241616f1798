CONSTANTS
  c1 = c1
  c2 = c2
  p1 = p1
  p2 = p2
  None = None
  Clients = {c1, c2}
  Profiles = {p1, p2}
  Snapshots = {s1}
  Configs <- OneConfig
  Selections <- OneSelection
  Delays = {0, 1}
  FailureThreshold = 2
  Cooldowns <- OneCooldown
  MaxAttempts = 2
  MaxProfiles = 2
  Timeout = 2
  Slots = 1
SPECIFICATION FairSpec
PROPERTIES
  NoSplice
  EveryRequestEnds
