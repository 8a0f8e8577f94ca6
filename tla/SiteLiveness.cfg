SPECIFICATION FairSpec
CONSTANTS
  s1 = s1
  h1 = h1
  Sites = {s1}
  Handlers = {h1}
  None = None
  Null = Null
  HeartbeatEvery = 2
  OfflineAfter = 4
  MaxWork = 1
  MaxAge = 5
INVARIANTS
  BeatingIsOnline
PROPERTIES
  DeadGoesOffline
