SPECIFICATION FairSpec
CONSTANTS
  p1 = p1
  p2 = p2
  h1 = h1
  h2 = h2
  s1 = s1
  s2 = s2
  s3 = s3
  Projects = {p1}
  Handlers = {h1, h2}
  Boot = boot
  Sups = {s1, s2}
  None = None
  MaxVer = 2
  Ops = {"create", "activate", "mutate"}
  Faults = FALSE
  Drain = FALSE
CHECK_DEADLOCK FALSE
INVARIANTS
  OneServerPerProject
  
PROPERTIES
  CallsReturn
  ShutdownSettles
  SupervisorsKeepContract
