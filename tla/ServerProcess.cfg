SPECIFICATION FairSpec
CONSTANTS
  p1 = p1
  r1 = r1
  r2 = r2
  Projects = {p1}
  Requests = {r1, r2}
  None = None
  Threshold = 2
  Window = 3
INVARIANTS
  NothingOutlivesRun
  StoppedOnlyWhenTold
  AlertsAreBursts
PROPERTIES
  RunEnds
