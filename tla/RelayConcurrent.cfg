SPECIFICATION Spec
CONSTANTS
  p1 = p1
  p2 = p2
  h1 = h1
  h2 = h2
  s1 = s1
  s2 = s2
  s3 = s3
  Projects = {p1}
  Handlers = {h1, h2}
  Boot = boot
  Sups = {s1, s2, s3}
  None = None
  MaxVer = 1
  Ops = {"create", "activate", "disable", "delete"}
  Faults = TRUE
  Drain = FALSE
SYMMETRY Symmetry
CHECK_DEADLOCK FALSE
INVARIANTS
  NoOrphan
  
