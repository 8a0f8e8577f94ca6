SPECIFICATION Spec
CONSTANTS
  p1 = p1
  p2 = p2
  h1 = h1
  h2 = h2
  s1 = s1
  s2 = s2
  s3 = s3
  Projects = {p1, p2}
  Handlers = {h1}
  Boot = boot
  Sups = {s1, s2}
  None = None
  MaxVer = 2
  Ops = {"create", "mutate", "activate", "disable", "delete"}
  Faults = FALSE
  Drain = TRUE
SYMMETRY Symmetry
CHECK_DEADLOCK FALSE
INVARIANTS
  NothingAfterStop
  ConfigApplied
  ServedAsAsked
