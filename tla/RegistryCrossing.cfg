SPECIFICATION Spec
CONSTANTS
  p1 = p1
  p2 = p2
  s1 = s1
  s2 = s2
  v1 = v1
  v2 = v2
  h1 = h1
  h2 = h2
  Projects <- MCProjects
  Sites <- MCSites
  Services <- MCServices
  ProjectOf <- MCProjectOf
  SiteOf <- MCSiteOf
  Ranges <- MCRanges
  Handlers = {h1, h2}
  MaxRequests = 4
  None = None
SYMMETRY Symmetry
INVARIANTS
  PortsInRange
  PortsUnique
  NoOrphans
PROPERTIES
  SerialUntilCrossed
CHECK_DEADLOCK FALSE
