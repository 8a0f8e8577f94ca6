SPECIFICATION FairSpec
CONSTANTS
  c1 = c1
  o1 = o1
  p1 = p1
  s1 = s1
  s2 = s2
  port1 = port1
  Conns = {c1}
  Operators = {o1}
  Services <- MCServices
  Sites <- MCSites
  Projects = {p1}
  Ports = {port1}
  SiteOf <- MCSiteOf
  ProjectOf <- MCProjectOf
  None = None
  MaxChanges = 2
INVARIANTS
  RouteWasOwned
  NoFalseRefusal
PROPERTIES
  TunnelOrNothing
  StopsWithTunnels
