SPECIFICATION Spec
CONSTANTS
  o1 = o1
  o2 = o2
  h1 = h1
  h2 = h2
  t1 = t1
  t2 = t2
  v1 = v1
  v2 = v2
  Operators = {o1, o2}
  Handlers = {h1, h2}
  Tokens = {t1, t2}
  Roles = {v1, v2}
  Calls = {"create", "promote", "demote", "delete", "issue", "revoke", "grant", "ungrant", "logout", "login"}
  None = None
SYMMETRY Symmetry
CONSTRAINTS
  OneGrantee
  UntilOverlap
CHECK_DEADLOCK FALSE
INVARIANTS
  LastAnswerStands
  AuthorityFresh
  GuardsSuffice
