SPECIFICATION Spec
CONSTANTS
  Threads = {w1, w2}
  Machines = {m1, m2}
  Consoles = {c1}
  Claims = {c1}
  Roles <- OneRole
  MayAct <- OneRole
  TTL = 1
  MaxTime = 1
  MaxRequests = 2
  MaxChanges = 1
INVARIANT LoggedOperatorsWereAllowed
PROPERTY RolesAreFresh
CHECK_DEADLOCK FALSE
SYMMETRY IdentitySymmetry
