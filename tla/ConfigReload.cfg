SPECIFICATION Spec
CONSTANTS
  x1 = x1
  x2 = x2
  y1 = y1
  y2 = y2
  z1 = z1
  z2 = z2
  a1 = a1
  a2 = a2
  udp = udp
  tls = tls
  here = here
  there = there
  R1 = R1
  RewriteSets = {x1, x2}
  Rules = {y1, y2}
  HmSets = {x1, x2}
  HmRules = {y1, y2}
  Actions = {a1, a2}
  Conditions = {z2}
  Groups = {x1, x2}
  Servers = {z1}
  PeeringRules = {z2}
  InboundRules = {y1, y2}
  Bodies <- MCBodies
  Requests = {h1, h2}
  Proxies = {proxy}
  Ids <- MCIds
  Scopes <- MCScopes
  Owner <- MCOwner
  Admin = Admin
  None = None
  BatchBound = 1
SYMMETRY MCSym
INVARIANTS Reloaded InboundFlag
CHECK_DEADLOCK FALSE
