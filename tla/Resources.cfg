SPECIFICATION Spec
CONSTANTS
  h1 = h1
  h2 = h2
  k1 = k1
  k2 = k2
  c1 = c1
  c2 = c2
  c3 = c3
  r1 = r1
  r2 = r2
  r3 = r3
  s1 = s1
  s2 = s2
  v1 = v1
  v2 = v2
  n1 = n1
  t1 = t1
  t2 = t2
  p1 = p1
  p2 = p2
  e1 = e1
  e2 = e2
  e3 = e3
  a = a
  b = b
  x = x
  y = y
  d1 = d1
  d2 = d2
  g1 = g1
  g2 = g2
  i1 = i1
  i2 = i2
  m1 = m1
  m2 = m2
  u1 = u1
  u2 = u2
  own = own
  other = other
  Requests = {h1, h2}
  Ids <- MCIds
  Contacts = {k1, k2}
  Contracts = {c1, c2, c3}
  Resellers = {r1, r2, r3}
  Sets = {s1, s2}
  Levels = {v1, v2}
  SetLevels = {n1}
  Patterns = {t1, t2}
  Preferences = {p1, p2}
  Entries = {e1, e2, e3}
  Names <- MCNames
  FirstProduct = "peering"
  Owners = {a, b}
  TimeSets = {own, other}
  OwnerOf <- MCOwnerOf
  BookOwners = {a, b}
  Terminated = {b}
  Numbers = {x, y}
  SpeedDials = {d1, d2}
  Balances = {g1, g2}
  Templates = {i1, i2}
  Voicemails = {m1, m2}
  Customers = {u1, u2}
  ResellerOf <- MCResellerOf
  Reachable = {u1}
  Amounts = {x, y}
  Files = {x, y}
  Folders = {x, y}
  Admin = Admin
  None = None
  BatchBound = 2
  RequestBound <- MCBound
  First <- MCFirst
SYMMETRY MCSym
INVARIANTS TypeOK JournalTells ResellersApart PreferencesLive
PROPERTIES PatchKeepsFields ImportReplaces
CHECK_DEADLOCK FALSE
