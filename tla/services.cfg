CONSTANTS
  Users = {r1, r2}
  Leaf = {r2}
  X = X
  Bans = {b1}
  MaxTime = 3
  Enabled = {}
  s1 = s1
  l1 = l1
  r1 = r1
  r2 = r2
  n2 = n2
  u1 = u1
  u2 = u2
  u3 = u3
  h1 = h1
  h2 = h2
  a1 = a1
  g1 = g1
  g2 = g2
  c1 = c1
  c2 = c2
  i1 = i1
  i2 = i2
  NULL = NULL
SPECIFICATION MCSpec
INVARIANTS
  UsersAgree
  SameChannel
  ListsExact
  OpServExact
  ServicesExact
PROPERTIES
  RulesGuarded
CHECK_DEADLOCK FALSE
