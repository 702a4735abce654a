CONSTANTS
  Services = {s1}
  Clones = {}
  Remote = {r1}
  Leaves = {}
  Nicks = {s1, n2}
  Start = 2
  MaxTime = 3
  MaxOut = 2
  CollidersMove = TRUE
  NULL = NULL
SPECIFICATION Spec
INVARIANTS
  ServicesStay
CHECK_DEADLOCK FALSE
