CONSTANTS
  f1 = f1
  f2 = f2
  d1 = d1
  z1 = z1
  s1 = s1
  s2 = s2
  t1 = t1
  t2 = t2
  NULL = NULL
SPECIFICATION Spec
INVARIANTS
  LinesKept
PROPERTIES
  RefinesTimerBag
  RefinesMap
  TimersServeAll
  WritesKept
  LinkKept
CHECK_DEADLOCK FALSE
