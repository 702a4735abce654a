CONSTANTS
  Users = {u1, u2}
  Handles = {h1, h2}
  Channels = {c1}
  Grants = {1, 2, 5}
  MaxOwned = 1
  Staff = {"helper", "senior"}
  Bound = {"MERGE", "NODELETE", "RESTART", "SUSPEND", "EXPIRE", "UNREGISTER"}
  NULL = NULL
SPECIFICATION Spec
INVARIANTS
  UsersExact
PROPERTIES
  RankRespected
  OwnerRemains
  DesertedExpires
