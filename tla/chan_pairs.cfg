CONSTANTS
  Users = {u1}
  Handles = {h1, h2}
  Channels = {c1, c2}
  Grants = {2}
  MaxOwned = 1
  Staff = {"helper"}
  Bound = {"SUSPEND"}
  NULL = NULL
SPECIFICATION Spec
SYMMETRY Symmetric
INVARIANTS
  UsersExact
