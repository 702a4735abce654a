CONSTANTS
  Users = {u1, u2}
  Handles = {h1, h2}
  SupportChannels = {}
  IrcOps = {u1}
  Bound = {"AUTH", "REGISTER", "UNREGISTER", "ALERT"}
  Settable = {}
  MaxLevel = 1
  MaxLogins = 2
  MaxGen = 1
  MaxEntries = 2
  CheckTimestamps = TRUE
  NULL = NULL
SPECIFICATION Spec
INVARIANTS
  NoListOverrun
CHECK_DEADLOCK FALSE
