CONSTANTS
  u1 = u1
  u2 = u2
  c1 = c1
  Users = {u1, u2}
  Handles = {h1, h2}
  SupportChannels = {c1}
  IrcOps = {u1}
  Bound <- HelperCommands
  Settable = {"SUPPORT_HELPER", "NETWORK_HELPER"}
  MaxLevel = 1
  MaxLogins = 2
  MaxGen = 1
  MaxEntries = 2
  CheckTimestamps = TRUE
  NULL = NULL
SPECIFICATION MCSpec
INVARIANTS
  SessionsExact
  OverridesKnown
PROPERTIES
  SessionsKnown
  NoSelfPromotion
  OverrideNotInherited
  SuspendedLockout
  AbandonedExpires
CHECK_DEADLOCK FALSE
