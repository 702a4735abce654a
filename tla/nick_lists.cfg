CONSTANTS
  Users = {u1, u2}
  Handles = {h1, h2}
  Nicks = {n1, n2, guest}
  Registerable = {n1, n2}
  NicksPerHandle = 1
  ReclaimAction = "kill"
  AutoReclaim = "svsnick"
  Delayed = TRUE
  Bound = {"OREGISTER", "MERGE", "OREGNICK", "RECLAIM", "ALLOWAUTH", "RESTART"}
  NULL = NULL
SPECIFICATION Spec
INVARIANTS
  NickListsExact
  NickRightsHonest
PROPERTIES
  WatchNotLost
  SquatterReclaimed
