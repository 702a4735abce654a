CONSTANTS
  u1 = u1
  a1 = a1
  a2 = a2
  a3 = a3
  k1 = k1
  k2 = k2
  Users = {u1, u2}
  Handles = {h1, h2}
  Addrs = {a1, a2, a3}
  Reads <- OwnMail
  PerEmail = 2
  Staff = TRUE
  NULL = NULL
SPECIFICATION MCSpec
INVARIANTS
  EmailDictExact
  CookiesSound
  NotLockedOut
PROPERTIES
  CookieLoginProved
  CookieFreesSlot
  AccountsKept
