CONSTANTS
  Bots = {b1}
  Users = {u1, u2}
  Nicks = {n1, n2}
  Handles = {h1, h2}
  Names = {a1, a2}
  Levels = {3}
  Opts <- Keep
  IdWrap = 0
  MaxRequests = 2
  Bound <- Everything
  NULL = NULL
SPECIFICATION MCSpec
SYMMETRY Interchangeable
INVARIANTS
  QueuesExact
  RequestsHaveTheirPeople
  ChannelsWatched
  RestartKeepsRequests
PROPERTIES
  CloseOnlyByHelper
  AlertGoesOn
