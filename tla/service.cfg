SPECIFICATION Spec
CONSTANTS
  n1 = n1
  u1 = u1
  w1 = w1
  Limiters <- MCLimiters
  Window <- MCWindow
  Limit <- MCLimit
  Readers = {"publicRead"}
  Addresses = {home}
  MaxConcurrent = 1
  Bodies = {"fits", "notJson"}
  Requests = {q1, q2}
  MaxCalls = 4
  None = None
  Nodes = {n1, n2, n3}
  AddressOf <- MCAddressOf
  Faces = {face}
  Hidden = Hidden
  OfflineAfter = 2
  Retention = 3
  Persistent = FALSE
  MaxEvents = 4
  Users = {u1, u2}
  Wallets = {w1, w2}
  Tabs = {t1, t2}
  Pending = {c1, c2}
  MaxSessions = 3
  MaxChallenges = 2
  MaxClicks = 3
  MaxMishaps = 1
  Null = Null
  Beginnings <- MCBeginnings
INVARIANTS
  RateIsBounded
  SlotsAreExact
  ActsForShownUser
  OnlySignedIsLinked
PROPERTIES
  ListSettles
CHECK_DEADLOCK FALSE
