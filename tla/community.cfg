SPECIFICATION MCSpec
CONSTANTS
  Users = {1, 2}
  w1 = w1
  Wallets = {w1}
  Challenges = {c1, c2}
  Requests = {r1}
  Sweeps = {s1}
  Configured = {"verifiedWallet", "participant"}
  MaxChanges = 1
  MaxFailures = 1
  MaxRestarts = 1
  Null = Null
INVARIANTS
  OneOwner
  SavedIsReal
PROPERTIES
  RolesSettle
  UnlinkRemovesSavedRoles
CHECK_DEADLOCK FALSE
