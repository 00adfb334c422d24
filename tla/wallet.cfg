SPECIFICATION WalletSpec
CONSTANTS
  a = a
  b = b
  c = c
  None = None
  Tabs = {t1}
  Addresses <- MCAddresses
  Kinds = {"transfer", "register"}
  Slots = {1, 2}
  Storages <- MCStorages
  MaxActions = 4
  MaxLosses = 2
INVARIANTS
  KeysAreKept
  WalletIsSound
PROPERTIES
  BalanceSettles
CHECK_DEADLOCK FALSE
