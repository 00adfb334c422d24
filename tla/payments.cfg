CONSTANTS
  a = a
  b = b
  t = t
  Null = Null
  Accounts <- MCAccounts
  Treasury = t
  GenesisOperator = a
  InitialLedger <- SponsoredLedger
  BondMicro = 1
  ActiveWindowBlocks = 1
  MaxSponsoredParticipants = 1
  GenesisFreeBlocks = 0
  Amounts = {1}
  Clients = {a, b}
  Fees = {1, 2}
  EnabledTypes = {"transfer"}
  MinFeeMicro = 1
  GasBlockLimit = 2
  SortMode = "fee"
  MaxTransactions = 2
  MaxTransactionsPerSender = 2
  MaxFutureNonceGap = 3
  ParticipantUnits = 1
  TreasuryUnits = 1
  MaxHeight = 2
  MaxExpiries = 1
  MaxFaults = 1
SPECIFICATION ReplaySpec
INVARIANTS
  NoDoubleConfirm
  PendingFunded
  ReplayInv
PROPERTIES
  SelectedAreConfirmed
CHECK_DEADLOCK FALSE
