CONSTANTS
  a = a
  b = b
  t = t
  Null = Null
  Accounts <- MCAccounts
  Treasury = t
  GenesisOperator = a
  InitialLedger <- SponsoredLedger
  BondMicro = 1
  ActiveWindowBlocks = 1
  MaxSponsoredParticipants = 1
  GenesisFreeBlocks = 2
  Amounts = {1}
  Clients = {a, b}
  Fees = {1}
  EnabledTypes = {"register_participant", "unregister_participant", "heartbeat"}
  MinFeeMicro = 1
  GasBlockLimit = 2
  SortMode = "fifo"
  MaxTransactions = 3
  MaxTransactionsPerSender = 2
  MaxFutureNonceGap = 3
  ParticipantUnits = 1
  TreasuryUnits = 1
  MaxHeight = 2
  MaxExpiries = 1
  MaxFaults = 1
SPECIFICATION ReplaySpec
INVARIANTS
  NoInflation
  ReplayInv
PROPERTIES
  RegistrationKept
CHECK_DEADLOCK FALSE
