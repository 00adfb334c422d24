SPECIFICATION Spec
CONSTANTS
  Wallets = {a, b}
  Treasury = t
  NodePool = np
  HolderPool = t
  Proposer = t
  Signers = {a, t}
  InitialSupply = 2000
  BlocksPerYear = 2
  BlocksPer14Days = 3
  ActiveWindowBlocks = 1
  BondMicro = 3
  ActivationHeight = 2
  NewUntil = 1
  GrowingUntil = 2
  HolderMinimum = 5
  Stakes = {a, b}
  Amounts = {4}
  MaxHeight = 6
  Null = Null
INVARIANTS
  MintIsConserved
  AverageIsExact
  EmissionIsExact
PROPERTIES
  ListedIsCredited
CHECK_DEADLOCK FALSE
