SPECIFICATION MempoolSpec
CONSTANTS
  Ids <- MCIds
  Senders = {"a", "b"}
  Signer <- MCSigner
  Bytes <- MCBytes
  MaxTransactions = 3
  MaxBytes = 4
  MaxPerSender = 2
  Ttl = 1
  MaxRemovals = 2
  MaxBlock = 2
  MaxTime = 3
INVARIANTS
  PoolIsSound
PROPERTIES
  PoolSteps
