SPECIFICATION MCSpec
CONSTANTS
  None = None
  BatchSize = 2
  MaxBlocks = 3
  MaxRestores = 1
  MaxFaults = 2
  MaxBeats = 2
INVARIANTS
  FullySyncedIsReal
  MismatchIsReal
PROPERTIES
  ImplementsChainCopy
  CatchesUpUnlessHung
