SPECIFICATION MCSpec
CONSTANTS
  Seeds <- MCSeeds
  Units = {"piece", "box"}
  Quantities <- MCQuantities
  Deliveries <- MCDeliveries
  Factors <- MCFactors
  Skus = {1, 2}
  MaxId = 2
  Budgets <- MCBudgets
  Requests = {r1, r2, r3, r4}
  MaxCrashes = 2
  MaxFailures = 1
INVARIANTS
  RecordsAreSound
  StockOfReceipts
  StoreIsSound
PROPERTIES
  ProductIsPaidFor
CHECK_DEADLOCK FALSE
