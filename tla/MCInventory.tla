----------------------------- MODULE MCInventory -----------------------------
(***************************************************************************)
(* The handlers of the inventory application on three documents, an empty  *)
(* one, one with a raw material ordered in pieces and in boxes, and the    *)
(* same with a recipe that uses it in both; and its store, under other     *)
(* requests.  A behaviour spends the bounds on the handlers or on the      *)
(* store.                                                                  *)
(***************************************************************************)
EXTENDS Inventory, DataStore

Ordered ==
  [Empty EXCEPT
     !.items      = {[id |-> 1, sku |-> 1, parent |-> NoRef, unit |-> "piece"]},
     !.convs      = {[id |-> 1, item |-> 1, unit |-> "box", factor |-> 2]},
     !.suppliers  = {1},
     !.orders     = {[id |-> 1, no |-> 1, supplier |-> 1, status |-> "OPEN"]},
     !.orderLines = {[id |-> 1, order |-> 1, item |-> 1, qty |-> 2, unit |-> "piece"],
                     [id |-> 2, order |-> 1, item |-> 1, qty |-> 1, unit |-> "box"]},
     !.receipts   = {Draft(1, 1)}]

Working ==
  [Ordered EXCEPT
     !.items    = @ \cup {[id |-> 2, sku |-> 2, parent |-> NoRef, unit |-> "piece"]},
     !.boms     = {[id |-> 1, item |-> 2, qty |-> 1, unit |-> "piece"]},
     !.bomLines = {[id |-> 1, bom |-> 1, item |-> 1, qty |-> 1, unit |-> "piece"],
                   [id |-> 2, bom |-> 1, item |-> 1, qty |-> 1, unit |-> "box"]}]

MCQuantities == {-1, 0, 1}
MCDeliveries == {-1, 0, 1}
MCFactors    == {0, 2}

MCSeeds == {Empty, Ordered, Working}

Share(i, u, o, r, p) ==
  [area \in Areas |-> CASE area = "items" -> i [] area = "units" -> u [] area = "orders" -> o
                        [] area = "receipts" -> r [] OTHER -> p]

Unasked == Share(0, 0, 0, 0, 0)

MCBudgets == {Unasked, Share(3, 0, 0, 0, 0), Share(0, 1, 0, 2, 0), Share(0, 0, 0, 3, 0),
              Share(0, 0, 3, 1, 0), Share(0, 1, 0, 0, 2), Share(0, 0, 0, 1, 2),
              Share(1, 0, 0, 2, 0)}

\* A store all of whose requests have thrown, after its last crash.
StoreSpent ==
  /\ process = "up" /\ memory = Requests
  /\ queue = <<>> /\ writing = {} /\ rejected = FALSE
  /\ file = Holding({})
  /\ request = [r \in Requests |-> "failed"]
  /\ cut = FALSE /\ crashes = MaxCrashes /\ failures = 0

MCInit ==
  /\ InventoryInit
  /\ data = Ordered <=> quota["receipts"] > 1
  /\ \/ quota # Unasked /\ StoreSpent
     \/ quota = Unasked /\ data = Empty /\ StoreInit

MCNext ==
  \/ InventoryNext /\ UNCHANGED storeVars
  \/ StoreNext /\ UNCHANGED inventoryVars

MCSpec == MCInit /\ [][MCNext]_<<inventoryVars, storeVars>>
=============================================================================
