------------------------------ MODULE Inventory ------------------------------
(***************************************************************************)
(* The inventory application (src/server.ts): catalogue, purchase orders,  *)
(* goods receipts, recipes and production over one document in memory.     *)
(*                                                                         *)
(* A handler changes the document in one synchronous step inside           *)
(* updateData, which then has it written (module DataStore models the      *)
(* writing).  A handler that throws half way takes nothing back: what it   *)
(* changed stays in memory, is shown, and is written with the next update  *)
(* that succeeds.  A handler that does not catch the error ends the        *)
(* process, and what was not written is lost.                              *)
(*                                                                         *)
(* Names, prices, VAT, dates, batch numbers and the two logs are left out. *)
(* A quantity or factor is what parseQty makes of what is typed: any       *)
(* number, negative ones and zero too; here an integer.                    *)
(***************************************************************************)
EXTENDS Integers, Sequences, FiniteSets, FiniteSetsExt, Functions

CONSTANTS
  Seeds,        \* the documents the process may start from
  Units,        \* the names of units
  Quantities,   \* the quantities that are entered for orders and recipes
  Deliveries,   \* the quantities that are entered for receipts
  Factors,      \* the factors that are entered for a conversion
  Skus,         \* the SKUs that are typed (numbers; Blank is no SKU)
  MaxId,        \* bound: the ids that are asked for
  Budgets       \* bound: the requests of each area

Areas == {"items", "units", "orders", "receipts", "recipes"}

ASSUME InventoryAssumption ==
  /\ IsFiniteSet(Quantities) /\ Quantities \subseteq Int
  /\ IsFiniteSet(Deliveries) /\ Deliveries \subseteq Int
  /\ IsFiniteSet(Factors) /\ Factors \subseteq Int
  /\ IsFiniteSet(Skus) /\ Skus \subseteq Nat
  /\ MaxId \in Nat
  /\ Budgets \subseteq [Areas -> Nat]

VARIABLES
  data,    \* cachedData
  saved,   \* the document in db.json
  quota    \* the requests still to come

inventoryVars == <<data, saved, quota>>

NoRef == 0     \* a null reference
Blank == 0     \* an empty SKU

Statuses == {"CONCEPT", "OPEN", "PARTIAL", "RECEIVED"}

Empty == [items |-> {}, convs |-> {}, suppliers |-> {}, orders |-> {},
          orderLines |-> {}, receipts |-> {}, receiptLines |-> {}, moves |-> {},
          boms |-> {}, bomLines |-> {}, batches |-> {}]

(* The records of the document (store.ts).  They refer to one another by   *)
(* ids, and what has one may be gone.                                      *)
Documents ==
  [items        : SUBSET [id : Nat, sku : Nat, parent : Nat, unit : Units],
   convs        : SUBSET [id : Nat, item : Nat, unit : Units, factor : Int],
   suppliers    : SUBSET Nat,
   orders       : SUBSET [id : Nat, no : Nat, supplier : Nat, status : Statuses],
   orderLines   : SUBSET [id : Nat, order : Nat, item : Nat, qty : Int, unit : Units],
   receipts     : SUBSET [id : Nat, order : Nat, received : BOOLEAN, cut : BOOLEAN],
   receiptLines : SUBSET [id : Nat, receipt : Nat, item : Nat, poLine : Nat, qty : Int,
                          unit : Units, expired : BOOLEAN],
   moves        : SUBSET [id : Nat, item : Nat, qty : Int, per : Int \ {0},
                          of : {"receipt", "batch"}, ref : Nat],
   boms         : SUBSET [id : Nat, item : Nat, qty : Int, unit : Units],
   bomLines     : SUBSET [id : Nat, bom : Nat, item : Nat, qty : Int, unit : Units],
   batches      : SUBSET [id : Nat, bom : Nat, item : Nat]]

-----------------------------------------------------------------------------
(* Lists are sets of records: ids grow along a list, so that its order is  *)
(* that of the ids.                                                        *)

Ids(list)     == {x.id : x \in list}
NextId(list)  == Max({0} \cup Ids(list)) + 1
Find(list, i) == {x \in list : x.id = i}
First(list)   == {x \in list : \A y \in list : x.id <= y.id}

(* The position of x in the list that its ids order.                       *)
Rank(list, x) == Cardinality({y \in list : y.id < x.id})

(* getUnitFactor: the factor, or nothing when it throws.                   *)
UnitFactor(d, i, unit) ==
  IF \E x \in Find(d.items, i) : x.unit = unit THEN {1}
  ELSE IF Find(d.items, i) = {} THEN {}
  ELSE {c.factor : c \in First({c \in d.convs : c.item = i /\ c.unit = unit})}

Known(d, l) == UnitFactor(d, l.item, l.unit) # {}

InBase(d, l) ==
  IF Known(d, l) THEN l.qty * (CHOOSE f \in UnitFactor(d, l.item, l.unit) : TRUE) ELSE 0

OrderLines(d, o) == {l \in d.orderLines : l.order = o}
ReceiptsOf(d, o) == {r \in d.receipts : r.order = o}

ReceivedFor(d, l) == {r \in d.receiptLines : r.poLine = l.id}
ReceivedBase(d, l) ==
  LET Add(r, sum) == sum + InBase(d, r)
  IN  FoldSet(Add, 0, ReceivedFor(d, l))

Complete(d, l) ==
  /\ Known(d, l)
  /\ \A r \in ReceivedFor(d, l) : Known(d, r)
  /\ ReceivedBase(d, l) >= InBase(d, l)

ComputedStatus(d, o) ==
  LET lines == OrderLines(d, o)
      any   == \E l \in lines : Known(d, l) /\ ReceivedBase(d, l) > 0
      all   == \A l \in lines : Complete(d, l)
  IN  CASE all /\ lines # {} -> "RECEIVED"
        [] any /\ ~all       -> "PARTIAL"
        [] OTHER             -> "OPEN"

(* updatePOStatus.                                                         *)
WithStatus(d, o) ==
  [d EXCEPT !.orders =
     {IF x.id = o /\ x.status # "CONCEPT"
        THEN [x EXCEPT !.status = ComputedStatus(d, o)] ELSE x : x \in @}]

(* It throws, after the status is set, when the order is complete and its  *)
(* last receipt is a draft, which has no date of receipt.                  *)
StatusThrows(d, o) ==
  /\ \E x \in d.orders : x.id = o /\ x.status # "CONCEPT"
  /\ ComputedStatus(d, o) = "RECEIVED"
  /\ \E r \in ReceiptsOf(d, o) :
       /\ ~r.received
       /\ \A s \in ReceiptsOf(d, o) : s.id <= r.id

-----------------------------------------------------------------------------
(* The documents that are ever shown or written.                           *)

FiniteLists(d) ==
  /\ IsFiniteSet(d.items) /\ IsFiniteSet(d.convs) /\ IsFiniteSet(d.suppliers)
  /\ IsFiniteSet(d.orders) /\ IsFiniteSet(d.orderLines) /\ IsFiniteSet(d.receipts)
  /\ IsFiniteSet(d.receiptLines) /\ IsFiniteSet(d.moves) /\ IsFiniteSet(d.boms)
  /\ IsFiniteSet(d.bomLines) /\ IsFiniteSet(d.batches)

DistinctIds(list) == \A x, y \in list : x.id = y.id => x = y

(* Two items never share a SKU: not through edits, generated group SKUs or *)
(* ids that are used again.                                                *)
DistinctSkus(list) == \A x, y \in list : x.sku = y.sku => x.id = y.id

(* An order that has left the concept has lines and stays; receipts belong *)
(* to such an order, so that no receipt is left behind by a deleted order  *)
(* or taken over by a later one with its id.                               *)
OrdersInv(d) ==
  /\ DistinctIds(d.orders)
  /\ \A o \in d.orders : o.status # "CONCEPT" => OrderLines(d, o.id) # {}
  /\ \A l \in d.orderLines : \E o \in d.orders : o.id = l.order
  /\ \A r \in d.receipts : \E o \in d.orders : o.id = r.order /\ o.status # "CONCEPT"

StockOf(d, r) == {m \in d.moves : m.of = "receipt" /\ m.ref = r}

(* Received goods are in stock only by a receipt that is there and         *)
(* confirmed, or by one whose confirmation failed half way; and unless     *)
(* that happened a receipt posts no line of its order twice.               *)
StockInv(d) ==
  /\ DistinctIds(d.receipts)
  /\ \A m \in d.moves : m.of = "receipt" =>
       \E r \in d.receipts : r.id = m.ref /\ (r.received \/ r.cut)
  /\ \A r \in d.receipts : ~r.cut =>
       Cardinality(StockOf(d, r.id)) <= Cardinality(OrderLines(d, r.order))

(* What was consumed or made belongs to a batch that is there.             *)
BatchInv(d) ==
  /\ DistinctIds(d.bomLines)
  /\ \A m \in d.moves : m.of = "batch" => \E b \in d.batches : b.id = m.ref

Sound(d) ==
  /\ d \in Documents /\ FiniteLists(d)
  /\ DistinctSkus(d.items) /\ OrdersInv(d) /\ StockInv(d) /\ BatchInv(d)

(* The process starts from such a document.                                *)
ASSUME SeedAssumption == \A d \in Seeds : Sound(d)

-----------------------------------------------------------------------------
(* The ends of a request.                                                  *)

Asks(area) ==
  /\ quota[area] > 0
  /\ quota' = [quota EXCEPT ![area] = @ - 1]

(* The handler returns: the document is written.                           *)
Saved(d) ==
  /\ data' = d
  /\ saved' = d

(* The handler throws and answers 400: d is what it changed before.        *)
Refused(d) ==
  /\ data' = d
  /\ UNCHANGED saved

(* The handler throws and nothing catches it: the process ends, is started *)
(* again and reads the file.                                               *)
Crashed ==
  /\ data' = saved
  /\ UNCHANGED saved

Restart ==
  /\ Crashed
  /\ UNCHANGED quota

-----------------------------------------------------------------------------
(* The catalogue.                                                          *)

(* The base unit of a new or changed item must be its parent's.            *)
ParentFits(id, parent, unit) ==
  parent = NoRef \/ (parent # id /\ \E p \in Find(data.items, parent) : p.unit = unit)

(* generateGroupSku: the first number free among the other items.          *)
GroupSku(id) ==
  LET taken == {x.sku : x \in {y \in data.items : y.id # id}}
      first == Max({0} \cup Skus) + 1
  IN  Min({n \in first..(first + Cardinality(data.items)) : n \notin taken})

FinalSku(id, parent, sku) ==
  IF parent = NoRef /\ sku = Blank THEN GroupSku(id) ELSE sku

SkuFits(id, sku) ==
  /\ sku # Blank
  /\ \A x \in data.items : x.sku = sku => x.id = id

CreateItem(sku, parent, unit) ==
  LET id    == NextId(data.items)
      final == FinalSku(id, parent, sku)
  IN /\ Asks("items")
     /\ IF ParentFits(NoRef, parent, unit) /\ SkuFits(id, final)
          THEN Saved([data EXCEPT !.items =
                        @ \cup {[id |-> id, sku |-> final, parent |-> parent, unit |-> unit]}])
          ELSE Refused(data)

EditItem(id, sku, parent, unit) ==
  LET final == FinalSku(id, parent, sku)
  IN /\ Asks("items")
     /\ IF ~ParentFits(id, parent, unit) THEN Refused(data)
        ELSE IF Find(data.items, id) = {} THEN Saved(data)
        ELSE IF ~SkuFits(id, final) THEN Refused(data)
        ELSE Saved([data EXCEPT !.items =
               (@ \ Find(@, id))
                 \cup {[id |-> id, sku |-> final, parent |-> parent, unit |-> unit]}])

DeleteItem(id) ==
  /\ Asks("items")
  /\ Saved([data EXCEPT !.items = @ \ Find(@, id),
                        !.convs = {c \in @ : c.item # id}])

CreateConversion(item, unit, factor) ==
  /\ Asks("units")
  /\ Saved([data EXCEPT !.convs =
              @ \cup {[id |-> NextId(@), item |-> item, unit |-> unit, factor |-> factor]}])

EditConversion(id, unit, factor) ==
  /\ Asks("units")
  /\ Saved([data EXCEPT !.convs =
              {IF c.id = id THEN [c EXCEPT !.unit = unit, !.factor = factor] ELSE c : c \in @}])

DeleteConversion(id) ==
  /\ Asks("units")
  /\ Saved([data EXCEPT !.convs = @ \ Find(@, id)])

CreateSupplier ==
  /\ Asks("orders")
  /\ Saved([data EXCEPT !.suppliers = @ \cup {Max({0} \cup @) + 1}])

(* Only the name and the address change, which are left out: what handlers *)
(* that failed left in memory is written with them.                        *)
EditSupplier ==
  /\ Asks("orders")
  /\ Saved(data)

DeleteSupplier(id) ==
  /\ Asks("orders")
  /\ Saved([data EXCEPT !.suppliers = @ \ {id}])

-----------------------------------------------------------------------------
(* Purchase orders.                                                        *)

(* generatePoNumber, when no number is typed.                              *)
FinalNumber(no) == IF no = NoRef THEN Max({0} \cup {o.no : o \in data.orders}) + 1 ELSE no

NumberTaken(id, no) == \E o \in data.orders : o.no = no /\ o.id # id

(* A number that is taken is thrown outside any try.                       *)
CreateOrder(no, supplier) ==
  LET id    == NextId(data.orders)
      final == FinalNumber(no)
  IN /\ Asks("orders")
     /\ IF NumberTaken(NoRef, final) THEN Crashed
        ELSE Saved([data EXCEPT !.orders =
               @ \cup {[id |-> id, no |-> final, supplier |-> supplier, status |-> "CONCEPT"]}])

IsConcept(o) == \E x \in Find(data.orders, o) : x.status = "CONCEPT"

(* The handlers of an order return when it is not there and throw when it  *)
(* is confirmed; d is what they write otherwise.                           *)
OnConcept(o, d) ==
  /\ Asks("orders")
  /\ IF Find(data.orders, o) = {} THEN Saved(data)
     ELSE IF IsConcept(o) THEN Saved(d)
     ELSE Refused(data)

UpdateOrder(o, no, supplier) ==
  LET final == FinalNumber(no)
  IN IF IsConcept(o) /\ NumberTaken(o, final)
       THEN Asks("orders") /\ Refused(data)
       ELSE OnConcept(o, [data EXCEPT !.orders =
              {IF x.id = o THEN [x EXCEPT !.no = final, !.supplier = supplier] ELSE x : x \in @}])

\* Mutant of ReadyToConfirm: an order without lines may be confirmed.
AnyOrderIsReady(o) == TRUE

ReadyToConfirm(o) == OrderLines(data, o) # {}

ConfirmOrder(o) ==
  IF IsConcept(o) /\ ~ReadyToConfirm(o)
    THEN Asks("orders") /\ Refused(data)
    ELSE OnConcept(o, [data EXCEPT !.orders =
           {IF x.id = o THEN [x EXCEPT !.status = "OPEN"] ELSE x : x \in @}])

(* The rate of the order, and those of its lines.                          *)
SetVat(o) == OnConcept(o, data)
ClearLineVat(o) == OnConcept(o, data)

(* The status is not computed here: the order is a concept.                *)
AddOrderLine(o, item, qty, unit) ==
  OnConcept(o, [data EXCEPT !.orderLines =
    @ \cup {[id |-> NextId(@), order |-> o, item |-> item, qty |-> qty, unit |-> unit]}])

DeleteOrderLine(id) ==
  \/ /\ Find(data.orderLines, id) = {}
     /\ Asks("orders")
     /\ Saved(data)
  \/ \E l \in Find(data.orderLines, id) :
       OnConcept(l.order, [data EXCEPT !.orderLines = @ \ {l}])

DeleteOrder(o) ==
  LET gone == Ids(ReceiptsOf(data, o))
  IN OnConcept(o,
       [data EXCEPT
          !.moves        = {m \in @ : ~(m.of = "receipt" /\ m.ref \in gone)},
          !.receiptLines = {l \in @ : l.receipt \notin gone},
          !.receipts     = {r \in @ : r.order # o},
          !.orderLines   = {l \in @ : l.order # o},
          !.orders       = {x \in @ : x.id # o}])

-----------------------------------------------------------------------------
(* Goods receipts.                                                         *)

(* The field cut is no field of the code: it says that a confirmation of   *)
(* the draft failed after it had posted stock.                             *)
Draft(id, o) == [id |-> id, order |-> o, received |-> FALSE, cut |-> FALSE]

(* An unknown order or a concept is thrown outside any try.                *)
CreateReceipt(o) ==
  /\ Asks("receipts")
  /\ IF Find(data.orders, o) = {} \/ IsConcept(o) THEN Crashed
     ELSE Saved([data EXCEPT !.receipts = @ \cup {Draft(NextId(@), o)}])

(* The number of the delivery note.                                        *)
UpdateReceipt ==
  /\ Asks("receipts")
  /\ Saved(data)

(* Confirmation, line by line of the order: taken are the lines with a     *)
(* quantity, posted those before the first whose factor is missing.        *)
Taken(o, q)  == {l \in OrderLines(data, o) : q[l.id] > 0}
Broken(o, q) == {l \in Taken(o, q) : ~Known(data, l)}
Posted(o, q) == {l \in Taken(o, q) : \A b \in Broken(o, q) : l.id < b.id}

WithPosted(r, q) ==
  LET lines == Posted(r.order, q)
      line(l) == [id |-> NextId(data.receiptLines) + Rank(lines, l), receipt |-> r.id,
                  item |-> l.item, poLine |-> l.id, qty |-> q[l.id], unit |-> l.unit,
                  expired |-> FALSE]
      move(l) == [id |-> NextId(data.moves) + Rank(lines, l), item |-> l.item,
                  qty |-> InBase(data, [l EXCEPT !.qty = q[l.id]]), per |-> 1,
                  of |-> "receipt", ref |-> r.id]
  IN [data EXCEPT !.receiptLines = @ \cup {line(l) : l \in lines},
                  !.moves        = @ \cup {move(l) : l \in lines}]

(* Nothing is short of a line of which nothing, or less, was ordered.      *)
Shortage(o, q) ==
  \E l \in OrderLines(data, o) : q[l.id] < l.qty /\ (q[l.id] > 0 \/ l.qty > 0)

(* The receipt is received; what is short goes to a new draft.             *)
WithReceived(d, r, q) ==
  LET received == (d.receipts \ {r}) \cup {[r EXCEPT !.received = TRUE]}
  IN [d EXCEPT !.receipts =
        IF Shortage(r.order, q) THEN received \cup {Draft(NextId(@), r.order)} ELSE received]

WithCut(d, r) == [d EXCEPT !.receipts = (@ \ {r}) \cup {[r EXCEPT !.cut = TRUE]}]

ConfirmReceipt(r, q) ==
  LET posted == WithPosted(r, q)
      done   == WithReceived(posted, r, q)
  IN /\ Asks("receipts")
     /\ \/ /\ r.received \/ (Posted(r.order, q) = {} /\ Broken(r.order, q) = {})
           /\ Refused(data)
        \/ /\ ~r.received /\ Broken(r.order, q) # {}
           /\ Refused(IF Posted(r.order, q) = {} THEN data ELSE WithCut(posted, r))
        \/ /\ ~r.received /\ Broken(r.order, q) = {} /\ Posted(r.order, q) # {}
           /\ IF StatusThrows(done, r.order)
                THEN Refused(WithStatus(done, r.order))
                ELSE Saved(WithStatus(done, r.order))

OfReceipt(r) == StockOf(data, r)

\* Mutant of WithoutStock: the lines go, their stock stays.
WithoutLines(r) == [data EXCEPT !.receiptLines = {l \in @ : l.receipt # r}]

WithoutStock(r) ==
  [data EXCEPT !.moves        = @ \ OfReceipt(r),
               !.receiptLines = {l \in @ : l.receipt # r}]

(* Back to draft; the draft that took the shortage stays.                  *)
RevertReceipt(r) ==
  LET draft == [WithoutStock(r.id) EXCEPT !.receipts =
                  (@ \ {r}) \cup {[r EXCEPT !.received = FALSE, !.cut = FALSE]}]
  IN /\ Asks("receipts")
     /\ IF ~r.received THEN Saved(data)
        ELSE IF StatusThrows(draft, r.order) THEN Refused(WithStatus(draft, r.order))
        ELSE Saved(WithStatus(draft, r.order))

(* A line typed on a draft, or for a receipt that is no longer there; no   *)
(* stock is posted and no status computed.                                 *)
AddReceiptLine(r, poLine, item, qty, unit, expired) ==
  /\ Asks("receipts")
  /\ IF (\E x \in Find(data.receipts, r) : x.received) \/ UnitFactor(data, item, unit) = {}
       THEN Refused(data)
       ELSE Saved([data EXCEPT !.receiptLines =
              @ \cup {[id |-> NextId(@), receipt |-> r, item |-> item, poLine |-> poLine,
                       qty |-> qty, unit |-> unit, expired |-> expired]}])

(* Every movement of the quantity of the line goes with it.  What the      *)
(* status throws is not caught.                                            *)
DeleteReceiptLine(l) ==
  LET base == IF Known(data, l) THEN InBase(data, l) ELSE l.qty
      same == {m \in OfReceipt(l.receipt) : m.item = l.item /\ m.qty = base}
      rest == [data EXCEPT !.receiptLines = @ \ {l}, !.moves = @ \ same]
      orders == {r.order : r \in Find(data.receipts, l.receipt)}
  IN /\ Asks("receipts")
     /\ \/ orders = {} /\ Saved(rest)
        \/ \E o \in orders :
             IF StatusThrows(rest, o) THEN Crashed ELSE Saved(WithStatus(rest, o))

(* The status of the order is not computed.                                *)
DeleteReceipt(r) ==
  /\ Asks("receipts")
  /\ Saved([WithoutStock(r.id) EXCEPT !.receipts = @ \ {r}])

-----------------------------------------------------------------------------
(* Recipes and production.                                                 *)

CreateBom(item, qty, unit) ==
  /\ Asks("recipes")
  /\ Saved([data EXCEPT !.boms =
              @ \cup {[id |-> NextId(@), item |-> item, qty |-> qty, unit |-> unit]}])

UpdateBom(id, item, qty, unit) ==
  /\ Asks("recipes")
  /\ Saved([data EXCEPT !.boms =
              {IF b.id = id THEN [id |-> id, item |-> item, qty |-> qty, unit |-> unit] ELSE b
               : b \in @}])

AddBomLine(bom, item, qty, unit) ==
  /\ Asks("recipes")
  /\ Saved([data EXCEPT !.bomLines =
              @ \cup {[id |-> NextId(@), bom |-> bom, item |-> item, qty |-> qty, unit |-> unit]}])

DeleteBomLine(id) ==
  /\ Asks("recipes")
  /\ Saved([data EXCEPT !.bomLines = @ \ Find(@, id)])

DeleteBom(id) ==
  /\ Asks("recipes")
  /\ Saved([data EXCEPT !.bomLines = {l \in @ : l.bom # id},
                        !.boms     = @ \ Find(@, id)])

BomLines(b) == {l \in data.bomLines : l.bom = b.id}

ExpiredStock(b) ==
  \E l \in BomLines(b) : \E r \in data.receiptLines : r.item = l.item /\ r.expired

Movement(id, item, qty, per, batch) ==
  [id |-> id, item |-> item, qty |-> qty, per |-> per, of |-> "batch", ref |-> batch]

(* What is consumed, up to the first line whose factor is missing, for     *)
(* made units where the recipe gives out: the quantity is qty / per.       *)
Consumed(b, batch, made, out) ==
  LET lines == {l \in BomLines(b) :
                  \A x \in BomLines(b) : x.id <= l.id => Known(data, x)}
  IN {Movement(NextId(data.moves) + Rank(lines, l), l.item,
               IF out = 0 THEN 0 ELSE -(InBase(data, l) * made),
               IF out = 0 THEN 1 ELSE out, batch) : l \in lines}

Finished(b, batch, made, n) ==
  {Movement(NextId(data.moves) + n, b.item, made, 1, batch)}

\* Mutant of Movements: the product is posted before what it is made of.
ProductFirst(b, batch, made, out) ==
  Consumed(b, batch, made, out)
    \cup Finished(b, batch, made, Cardinality(BomLines(b)))

(* The movements of a batch in their order: the product comes last, and    *)
(* not at all when a factor is missing.                                    *)
Movements(b, batch, made, out) ==
  Consumed(b, batch, made, out)
    \cup (IF \A l \in BomLines(b) : Known(data, l)
            THEN Finished(b, batch, made, Cardinality(BomLines(b))) ELSE {})

(* A batch is listed before its movements are posted: it stays when they   *)
(* fail half way.                                                          *)
Produce(b, qty, unit) ==
  LET id    == NextId(data.batches)
      known == UnitFactor(data, b.item, unit) # {} /\ UnitFactor(data, b.item, b.unit) # {}
      made  == InBase(data, [item |-> b.item, qty |-> qty, unit |-> unit])
      out   == InBase(data, b)
      after == [data EXCEPT !.batches = @ \cup {[id |-> id, bom |-> b.id, item |-> b.item]},
                            !.moves   = @ \cup Movements(b, id, made, out)]
  IN /\ Asks("recipes")
     /\ \/ (ExpiredStock(b) \/ ~known) /\ Refused(data)
        \/ /\ ~ExpiredStock(b) /\ known
           /\ IF \A l \in BomLines(b) : Known(data, l) THEN Saved(after) ELSE Refused(after)

DeleteBatch(id) ==
  /\ Asks("recipes")
  /\ Saved([data EXCEPT !.moves   = {m \in @ : ~(m.of = "batch" /\ m.ref = id)},
                        !.batches = @ \ Find(@, id)])

-----------------------------------------------------------------------------

InventoryInit ==
  /\ data \in Seeds
  /\ saved = data
  /\ quota \in Budgets

Some == 1..MaxId

Catalogue ==
  \/ \E sku \in Skus \cup {Blank}, parent \in Some \cup {NoRef}, unit \in Units :
       \/ CreateItem(sku, parent, unit)
       \/ \E id \in Some : EditItem(id, sku, parent, unit)
  \/ \E id \in Some : \/ DeleteItem(id)
                      \/ DeleteConversion(id)
                      \/ DeleteSupplier(id)
  \/ \E id \in Some, unit \in Units, f \in Factors :
       \/ CreateConversion(id, unit, f)
       \/ EditConversion(id, unit, f)
  \/ CreateSupplier
  \/ EditSupplier

Orders ==
  \/ \E no \in Some \cup {NoRef}, supplier \in data.suppliers :
       \/ CreateOrder(no, supplier)
       \/ \E o \in Some : UpdateOrder(o, no, supplier)
  \/ \E o \in Some : \/ ConfirmOrder(o)
                     \/ DeleteOrderLine(o)
                     \/ DeleteOrder(o)
                     \/ SetVat(o)
                     \/ ClearLineVat(o)
                     \/ \E item \in Ids(data.items), qty \in Quantities, unit \in Units :
                          AddOrderLine(o, item, qty, unit)

Receipts ==
  \/ \E o \in Some : CreateReceipt(o)
  \/ UpdateReceipt
  \/ \E r \in data.receipts :
       \/ \E q \in [Ids(OrderLines(data, r.order)) -> Deliveries] : ConfirmReceipt(r, q)
       \/ RevertReceipt(r)
       \/ DeleteReceipt(r)
  \/ \E r \in Some, item \in Ids(data.items), qty \in Deliveries, unit \in Units :
       \E poLine \in Ids(data.orderLines) \cup {NoRef}, e \in BOOLEAN :
         AddReceiptLine(r, poLine, item, qty, unit, e)
  \/ \E l \in data.receiptLines : DeleteReceiptLine(l)

Recipes ==
  \/ \E item \in Ids(data.items), qty \in Quantities, unit \in Units :
       \/ CreateBom(item, qty, unit)
       \/ \E id \in Some : \/ UpdateBom(id, item, qty, unit)
                           \/ AddBomLine(id, item, qty, unit)
  \/ \E b \in data.boms, qty \in Quantities, unit \in Units : Produce(b, qty, unit)
  \/ \E id \in Some : \/ DeleteBomLine(id)
                      \/ DeleteBom(id)
                      \/ DeleteBatch(id)

InventoryNext == Catalogue \/ Orders \/ Receipts \/ Recipes \/ Restart

InventorySpec == InventoryInit /\ [][InventoryNext]_inventoryVars

-----------------------------------------------------------------------------
(* The types of the document, in memory and in the file.                   *)
InventoryTypeOK ==
  /\ data \in Documents /\ saved \in Documents
  /\ quota \in [Areas -> Nat]

(* Two items never share a SKU (server.ts, POST /items and /items/:id):    *)
(* not through edits, generated group SKUs or ids that are used again.     *)
UniqueSkus == DistinctSkus(data.items)

(* An order that has left the concept has lines and stays; receipts belong *)
(* to such an order, so that no receipt is left behind by a deleted order  *)
(* or taken over by a later one with its id (server.ts, /pos and           *)
(* /receipts).                                                             *)
OrdersAreKept == OrdersInv(data)

(* However requests for items, orders and receipts follow one another, or  *)
(* fail half way, the document keeps its types, no two items share a SKU   *)
(* and no order that has moved on loses its lines or its receipts their    *)
(* order (server.ts).                                                      *)
RecordsAreSound ==
  /\ InventoryTypeOK
  /\ UniqueSkus
  /\ OrdersAreKept

(* Received goods are in stock only by a receipt that is there and         *)
(* confirmed, or by one whose confirmation failed half way; and unless     *)
(* that happened a receipt posts no line of its order twice (server.ts,    *)
(* confirm, draft, delete).                                                *)
StockOfReceipts == StockInv(data)

PostedFor(d, b) == {m \in d.moves : m.of = "batch" /\ m.ref = b.id}

(* m takes of the item of line l what p of the product takes of it.        *)
Pays(l, m, p, out) ==
  /\ m.item = l.item
  /\ m.qty * out * p.per = -(InBase(data, l) * p.qty * m.per)

(* The movements hold one product, and for each line of the recipe one     *)
(* movement that pays for it, unless the recipe gives out nothing.         *)
PaidInFull(r, posted) ==
  \E p \in posted :
    /\ p.item = r.item
    /\ \E payer \in Bijection(BomLines(r), posted \ {p}) :
         InBase(data, r) # 0 =>
           \A l \in BomLines(r) : Pays(l, payer[l], p, InBase(data, r))

(* The movements are of lines of the recipe alone, none of them twice.     *)
OnlyOfLines(r, posted) ==
  \E line \in Injection(posted, BomLines(r)) :
    \A m \in posted : m.item = line[m].item

(* What a production posted stays as it was posted until its batch goes,   *)
(* and goes with it.  A new batch has its product and, for every line of   *)
(* the recipe, the amount that is due for that product; or, when a factor  *)
(* is missing and it failed half way, only amounts of lines: raw material  *)
(* is missing then, but no product is there that was paid in part          *)
(* (server.ts, POST /production).  The amounts may be negative, on both    *)
(* sides.  A recipe that gives out nothing in the base unit takes nothing  *)
(* for what is made (server.ts:1546).                                      *)
ProductIsPaidFor ==
  [][\A b \in data'.batches :
       IF b \in data.batches
         THEN PostedFor(data', b) = PostedFor(data, b)
         ELSE \E r \in Find(data.boms, b.bom) :
                IF \A l \in BomLines(r) : Known(data, l)
                  THEN PaidInFull(r, PostedFor(data', b))
                  ELSE OnlyOfLines(r, PostedFor(data', b))]_inventoryVars

=============================================================================
