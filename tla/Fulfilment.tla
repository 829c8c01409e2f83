----------------------------- MODULE Fulfilment -----------------------------
(***************************************************************************)
(* Outbound fulfilment in one warehouse: stock rows, sales orders, picking *)
(* orders and packing orders, from reservation to dispatch                 *)
(* (src/stock, src/sales, src/picking, src/packing).                       *)
(*                                                                         *)
(* Every handler below runs in one READ COMMITTED transaction that first   *)
(* locks its order row and then the warehouse_stock rows of its products   *)
(* (SELECT ... FOR UPDATE), and reads what it decides on after locking;    *)
(* the locks are held to the commit.  So a handler is one atomic action.   *)
(* The exception is the deletion of a packing order, which reads the       *)
(* status and deletes the row with no lock and no transaction: it is two   *)
(* actions, and any request can run between them.                          *)
(*                                                                         *)
(* Abstractions: the lines of one order for the same product are merged    *)
(* (the code adds them up by product before it touches stock); products    *)
(* are not lot-tracked; the status of a sales order is written with the    *)
(* progress that changes it.                                               *)
(***************************************************************************)
EXTENDS Shelves

CONSTANTS
  Product,         \* products with a stock row in the warehouse
  MaxPickings,     \* bound: picking orders that exist at one time
  Sale,            \* sales orders
  NoSale,          \* the sales order of a picking created directly
  MaxQuantity,     \* bound: units of one product in one request
  MaxOnHand,       \* bound: units of one product in the warehouse
  OverlapDelete    \* may other requests on a packing run during its deletion?

ASSUME FulfilmentAssumption ==
  /\ MaxPickings \in Nat
  /\ MaxQuantity \in Nat
  /\ MaxOnHand \in Nat
  /\ NoSale \notin Sale
  /\ OverlapDelete \in BOOLEAN

VARIABLES
  onHand,          \* warehouse_stock.onHand
  reserved,        \* warehouse_stock.reserved
  picked,          \* warehouse_stock.picked
  located,         \* location_stock.quantity by product and location
  pickings,        \* picking_orders with their picking_items
  packings,        \* packing_orders with their packing_items, by picking order
  sales,           \* sales_orders with their sales_order_items
  dispatched,      \* units the order_shipment movements of a picking record
  deleting         \* packing deletions that have read the status `pending`

stockVars == <<onHand, reserved, picked, located>>
vars == <<onHand, reserved, picked, located, pickings, packings, sales,
          dispatched, deleting>>

(***************************************************************************)
(* Rows.  A row that does not exist has status "none".                     *)
(***************************************************************************)
Picking == 1..MaxPickings

Editable == {"pending", "in_progress"}
Finished == {"completed", "cancelled"}
OrderStatus == Editable \cup Finished \cup {"none"}

ClosedSale == {"shipped", "cancelled"}
SaleStatus == {"none", "open", "partially_released", "released",
               "partially_shipped"} \cup ClosedSale

Units == [Product -> Nat]
Nothing == [p \in Product |-> 0]
Requests == [Product -> 0..MaxQuantity] \ {Nothing}

PickingOrder == [status : OrderStatus, sale : Sale \cup {NoSale}, quantity : Units,
                 reservedQuantity : Units, pickedQuantity : Units]

PackingOrder == [status : OrderStatus, quantity : Units, packedQuantity : Units]

SalesOrder == [status : SaleStatus, quantity : Units,
               releasedQuantity : [Product -> Int], shippedQuantity : [Product -> Int]]

NoPicking == [status |-> "none", sale |-> NoSale, quantity |-> Nothing,
              reservedQuantity |-> Nothing, pickedQuantity |-> Nothing]

NoPacking == [status |-> "none", quantity |-> Nothing, packedQuantity |-> Nothing]

NoSaleOrder == [status |-> "none", quantity |-> Nothing,
                releasedQuantity |-> Nothing, shippedQuantity |-> Nothing]

ItemsOf(order) == {p \in Product : order.quantity[p] > 0}

Init ==
  /\ onHand = Nothing
  /\ reserved = Nothing
  /\ picked = Nothing
  /\ located = [p \in Product |-> NoUnits]
  /\ pickings = [o \in Picking |-> NoPicking]
  /\ packings = [o \in Picking |-> NoPacking]
  /\ sales = [s \in Sale |-> NoSaleOrder]
  /\ dispatched = [o \in Picking |-> Nothing]
  /\ deleting = {}

-----------------------------------------------------------------------------
(***************************************************************************)
(* Stock: manual adjustments and relocations (stock.service.ts).           *)
(***************************************************************************)

\* Mutated form: an adjustment looks at the units on hand alone.
AvailableIgnoringReservations(p) == onHand[p]

Available(p) == onHand[p] - reserved[p]

\* registerMovement with adjustment_increase.
IncreaseStock(p, q, l) ==
  /\ onHand[p] + q <= MaxOnHand
  /\ onHand' = [onHand EXCEPT ![p] = @ + q]
  /\ located' = [located EXCEPT ![p] = PutAway(@, l, q)]
  /\ UNCHANGED <<reserved, picked, pickings, packings, sales, dispatched, deleting>>

\* registerMovement with adjustment_decrease.
DecreaseStock(p, q, l) ==
  /\ q <= Available(p)
  /\ CanAllocate(onHand[p], picked[p], located[p], q, l)
  /\ onHand' = [onHand EXCEPT ![p] = @ - q]
  /\ located' = [located EXCEPT ![p] = AllocateOutbound(@, q, l)]
  /\ UNCHANGED <<reserved, picked, pickings, packings, sales, dispatched, deleting>>

\* relocate: from a location or from unlocated stock, to a location or to none.
Relocate(p, q, from, to) ==
  /\ from # to
  /\ CanTake(onHand[p], picked[p], located[p], q, from)
  /\ located' = [located EXCEPT ![p] =
                   PutAway(Taken(@, q, from), to, q)]
  /\ UNCHANGED <<onHand, reserved, picked, pickings, packings, sales, dispatched, deleting>>

-----------------------------------------------------------------------------
(***************************************************************************)
(* Progress of a sales order (sales-order-progress.ts).                    *)
(***************************************************************************)
SalesOrderStatus(items, quantity, released, shipped) ==
  IF \A p \in items : shipped[p] >= quantity[p] THEN "shipped"
  ELSE IF \E p \in items : shipped[p] > 0 THEN "partially_shipped"
  ELSE IF \A p \in items : released[p] >= quantity[p] THEN "released"
  ELSE IF \E p \in items : released[p] > 0 THEN "partially_released"
  ELSE "open"

\* Adds `released` and `shipped` to the items of sale s and refreshes its status.
SalesAfterProgress(s, released, shipped) ==
  IF s = NoSale THEN sales
  ELSE LET order == sales[s]
           rel == [p \in Product |-> order.releasedQuantity[p] + released[p]]
           shp == [p \in Product |-> order.shippedQuantity[p] + shipped[p]]
       IN [sales EXCEPT ![s] =
             [order EXCEPT
                !.releasedQuantity = rel,
                !.shippedQuantity = shp,
                !.status = IF @ = "cancelled" THEN @
                           ELSE SalesOrderStatus(ItemsOf(order), order.quantity, rel, shp)]]

-----------------------------------------------------------------------------
(***************************************************************************)
(* Picking orders (picking.service.ts).                                    *)
(***************************************************************************)

\* The next row to be inserted: the lowest number not in use.
IsNextPicking(o) ==
  /\ pickings[o].status = "none"
  /\ \A k \in 1..(o - 1) : pickings[k].status # "none"

\* createInTransaction: the whole request is reserved or nothing is.
CreateInTransaction(o, requested, s) ==
  /\ \A p \in Product : requested[p] > 0 => requested[p] <= Available(p)
  /\ reserved' = [p \in Product |-> reserved[p] + requested[p]]
  /\ pickings' = [pickings EXCEPT ![o] =
                    [status |-> "pending", sale |-> s, quantity |-> requested,
                     reservedQuantity |-> requested, pickedQuantity |-> Nothing]]

CreatePicking(o, requested) ==
  /\ IsNextPicking(o)
  /\ CreateInTransaction(o, requested, NoSale)
  /\ UNCHANGED <<onHand, picked, located, packings, sales, dispatched, deleting>>

\* updateStatus(in_progress).
StartPicking(o) ==
  /\ pickings[o].status = "pending"
  /\ pickings' = [pickings EXCEPT ![o].status = "in_progress"]
  /\ UNCHANGED <<stockVars, packings, sales, dispatched, deleting>>

\* updateItem with a larger quantity: movePickedUnits takes the difference
\* off the shelves.  Recording progress starts a pending order.
PickUnits(o, p, n, l) ==
  LET delta == n - pickings[o].pickedQuantity[p] IN
  /\ pickings[o].status \in Editable
  /\ n <= pickings[o].quantity[p]
  /\ delta > 0
  /\ CanAllocate(onHand[p], picked[p], located[p], delta, l)
  /\ located' = [located EXCEPT ![p] = AllocateOutbound(@, delta, l)]
  /\ picked' = [picked EXCEPT ![p] = @ + delta]
  /\ pickings' = [pickings EXCEPT ![o] = [@ EXCEPT !.pickedQuantity[p] = n,
                                                  !.status = "in_progress"]]
  /\ UNCHANGED <<onHand, reserved, packings, sales, dispatched, deleting>>

\* updateItem with a smaller quantity: the difference goes back to a
\* location or stays unlocated.
UnpickUnits(o, p, n, l) ==
  LET delta == n - pickings[o].pickedQuantity[p] IN
  /\ pickings[o].status \in Editable
  /\ delta < 0
  /\ located' = [located EXCEPT ![p] = PutAway(@, l, -delta)]
  /\ picked' = [picked EXCEPT ![p] = @ + delta]
  /\ pickings' = [pickings EXCEPT ![o] = [@ EXCEPT !.pickedQuantity[p] = n,
                                                  !.status = "in_progress"]]
  /\ UNCHANGED <<onHand, reserved, packings, sales, dispatched, deleting>>

\* Mutated form: the item records the change of its reservation.
SettledChange(o, target) ==
  [p \in Product |-> target[p] - pickings[o].reservedQuantity[p]]

\* The reservation settleReservations writes in each item.
Settled(o, target) == target

\* Mutated form: the items give up their reservation, the stock row does not.
SettleItemsOnly(o, target) == UNCHANGED reserved

\* settleReservations: every item's reservation becomes target[p].
SettleReservations(o, target) ==
  LET delta == [p \in Product |-> target[p] - pickings[o].reservedQuantity[p]] IN
  /\ \A p \in Product : delta[p] # 0 => delta[p] <= Available(p)
  /\ reserved' = [p \in Product |-> reserved[p] + delta[p]]

\* Mutated form: a cancelled picking leaves its units counted as picked.
KeepPicked(o) == UNCHANGED picked

\* releasePicked: the units stay in the warehouse without a location.
ReleasePicked(o) ==
  picked' = [p \in Product |-> Greatest(0, picked[p] - pickings[o].pickedQuantity[p])]

\* Mutated form: the sales order is not told what will not ship.
KeepReleased(o) == UNCHANGED sales

\* returnToSalesOrder: what was released for this picking is pending again.
ReturnToSalesOrder(o) ==
  sales' = SalesAfterProgress(pickings[o].sale,
                              [p \in Product |-> - pickings[o].quantity[p]], Nothing)

\* updateStatus(completed): keeps reserved only what was picked.
CompletePicking(o) ==
  /\ pickings[o].status \in Editable
  /\ \E p \in Product : pickings[o].pickedQuantity[p] > 0
  /\ SettleReservations(o, pickings[o].pickedQuantity)
  /\ pickings' = [pickings EXCEPT ![o].status = "completed",
                                  ![o].reservedQuantity =
                                     Settled(o, pickings[o].pickedQuantity)]
  /\ UNCHANGED <<onHand, picked, located, packings, sales, dispatched, deleting>>

\* updateStatus(cancelled).
CancelPicking(o) ==
  /\ pickings[o].status \in Editable
  /\ ReleasePicked(o)
  /\ SettleReservations(o, Nothing)
  /\ ReturnToSalesOrder(o)
  /\ pickings' = [pickings EXCEPT ![o].status = "cancelled",
                                  ![o].reservedQuantity = Settled(o, Nothing)]
  /\ UNCHANGED <<onHand, located, packings, dispatched, deleting>>

\* delete, for pending orders only.
DeletePicking(o) ==
  /\ pickings[o].status = "pending"
  /\ ReleasePicked(o)
  /\ SettleReservations(o, Nothing)
  /\ ReturnToSalesOrder(o)
  /\ pickings' = [pickings EXCEPT ![o] = NoPicking]
  /\ UNCHANGED <<onHand, located, packings, dispatched, deleting>>

-----------------------------------------------------------------------------
(***************************************************************************)
(* Packing orders (packing.service.ts); at most one per picking order.     *)
(***************************************************************************)

\* Mutated form: a packing asks for what was ordered.
OrderedToPack(o) == pickings[o].quantity

ToPack(o) == pickings[o].pickedQuantity

CreatePacking(o) ==
  /\ pickings[o].status = "completed"
  /\ packings[o].status = "none"
  /\ packings' = [packings EXCEPT ![o] =
                    [status |-> "pending", quantity |-> ToPack(o), packedQuantity |-> Nothing]]
  /\ UNCHANGED <<stockVars, pickings, sales, dispatched, deleting>>

\* Requests on a packing whose deletion is under way: the code does not
\* keep them apart, the runs and theorems with OverlapDelete = FALSE do.
Undisturbed(o) == OverlapDelete \/ o \notin deleting

StartPacking(o) ==
  /\ Undisturbed(o)
  /\ packings[o].status = "pending"
  /\ packings' = [packings EXCEPT ![o].status = "in_progress"]
  /\ UNCHANGED <<stockVars, pickings, sales, dispatched, deleting>>

\* updateItem; recording the same quantity changes nothing.
PackUnits(o, p, n) ==
  /\ Undisturbed(o)
  /\ packings[o].status \in Editable
  /\ n <= packings[o].quantity[p]
  /\ n # packings[o].packedQuantity[p]
  /\ packings' = [packings EXCEPT ![o] = [@ EXCEPT !.packedQuantity[p] = n,
                                                  !.status = "in_progress"]]
  /\ UNCHANGED <<stockVars, pickings, sales, dispatched, deleting>>

\* Mutated form: only the packed units leave `picked`.
PickedAfterPackedOnly(o, packed, p) == Greatest(0, picked[p] - packed[p])

\* Every picked unit of the order leaves `picked`, shipped or not.
PickedAfter(o, packed, p) == Greatest(0, picked[p] - pickings[o].pickedQuantity[p])

\* Released for the order and not sent.
Unshipped(o, packed, p) == pickings[o].quantity[p] - packed[p]

\* consumeReservations: ships `packed` and releases the whole reservation.
ConsumeReservations(o, packed) ==
  /\ \A p \in ItemsOf(pickings[o]) :
        onHand[p] - packed[p] >= reserved[p] - pickings[o].reservedQuantity[p]
  /\ onHand' = [p \in Product |-> onHand[p] - packed[p]]
  /\ reserved' = [p \in Product |-> reserved[p] - pickings[o].reservedQuantity[p]]
  /\ picked' = [p \in Product |-> PickedAfter(o, packed, p)]
  /\ dispatched' = [dispatched EXCEPT ![o] = [p \in Product |-> @[p] + packed[p]]]
  /\ pickings' = [pickings EXCEPT ![o].reservedQuantity = Nothing]
  /\ sales' = SalesAfterProgress(pickings[o].sale,
                 [p \in Product |-> - Unshipped(o, packed, p)], packed)

\* updateStatus(completed).
CompletePacking(o) ==
  /\ Undisturbed(o)
  /\ packings[o].status \in Editable
  /\ \E p \in Product : packings[o].packedQuantity[p] > 0
  /\ ConsumeReservations(o, packings[o].packedQuantity)
  /\ packings' = [packings EXCEPT ![o].status = "completed"]
  /\ UNCHANGED <<located, deleting>>

\* updateStatus(cancelled): the same with nothing packed.
CancelPacking(o) ==
  /\ Undisturbed(o)
  /\ packings[o].status \in Editable
  /\ ConsumeReservations(o, Nothing)
  /\ packings' = [packings EXCEPT ![o].status = "cancelled"]
  /\ UNCHANGED <<located, deleting>>

\* delete, first step: findById reads the status.
CheckPackingDeletion(o) ==
  /\ packings[o].status = "pending"
  /\ deleting' = deleting \cup {o}
  /\ UNCHANGED <<stockVars, pickings, packings, sales, dispatched>>

\* delete, second step: the row goes, whatever its status is by now.
DeletePackingRow(o) ==
  /\ o \in deleting
  /\ packings' = [packings EXCEPT ![o] = NoPacking]
  /\ deleting' = deleting \ {o}
  /\ UNCHANGED <<stockVars, pickings, sales, dispatched>>

-----------------------------------------------------------------------------
(***************************************************************************)
(* Sales orders (sales-orders.service.ts).                                 *)
(***************************************************************************)
CreateSale(s, quantity) ==
  /\ sales[s].status = "none"
  /\ sales' = [sales EXCEPT ![s] = [NoSaleOrder EXCEPT !.status = "open",
                                                       !.quantity = quantity]]
  /\ UNCHANGED <<stockVars, pickings, packings, dispatched, deleting>>

\* Mutated form: a release ignores what was released before.
PendingIgnoringReleased(s, p) == sales[s].quantity[p]

Pending(s, p) == sales[s].quantity[p] - sales[s].releasedQuantity[p]

\* release: a new picking for what is pending, or with allowPartial for as
\* much of it as is available.
ReleaseSale(s, o, allowPartial) ==
  LET allocation == [p \in Product |-> Greatest(0, Least(Pending(s, p), Available(p)))] IN
  /\ sales[s].status \notin ClosedSale \cup {"none"}
  /\ \E p \in Product : allocation[p] > 0
  /\ allowPartial \/ \A p \in Product : allocation[p] >= Pending(s, p)
  /\ IsNextPicking(o)
  /\ CreateInTransaction(o, allocation, s)
  /\ sales' = SalesAfterProgress(s, allocation, Nothing)
  /\ UNCHANGED <<onHand, picked, located, packings, dispatched, deleting>>

\* Mutated form: a sales order with a picking in course can be cancelled.
CancellableAnyway(s) == TRUE

Cancellable(s) ==
  \A p \in Product : sales[s].releasedQuantity[p] <= sales[s].shippedQuantity[p]

CancelSale(s) ==
  /\ sales[s].status \notin ClosedSale \cup {"none"}
  /\ Cancellable(s)
  /\ sales' = [sales EXCEPT ![s].status = "cancelled"]
  /\ UNCHANGED <<stockVars, pickings, packings, dispatched, deleting>>

-----------------------------------------------------------------------------
StockNext ==
  \E p \in Product, q \in 1..MaxQuantity, l \in Location \cup {NoLocation} :
    \/ IncreaseStock(p, q, l)
    \/ DecreaseStock(p, q, l)
    \/ \E to \in Location \cup {NoLocation} : Relocate(p, q, l, to)

PickingNext ==
  \E o \in Picking :
    \/ \E requested \in Requests : CreatePicking(o, requested)
    \/ StartPicking(o)
    \/ \E p \in Product, n \in 0..MaxQuantity, l \in Location \cup {NoLocation} :
         PickUnits(o, p, n, l) \/ UnpickUnits(o, p, n, l)
    \/ CompletePicking(o)
    \/ CancelPicking(o)
    \/ DeletePicking(o)

PackingNext ==
  \E o \in Picking :
    \/ CreatePacking(o)
    \/ StartPacking(o)
    \/ \E p \in Product, n \in 0..MaxQuantity : PackUnits(o, p, n)
    \/ CompletePacking(o)
    \/ CancelPacking(o)
    \/ CheckPackingDeletion(o)
    \/ DeletePackingRow(o)

SalesNext ==
  \E s \in Sale :
    \/ \E quantity \in Requests : CreateSale(s, quantity)
    \/ \E o \in Picking, allowPartial \in BOOLEAN : ReleaseSale(s, o, allowPartial)
    \/ CancelSale(s)

Next == StockNext \/ PickingNext \/ PackingNext \/ SalesNext

(***************************************************************************)
(* The CHECK constraints of the migrations.  A transaction that would      *)
(* break one is rolled back, so CheckedSpec is the program; Spec is the    *)
(* handlers alone.  Without overlapping deletions the constraints refuse   *)
(* nothing and both are the same: DbChecks is an invariant of Spec (runs   *)
(* fulfilment_units and fulfilment_sales, theorem StockIntegrity).         *)
(***************************************************************************)

\* No commit of any handler is refused by a CHECK of warehouse_stock or
\* location_stock: reserved and picked units are never more than the units
\* on hand, and no location goes below zero.
StockChecks ==
  \A p \in Product : /\ 0 <= reserved[p] /\ reserved[p] <= onHand[p]
                     /\ 0 <= picked[p] /\ picked[p] <= onHand[p]
                     /\ \A l \in Location : 0 <= located[p][l]

\* No commit is refused by a CHECK of sales_order_items: what is returned
\* by cancelled pickings and short packings never takes the released units
\* below the shipped ones.
SalesChecks ==
  \A s \in Sale, p \in Product :
    /\ 0 <= sales[s].shippedQuantity[p]
    /\ sales[s].shippedQuantity[p] <= sales[s].releasedQuantity[p]

\* No commit is refused: the columns stay within the CHECK constraints.
DbChecks == StockChecks /\ SalesChecks

Spec == Init /\ [][Next]_vars

CheckedSpec == Init /\ [][Next /\ DbChecks']_vars

-----------------------------------------------------------------------------
(***************************************************************************)
(* Properties.                                                             *)
(***************************************************************************)

\* Columns are integers and orders are well-formed rows.
TypeOK ==
  /\ onHand \in [Product -> Int]
  /\ reserved \in [Product -> Int]
  /\ picked \in [Product -> Int]
  /\ located \in [Product -> [Location -> Int]]
  /\ pickings \in [Picking -> PickingOrder]
  /\ packings \in [Picking -> PackingOrder]
  /\ sales \in [Sale -> SalesOrder]
  /\ dispatched \in [Picking -> Units]
  /\ deleting \subseteq Picking

\* warehouse_stock.reserved is the sum of the items' reservations: no
\* handler of any order changes one without the other.
ReservedIsSum ==
  \A p \in Product :
    reserved[p] = Total([o \in Picking |-> pickings[o].reservedQuantity[p]], MaxPickings)

\* A picking whose units are still in the warehouse: being picked, or
\* completed and its packing (if there is one) not finished.
Outstanding(o) ==
  \/ pickings[o].status \in Editable
  \/ pickings[o].status = "completed" /\ packings[o].status \notin Finished

PickedBy(o, p) == IF Outstanding(o) THEN pickings[o].pickedQuantity[p] ELSE 0

\* warehouse_stock.picked is the sum of what the outstanding orders picked,
\* so the Math.max(0, ...) of the code never hides a difference.
PickedIsSum ==
  \A p \in Product :
    picked[p] = Total([o \in Picking |-> PickedBy(o, p)], MaxPickings)

\* What an order should hold reserved: all it asks for while it is being
\* picked, what was picked until its packing ends, then nothing.
ReservationDue(o, p) ==
  IF pickings[o].status \in Editable THEN pickings[o].quantity[p]
  ELSE IF Outstanding(o) THEN pickings[o].pickedQuantity[p] ELSE 0

\* Through pickings and packings that finish, are cancelled, deleted and
\* made again, each item's reservation is the one its order should hold.
ReservationFollowsOrder ==
  \A o \in Picking, p \in Product :
    pickings[o].reservedQuantity[p] = ReservationDue(o, p)

\* How the rows of one order relate: a packing exists only for a completed
\* picking, packs at most what was picked, and until it completes the order
\* has dispatched nothing; a deletion under way is of a pending packing.
OrderAgrees(o) ==
  /\ pickings[o].status = "none" => pickings[o] = NoPicking
  /\ packings[o].status # "none" => pickings[o].status = "completed"
  /\ packings[o].status # "completed" => dispatched[o] = Nothing
  /\ o \in deleting => packings[o].status = "pending"
  /\ \A p \in Product :
       /\ dispatched[o][p] <= pickings[o].pickedQuantity[p]
       /\ pickings[o].pickedQuantity[p] <= pickings[o].quantity[p]
       /\ packings[o].status # "none" =>
            /\ packings[o].packedQuantity[p] <= packings[o].quantity[p]
            /\ packings[o].quantity[p] <= pickings[o].pickedQuantity[p]

OrdersAgree == \A o \in Picking : OrderAgrees(o)

\* checkStockIntegrity reports nothing: no negative balance, reserved and
\* picked within the units on hand, locations within what is not picked.
IntegrityReportEmpty ==
  \A p \in Product :
    /\ onHand[p] >= 0 /\ reserved[p] >= 0 /\ picked[p] >= 0
    /\ reserved[p] <= onHand[p]
    /\ picked[p] <= onHand[p]
    /\ LocatedQuantity(located[p]) <= onHand[p] - picked[p]

\* What an order reserved can be picked: updateItem without a location
\* never answers INSUFFICIENT_STOCK, whatever the other orders did.
PickNeverRefused ==
  \A o \in Picking, p \in Product :
    pickings[o].status \in Editable =>
      CanAllocate(onHand[p], picked[p], located[p],
                  pickings[o].quantity[p] - pickings[o].pickedQuantity[p], NoLocation)

\* What was packed can be dispatched: completing or cancelling a packing
\* never answers INSUFFICIENT_STOCK.
DispatchNeverRefused ==
  \A o \in Picking, p \in Product :
    packings[o].status \in Editable =>
      onHand[p] - packings[o].packedQuantity[p]
        >= reserved[p] - pickings[o].reservedQuantity[p]

\* The units a picking order sends out, over all its packings, are units
\* that were picked for it.
DispatchedWerePicked ==
  \A o \in Picking, p \in Product : dispatched[o][p] <= pickings[o].pickedQuantity[p]

\* A sales order counts as released what shipped and what its outstanding
\* pickings hold, and as shipped what its pickings dispatched.
SaleAccounts ==
  \A s \in Sale, p \in Product :
    /\ sales[s].shippedQuantity[p] =
         Total([o \in Picking |-> IF pickings[o].sale = s THEN dispatched[o][p] ELSE 0],
               MaxPickings)
    /\ sales[s].releasedQuantity[p] =
         sales[s].shippedQuantity[p] +
         Total([o \in Picking |-> IF pickings[o].sale = s /\ Outstanding(o)
                                 THEN pickings[o].quantity[p] ELSE 0], MaxPickings)

\* A sales order never has more released than was ordered.
NeverOverReleased ==
  \A s \in Sale, p \in Product : sales[s].releasedQuantity[p] <= sales[s].quantity[p]

\* Once a sales order is shipped or cancelled nothing changes it: no late
\* picking or packing of it can still report progress.
ClosedSaleStaysClosed ==
  [][\A s \in Sale : sales[s].status \in ClosedSale => sales'[s] = sales[s]]_vars

\* "Solo se pueden eliminar ordenes pending": a packing that disappears
\* was pending when it did.
OnlyPendingPackingsDeleted ==
  [][\A o \in Picking :
       packings'[o].status = "none" => packings[o].status \in {"none", "pending"}]_vars

\* The README's rule for picking an item: reserved grows by what is picked.
PickingReserves ==
  [][\A o \in Picking, p \in Product :
       /\ pickings[o].status \in Editable
       /\ pickings'[o].status \in Editable
       /\ pickings'[o].pickedQuantity[p] # pickings[o].pickedQuantity[p]
       => reserved'[p] - reserved[p] =
            pickings'[o].pickedQuantity[p] - pickings[o].pickedQuantity[p]]_vars

-----------------------------------------------------------------------------
Ledger == INSTANCE ReservationLedger WITH
            Order <- Picking,
            stock <- onHand,
            claim <- [o \in Picking |-> pickings[o].reservedQuantity]

\* Fulfilment implements the ledger of claims: a reservation is granted from
\* unclaimed units only, only shrinks, and dispatching an order takes out at
\* most its own claim and ends it.
LedgerSpec == Ledger!Spec

=============================================================================
