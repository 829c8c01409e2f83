------------------------------ MODULE LotStock ------------------------------
(***************************************************************************)
(* The lots of one product in every warehouse, next to its stock counters: *)
(* what enters and leaves by hand (stock.service, receipts, counts and     *)
(* imports all come to the same two paths), what picking items take from   *)
(* lots and give back, what packings ship, and the switch of lot tracking  *)
(* in products.service, which reads the stock in one statement and writes  *)
(* the product in another, with no lock in between.                        *)
(*                                                                         *)
(* An order stands for the single item of a picking and for its packing:   *)
(* Shelves and Fulfilment model what the two documents do to locations and *)
(* reservations, and here only their end matters: shipped, or released.    *)
(***************************************************************************)
EXTENDS Lots

CONSTANTS NumWarehouses, NumOrders,
          Expiries,       \* the expiries a caller may give with a lot
          NamedLots,      \* lots a caller may ask for, or NoLot
          MaxReceived     \* bound: units that enter

\* What an instance has to give its constants.
LotStockAssumption ==
  /\ NumWarehouses \in Nat /\ NumOrders \in Nat
  /\ Expiries \subseteq Nat /\ NoExpiry \in Expiries
  /\ NamedLots \subseteq Lot \union {NoLot}
  /\ MaxReceived \in Nat

Warehouse == 1..NumWarehouses

NoWarehouse == 0

Order == 1..NumOrders

VARIABLES product,    \* its lot tracking, and an update that passed its check
          known,      \* lots that exist: the first `known`
          expires,    \* the expiry of each
          stock,      \* warehouse_stock and lot_stock per warehouse
          orders,     \* picking items, with picking_item_lots
          moved,      \* stock_movements: units per type
          lotUnits    \* what entered each lot less what was adjusted out of it

lotVars == <<product, known, expires, stock, orders, moved, lotUnits>>

Units == 1..MaxReceived

MovementType == {"adjustment_increase", "adjustment_decrease", "order_shipment",
                 "transfer_out", "transfer_in"}

NoOrder == [warehouse |-> NoWarehouse, reserved |-> 0, picked |-> 0,
            lots |-> NoLotUnits, status |-> "none"]

LotInit ==
  /\ product \in [tracked : BOOLEAN, update : {"none"}]
  /\ known = 0
  /\ expires = [l \in Lot |-> NoExpiry]
  /\ stock = [w \in Warehouse |->
                [onHand |-> 0, reserved |-> 0, picked |-> 0, lots |-> NoLotUnits]]
  /\ orders = [o \in Order |-> NoOrder]
  /\ moved = [t \in MovementType |-> 0]
  /\ lotUnits = NoLotUnits

Available(w) == stock[w].onHand - stock[w].reserved

-----------------------------------------------------------------------------
(* Entering and leaving lots *)

\* resolveLot: an existing lot keeps its expiry, and gets one if it had none.
Resolvable(l, e) ==
  \/ l = known + 1
  \/ l <= known /\ (e = NoExpiry \/ expires[l] \in {e, NoExpiry})

\* receiveIntoLot: a lot is given exactly when the product is tracked.
Receivable(l, e) ==
  IF product.tracked THEN l \in Lot /\ Resolvable(l, e) ELSE l = NoLot /\ e = NoExpiry

Resolve(l, e) ==
  /\ known' = Greatest(known, l)
  /\ expires' = IF l # NoLot /\ e # NoExpiry THEN [expires EXCEPT ![l] = e] ELSE expires

\* takeFromLots for any product: nothing is taken of an untracked one.
LotsTaken(w, q, l) ==
  IF product.tracked THEN TakeFromLots(expires, stock[w].lots, q, l) ELSE <<>>

LotsReturned(o, q, l) ==
  IF product.tracked THEN ReturnPickedLots(expires, orders[o].lots, q, l) ELSE <<>>

\* Its refusals: a lot named for an untracked product, or too few units.
Served(allocation, q, l) ==
  IF product.tracked THEN Allocated(allocation) = q ELSE l = NoLot

Moved(type, q) == [moved EXCEPT ![type] = @ + q]

\* registerMovement (increase), and with it receipts, counts and imports.
IncreaseStock(w, q, l, e) ==
  /\ moved["adjustment_increase"] + q <= MaxReceived
  /\ Receivable(l, e)
  /\ Resolve(l, e)
  /\ LET entering == IF l = NoLot THEN <<>> ELSE <<[lot |-> l, quantity |-> q]>>
     IN  /\ stock' = [stock EXCEPT ![w].onHand = @ + q,
                                   ![w].lots = AddToLots(@, entering)]
         /\ lotUnits' = AddToLots(lotUnits, entering)
  /\ moved' = Moved("adjustment_increase", q)
  /\ UNCHANGED <<product, orders>>

\* registerMovement (decrease)
DecreaseStock(w, q, l) ==
  /\ q <= Available(w)
  /\ LET taken == LotsTaken(w, q, l)
     IN  /\ Served(taken, q, l)
         /\ stock' = [stock EXCEPT ![w].onHand = @ - q,
                                   ![w].lots = TakenFrom(@, taken)]
         /\ lotUnits' = TakenFrom(lotUnits, taken)
  /\ moved' = Moved("adjustment_decrease", q)
  /\ UNCHANGED <<product, known, expires, orders>>

-----------------------------------------------------------------------------
(* Orders *)

Reserve(o, w, q) ==
  /\ orders[o].status = "none"
  /\ q <= Available(w)
  /\ orders' = [orders EXCEPT ![o] =
       [NoOrder EXCEPT !.warehouse = w, !.reserved = q, !.status = "open"]]
  /\ stock' = [stock EXCEPT ![w].reserved = @ + q]
  /\ UNCHANGED <<product, known, expires, moved, lotUnits>>

Open(o) == orders[o].status = "open"

\* movePickedUnits (delta > 0) with recordPickedLots
Pick(o, q, l) ==
  /\ Open(o) /\ orders[o].picked + q <= orders[o].reserved
  /\ LET w == orders[o].warehouse
         taken == LotsTaken(w, q, l)
     IN  /\ Served(taken, q, l)
         /\ stock' = [stock EXCEPT ![w].picked = @ + q,
                                   ![w].lots = TakenFrom(@, taken)]
         /\ orders' = [orders EXCEPT ![o].picked = @ + q,
                                     ![o].lots = AddToLots(@, taken)]
  /\ UNCHANGED <<product, known, expires, moved, lotUnits>>

\* movePickedUnits (delta < 0)
Unpick(o, q, l) ==
  /\ Open(o) /\ q <= orders[o].picked
  /\ LET w == orders[o].warehouse
         back == LotsReturned(o, q, l)
     IN  /\ Served(back, q, l)
         /\ stock' = [stock EXCEPT ![w].picked = @ - q, ![w].lots = AddToLots(@, back)]
         /\ orders' = [orders EXCEPT ![o].picked = @ - q, ![o].lots = TakenFrom(@, back)]
  /\ UNCHANGED <<product, known, expires, moved, lotUnits>>

\* consumeReservations: of the picked units q are shipped and the others go
\* back to their lots; with q = 0 this is also releasePicked and the release
\* of the reservation, which a cancellation does.  The picked quantity of the
\* item and the rows of the shipped lots stay as they are.
End(o, q, status) ==
  /\ Open(o) /\ q <= orders[o].picked
  /\ LET w == orders[o].warehouse
         unshipped == orders[o].picked - q
         back == IF unshipped > 0 THEN LotsReturned(o, unshipped, NoLot) ELSE <<>>
     IN  /\ stock[w].onHand - q >= stock[w].reserved - orders[o].reserved
         /\ unshipped > 0 => Served(back, unshipped, NoLot)
         /\ stock' = [stock EXCEPT ![w] =
              [onHand |-> @.onHand - q,
               reserved |-> @.reserved - orders[o].reserved,
               picked |-> Greatest(0, @.picked - orders[o].picked),
               lots |-> AddToLots(@.lots, back)]]
         /\ orders' = [orders EXCEPT ![o].reserved = 0, ![o].status = status,
                                     ![o].lots = TakenFrom(@, back)]
  /\ moved' = Moved("order_shipment", q)
  /\ UNCHANGED <<product, known, expires, lotUnits>>

Ship(o, q) == End(o, q, "shipped")

Release(o) == End(o, 0, "cancelled")

StockStep ==
  \/ \E w \in Warehouse, q \in Units :
       \/ \E l \in Lot \union {NoLot}, e \in Expiries : IncreaseStock(w, q, l, e)
       \/ \E l \in NamedLots : DecreaseStock(w, q, l)
       \/ \E o \in Order : Reserve(o, w, q)
  \/ \E o \in Order :
       \/ \E q \in Units, l \in NamedLots : Pick(o, q, l) \/ Unpick(o, q, l)
       \/ \E q \in 0..MaxReceived : Ship(o, q)
       \/ Release(o)

-----------------------------------------------------------------------------
(* The switch of lot tracking *)

\* assertWithoutStock: the sum of all warehouses is zero.
WithoutStock == \A w \in Warehouse : stock[w].onHand = 0

\* update: the check of a switch to the other value
CheckSwitch ==
  /\ product.update = "none"
  /\ WithoutStock
  /\ product' = [product EXCEPT !.update = IF product.tracked THEN "off" ELSE "on"]
  /\ UNCHANGED <<known, expires, stock, orders, moved, lotUnits>>

\* update: the write of the row.  No lock is held since the check.
WriteSwitch ==
  /\ product.update # "none"
  /\ product' = [tracked |-> product.update = "on", update |-> "none"]
  /\ UNCHANGED <<known, expires, stock, orders, moved, lotUnits>>

Switch == CheckSwitch \/ WriteSwitch

SwitchNext == StockStep \/ Switch

-----------------------------------------------------------------------------
(* Correctness *)

LotRow == [Lot -> Nat]

\* Type invariant.  Quantities are natural numbers: no pick, return or
\* shipment takes from a counter or a lot what it does not hold.
LotStockTypeOK ==
  /\ product \in [tracked : BOOLEAN, update : {"none", "on", "off"}]
  /\ known \in 0..NumLots /\ expires \in [Lot -> Expiries]
  /\ stock \in [Warehouse -> [onHand : Nat, reserved : Nat, picked : Nat, lots : LotRow]]
  /\ orders \in [Order -> [warehouse : Warehouse \union {NoWarehouse}, reserved : Nat,
                           picked : Nat, lots : LotRow,
                           status : {"none", "open", "shipped", "cancelled"}]]
  /\ moved \in [MovementType -> Nat]

\* Schema comment on LotStock, checked by the integrity report: for a tracked
\* product the lots of a warehouse add up to the units on its shelves.
LotsOnShelves ==
  product.tracked =>
    \A w \in Warehouse : Total(stock[w].lots, NumLots) = stock[w].onHand - stock[w].picked

\* The lots an open order took are the units it picked, so its cancellation
\* and its shipment find the lots of every unit they give back.
OrdersHoldTheirLots ==
  product.tracked =>
    \A o \in Order : Open(o) => Total(orders[o].lots, NumLots) = orders[o].picked

LotUnitsOnShelves(l) == Total([w \in Warehouse |-> stock[w].lots[l]], NumWarehouses)

LotUnitsInOrders(l) == Total([o \in Order |-> orders[o].lots[l]], NumOrders)

\* Units are picked, adjusted and moved in the order of the strategy: when no
\* caller names a lot, a lot only loses units once those before it are empty.
LeavesInOrder ==
  \A w \in Warehouse, a, b \in Lot :
    /\ stock'[w].lots[a] < stock[w].lots[a]
    /\ Leaves(expires, b, a)
    => stock'[w].lots[b] = 0

LeaveInOrder == [][LeavesInOrder]_<<stock, expires>>

\* "latest expiry first so the earliest-expiring ones keep shipping": an order
\* gives up a lot only when it holds none of those that should leave after it.
KeepsEarliest ==
  \A o \in Order, a, b \in Lot :
    /\ orders'[o].lots[a] < orders[o].lots[a]
    /\ Leaves(expires, a, b)
    => orders'[o].lots[b] = 0

EarliestKept == [][KeepsEarliest]_<<orders, expires>>

=============================================================================
