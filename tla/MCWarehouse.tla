----------------------------- MODULE MCWarehouse -----------------------------
(***************************************************************************)
(* What a warehouse does beside the fulfilment of orders, as one instance  *)
(* for TLC: receipts, waves, lots and transfers, cycle counts, locations,  *)
(* row locks, the status of sales orders, and shipping.                    *)
(*                                                                         *)
(* These parts share no state in the model (the stock rows each of them    *)
(* moves are its own), so a behaviour is one of a single part, which       *)
(* `part` names, and the others stay where they start.  All interleavings  *)
(* within a part are explored, and none between parts, which would only    *)
(* multiply the states.                                                    *)
(***************************************************************************)
EXTENDS Integers, FiniteSets, TLC

CONSTANTS None,                                 \* null, in every part
          Goods, FewGoods,                      \* products
          Transactions,                         \* that run at the same time
          SomeUnits, FewUnits                   \* bounds, and units of an order

VARIABLE part

-----------------------------------------------------------------------------
(* Two receipts beside a purchase order of two products, and of one beside *)
(* a dispatched order of it; one return of two lines of that order.        *)

CONSTANTS Purchases, Dispatches, SomeReceipts, FewReceipts, SomeLines, FewLines

VARIABLES purchases, receipts, received, writing

ShippedEach(units) == [d \in Dispatches |-> [p \in FewGoods |-> units]]

P == INSTANCE Receiving WITH
       Product <- Goods, Order <- Purchases, Dispatch <- {},
       NumReceipts <- SomeReceipts, NumLines <- FewLines, MaxQuantity <- FewUnits,
       Shipped <- <<>>, orders <- purchases, onHand <- received

R == INSTANCE Receiving WITH
       Product <- FewGoods, Order <- Purchases, Dispatch <- Dispatches,
       NumReceipts <- SomeReceipts, NumLines <- FewLines, MaxQuantity <- SomeUnits,
       Shipped <- ShippedEach(FewUnits), orders <- purchases, onHand <- received

OneReturn == INSTANCE Receiving WITH
               Product <- FewGoods, Order <- {}, Dispatch <- Dispatches,
               NumReceipts <- FewReceipts, NumLines <- SomeLines, MaxQuantity <- SomeUnits,
               Shipped <- ShippedEach(SomeUnits), orders <- purchases, onHand <- received

receivingVars == <<purchases, receipts, received, writing>>

ReceivingInit ==
  CASE part = "purchases" -> P!Init
    [] part = "one return" -> OneReturn!Init
    [] OTHER -> R!Init

ReceivingNext ==
  CASE part = "purchases" -> P!Next
    [] part = "returns" -> R!Next
    [] part = "one return" -> OneReturn!Next
    [] OTHER -> UNCHANGED receivingVars

-----------------------------------------------------------------------------
(* Two waves over orders of a unit; one wave of orders that nobody else    *)
(* picks, the first of two units.                                          *)

CONSTANTS PickWaves, LoneWave, SomeOrders, FewOrders, MostUnits

VARIABLES waveOrders, waves, creating, picking, completing

Two == INSTANCE Waves WITH
         NumOrders <- FewOrders, Wave <- PickWaves,
         Asked <- [o \in 1..FewOrders |-> FewUnits], MaxPick <- SomeUnits,
         orders <- waveOrders

Alone == INSTANCE Waves WITH
           NumOrders <- SomeOrders, Wave <- {LoneWave},
           Asked <- [o \in 1..SomeOrders |-> IF o = 1 THEN SomeUnits ELSE FewUnits],
           MaxPick <- MostUnits, orders <- waveOrders

waveVars == <<waveOrders, waves, creating, picking, completing>>

WavesInit == IF part = "wave alone" THEN Alone!Init ELSE Two!Init

WavesNext ==
  CASE part = "waves" -> Two!Next
    [] part = "wave alone" -> Alone!WaveOnlyNext
    [] OTHER -> UNCHANGED waveVars

-----------------------------------------------------------------------------
(* Two lots of a product whose tracking is switched; the same while units  *)
(* move between two warehouses and callers name lots.                      *)

CONSTANTS SomeLots, LotStrategy, LotExpiries, SomeWarehouses, FewWarehouses,
          Pickings, SomeTransfers, MoreUnits

VARIABLES product, known, expires, stock, lotOrders, moved, lotUnits, transfers

Sw == INSTANCE Transfers WITH
        NumLots <- SomeLots, Strategy <- LotStrategy, NumWarehouses <- FewWarehouses,
        NumOrders <- Pickings, Expiries <- LotExpiries, NamedLots <- {0},
        MaxReceived <- MoreUnits, NumTransfers <- SomeTransfers,
        MaxTransferred <- MoreUnits, orders <- lotOrders

T == INSTANCE Transfers WITH
       NumLots <- SomeLots, Strategy <- LotStrategy, NumWarehouses <- SomeWarehouses,
       NumOrders <- Pickings, Expiries <- LotExpiries, NamedLots <- 0..SomeLots,
       MaxReceived <- SomeUnits, NumTransfers <- SomeTransfers,
       MaxTransferred <- SomeUnits, orders <- lotOrders

lotVars == <<product, known, expires, stock, lotOrders, moved, lotUnits, transfers>>

LotsInit ==
  /\ IF part = "lots" THEN Sw!Init ELSE T!Init
  /\ part \notin {"lots", "transfers"} => product.tracked

LotsNext ==
  CASE part = "lots" -> Sw!SwitchNext /\ UNCHANGED transfers
    [] part = "transfers" -> T!Next
    [] OTHER -> UNCHANGED lotVars

-----------------------------------------------------------------------------
(* A count of a location and of the units outside of locations.            *)

CONSTANTS Bays, Countings, SomeSurprises

VARIABLES books, real, surprises, counts

C == INSTANCE CycleCounts WITH
       NumLocations <- Bays, Count <- Countings, MaxUnits <- SomeUnits,
       MaxSurprises <- SomeSurprises

countVars == <<books, real, surprises, counts>>

CountsNext == IF part = "counts" THEN C!Next ELSE UNCHANGED countVars

-----------------------------------------------------------------------------
(* Locations.  Transactions over two products beside moves and deletions;   *)
(* deeper trees, undisturbed between check and write; a tree that files    *)
(* are imported into.                                                      *)

CONSTANTS Places, MorePlaces, Depth, Room, SomeProducts, SomeRequests, SomeRows

VARIABLES parent, units, requests

L == INSTANCE Locations WITH
       Location <- Places, Root <- None, NumProducts <- SomeProducts, Capacity <- Room,
       MaxDepth <- Depth, MaxUnits <- SomeUnits, MaxRequests <- SomeRequests

Deep == INSTANCE Locations WITH
          Location <- MorePlaces, Root <- None, NumProducts <- 1, Capacity <- 1,
          MaxDepth <- Depth, MaxUnits <- SomeUnits, MaxRequests <- 1

Tree == INSTANCE ImportTree WITH
          Location <- MorePlaces, Root <- None, NumProducts <- 0, Capacity <- 0,
          MaxDepth <- Depth, MaxUnits <- 0, MaxRequests <- 1, MaxRows <- SomeRows,
          MaxParentDepth <- Depth + 1

locationVars == <<parent, units, requests>>

LocationsInit ==
  CASE part = "deep locations" -> Deep!Init
    [] part = "import of locations" -> Tree!Init
    [] OTHER -> L!Init

LocationsNext ==
  CASE part = "locations" -> L!Next
    [] part = "deep locations" -> Deep!UndisturbedNext
    [] part = "import of locations" -> Tree!UndisturbedTreeNext
    [] OTHER -> UNCHANGED locationVars

-----------------------------------------------------------------------------
(* Three transactions that lock rows; three that report to a sales order   *)
(* of one unit of a product and two of another.                            *)

VARIABLES locking, held, items, status, reporting

K == INSTANCE LockOrder WITH Process <- Transactions, doing <- locking

LocksNext == IF part = "row locks" THEN K!Next ELSE UNCHANGED <<locking, held>>

S == INSTANCE SalesProgress WITH
       Process <- Transactions, Product <- Goods,
       Ordered <- [p \in Goods |-> IF p \in FewGoods THEN FewUnits ELSE SomeUnits],
       doing <- reporting

progressVars == <<items, status, reporting>>

ProgressNext == IF part = "sales progress" THEN S!Next ELSE UNCHANGED progressVars

-----------------------------------------------------------------------------
(* A packing, two carriers and two who deliver; the same, one at a time.   *)

CONSTANTS Packings, Carriers, Receivers, Handlers

VARIABLES completed, active, shipments, despatching

D == INSTANCE Shipping WITH
       Packing <- Packings, Carrier <- Carriers, NoCarrier <- None,
       Receiver <- Receivers, Request <- Handlers, doing <- despatching

shippingVars == <<completed, active, shipments, despatching>>

ShippingNext ==
  CASE part = "shipping" -> D!Next
    [] part = "shipping alone" -> D!AloneNext
    [] OTHER -> UNCHANGED shippingVars

-----------------------------------------------------------------------------

ASSUME ReceivingAssumption ==
  P!ReceivingAssumption /\ R!ReceivingAssumption /\ OneReturn!ReceivingAssumption
ASSUME WavesAssumption == Two!WavesAssumption /\ Alone!WavesAssumption
ASSUME TransfersAssumption ==
  /\ Sw!LotsAssumption /\ Sw!LotStockAssumption /\ Sw!TransfersAssumption
  /\ T!LotsAssumption /\ T!LotStockAssumption /\ T!TransfersAssumption
ASSUME CountsAssumption == C!CountsAssumption /\ Bays \in Nat
ASSUME LocationsAssumption ==
  /\ L!LocationsAssumption /\ Deep!LocationsAssumption
  /\ Tree!LocationsAssumption /\ Tree!ImportTreeAssumption
ASSUME SalesProgressAssumption == S!SalesProgressAssumption
ASSUME ShippingAssumption == D!ShippingAssumption /\ IsFiniteSet(Handlers)

vars ==
  <<part, receivingVars, waveVars, lotVars, countVars, locationVars, locking, held,
    progressVars, shippingVars>>

Init ==
  /\ part \in {"purchases", "returns", "one return", "waves", "wave alone", "lots", "transfers", "counts",
               "locations", "deep locations", "import of locations",
               "row locks", "sales progress", "shipping", "shipping alone"}
  /\ ReceivingInit /\ WavesInit /\ LotsInit /\ C!Init /\ LocationsInit
  /\ K!Init /\ S!Init /\ D!Init

Next ==
  /\ UNCHANGED part
  /\ ReceivingNext /\ WavesNext /\ LotsNext /\ CountsNext /\ LocationsNext
  /\ LocksNext /\ ProgressNext /\ ShippingNext

Spec == Init /\ [][Next]_vars

Symmetry == Permutations(PickWaves)

-----------------------------------------------------------------------------
(* What the run checks: the promises of the parts, grouped by what they     *)
(* are about.  Those that the code keeps only if nothing happens between    *)
(* the check of a request and its write are asked of the parts "alone".     *)

\* The type invariants of the parts, with the columns, the CHECK constraints
\* and the foreign keys of their tables.
WarehouseTypeOK ==
  /\ part = "purchases" => P!ReceivingTypeOK
  /\ part = "returns" => R!ReceivingTypeOK
  /\ part = "one return" => OneReturn!ReceivingTypeOK
  /\ part = "waves" => Two!WavesTypeOK
  /\ part = "wave alone" => Alone!WavesTypeOK
  /\ part = "lots" => Sw!TransfersTypeOK
  /\ part = "transfers" => T!TransfersTypeOK
  /\ part = "counts" => C!CountsTypeOK /\ C!CountsKeepStock
  /\ part = "locations" => L!LocationsTypeOK
  /\ part = "deep locations" => Deep!LocationsTypeOK
  /\ part = "import of locations" => Tree!LocationsTypeOK
  /\ part = "row locks" => K!LocksTypeOK
  /\ part = "sales progress" => S!ProgressTypeOK
  /\ part \in {"shipping", "shipping alone"} => D!ShippingTypeOK

\* receipts.service.ts: what is on hand is what the completed receipts brought;
\* the items of a purchase order count it, however they were replaced before;
\* more than what was ordered arrives only if that was confirmed; the status of
\* an order follows; one return takes back no more than its order shipped.
ReceiptsAccounted ==
  /\ part = "purchases" =>
       P!StockWasReceived /\ P!ItemsCountReceipts /\ P!ExcessConfirmed /\ P!OrderStatusFollows
  /\ part = "returns" =>
       R!StockWasReceived /\ R!ItemsCountReceipts /\ R!ExcessConfirmed /\ R!OrderStatusFollows
  /\ part = "one return" => OneReturn!StockWasReceived /\ OneReturn!OneReturnWithinShipped

\* lot-stock.ts and stock-transfers.service.ts: what is sent arrives once or is
\* known to be missing, and the units of each lot are known wherever they are,
\* also when the tracking is switched; while it is not switched, the lots add up
\* to the units on shelves and orders find the lots of every unit they give back.
UnitsTraceable ==
  /\ part = "lots" => Sw!UnitsConserved /\ Sw!LotsTraceableAcross
  /\ part = "transfers" =>
       T!UnitsConserved /\ T!LotsTraceableAcross /\ T!LotsOnShelves /\ T!OrdersHoldTheirLots

\* putAway, by transactions of several lines and products at once: how far they
\* exceed the capacity of a location.
CapacityBounded == part = "locations" => L!FilledOncePerProduct

\* locations.service.ts and planLocations: no location is inside itself.
NeverInsideItself ==
  /\ part = "deep locations" => Deep!NeverInsideItself
  /\ part = "import of locations" => Tree!NeverInsideItself

\* stock-lock.ts: without a release, a wave pick or an import of balances
\* among them, transactions never wait for each other in a circle.
OrderedNeverDeadlock == part = "row locks" => K!OrderedNeverDeadlock

\* What is finished is finished whole, and once: the orders that stay in a
\* completed wave have ended, a sales order that is shipped has shipped all it
\* asked for, and a completed packing leaves the warehouse in one shipment.
FinishedWhole ==
  /\ part = "waves" => Two!CompletedWaveSettled
  /\ part = "wave alone" => Alone!CompletedWaveSettled
  /\ part = "sales progress" => S!ShippedWasAll
  /\ part \in {"shipping", "shipping alone"} => D!LeavesOnce

\* Late steps change nothing that has ended: purchase orders and receipts,
\* the orders of a wave, a cancelled sales order and a delivered shipment.
EndedIsFinal ==
  [][ /\ part = "purchases" => P!KeepsEnded
      /\ part = "returns" => R!KeepsEnded
      /\ part = "waves" => Two!KeepsEnded
      /\ part = "sales progress" => S!KeepsCancelled
      /\ part = "shipping alone" => D!KeepsReceiver ]_vars

\* A write does what was asked when it was checked: a wave pick spreads all its
\* units over the orders or none, lots leave and come back in the order of the
\* strategy, an approved count makes right the books of what did not move, only
\* empty locations are deleted, and an import writes the tree of its file.
WritesAsAsked ==
  [][ /\ part = "wave alone" => Alone!PickAdds
      /\ part = "lots" => Sw!LeavesInOrder /\ Sw!KeepsEarliest
      /\ part = "counts" => C!Corrects
      /\ part = "deep locations" => Deep!DeletesEmpty
      /\ part = "import of locations" => Tree!ImportsAsAsked ]_vars

=============================================================================
