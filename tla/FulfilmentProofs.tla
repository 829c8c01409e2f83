--------------------------- MODULE FulfilmentProofs ---------------------------
(*****************************************************************************)
(* Types and safety of Fulfilment.  TypeOK is inductive: each request writes *)
(* well-formed rows if it reads well-formed rows, so its proof goes request  *)
(* by request, with one lemma per table a request writes.                    *)
(*                                                                           *)
(* A request works on the rows of one order and moves the counters of the    *)
(* stock rows by the change of those rows, so a counter stays the sum over   *)
(* the orders (SumFollows).  The inductive invariant StockInv says in        *)
(* addition what each order holds in each state: picked units are reserved   *)
(* units (PickedIsReserved), which with reserved <= onHand bounds every      *)
(* column the requests subtract from.                                        *)
(*****************************************************************************)
EXTENDS Fulfilment, ShelfTheorems

\* The status computed for a sales order is one of the enum's.
LEMMA StatusInSet ==
  ASSUME NEW items, NEW quantity, NEW released, NEW shipped
  PROVE  SalesOrderStatus(items, quantity, released, shipped) \in SaleStatus
BY DEF SalesOrderStatus, SaleStatus, ClosedSale

\* The fields of one row, for the leaves that look inside it.
LEMMA RowFields ==
  ASSUME TypeOK
  PROVE  /\ \A o \in Picking :
              /\ pickings[o] \in PickingOrder
              /\ pickings[o].status \in OrderStatus
              /\ pickings[o].sale \in Sale \cup {NoSale}
              /\ pickings[o].quantity \in [Product -> Nat]
              /\ pickings[o].reservedQuantity \in [Product -> Nat]
              /\ pickings[o].pickedQuantity \in [Product -> Nat]
              /\ packings[o] \in PackingOrder
              /\ packings[o].status \in OrderStatus
              /\ packings[o].quantity \in [Product -> Nat]
              /\ packings[o].packedQuantity \in [Product -> Nat]
              /\ dispatched[o] \in [Product -> Nat]
         /\ \A s \in Sale :
              /\ sales[s] \in SalesOrder
              /\ sales[s].status \in SaleStatus
              /\ sales[s].quantity \in [Product -> Nat]
              /\ sales[s].releasedQuantity \in [Product -> Int]
              /\ sales[s].shippedQuantity \in [Product -> Int]
BY DEF TypeOK, PickingOrder, PackingOrder, SalesOrder, Units

\* The rows of orders that do not exist are well-formed too.
LEMMA EmptyTyped ==
  /\ Nothing \in Units /\ Nothing \in [Product -> Nat] /\ Nothing \in [Product -> Int]
  /\ NoPicking \in PickingOrder
  /\ NoPacking \in PackingOrder
  /\ NoSaleOrder \in SalesOrder
BY DEF Nothing, Units, NoPicking, NoPacking, NoSaleOrder, PickingOrder, PackingOrder,
       SalesOrder, OrderStatus, SaleStatus

\* The empty database is well-typed.
LEMMA TypeInit == Init => TypeOK
BY EmptyTyped DEF Init, TypeOK, NoUnits, Nothing

\* Reporting progress keeps the sales orders well-formed.
LEMMA ProgressTyped ==
  ASSUME TypeOK, NEW s \in Sale \cup {NoSale},
         NEW released \in [Product -> Int], NEW shipped \in [Product -> Int]
  PROVE  SalesAfterProgress(s, released, shipped) \in [Sale -> SalesOrder]
<1>1. CASE s = NoSale
  BY <1>1 DEF SalesAfterProgress, TypeOK
<1>2. CASE s # NoSale
  <2> DEFINE order == sales[s]
             rel == [p \in Product |-> order.releasedQuantity[p] + released[p]]
             shp == [p \in Product |-> order.shippedQuantity[p] + shipped[p]]
             status == IF order.status = "cancelled" THEN order.status
                       ELSE SalesOrderStatus(ItemsOf(order), order.quantity, rel, shp)
             after == [order EXCEPT !.releasedQuantity = rel,
                                    !.shippedQuantity = shp,
                                    !.status = status]
  <2>1. order \in SalesOrder /\ s \in Sale
    BY <1>2, RowFields
  <2>2. rel \in [Product -> Int] /\ shp \in [Product -> Int]
    BY <2>1, RowFields
  <2>3. status \in SaleStatus
    BY <2>1, StatusInSet, RowFields
  <2>4. after \in SalesOrder
    <3> HIDE DEF order, rel, shp, status
    <3> QED BY <2>1, <2>2, <2>3 DEF SalesOrder
  <2>5. SalesAfterProgress(s, released, shipped) = [sales EXCEPT ![s] = after]
    BY <1>2 DEF SalesAfterProgress
  <2> HIDE DEF after
  <2> QED BY <2>1, <2>4, <2>5 DEF TypeOK
<1> QED BY <1>1, <1>2

\* Adjustments and relocations keep the types.
LEMMA StockTyped == ASSUME TypeOK, StockNext PROVE TypeOK'
<1> USE FulfilmentAssumption
<1>1. PICK p \in Product, q \in 1..MaxQuantity, l \in Location \cup {NoLocation} :
        \/ IncreaseStock(p, q, l)
        \/ DecreaseStock(p, q, l)
        \/ \E to \in Location \cup {NoLocation} : Relocate(p, q, l, to)
  BY DEF StockNext
<1>2. /\ PutAway(located[p], l, q) \in [Location -> Int]
      /\ AllocateOutbound(located[p], q, l) \in [Location -> Int]
  BY ShelvesTyped DEF TypeOK
<1>3. CASE IncreaseStock(p, q, l)
  BY <1>2, <1>3 DEF TypeOK, IncreaseStock
<1>4. CASE DecreaseStock(p, q, l)
  BY <1>2, <1>4 DEF TypeOK, DecreaseStock
<1>5. ASSUME NEW to \in Location \cup {NoLocation}, Relocate(p, q, l, to)
      PROVE  TypeOK'
  <2> DEFINE taken == Taken(located[p], q, l)
  <2>1. taken \in [Location -> Int]
    BY DEF TypeOK, Taken
  <2>2. PutAway(taken, to, q) \in [Location -> Int]
    BY <2>1, ShelvesTyped
  <2>3. located' = [located EXCEPT ![p] = PutAway(taken, to, q)]
    BY <1>5 DEF Relocate
  <2> HIDE DEF taken
  <2> QED BY <1>5, <2>2, <2>3 DEF TypeOK, Relocate
<1> QED BY <1>1, <1>3, <1>4, <1>5

\* The three parts of closing a picking: reservations, picked units, sales order.
LEMMA ReservedTyped ==
  ASSUME TypeOK, NEW o \in Picking, NEW target \in Units
  PROVE  /\ SettleReservations(o, target) => reserved' \in [Product -> Int]
         /\ ReleasePicked(o) => picked' \in [Product -> Int]
         /\ ReturnToSalesOrder(o) => sales' \in [Sale -> SalesOrder]
<1>1. SettleReservations(o, target) => reserved' \in [Product -> Int]
  BY RowFields DEF TypeOK, SettleReservations, Units
<1>2. ReleasePicked(o) => picked' \in [Product -> Int]
  BY RowFields DEF TypeOK, ReleasePicked, Greatest
<1>3. ASSUME ReturnToSalesOrder(o)
      PROVE  sales' \in [Sale -> SalesOrder]
  <2> DEFINE back == [p \in Product |-> - pickings[o].quantity[p]]
  <2>1. sales' = SalesAfterProgress(pickings[o].sale, back, Nothing)
    BY <1>3 DEF ReturnToSalesOrder
  <2>2. back \in [Product -> Int]
    BY RowFields
  <2>3. pickings[o].sale \in Sale \cup {NoSale} /\ Nothing \in [Product -> Int]
    BY RowFields, EmptyTyped
  <2> HIDE DEF back
  <2> QED BY <2>1, <2>2, <2>3, ProgressTyped
<1> QED BY <1>1, <1>2, <1>3

\* Writing one well-formed row keeps the table well-formed.
LEMMA PickingWritten ==
  ASSUME TypeOK, NEW o \in Picking,
         NEW status \in OrderStatus, NEW kept \in Units, NEW taken \in Units
  PROVE  /\ [pickings EXCEPT ![o].status = status] \in [Picking -> PickingOrder]
         /\ [pickings EXCEPT ![o].reservedQuantity = kept] \in [Picking -> PickingOrder]
         /\ [pickings EXCEPT ![o].status = status, ![o].reservedQuantity = kept]
              \in [Picking -> PickingOrder]
         /\ [pickings EXCEPT ![o] = [@ EXCEPT !.pickedQuantity = taken,
                                              !.status = status]]
              \in [Picking -> PickingOrder]
BY DEF TypeOK, PickingOrder

\* The same for packing orders.
LEMMA PackingWritten ==
  ASSUME TypeOK, NEW o \in Picking, NEW status \in OrderStatus, NEW packed \in Units
  PROVE  /\ [packings EXCEPT ![o].status = status] \in [Picking -> PackingOrder]
         /\ [packings EXCEPT ![o] = [@ EXCEPT !.packedQuantity = packed,
                                              !.status = status]]
              \in [Picking -> PackingOrder]
BY DEF TypeOK, PackingOrder

\* createInTransaction reserves and inserts a well-formed picking order.
LEMMA CreateTyped ==
  ASSUME TypeOK, NEW o \in Picking, NEW requested \in Units,
         NEW s \in Sale \cup {NoSale}, CreateInTransaction(o, requested, s)
  PROVE  reserved' \in [Product -> Int] /\ pickings' \in [Picking -> PickingOrder]
<1>1. reserved' \in [Product -> Int]
  BY DEF CreateInTransaction, TypeOK, Units
<1> DEFINE row == [status |-> "pending", sale |-> s, quantity |-> requested,
                   reservedQuantity |-> requested, pickedQuantity |-> Nothing]
<1>2. row \in PickingOrder
  BY EmptyTyped DEF PickingOrder, OrderStatus, Editable
<1>3. pickings' = [pickings EXCEPT ![o] = row]
  BY DEF CreateInTransaction
<1> HIDE DEF row
<1> QED BY <1>1, <1>2, <1>3 DEF TypeOK

\* Every request on a picking order keeps the types.
LEMMA PickingTyped == ASSUME TypeOK, PickingNext PROVE TypeOK'
<1> USE FulfilmentAssumption
<1>1. PICK o \in Picking :
        \/ \E requested \in Requests : CreatePicking(o, requested)
        \/ StartPicking(o)
        \/ \E p \in Product, n \in 0..MaxQuantity, l \in Location \cup {NoLocation} :
             PickUnits(o, p, n, l) \/ UnpickUnits(o, p, n, l)
        \/ CompletePicking(o)
        \/ CancelPicking(o)
        \/ DeletePicking(o)
  BY DEF PickingNext
<1>2. pickings[o].pickedQuantity \in Units
  BY RowFields DEF Units
<1>3. {"in_progress", "completed", "cancelled"} \subseteq OrderStatus
  BY DEF OrderStatus, Editable, Finished
<1>4. ASSUME NEW requested \in Requests, CreatePicking(o, requested)
      PROVE  TypeOK'
  <2>1. requested \in Units
    BY DEF Requests, Units
  <2>2. CreateInTransaction(o, requested, NoSale)
    BY <1>4 DEF CreatePicking
  <2>3. reserved' \in [Product -> Int] /\ pickings' \in [Picking -> PickingOrder]
    BY <2>1, <2>2, CreateTyped
  <2> QED BY <1>4, <2>3 DEF TypeOK, CreatePicking
<1>5. CASE StartPicking(o)
  <2>1. pickings' \in [Picking -> PickingOrder]
    BY <1>2, <1>3, <1>5, PickingWritten DEF StartPicking
  <2> QED BY <1>5, <2>1 DEF TypeOK, StartPicking, stockVars
<1>6. ASSUME NEW p \in Product, NEW n \in 0..MaxQuantity,
             NEW l \in Location \cup {NoLocation},
             PickUnits(o, p, n, l) \/ UnpickUnits(o, p, n, l)
      PROVE  TypeOK'
  <2> DEFINE delta == n - pickings[o].pickedQuantity[p]
             taken == [pickings[o].pickedQuantity EXCEPT ![p] = n]
  <2>1. delta \in Int
    BY <1>2 DEF Units
  <2>2. taken \in Units
    BY <1>2 DEF Units
  <2>3. /\ PutAway(located[p], l, -delta) \in [Location -> Int]
        /\ AllocateOutbound(located[p], delta, l) \in [Location -> Int]
    BY <2>1, ShelvesTyped DEF TypeOK
  <2>4. /\ \/ located' = [located EXCEPT ![p] = AllocateOutbound(@, delta, l)]
           \/ located' = [located EXCEPT ![p] = PutAway(@, l, -delta)]
        /\ picked' = [picked EXCEPT ![p] = @ + delta]
        /\ pickings' = [pickings EXCEPT ![o] = [@ EXCEPT !.pickedQuantity = taken,
                                                        !.status = "in_progress"]]
        /\ UNCHANGED <<onHand, reserved, packings, sales, dispatched, deleting>>
    BY <1>6 DEF PickUnits, UnpickUnits
  <2> HIDE DEF delta, taken
  <2>5. pickings' \in [Picking -> PickingOrder]
    BY <1>3, <2>2, <2>4, PickingWritten
  <2>6. located' \in [Product -> [Location -> Int]]
    BY <2>3, <2>4 DEF TypeOK
  <2> QED BY <2>1, <2>4, <2>5, <2>6 DEF TypeOK
<1>7. CASE CompletePicking(o)
  <2>1. pickings' \in [Picking -> PickingOrder]
    BY <1>2, <1>3, <1>7, PickingWritten DEF CompletePicking, Settled
  <2> QED BY <1>2, <1>7, <2>1, ReservedTyped DEF TypeOK, CompletePicking
<1>8. CASE CancelPicking(o)
  <2>1. pickings' \in [Picking -> PickingOrder]
    BY <1>2, <1>3, <1>8, EmptyTyped, PickingWritten DEF CancelPicking, Settled
  <2> QED BY <1>8, <2>1, EmptyTyped, ReservedTyped DEF TypeOK, CancelPicking
<1>9. CASE DeletePicking(o)
  <2>1. pickings' \in [Picking -> PickingOrder]
    BY <1>9, EmptyTyped DEF DeletePicking, TypeOK
  <2> QED BY <1>9, <2>1, EmptyTyped, ReservedTyped DEF TypeOK, DeletePicking
<1> QED BY <1>1, <1>4, <1>5, <1>6, <1>7, <1>8, <1>9

\* consumeReservations keeps the type of all it writes.
LEMMA ConsumeTyped ==
  ASSUME TypeOK, NEW o \in Picking, NEW packed \in Units,
         ConsumeReservations(o, packed)
  PROVE  /\ onHand' \in [Product -> Int]
         /\ reserved' \in [Product -> Int]
         /\ picked' \in [Product -> Int]
         /\ dispatched' \in [Picking -> Units]
         /\ pickings' \in [Picking -> PickingOrder]
         /\ sales' \in [Sale -> SalesOrder]
<1>1. onHand' \in [Product -> Int] /\ reserved' \in [Product -> Int]
  BY RowFields DEF ConsumeReservations, TypeOK, Units
<1>2. picked' \in [Product -> Int]
  BY RowFields DEF ConsumeReservations, PickedAfter, Greatest, TypeOK
<1>3. dispatched' \in [Picking -> Units]
  BY DEF ConsumeReservations, TypeOK, Units
<1>4. pickings' \in [Picking -> PickingOrder]
  BY RowFields, EmptyTyped, PickingWritten DEF ConsumeReservations
<1>5. sales' \in [Sale -> SalesOrder]
  <2> DEFINE back == [p \in Product |-> - Unshipped(o, packed, p)]
  <2>1. sales' = SalesAfterProgress(pickings[o].sale, back, packed)
    BY DEF ConsumeReservations
  <2>2. back \in [Product -> Int]
    BY RowFields DEF Unshipped, Units
  <2>3. pickings[o].sale \in Sale \cup {NoSale} /\ packed \in [Product -> Int]
    BY RowFields DEF Units
  <2> HIDE DEF back
  <2> QED BY <2>1, <2>2, <2>3, ProgressTyped
<1> QED BY <1>1, <1>2, <1>3, <1>4, <1>5

\* Every request on a packing order keeps the types.
LEMMA PackingTyped == ASSUME TypeOK, PackingNext PROVE TypeOK'
<1> USE FulfilmentAssumption
<1>1. PICK o \in Picking :
        \/ CreatePacking(o)
        \/ StartPacking(o)
        \/ \E p \in Product, n \in 0..MaxQuantity : PackUnits(o, p, n)
        \/ CompletePacking(o)
        \/ CancelPacking(o)
        \/ CheckPackingDeletion(o)
        \/ DeletePackingRow(o)
  BY DEF PackingNext
<1>2. /\ pickings[o].pickedQuantity \in Units
      /\ packings[o].packedQuantity \in Units
  BY RowFields DEF Units
<1>3. {"pending", "in_progress", "completed", "cancelled"} \subseteq OrderStatus
  BY DEF OrderStatus, Editable, Finished
<1>4. CASE CreatePacking(o)
  <2> DEFINE row == [status |-> "pending", quantity |-> ToPack(o),
                     packedQuantity |-> Nothing]
  <2>1. row \in PackingOrder
    BY <1>2, <1>3, EmptyTyped DEF PackingOrder, ToPack
  <2>2. packings' = [packings EXCEPT ![o] = row]
    BY <1>4 DEF CreatePacking
  <2> HIDE DEF row
  <2> QED BY <1>4, <2>1, <2>2 DEF TypeOK, CreatePacking, stockVars
<1>5. CASE StartPacking(o)
  <2>1. packings' \in [Picking -> PackingOrder]
    BY <1>2, <1>3, <1>5, PackingWritten DEF StartPacking
  <2> QED BY <1>5, <2>1 DEF TypeOK, StartPacking, stockVars
<1>6. ASSUME NEW p \in Product, NEW n \in 0..MaxQuantity, PackUnits(o, p, n)
      PROVE  TypeOK'
  <2> DEFINE packed == [packings[o].packedQuantity EXCEPT ![p] = n]
  <2>1. packed \in Units
    BY <1>2 DEF Units
  <2>2. packings' = [packings EXCEPT ![o] = [@ EXCEPT !.packedQuantity = packed,
                                                     !.status = "in_progress"]]
    BY <1>6 DEF PackUnits
  <2> HIDE DEF packed
  <2>3. packings' \in [Picking -> PackingOrder]
    BY <1>3, <2>1, <2>2, PackingWritten
  <2> QED BY <1>6, <2>3 DEF TypeOK, PackUnits, stockVars
<1>7. CASE CompletePacking(o)
  <2>1. packings' \in [Picking -> PackingOrder]
    BY <1>2, <1>3, <1>7, PackingWritten DEF CompletePacking
  <2>2. ConsumeReservations(o, packings[o].packedQuantity)
    BY <1>7 DEF CompletePacking
  <2> QED BY <1>2, <1>7, <2>1, <2>2, ConsumeTyped DEF TypeOK, CompletePacking
<1>8. CASE CancelPacking(o)
  <2>1. packings' \in [Picking -> PackingOrder]
    BY <1>2, <1>3, <1>8, PackingWritten DEF CancelPacking
  <2>2. ConsumeReservations(o, Nothing)
    BY <1>8 DEF CancelPacking
  <2> QED BY <1>8, <2>1, <2>2, EmptyTyped, ConsumeTyped DEF TypeOK, CancelPacking
<1>9. CASE CheckPackingDeletion(o)
  BY <1>9 DEF TypeOK, CheckPackingDeletion, stockVars
<1>10. CASE DeletePackingRow(o)
  BY <1>10, EmptyTyped DEF TypeOK, DeletePackingRow, stockVars
<1> QED BY <1>1, <1>4, <1>5, <1>6, <1>7, <1>8, <1>9, <1>10

\* Every request on a sales order keeps the types.
LEMMA SalesTyped == ASSUME TypeOK, SalesNext PROVE TypeOK'
<1> USE FulfilmentAssumption
<1>1. PICK s \in Sale :
        \/ \E quantity \in Requests : CreateSale(s, quantity)
        \/ \E o \in Picking, allowPartial \in BOOLEAN : ReleaseSale(s, o, allowPartial)
        \/ CancelSale(s)
  BY DEF SalesNext
<1>2. ASSUME NEW quantity \in Requests, CreateSale(s, quantity)
      PROVE  TypeOK'
  <2>1. quantity \in Units
    BY DEF Requests, Units
  <2> DEFINE row == [NoSaleOrder EXCEPT !.status = "open", !.quantity = quantity]
  <2>2. row \in SalesOrder
    BY <2>1, EmptyTyped DEF SalesOrder, SaleStatus
  <2>3. sales' = [sales EXCEPT ![s] = row]
    BY <1>2 DEF CreateSale
  <2> HIDE DEF row
  <2> QED BY <1>2, <2>2, <2>3 DEF TypeOK, CreateSale, stockVars
<1>3. ASSUME NEW o \in Picking, NEW allowPartial \in BOOLEAN,
             ReleaseSale(s, o, allowPartial)
      PROVE  TypeOK'
  <2> DEFINE allocation ==
               [p \in Product |-> Greatest(0, Least(Pending(s, p), Available(p)))]
  <2>1. allocation \in Units /\ allocation \in [Product -> Int]
    BY RowFields DEF Pending, Available, Greatest, Least, TypeOK, Units
  <2>2. /\ CreateInTransaction(o, allocation, s)
        /\ sales' = SalesAfterProgress(s, allocation, Nothing)
        /\ UNCHANGED <<onHand, picked, located, packings, dispatched, deleting>>
    BY <1>3 DEF ReleaseSale
  <2> HIDE DEF allocation
  <2>3. sales' \in [Sale -> SalesOrder]
    BY <2>1, <2>2, EmptyTyped, ProgressTyped
  <2>4. reserved' \in [Product -> Int] /\ pickings' \in [Picking -> PickingOrder]
    BY <2>1, <2>2, CreateTyped
  <2> QED BY <2>2, <2>3, <2>4 DEF TypeOK
<1>4. CASE CancelSale(s)
  <2>1. sales' \in [Sale -> SalesOrder]
    BY <1>4 DEF CancelSale, TypeOK, SalesOrder, SaleStatus, ClosedSale
  <2> QED BY <1>4, <2>1 DEF TypeOK, CancelSale, stockVars
<1> QED BY <1>1, <1>2, <1>3, <1>4

\* In every state a database can reach, the stock columns are integers and the
\* orders are well-formed rows: no handler writes a negative reservation,
\* picked or packed quantity in an item.
THEOREM TypeCorrect == Spec => []TypeOK
<1>1. Init => TypeOK
  BY TypeInit
<1>2. TypeOK /\ [Next]_vars => TypeOK'
  <2> SUFFICES ASSUME TypeOK, [Next]_vars PROVE TypeOK'
    OBVIOUS
  <2>1. CASE Next
    BY <2>1, StockTyped, PickingTyped, PackingTyped, SalesTyped DEF Next
  <2>2. CASE UNCHANGED vars
    BY <2>2 DEF TypeOK, vars
  <2> QED BY <2>1, <2>2
<1> QED BY <1>1, <1>2, PTL DEF Spec

-----------------------------------------------------------------------------
(***************************************************************************)
(* The reservation counter.                                                *)
(***************************************************************************)

\* A total follows its rows when one row changes.
LEMMA SumFollows ==
  ASSUME NEW f, NEW g, \A k \in Picking : f[k] \in Int /\ g[k] \in Int,
         NEW o \in Picking, \A k \in Picking \ {o} : g[k] = f[k]
  PROVE  Total(g, MaxPickings) = Total(f, MaxPickings) + (g[o] - f[o])
<1> DEFINE d == g[o] - f[o]
<1>1. MaxPickings \in Nat /\ o \in 1..MaxPickings
  BY FulfilmentAssumption DEF Picking
<1>2. \A i \in 1..MaxPickings : f[i] \in Int
  BY DEF Picking
<1>3. \A i \in 1..MaxPickings : g[i] = IF i = o THEN f[i] + d ELSE f[i]
  BY DEF Picking
<1>4. d \in Int
  OBVIOUS
<1> HIDE DEF d
<1>5. Total(g, MaxPickings) = Total(f, MaxPickings) + d
  BY ONLY <1>1, <1>2, <1>3, <1>4, TotalUpdate
<1> QED BY <1>5 DEF d

\* If the items of one order are the only ones whose reservation changes,
\* and the counter moves by that change, the counter is still their sum.
LEMMA ReservedFollows ==
  ASSUME TypeOK, TypeOK', ReservedIsSum, NEW o \in Picking,
         \A k \in Picking \ {o} :
           pickings'[k].reservedQuantity = pickings[k].reservedQuantity,
         \A p \in Product :
           reserved'[p] = reserved[p] + (pickings'[o].reservedQuantity[p]
                                         - pickings[o].reservedQuantity[p])
  PROVE  ReservedIsSum'
<1> SUFFICES ASSUME NEW p \in Product
             PROVE  reserved'[p] =
                      Total([k \in Picking |-> pickings'[k].reservedQuantity[p]], MaxPickings)
  BY DEF ReservedIsSum
<1> DEFINE f == [k \in Picking |-> pickings[k].reservedQuantity[p]]
           g == [k \in Picking |-> pickings'[k].reservedQuantity[p]]
<1>1. \A k \in Picking : f[k] \in Int /\ g[k] \in Int
  BY RowFields DEF TypeOK, PickingOrder, Units
<1>2. \A k \in Picking \ {o} : g[k] = f[k]
  OBVIOUS
<1>3. reserved[p] = Total(f, MaxPickings)
  BY DEF ReservedIsSum
<1>4. reserved'[p] = reserved[p] + (g[o] - f[o])
  OBVIOUS
<1> HIDE DEF f, g
<1>5. Total(g, MaxPickings) = Total(f, MaxPickings) + (g[o] - f[o])
  BY <1>1, <1>2, SumFollows
<1> QED BY <1>3, <1>4, <1>5 DEF g

\* Of an order that does not exist only the empty row is left.
NoneIsEmpty == \A o \in Picking : pickings[o].status = "none" => pickings[o] = NoPicking

\* A step that touches no row but those of order o.
OnlyOrder(o) ==
  \A k \in Picking \ {o} : /\ pickings'[k] = pickings[k]
                           /\ packings'[k] = packings[k]
                           /\ dispatched'[k] = dispatched[k]
                           /\ k \in deleting' => k \in deleting

\* A step of order o: the counter of reserved units moves with its items.
OrderStep(o) ==
  /\ OnlyOrder(o)
  /\ pickings'[o].status = "none" => pickings'[o] = NoPicking
  /\ \A p \in Product :
       reserved'[p] = reserved[p] + (pickings'[o].reservedQuantity[p]
                                     - pickings[o].reservedQuantity[p])

\* Creating a picking order: the counter grows by what its items reserve.
LEMMA CreationStep ==
  ASSUME TypeOK, NoneIsEmpty, NEW o \in Picking, NEW requested \in Units, NEW s,
         IsNextPicking(o), CreateInTransaction(o, requested, s),
         UNCHANGED <<packings, dispatched, deleting>>
  PROVE  OrderStep(o)
<1>1. pickings[o].reservedQuantity = Nothing
  BY DEF IsNextPicking, NoneIsEmpty, NoPicking
<1>2. pickings'[o].status = "pending" /\ pickings'[o].reservedQuantity = requested
  BY DEF CreateInTransaction, TypeOK
<1>3. \A k \in Picking \ {o} : pickings'[k] = pickings[k]
  BY DEF CreateInTransaction, TypeOK
<1>4. \A p \in Product : reserved'[p] = reserved[p] + (requested[p] - 0)
  BY DEF CreateInTransaction, TypeOK, Units
<1> QED BY <1>1, <1>2, <1>3, <1>4 DEF OrderStep, OnlyOrder, Nothing

\* settleReservations moves the counter by the change of the items.
LEMMA SettledStep ==
  ASSUME TypeOK, NEW o \in Picking, NEW target \in Units, SettleReservations(o, target)
  PROVE  \A p \in Product :
           reserved'[p] = reserved[p] + (target[p] - pickings[o].reservedQuantity[p])
BY RowFields DEF SettleReservations, TypeOK, Units

\* Every request on a picking order is a step of that order.
LEMMA PickingStep ==
  ASSUME TypeOK, NoneIsEmpty, PickingNext
  PROVE  \E o \in Picking : OrderStep(o)
<1>1. PICK o \in Picking :
        \/ \E requested \in Requests : CreatePicking(o, requested)
        \/ StartPicking(o)
        \/ \E p \in Product, n \in 0..MaxQuantity, l \in Location \cup {NoLocation} :
             PickUnits(o, p, n, l) \/ UnpickUnits(o, p, n, l)
        \/ CompletePicking(o)
        \/ CancelPicking(o)
        \/ DeletePicking(o)
  BY DEF PickingNext
<1>2. \A p \in Product : reserved[p] \in Int /\ pickings[o].reservedQuantity[p] \in Int
  BY RowFields DEF TypeOK
<1>3. Nothing \in Units /\ pickings[o].pickedQuantity \in Units
  BY EmptyTyped, RowFields DEF Units
<1>4. ASSUME NEW requested \in Requests, CreatePicking(o, requested)
      PROVE  OrderStep(o)
  <2>1. requested \in Units
    BY FulfilmentAssumption DEF Requests, Units
  <2> QED BY <1>4, <2>1, CreationStep DEF CreatePicking
<1>5. CASE StartPicking(o)
  BY <1>2, <1>5 DEF OrderStep, OnlyOrder, StartPicking, stockVars, TypeOK, PickingOrder
<1>6. ASSUME NEW p \in Product, NEW n, NEW l,
             PickUnits(o, p, n, l) \/ UnpickUnits(o, p, n, l)
      PROVE  OrderStep(o)
  <2> DEFINE taken == [pickings[o].pickedQuantity EXCEPT ![p] = n]
             row == [pickings[o] EXCEPT !.pickedQuantity = taken, !.status = "in_progress"]
  <2>1. pickings' = [pickings EXCEPT ![o] = row]
    BY <1>6 DEF PickUnits, UnpickUnits
  <2>2. row.status = "in_progress" /\ row.reservedQuantity = pickings[o].reservedQuantity
    <3> HIDE DEF taken
    <3> QED BY RowFields DEF PickingOrder
  <2> HIDE DEF row
  <2>3. /\ \A k \in Picking \ {o} : pickings'[k] = pickings[k]
        /\ pickings'[o].status = "in_progress"
        /\ pickings'[o].reservedQuantity = pickings[o].reservedQuantity
    BY <2>1, <2>2 DEF TypeOK
  <2> QED BY <1>2, <1>6, <2>3 DEF OrderStep, OnlyOrder, PickUnits, UnpickUnits
<1>7. CASE CompletePicking(o)
  <2>1. /\ \A k \in Picking \ {o} : pickings'[k] = pickings[k]
        /\ pickings'[o].status = "completed"
        /\ pickings'[o].reservedQuantity = pickings[o].pickedQuantity
    BY <1>7 DEF CompletePicking, Settled, TypeOK, PickingOrder
  <2>2. \A p \in Product :
          reserved'[p] = reserved[p] + (pickings[o].pickedQuantity[p]
                                        - pickings[o].reservedQuantity[p])
    <3>1. SettleReservations(o, pickings[o].pickedQuantity)
      BY <1>7 DEF CompletePicking
    <3> QED
      BY <1>3, <3>1, SettledStep
  <2> QED BY <1>7, <2>1, <2>2 DEF OrderStep, OnlyOrder, CompletePicking
<1>8. CASE CancelPicking(o)
  <2>1. /\ \A k \in Picking \ {o} : pickings'[k] = pickings[k]
        /\ pickings'[o].status = "cancelled"
        /\ pickings'[o].reservedQuantity = Nothing
    BY <1>8 DEF CancelPicking, Settled, TypeOK, PickingOrder
  <2>2. \A p \in Product :
          reserved'[p] = reserved[p] + (Nothing[p] - pickings[o].reservedQuantity[p])
    BY <1>3, <1>8, SettledStep DEF CancelPicking
  <2> QED BY <1>8, <2>1, <2>2 DEF OrderStep, OnlyOrder, CancelPicking
<1>9. CASE DeletePicking(o)
  <2>1. /\ \A k \in Picking \ {o} : pickings'[k] = pickings[k]
        /\ pickings'[o] = NoPicking
        /\ pickings'[o].reservedQuantity = Nothing
    BY <1>9 DEF DeletePicking, NoPicking, TypeOK
  <2> QED BY <1>3, <1>9, <2>1, SettledStep DEF OrderStep, OnlyOrder, DeletePicking
<1> QED BY <1>1, <1>4, <1>5, <1>6, <1>7, <1>8, <1>9

\* consumeReservations takes the items' reservations off the counter.
LEMMA ConsumeStep ==
  ASSUME TypeOK, NoneIsEmpty, NEW o \in Picking, NEW packed \in Units,
         ConsumeReservations(o, packed)
  PROVE  /\ \A k \in Picking \ {o} : /\ pickings'[k] = pickings[k]
                                     /\ dispatched'[k] = dispatched[k]
         /\ pickings'[o] = [pickings[o] EXCEPT !.reservedQuantity = Nothing]
         /\ pickings'[o].reservedQuantity = Nothing
         /\ pickings'[o].status = pickings[o].status
         /\ pickings'[o].status = "none" => pickings'[o] = NoPicking
         /\ \A p \in Product :
              reserved'[p] = reserved[p] + (pickings'[o].reservedQuantity[p]
                                            - pickings[o].reservedQuantity[p])
<1>1. \A k \in Picking \ {o} : /\ pickings'[k] = pickings[k]
                               /\ dispatched'[k] = dispatched[k]
  BY DEF ConsumeReservations, TypeOK
<1>2. pickings'[o] = [pickings[o] EXCEPT !.reservedQuantity = Nothing]
  BY DEF ConsumeReservations, TypeOK
<1>3. /\ pickings'[o].reservedQuantity = Nothing
      /\ pickings'[o].status = pickings[o].status
  BY <1>2, RowFields DEF PickingOrder
<1>4. pickings'[o].status = "none" => pickings'[o] = NoPicking
  BY <1>2, <1>3 DEF NoneIsEmpty, NoPicking
<1>5. \A p \in Product : reserved'[p] = reserved[p] + (0 - pickings[o].reservedQuantity[p])
  BY RowFields DEF ConsumeReservations, TypeOK
<1> QED BY <1>1, <1>2, <1>3, <1>4, <1>5 DEF Nothing

\* Every request on a packing order is a step of its picking order.
LEMMA PackingStep ==
  ASSUME TypeOK, NoneIsEmpty, PackingNext
  PROVE  \E o \in Picking : OrderStep(o)
<1>1. PICK o \in Picking :
        \/ CreatePacking(o)
        \/ StartPacking(o)
        \/ \E p \in Product, n \in 0..MaxQuantity : PackUnits(o, p, n)
        \/ CompletePacking(o)
        \/ CancelPacking(o)
        \/ CheckPackingDeletion(o)
        \/ DeletePackingRow(o)
  BY DEF PackingNext
<1>2. \A p \in Product : reserved[p] \in Int /\ pickings[o].reservedQuantity[p] \in Int
  BY RowFields DEF TypeOK
<1>3. Nothing \in Units /\ packings[o].packedQuantity \in Units
  BY EmptyTyped, RowFields DEF Units
<1>4. ASSUME NEW packed \in Units, ConsumeReservations(o, packed),
             \A k \in Picking \ {o} : packings'[k] = packings[k],
             UNCHANGED deleting
      PROVE  OrderStep(o)
  BY <1>4, ConsumeStep DEF OrderStep, OnlyOrder
<1>5. ASSUME UNCHANGED <<reserved, pickings, dispatched>>,
             \A k \in Picking \ {o} : /\ packings'[k] = packings[k]
                                      /\ k \in deleting' => k \in deleting
      PROVE  OrderStep(o)
  BY <1>2, <1>5 DEF OrderStep, OnlyOrder, NoneIsEmpty
<1>6. CASE CreatePacking(o)
  BY <1>5, <1>6 DEF CreatePacking, stockVars, TypeOK
<1>7. CASE StartPacking(o)
  BY <1>5, <1>7 DEF StartPacking, stockVars, TypeOK
<1>8. ASSUME NEW p \in Product, NEW n, PackUnits(o, p, n)
      PROVE  OrderStep(o)
  BY <1>5, <1>8 DEF PackUnits, stockVars, TypeOK
<1>9. CASE CompletePacking(o)
  <2>1. \A k \in Picking \ {o} : packings'[k] = packings[k]
    BY <1>9 DEF CompletePacking, TypeOK
  <2> QED BY <1>3, <1>4, <1>9, <2>1 DEF CompletePacking
<1>10. CASE CancelPacking(o)
  <2>1. \A k \in Picking \ {o} : packings'[k] = packings[k]
    BY <1>10 DEF CancelPacking, TypeOK
  <2> QED BY <1>3, <1>4, <1>10, <2>1 DEF CancelPacking
<1>11. CASE CheckPackingDeletion(o)
  BY <1>5, <1>11 DEF CheckPackingDeletion, stockVars
<1>12. CASE DeletePackingRow(o)
  BY <1>5, <1>12 DEF DeletePackingRow, stockVars, TypeOK
<1> QED BY <1>1, <1>6, <1>7, <1>8, <1>9, <1>10, <1>11, <1>12

\* A release is a step of the new order; the rest touches no stock and no order.
LEMMA SalesStep ==
  ASSUME TypeOK, NoneIsEmpty, SalesNext
  PROVE  \/ UNCHANGED <<onHand, reserved, picked, located, pickings, packings,
                        dispatched, deleting>>
         \/ \E o \in Picking : OrderStep(o)
<1>1. PICK s \in Sale :
        \/ \E quantity \in Requests : CreateSale(s, quantity)
        \/ \E o \in Picking, allowPartial \in BOOLEAN : ReleaseSale(s, o, allowPartial)
        \/ CancelSale(s)
  BY DEF SalesNext
<1>2. ASSUME NEW o \in Picking, NEW allowPartial \in BOOLEAN,
             ReleaseSale(s, o, allowPartial)
      PROVE  OrderStep(o)
  <2> DEFINE allocation ==
               [p \in Product |-> Greatest(0, Least(Pending(s, p), Available(p)))]
  <2>1. allocation \in Units
    BY RowFields DEF Pending, Available, Greatest, Least, TypeOK, Units
  <2>2. /\ IsNextPicking(o)
        /\ CreateInTransaction(o, allocation, s)
        /\ UNCHANGED <<packings, dispatched, deleting>>
    BY <1>2 DEF ReleaseSale
  <2> HIDE DEF allocation
  <2> QED BY <2>1, <2>2, CreationStep
<1> QED BY <1>1, <1>2 DEF CreateSale, CancelSale, stockVars

\* However a request moves reservations, item by item and in the counter,
\* the two agree.  This needs nothing about how requests interleave, so it
\* holds with overlapping deletions too.
THEOREM ReservationsAddUp == Spec => []ReservedIsSum
<1> DEFINE Inv == NoneIsEmpty /\ ReservedIsSum
<1>1. Init => Inv
  <2> SUFFICES ASSUME Init PROVE Inv
    OBVIOUS
  <2>1. NoneIsEmpty
    BY DEF Init, NoneIsEmpty
  <2>2. ASSUME NEW p \in Product
        PROVE  Total([o \in Picking |-> pickings[o].reservedQuantity[p]], MaxPickings) = 0
    <3> DEFINE f == [o \in Picking |-> pickings[o].reservedQuantity[p]]
    <3>1. \A i \in 1..MaxPickings : f[i] = 0
      BY DEF Init, NoPicking, Nothing, Picking
    <3> HIDE DEF f
    <3>2. Total(f, MaxPickings) = 0
      BY <3>1, TotalAllZero, FulfilmentAssumption
    <3> QED BY <3>2 DEF f
  <2>3. \A p \in Product : reserved[p] = 0
    BY DEF Init, Nothing
  <2> QED BY <2>1, <2>2, <2>3 DEF ReservedIsSum
<1>2. TypeOK /\ TypeOK' /\ Inv /\ [Next]_vars => Inv'
  <2> SUFFICES ASSUME TypeOK, TypeOK', Inv, [Next]_vars PROVE Inv'
    OBVIOUS
  <2>1. CASE UNCHANGED <<reserved, pickings>>
    BY <2>1 DEF NoneIsEmpty, ReservedIsSum
  <2>2. ASSUME NEW o \in Picking, OrderStep(o)
        PROVE  Inv'
    <3>1. NoneIsEmpty'
      BY <2>2 DEF NoneIsEmpty, OrderStep, OnlyOrder
    <3>2. ReservedIsSum'
      BY <2>2, ReservedFollows DEF OrderStep, OnlyOrder
    <3> QED BY <3>1, <3>2
  <2>3. CASE StockNext
    BY <2>1, <2>3 DEF StockNext, IncreaseStock, DecreaseStock, Relocate
  <2>4. CASE PickingNext
    BY <2>2, <2>4, PickingStep
  <2>5. CASE PackingNext
    BY <2>2, <2>5, PackingStep
  <2>6. CASE SalesNext
    BY <2>1, <2>2, <2>6, SalesStep
  <2>7. CASE UNCHANGED vars
    BY <2>1, <2>7 DEF vars
  <2> QED BY <2>3, <2>4, <2>5, <2>6, <2>7 DEF Next
<1>3. Inv => ReservedIsSum
  OBVIOUS
<1> QED BY <1>1, <1>2, <1>3, TypeCorrect, PTL DEF Spec

-----------------------------------------------------------------------------
(***************************************************************************)
(* The rows of an order and the counter of picked units.  From here on     *)
(* requests on a packing do not overlap its deletion (OverlapDelete is     *)
(* FALSE): without that the run packing_shipped_twice is a counterexample. *)
(***************************************************************************)
RowInv(o) ==
  /\ OrderAgrees(o)
  /\ \A p \in Product : pickings[o].reservedQuantity[p] = ReservationDue(o, p)

Covered ==
  \A p \in Product :
    /\ reserved[p] <= onHand[p]
    /\ located[p] \in [Location -> Nat]
    /\ LocatedQuantity(located[p]) <= onHand[p] - picked[p]

Counted == TypeOK /\ ReservedIsSum

StockInv == PickedIsSum /\ (\A o \in Picking : RowInv(o)) /\ Covered

\* What an order holds is part of both counters: picked units are reserved
\* units, order by order and in the warehouse.
LEMMA PickedIsReserved ==
  ASSUME Counted, PickedIsSum, \A o \in Picking : RowInv(o), NEW p \in Product
  PROVE  /\ 0 <= picked[p]
         /\ picked[p] <= reserved[p]
         /\ \A o \in Picking :
              /\ PickedBy(o, p) \in Nat
              /\ PickedBy(o, p) <= picked[p]
              /\ PickedBy(o, p) <= pickings[o].reservedQuantity[p]
              /\ pickings[o].reservedQuantity[p] - PickedBy(o, p) <= reserved[p] - picked[p]
<1> DEFINE f == [o \in Picking |-> pickings[o].reservedQuantity[p]]
           g == [o \in Picking |-> PickedBy(o, p)]
<1>1. ASSUME NEW o \in Picking
      PROVE  /\ pickings[o].reservedQuantity[p] \in Nat
             /\ PickedBy(o, p) \in Nat
             /\ PickedBy(o, p) <= pickings[o].reservedQuantity[p]
  <2>1. /\ pickings[o].reservedQuantity[p] \in Nat
        /\ pickings[o].pickedQuantity[p] \in Nat
    BY RowFields DEF Counted
  <2> QED BY <2>1 DEF RowInv, OrderAgrees, PickedBy, Outstanding, ReservationDue
<1>2. reserved[p] = Total(f, MaxPickings) /\ picked[p] = Total(g, MaxPickings)
  BY DEF Counted, ReservedIsSum, PickedIsSum
<1>3. \A i \in 1..MaxPickings : f[i] \in Nat /\ g[i] \in Nat /\ g[i] <= f[i]
  BY <1>1 DEF Picking
<1>4. MaxPickings \in Nat
  BY FulfilmentAssumption
<1>5. \A o \in Picking : o \in 1..MaxPickings /\ g[o] = PickedBy(o, p)
                         /\ f[o] = pickings[o].reservedQuantity[p]
  BY DEF Picking
<1> HIDE DEF f, g
<1>6. Total(g, MaxPickings) \in Nat /\ \A k \in 1..MaxPickings : g[k] <= Total(g, MaxPickings)
  BY <1>3, <1>4, TotalNat
<1>7. \A k \in 1..MaxPickings :
        f[k] - g[k] <= Total(f, MaxPickings) - Total(g, MaxPickings)
  BY <1>3, <1>4, TotalDominates
<1>8. Total(f, MaxPickings) \in Nat
  BY <1>3, <1>4, TotalNat
<1>9. Total(g, MaxPickings) <= Total(f, MaxPickings)
  <2>1. CASE MaxPickings = 0
    BY <2>1, TotalZero
  <2>2. CASE MaxPickings # 0
    <3>1. 1 \in 1..MaxPickings
      BY <1>4, <2>2
    <3>2. f[1] \in Nat /\ g[1] \in Nat /\ g[1] <= f[1]
      BY <1>3, <3>1
    <3>3. f[1] - g[1] <= Total(f, MaxPickings) - Total(g, MaxPickings)
      BY <1>7, <3>1
    <3> QED BY <1>6, <1>8, <3>2, <3>3
  <2> QED BY <2>1, <2>2
<1>10. \A o \in Picking : /\ PickedBy(o, p) <= picked[p]
                          /\ pickings[o].reservedQuantity[p] - PickedBy(o, p)
                               <= reserved[p] - picked[p]
  BY <1>2, <1>5, <1>6, <1>7
<1> QED BY <1>1, <1>2, <1>6, <1>9, <1>10

\* If one order is the only one whose picked units change, and the counter
\* moves by that change, the counter is still their sum.
LEMMA PickedFollows ==
  ASSUME TypeOK, TypeOK', PickedIsSum, NEW o \in Picking, OnlyOrder(o),
         \A p \in Product : picked'[p] = picked[p] + (PickedBy(o, p)' - PickedBy(o, p))
  PROVE  PickedIsSum'
<1> SUFFICES ASSUME NEW p \in Product
             PROVE  picked'[p] = Total([k \in Picking |-> PickedBy(k, p)'], MaxPickings)
  BY DEF PickedIsSum
<1> DEFINE f == [k \in Picking |-> PickedBy(k, p)]
           g == [k \in Picking |-> PickedBy(k, p)']
<1>1. \A k \in Picking : f[k] \in Int /\ g[k] \in Int
  BY RowFields DEF TypeOK, PickingOrder, Units, PickedBy
<1>2. \A k \in Picking \ {o} : g[k] = f[k]
  BY DEF OnlyOrder, PickedBy, Outstanding
<1>3. picked[p] = Total(f, MaxPickings)
  BY DEF PickedIsSum
<1>4. picked'[p] = picked[p] + (g[o] - f[o])
  OBVIOUS
<1> HIDE DEF f, g
<1>5. Total(g, MaxPickings) = Total(f, MaxPickings) + (g[o] - f[o])
  BY <1>1, <1>2, SumFollows
<1> QED BY <1>3, <1>4, <1>5 DEF g

\* A step of one order keeps StockInv if it keeps the order's own rows, and
\* the counter and the stock follow.
LEMMA OrderStepKeeps ==
  ASSUME Counted, Counted', StockInv, NEW o \in Picking, OnlyOrder(o), RowInv(o)',
         \A p \in Product : picked'[p] = picked[p] + (PickedBy(o, p)' - PickedBy(o, p)),
         Covered'
  PROVE  StockInv'
<1>1. PickedIsSum'
  BY PickedFollows DEF Counted, StockInv
<1>2. ASSUME NEW k \in Picking PROVE RowInv(k)'
  <2>1. CASE k = o
    BY <2>1
  <2>2. CASE k # o
    BY <2>2 DEF StockInv, OnlyOrder, RowInv, OrderAgrees, ReservationDue, Outstanding
  <2> QED BY <2>1, <2>2
<1> QED BY <1>1, <1>2 DEF StockInv

\* Rows whose order does not exist, or is still being picked, are plain.
LEMMA PlainRows ==
  ASSUME TypeOK, NEW o \in Picking, RowInv(o), pickings[o].status # "completed"
  PROVE  /\ packings[o].status = "none"
         /\ dispatched[o] = Nothing
         /\ o \notin deleting
BY DEF RowInv, OrderAgrees

\* What Covered says of one product, with the columns as numbers.
LEMMA CoveredOne ==
  ASSUME Counted, StockInv, NEW p \in Product
  PROVE  /\ onHand[p] \in Int /\ reserved[p] \in Int /\ picked[p] \in Int
         /\ located[p] \in [Location -> Nat]
         /\ LocatedQuantity(located[p]) \in Int
         /\ reserved[p] <= onHand[p]
         /\ LocatedQuantity(located[p]) <= onHand[p] - picked[p]
<1>1. located[p] \in [Location -> Nat] /\ located[p] \in [Location -> Int]
  BY DEF StockInv, Covered
<1>2. LocatedQuantity(located[p]) \in Int
  BY <1>1, LocatedInt
<1> QED BY <1>1, <1>2 DEF Counted, TypeOK, StockInv, Covered

\* A new order reserves what nobody else has reserved.
LEMMA CreationKeeps ==
  ASSUME Counted, Counted', StockInv, NEW o \in Picking, NEW requested \in Units, NEW s,
         IsNextPicking(o), CreateInTransaction(o, requested, s),
         UNCHANGED <<onHand, picked, located, packings, dispatched, deleting>>
  PROVE  StockInv'
<1>1. pickings[o].status = "none" /\ RowInv(o) /\ pickings[o].pickedQuantity = Nothing
  BY DEF IsNextPicking, StockInv, RowInv, OrderAgrees, NoPicking
<1>2. packings[o].status = "none" /\ dispatched[o] = Nothing /\ o \notin deleting
  BY <1>1, PlainRows DEF Counted
<1>3. /\ pickings'[o].status = "pending" /\ pickings'[o].quantity = requested
      /\ pickings'[o].reservedQuantity = requested
      /\ pickings'[o].pickedQuantity = Nothing
      /\ \A k \in Picking \ {o} : pickings'[k] = pickings[k]
  BY DEF CreateInTransaction, Counted, TypeOK
<1>4. OnlyOrder(o)
  BY <1>3 DEF OnlyOrder
<1>5. RowInv(o)'
  BY <1>2, <1>3 DEF RowInv, OrderAgrees, ReservationDue, Editable, Nothing, Units
<1>6. \A p \in Product : picked'[p] = picked[p] + (PickedBy(o, p)' - PickedBy(o, p))
  BY <1>1, <1>3 DEF PickedBy, Nothing, Counted, TypeOK
<1>7. ASSUME NEW p \in Product PROVE reserved'[p] <= onHand'[p]
  BY CoveredOne DEF CreateInTransaction, Available, Units
<1>8. Covered'
  BY <1>7 DEF Covered, StockInv
<1> QED BY <1>4, <1>5, <1>6, <1>8, OrderStepKeeps

\* Adjustments take out only what is not reserved, relocations nothing.
LEMMA StockKeeps ==
  ASSUME Counted, Counted', StockInv, StockNext
  PROVE  StockInv'
<1> USE FulfilmentAssumption
<1>1. PICK p \in Product, q \in 1..MaxQuantity, l \in Location \cup {NoLocation} :
        \/ IncreaseStock(p, q, l)
        \/ DecreaseStock(p, q, l)
        \/ \E to \in Location \cup {NoLocation} : Relocate(p, q, l, to)
  BY DEF StockNext
<1>2. UNCHANGED <<reserved, picked, pickings, packings, dispatched, deleting>>
  BY <1>1 DEF IncreaseStock, DecreaseStock, Relocate
<1>3. PickedIsSum' /\ \A o \in Picking : RowInv(o)'
  BY <1>2 DEF StockInv, PickedIsSum, PickedBy, Outstanding, RowInv, OrderAgrees, ReservationDue
<1>4. ASSUME NEW loc \in [Location -> Nat],
             located' = [located EXCEPT ![p] = loc],
             \A r \in Product \ {p} : onHand'[r] = onHand[r],
             reserved[p] <= onHand'[p],
             LocatedQuantity(loc) <= onHand'[p] - picked[p]
      PROVE  Covered'
  <2> SUFFICES ASSUME NEW r \in Product
               PROVE  /\ reserved'[r] <= onHand'[r]
                      /\ located'[r] \in [Location -> Nat]
                      /\ LocatedQuantity(located'[r]) <= onHand'[r] - picked'[r]
    BY DEF Covered
  <2>1. CASE r = p
    BY <1>2, <1>4, <2>1 DEF Counted, TypeOK
  <2>2. CASE r # p
    BY <1>2, <1>4, <2>2 DEF Counted, TypeOK, StockInv, Covered
  <2> QED BY <2>1, <2>2
<1>5. q \in Nat
  OBVIOUS
<1>6. CASE IncreaseStock(p, q, l)
  <2> DEFINE loc == PutAway(located[p], l, q)
  <2>1. /\ loc \in [Location -> Nat]
        /\ LocatedQuantity(loc) = LocatedQuantity(located[p]) + (IF l = NoLocation THEN 0 ELSE q)
    BY <1>5, CoveredOne, PutAwayStores
  <2>2. located' = [located EXCEPT ![p] = loc]
    BY <1>6 DEF IncreaseStock
  <2>3. onHand' = [onHand EXCEPT ![p] = @ + q]
    BY <1>6 DEF IncreaseStock
  <2>4. onHand'[p] = onHand[p] + q /\ \A r \in Product \ {p} : onHand'[r] = onHand[r]
    BY <2>3 DEF Counted, TypeOK
  <2> HIDE DEF loc
  <2>5. reserved[p] <= onHand'[p] /\ LocatedQuantity(loc) <= onHand'[p] - picked[p]
    BY <1>5, <2>1, <2>4, CoveredOne
  <2>6. Covered'
    BY <1>4, <2>1, <2>2, <2>4, <2>5
  <2> QED BY <1>3, <2>6 DEF StockInv
<1>7. CASE DecreaseStock(p, q, l)
  <2> DEFINE loc == AllocateOutbound(located[p], q, l)
  <2>1. CanAllocate(onHand[p], picked[p], located[p], q, l) /\ q <= onHand[p] - reserved[p]
    BY <1>7 DEF DecreaseStock, Available
  <2>2. /\ loc \in [Location -> Nat]
        /\ LocatedQuantity(loc) <= onHand[p] - picked[p] - q
    BY <1>5, <2>1, CoveredOne, AllocateLeaves
  <2>3. located' = [located EXCEPT ![p] = loc]
    BY <1>7 DEF DecreaseStock
  <2>4. onHand' = [onHand EXCEPT ![p] = @ - q]
    BY <1>7 DEF DecreaseStock
  <2>5. onHand'[p] = onHand[p] - q /\ \A r \in Product \ {p} : onHand'[r] = onHand[r]
    BY <2>4 DEF Counted, TypeOK
  <2>6. LocatedQuantity(loc) \in Int
    BY <2>2, LocatedInt
  <2> HIDE DEF loc
  <2>7. reserved[p] <= onHand'[p] /\ LocatedQuantity(loc) <= onHand'[p] - picked[p]
    BY <1>5, <2>1, <2>2, <2>5, <2>6, CoveredOne
  <2>8. Covered'
    BY <1>4, <2>2, <2>3, <2>5, <2>7
  <2> QED BY <1>3, <2>8 DEF StockInv
<1>8. ASSUME NEW to \in Location \cup {NoLocation}, Relocate(p, q, l, to)
      PROVE  StockInv'
  <2> DEFINE taken == Taken(located[p], q, l)
             loc == PutAway(taken, to, q)
  <2>1. CanTake(onHand[p], picked[p], located[p], q, l)
    BY <1>8 DEF Relocate
  <2>2. /\ l # NoLocation => q <= located[p][l]
        /\ l = NoLocation => q <= onHand[p] - picked[p] - LocatedQuantity(located[p])
    BY <2>1 DEF CanTake, UnlocatedQuantity
  <2>3. /\ taken \in [Location -> Nat]
        /\ LocatedQuantity(taken)
             = LocatedQuantity(located[p]) - (IF l = NoLocation THEN 0 ELSE q)
    BY <1>5, <2>2, CoveredOne, TakenLeaves
  <2>4. located' = [located EXCEPT ![p] = loc] /\ UNCHANGED onHand
    BY <1>8 DEF Relocate
  <2> HIDE DEF taken
  <2>5. /\ loc \in [Location -> Nat]
        /\ LocatedQuantity(loc) = LocatedQuantity(taken) + (IF to = NoLocation THEN 0 ELSE q)
    BY <1>5, <2>3, PutAwayStores
  <2> HIDE DEF loc
  <2>6. LocatedQuantity(loc) <= onHand[p] - picked[p]
    BY <1>5, <2>2, <2>3, <2>5, CoveredOne
  <2> QED BY <1>3, <1>4, <2>4, <2>5, <2>6, CoveredOne DEF StockInv
<1> QED BY <1>1, <1>6, <1>7, <1>8

\* A step that changes neither units on hand nor locations keeps the stock
\* covered if it reserves no more than is on hand and picks nothing more.
LEMMA CoveredFollows ==
  ASSUME Counted, Counted', StockInv, UNCHANGED <<onHand, located>>,
         \A p \in Product : reserved'[p] <= onHand[p] /\ picked'[p] <= picked[p]
  PROVE  Covered'
<1> SUFFICES ASSUME NEW p \in Product
             PROVE  /\ reserved'[p] <= onHand'[p]
                    /\ located'[p] \in [Location -> Nat]
                    /\ LocatedQuantity(located'[p]) <= onHand'[p] - picked'[p]
  BY DEF Covered
<1>1. picked'[p] \in Int
  BY DEF Counted, TypeOK
<1> QED BY <1>1, CoveredOne

\* What the steps that settle reservations and release picked units do.
LEMMA SettledCovered ==
  ASSUME Counted, StockInv, NEW o \in Picking, NEW target \in Units,
         SettleReservations(o, target), NEW p \in Product
  PROVE  reserved'[p] <= onHand[p]
<1>1. /\ pickings[o].reservedQuantity[p] \in Nat /\ target[p] \in Nat
  BY RowFields DEF Counted, Units
<1>2. reserved'[p] = reserved[p] + (target[p] - pickings[o].reservedQuantity[p])
  BY SettledStep DEF Counted
<1>3. target[p] - pickings[o].reservedQuantity[p] # 0 =>
        target[p] - pickings[o].reservedQuantity[p] <= onHand[p] - reserved[p]
  BY DEF SettleReservations, Available
<1> QED BY <1>1, <1>2, <1>3, CoveredOne

\* releasePicked gives back exactly what the order counted as picked.
LEMMA ReleasedPicked ==
  ASSUME Counted, StockInv, NEW o \in Picking, pickings[o].status \in Editable,
         ReleasePicked(o), NEW p \in Product
  PROVE  /\ PickedBy(o, p) = pickings[o].pickedQuantity[p]
         /\ picked'[p] = picked[p] - pickings[o].pickedQuantity[p]
         /\ pickings[o].pickedQuantity[p] \in Nat
<1>1. PickedBy(o, p) = pickings[o].pickedQuantity[p]
  BY DEF PickedBy, Outstanding
<1>2. PickedBy(o, p) <= picked[p] /\ PickedBy(o, p) \in Nat
  BY PickedIsReserved DEF StockInv
<1>3. picked[p] \in Int
  BY CoveredOne
<1> QED BY <1>1, <1>2, <1>3 DEF ReleasePicked, Greatest

\* Every request on a picking order keeps StockInv.
LEMMA PickingKeeps ==
  ASSUME Counted, Counted', StockInv, PickingNext
  PROVE  StockInv'
<1> USE FulfilmentAssumption
<1>1. PICK o \in Picking :
        \/ \E requested \in Requests : CreatePicking(o, requested)
        \/ StartPicking(o)
        \/ \E p \in Product, n \in 0..MaxQuantity, l \in Location \cup {NoLocation} :
             PickUnits(o, p, n, l) \/ UnpickUnits(o, p, n, l)
        \/ CompletePicking(o)
        \/ CancelPicking(o)
        \/ DeletePicking(o)
  BY DEF PickingNext
<1>2. RowInv(o)
  BY DEF StockInv
<1>3. /\ Nothing \in Units /\ pickings[o].pickedQuantity \in Units
      /\ pickings[o] \in PickingOrder
  BY EmptyTyped, RowFields DEF Counted, Units
<1>4. \A p \in Product : /\ pickings[o].quantity[p] \in Nat
                         /\ pickings[o].pickedQuantity[p] \in Nat
                         /\ picked[p] \in Int
  BY RowFields, CoveredOne DEF Counted
<1>5. ASSUME NEW requested \in Requests, CreatePicking(o, requested)
      PROVE  StockInv'
  <2>1. requested \in Units
    BY DEF Requests, Units
  <2> QED BY <1>5, <2>1, CreationKeeps DEF CreatePicking
<1>6. ASSUME pickings[o].status \in Editable,
             UNCHANGED <<packings, dispatched, deleting>>,
             \A k \in Picking \ {o} : pickings'[k] = pickings[k],
             \A p \in Product :
               picked'[p] = picked[p] + (PickedBy(o, p)' - PickedBy(o, p)),
             Covered',
             pickings'[o].status = "none" => pickings'[o] = NoPicking,
             \A p \in Product :
               /\ 0 <= pickings'[o].pickedQuantity[p]
               /\ pickings'[o].pickedQuantity[p] <= pickings'[o].quantity[p]
               /\ pickings'[o].reservedQuantity[p] = ReservationDue(o, p)'
      PROVE  StockInv'
  <2>1. packings[o].status = "none" /\ dispatched[o] = Nothing /\ o \notin deleting
    BY <1>2, <1>6, PlainRows DEF Counted, Editable
  <2>2. RowInv(o)'
    BY <1>6, <2>1 DEF RowInv, OrderAgrees, Nothing
  <2>3. OnlyOrder(o)
    BY <1>6 DEF OnlyOrder
  <2> QED BY <1>6, <2>2, <2>3, OrderStepKeeps
<1>7. CASE StartPicking(o)
  <2>1. pickings' = [pickings EXCEPT ![o].status = "in_progress"]
    BY <1>7 DEF StartPicking
  <2>2. /\ \A k \in Picking \ {o} : pickings'[k] = pickings[k]
        /\ pickings'[o].status = "in_progress"
        /\ pickings'[o].quantity = pickings[o].quantity
        /\ pickings'[o].reservedQuantity = pickings[o].reservedQuantity
        /\ pickings'[o].pickedQuantity = pickings[o].pickedQuantity
    BY <1>3, <2>1 DEF Counted, TypeOK, PickingOrder
  <2>3. pickings[o].status = "pending"
    BY <1>7 DEF StartPicking
  <2>4. UNCHANGED <<onHand, reserved, picked, located, packings, dispatched, deleting>>
    BY <1>7 DEF StartPicking, stockVars
  <2>5. Covered'
    BY <2>4 DEF Covered, StockInv
  <2>6. \A p \in Product : picked'[p] = picked[p] + (PickedBy(o, p)' - PickedBy(o, p))
    BY <1>4, <2>2, <2>3, <2>4 DEF PickedBy, Outstanding, Editable
  <2>7. \A p \in Product :
          /\ 0 <= pickings'[o].pickedQuantity[p]
          /\ pickings'[o].pickedQuantity[p] <= pickings'[o].quantity[p]
          /\ pickings'[o].reservedQuantity[p] = ReservationDue(o, p)'
    BY <1>2, <1>4, <2>2, <2>3 DEF RowInv, OrderAgrees, ReservationDue, Editable
  <2> QED BY <1>6, <2>2, <2>3, <2>4, <2>5, <2>6, <2>7 DEF Editable
<1>8. ASSUME NEW p \in Product, NEW n \in 0..MaxQuantity,
             NEW l \in Location \cup {NoLocation},
             PickUnits(o, p, n, l) \/ UnpickUnits(o, p, n, l)
      PROVE  StockInv'
  <2> DEFINE taken == [pickings[o].pickedQuantity EXCEPT ![p] = n]
             row == [pickings[o] EXCEPT !.pickedQuantity = taken, !.status = "in_progress"]
             delta == n - pickings[o].pickedQuantity[p]
  <2>1. /\ pickings[o].status \in Editable
        /\ pickings' = [pickings EXCEPT ![o] = row]
        /\ picked' = [picked EXCEPT ![p] = @ + delta]
        /\ UNCHANGED <<onHand, reserved, packings, dispatched, deleting>>
    BY <1>8 DEF PickUnits, UnpickUnits
  <2>2. delta \in Int /\ n \in Nat
    BY <1>4
  <2>3. n <= pickings[o].quantity[p]
    <3>1. pickings[o].pickedQuantity[p] <= pickings[o].quantity[p]
      BY <1>2 DEF RowInv, OrderAgrees
    <3> QED BY <1>4, <1>8, <3>1 DEF PickUnits, UnpickUnits
  <2>4. /\ row.status = "in_progress" /\ row.quantity = pickings[o].quantity
        /\ row.reservedQuantity = pickings[o].reservedQuantity
        /\ row.pickedQuantity = taken
    <3> HIDE DEF taken
    <3> QED BY <1>3 DEF PickingOrder
  <2>5. \A r \in Product : taken[r] = IF r = p THEN n ELSE pickings[o].pickedQuantity[r]
    BY <1>3 DEF Units
  <2> HIDE DEF row, taken
  <2>6. pickings'[o] = row /\ \A k \in Picking \ {o} : pickings'[k] = pickings[k]
    BY <2>1 DEF Counted, TypeOK
  <2>7. \A r \in Product : picked'[r] = picked[r] + (taken[r] - pickings[o].pickedQuantity[r])
    BY <1>4, <2>1, <2>2, <2>5 DEF Counted, TypeOK
  <2>8. \A r \in Product : picked'[r] = picked[r] + (PickedBy(o, r)' - PickedBy(o, r))
    BY <2>1, <2>4, <2>6, <2>7 DEF PickedBy, Outstanding, Editable
  <2>9. \A r \in Product :
          /\ 0 <= pickings'[o].pickedQuantity[r]
          /\ pickings'[o].pickedQuantity[r] <= pickings'[o].quantity[r]
          /\ pickings'[o].reservedQuantity[r] = ReservationDue(o, r)'
    BY <1>2, <1>4, <2>1, <2>2, <2>3, <2>4, <2>5, <2>6
    DEF RowInv, OrderAgrees, ReservationDue, Editable
  <2>10. \E loc \in [Location -> Nat] :
           /\ located' = [located EXCEPT ![p] = loc]
           /\ LocatedQuantity(loc) <= onHand[p] - picked[p] - delta
    <3>1. CASE PickUnits(o, p, n, l)
      <4>1. /\ delta \in Nat
            /\ CanAllocate(onHand[p], picked[p], located[p], delta, l)
            /\ located' = [located EXCEPT ![p] = AllocateOutbound(@, delta, l)]
        BY <2>2, <3>1 DEF PickUnits
      <4>2. /\ AllocateOutbound(located[p], delta, l) \in [Location -> Nat]
            /\ LocatedQuantity(AllocateOutbound(located[p], delta, l))
                 <= onHand[p] - picked[p] - delta
        <5> HIDE DEF delta
        <5> QED BY <4>1, CoveredOne, AllocateLeaves
      <4> HIDE DEF delta
      <4> QED BY <4>1, <4>2
    <3>2. CASE UnpickUnits(o, p, n, l)
      <4>1. -delta \in Nat /\ located' = [located EXCEPT ![p] = PutAway(@, l, -delta)]
        BY <2>2, <3>2 DEF UnpickUnits
      <4> HIDE DEF delta
      <4>2. /\ PutAway(located[p], l, -delta) \in [Location -> Nat]
            /\ LocatedQuantity(PutAway(located[p], l, -delta))
                 = LocatedQuantity(located[p]) + (IF l = NoLocation THEN 0 ELSE -delta)
        BY <4>1, CoveredOne, PutAwayStores
      <4>3. LocatedQuantity(PutAway(located[p], l, -delta)) <= onHand[p] - picked[p] - delta
        BY <2>2, <4>1, <4>2, CoveredOne
      <4> QED BY <4>1, <4>2, <4>3
    <3> QED BY <1>8, <3>1, <3>2
  <2>11. Covered'
    <3>1. PICK loc \in [Location -> Nat] :
            /\ located' = [located EXCEPT ![p] = loc]
            /\ LocatedQuantity(loc) <= onHand[p] - picked[p] - delta
      BY <2>10
    <3> SUFFICES ASSUME NEW r \in Product
                 PROVE  /\ reserved'[r] <= onHand'[r]
                        /\ located'[r] \in [Location -> Nat]
                        /\ LocatedQuantity(located'[r]) <= onHand'[r] - picked'[r]
      BY DEF Covered
    <3> HIDE DEF delta
    <3>2. CASE r = p
      <4>1. located'[r] = loc /\ picked'[r] = picked[p] + delta
        BY <2>1, <3>1, <3>2 DEF Counted, TypeOK
      <4>2. LocatedQuantity(loc) \in Int
        BY LocatedInt
      <4> QED BY <2>1, <2>2, <3>1, <3>2, <4>1, <4>2, CoveredOne
    <3>3. CASE r # p
      <4>1. located'[r] = located[r] /\ picked'[r] = picked[r]
        BY <2>1, <3>1, <3>3 DEF Counted, TypeOK
      <4> QED BY <2>1, <4>1, CoveredOne
    <3> QED BY <3>2, <3>3
  <2> QED BY <1>6, <2>1, <2>4, <2>6, <2>8, <2>9, <2>11
<1>9. CASE CompletePicking(o)
  <2>1. pickings' = [pickings EXCEPT ![o].status = "completed",
                                     ![o].reservedQuantity = pickings[o].pickedQuantity]
    BY <1>9 DEF CompletePicking, Settled
  <2>2. /\ \A k \in Picking \ {o} : pickings'[k] = pickings[k]
        /\ pickings'[o].status = "completed"
        /\ pickings'[o].quantity = pickings[o].quantity
        /\ pickings'[o].reservedQuantity = pickings[o].pickedQuantity
        /\ pickings'[o].pickedQuantity = pickings[o].pickedQuantity
    BY <1>3, <2>1 DEF Counted, TypeOK, PickingOrder
  <2>3. /\ pickings[o].status \in Editable
        /\ SettleReservations(o, pickings[o].pickedQuantity)
        /\ UNCHANGED <<onHand, picked, located, packings, dispatched, deleting>>
    BY <1>9 DEF CompletePicking
  <2>4. packings[o].status = "none"
    BY <1>2, <2>3, PlainRows DEF Counted, Editable
  <2>5. \A p \in Product : picked'[p] = picked[p] + (PickedBy(o, p)' - PickedBy(o, p))
    BY <1>4, <2>2, <2>3, <2>4 DEF PickedBy, Outstanding, Finished
  <2>6. Covered'
    BY <1>3, <1>4, <2>3, CoveredFollows, SettledCovered
  <2>7. \A p \in Product :
          /\ 0 <= pickings'[o].pickedQuantity[p]
          /\ pickings'[o].pickedQuantity[p] <= pickings'[o].quantity[p]
          /\ pickings'[o].reservedQuantity[p] = ReservationDue(o, p)'
    BY <1>2, <1>4, <2>2, <2>3, <2>4
    DEF RowInv, OrderAgrees, ReservationDue, Outstanding, Editable, Finished
  <2> QED BY <1>6, <2>2, <2>3, <2>5, <2>6, <2>7
<1>10. ASSUME pickings[o].status \in Editable, ReleasePicked(o),
              SettleReservations(o, Nothing),
              UNCHANGED <<onHand, located, packings, dispatched, deleting>>,
              \A k \in Picking \ {o} : pickings'[k] = pickings[k],
              pickings'[o].status \in {"cancelled", "none"},
              pickings'[o].status = "none" => pickings'[o] = NoPicking,
              pickings'[o].reservedQuantity = Nothing,
              \A p \in Product : /\ 0 <= pickings'[o].pickedQuantity[p]
                                 /\ pickings'[o].pickedQuantity[p] <= pickings'[o].quantity[p]
       PROVE  StockInv'
  <2>1. \A p \in Product : PickedBy(o, p)' = 0 /\ ReservationDue(o, p)' = 0
    BY <1>10 DEF PickedBy, ReservationDue, Outstanding, Editable
  <2>2. \A p \in Product :
          /\ PickedBy(o, p) = pickings[o].pickedQuantity[p]
          /\ picked'[p] = picked[p] - pickings[o].pickedQuantity[p]
    BY <1>10, ReleasedPicked
  <2>3. \A p \in Product : picked'[p] = picked[p] + (PickedBy(o, p)' - PickedBy(o, p))
    BY <1>4, <2>1, <2>2
  <2>4. \A p \in Product : reserved'[p] <= onHand[p]
    BY <1>3, <1>10, SettledCovered
  <2>5. \A p \in Product : picked'[p] <= picked[p]
    BY <1>4, <2>2
  <2>6. Covered'
    BY <1>10, <2>4, <2>5, CoveredFollows
  <2>7. \A p \in Product : pickings'[o].reservedQuantity[p] = ReservationDue(o, p)'
    BY <1>10, <2>1 DEF Nothing
  <2> QED BY <1>6, <1>10, <2>3, <2>6, <2>7
<1>11. CASE CancelPicking(o)
  <2>1. pickings' = [pickings EXCEPT ![o].status = "cancelled",
                                     ![o].reservedQuantity = Nothing]
    BY <1>11 DEF CancelPicking, Settled
  <2>2. /\ \A k \in Picking \ {o} : pickings'[k] = pickings[k]
        /\ pickings'[o].status = "cancelled"
        /\ pickings'[o].quantity = pickings[o].quantity
        /\ pickings'[o].reservedQuantity = Nothing
        /\ pickings'[o].pickedQuantity = pickings[o].pickedQuantity
    BY <1>3, <2>1 DEF Counted, TypeOK, PickingOrder
  <2>3. \A p \in Product : /\ 0 <= pickings'[o].pickedQuantity[p]
                           /\ pickings'[o].pickedQuantity[p] <= pickings'[o].quantity[p]
    BY <1>2, <1>4, <2>2 DEF RowInv, OrderAgrees
  <2>4. /\ pickings[o].status \in Editable /\ ReleasePicked(o)
        /\ SettleReservations(o, Nothing)
        /\ UNCHANGED <<onHand, located, packings, dispatched, deleting>>
    BY <1>11 DEF CancelPicking
  <2> QED BY <1>10, <2>2, <2>3, <2>4
<1>12. CASE DeletePicking(o)
  <2>1. pickings'[o] = NoPicking /\ \A k \in Picking \ {o} : pickings'[k] = pickings[k]
    BY <1>12 DEF DeletePicking, Counted, TypeOK
  <2>2. /\ NoPicking.status = "none" /\ NoPicking.quantity = Nothing
        /\ NoPicking.reservedQuantity = Nothing /\ NoPicking.pickedQuantity = Nothing
    BY DEF NoPicking
  <2>3. \A p \in Product : /\ 0 <= pickings'[o].pickedQuantity[p]
                           /\ pickings'[o].pickedQuantity[p] <= pickings'[o].quantity[p]
    BY <2>1, <2>2 DEF Nothing
  <2>4. /\ pickings[o].status \in Editable /\ ReleasePicked(o)
        /\ SettleReservations(o, Nothing)
        /\ UNCHANGED <<onHand, located, packings, dispatched, deleting>>
    BY <1>12 DEF DeletePicking, Editable
  <2> QED BY <1>10, <2>1, <2>2, <2>3, <2>4
<1> QED BY <1>1, <1>5, <1>7, <1>8, <1>9, <1>11, <1>12

\* Completing or cancelling a packing, with `packed` of what was picked.
LEMMA ConsumeKeeps ==
  ASSUME Counted, Counted', StockInv, NEW o \in Picking, NEW packed \in Units,
         ConsumeReservations(o, packed),
         packings[o].status \in Editable, o \notin deleting,
         \A p \in Product : packed[p] <= packings[o].packedQuantity[p],
         packings'[o].quantity = packings[o].quantity,
         packings'[o].packedQuantity = packings[o].packedQuantity,
         \/ packings'[o].status = "completed"
         \/ packings'[o].status = "cancelled" /\ packed = Nothing,
         \A k \in Picking \ {o} : packings'[k] = packings[k],
         UNCHANGED <<located, deleting>>
  PROVE  StockInv'
<1>1. RowInv(o) /\ pickings[o].status = "completed" /\ dispatched[o] = Nothing
  BY DEF StockInv, RowInv, OrderAgrees, Editable
<1>2. ASSUME NEW p \in Product
      PROVE  /\ packed[p] \in Nat /\ packed[p] <= pickings[o].pickedQuantity[p]
             /\ pickings[o].pickedQuantity[p] <= pickings[o].quantity[p]
             /\ pickings[o].pickedQuantity[p] \in Nat /\ pickings[o].quantity[p] \in Nat
             /\ packings[o].packedQuantity[p] <= packings[o].quantity[p]
             /\ packings[o].quantity[p] <= pickings[o].pickedQuantity[p]
             /\ PickedBy(o, p) = pickings[o].pickedQuantity[p]
             /\ pickings[o].reservedQuantity[p] = pickings[o].pickedQuantity[p]
  <2>1. /\ packings[o].packedQuantity[p] \in Nat /\ packings[o].quantity[p] \in Nat
        /\ pickings[o].pickedQuantity[p] \in Nat /\ pickings[o].quantity[p] \in Nat
        /\ packed[p] \in Nat
    BY RowFields DEF Counted, Units
  <2>2. packings[o].status \notin Finished /\ packings[o].status # "none"
    BY DEF Editable, Finished
  <2>3. PickedBy(o, p) = pickings[o].pickedQuantity[p]
    BY <1>1, <2>2 DEF PickedBy, Outstanding
  <2>4. pickings[o].reservedQuantity[p] = pickings[o].pickedQuantity[p]
    BY <1>1, <2>2 DEF RowInv, ReservationDue, Outstanding, Editable
  <2>5. /\ packings[o].packedQuantity[p] <= packings[o].quantity[p]
        /\ packings[o].quantity[p] <= pickings[o].pickedQuantity[p]
        /\ pickings[o].pickedQuantity[p] <= pickings[o].quantity[p]
    BY <1>1, <2>2 DEF RowInv, OrderAgrees
  <2>6. packed[p] <= packings[o].packedQuantity[p]
    OBVIOUS
  <2> QED BY <2>1, <2>3, <2>4, <2>5, <2>6
<1>3. NoneIsEmpty
  BY DEF StockInv, RowInv, OrderAgrees, NoneIsEmpty
<1>4. /\ \A k \in Picking \ {o} : /\ pickings'[k] = pickings[k]
                                  /\ dispatched'[k] = dispatched[k]
      /\ pickings'[o] = [pickings[o] EXCEPT !.reservedQuantity = Nothing]
      /\ pickings'[o].reservedQuantity = Nothing
      /\ pickings'[o].status = pickings[o].status
      /\ pickings'[o].status = "none" => pickings'[o] = NoPicking
      /\ \A p \in Product :
           reserved'[p] = reserved[p] + (pickings'[o].reservedQuantity[p]
                                         - pickings[o].reservedQuantity[p])
  BY <1>3, ConsumeStep DEF Counted
<1>5. /\ pickings'[o].quantity = pickings[o].quantity
      /\ pickings'[o].pickedQuantity = pickings[o].pickedQuantity
  BY <1>4, RowFields DEF Counted, PickingOrder
<1>6. OnlyOrder(o)
  BY <1>4 DEF OnlyOrder
<1>7. \A p \in Product : dispatched'[o][p] = packed[p]
  BY <1>1, <1>2 DEF ConsumeReservations, Counted, TypeOK, Nothing
<1>8. packings'[o].status # "completed" => dispatched'[o] = Nothing
  <2>1. SUFFICES ASSUME packings'[o].status # "completed" PROVE dispatched'[o] = Nothing
    OBVIOUS
  <2>2. packed = Nothing
    BY <2>1
  <2>3. dispatched'[o] = [p \in Product |-> dispatched[o][p] + packed[p]]
    BY DEF ConsumeReservations, Counted, TypeOK
  <2> QED BY <1>1, <2>2, <2>3 DEF Nothing
<1>9. \A p \in Product : PickedBy(o, p)' = 0 /\ ReservationDue(o, p)' = 0
  BY <1>1, <1>4 DEF PickedBy, ReservationDue, Outstanding, Editable, Finished
<1>10. RowInv(o)'
  <2>1. \A p \in Product : pickings'[o].reservedQuantity[p] = ReservationDue(o, p)'
    BY <1>4, <1>9 DEF Nothing
  <2>2. pickings'[o].status = "completed" /\ o \notin deleting'
    BY <1>1, <1>4
  <2>3. \A p \in Product :
          /\ dispatched'[o][p] <= pickings'[o].pickedQuantity[p]
          /\ pickings'[o].pickedQuantity[p] <= pickings'[o].quantity[p]
          /\ packings'[o].packedQuantity[p] <= packings'[o].quantity[p]
          /\ packings'[o].quantity[p] <= pickings'[o].pickedQuantity[p]
    BY <1>2, <1>5, <1>7
  <2> QED BY <1>8, <2>1, <2>2, <2>3 DEF RowInv, OrderAgrees
<1>11. ASSUME NEW p \in Product
       PROVE  picked'[p] = picked[p] - pickings[o].pickedQuantity[p]
  <2>1. PickedBy(o, p) <= picked[p] /\ picked[p] \in Int
    BY PickedIsReserved, CoveredOne DEF StockInv
  <2> QED BY <1>2, <2>1 DEF ConsumeReservations, PickedAfter, Greatest
<1>12. \A p \in Product : picked'[p] = picked[p] + (PickedBy(o, p)' - PickedBy(o, p))
  BY <1>2, <1>9, <1>11, CoveredOne
<1>13. Covered'
  <2> SUFFICES ASSUME NEW p \in Product
               PROVE  /\ reserved'[p] <= onHand'[p]
                      /\ located'[p] \in [Location -> Nat]
                      /\ LocatedQuantity(located'[p]) <= onHand'[p] - picked'[p]
    BY DEF Covered
  <2>1. onHand'[p] = onHand[p] - packed[p]
    BY DEF ConsumeReservations
  <2>2. reserved'[p] = reserved[p] - pickings[o].pickedQuantity[p]
    BY <1>2, <1>4, CoveredOne DEF Nothing
  <2> QED BY <1>2, <1>11, <2>1, <2>2, CoveredOne
<1> QED BY <1>6, <1>10, <1>12, <1>13, OrderStepKeeps

\* So does every request on a packing order, if deletions are not overlapped.
LEMMA PackingKeeps ==
  ASSUME OverlapDelete = FALSE, Counted, Counted', StockInv, PackingNext
  PROVE  StockInv'
<1> USE FulfilmentAssumption
<1>1. PICK o \in Picking :
        \/ CreatePacking(o)
        \/ StartPacking(o)
        \/ \E p \in Product, n \in 0..MaxQuantity : PackUnits(o, p, n)
        \/ CompletePacking(o)
        \/ CancelPacking(o)
        \/ CheckPackingDeletion(o)
        \/ DeletePackingRow(o)
  BY DEF PackingNext
<1>2. RowInv(o)
  BY DEF StockInv
<1>3. /\ Nothing \in Units
      /\ packings[o].packedQuantity \in Units
      /\ packings[o] \in PackingOrder
  BY EmptyTyped, RowFields DEF Counted, Units
<1>4. \A p \in Product : /\ packings[o].quantity[p] \in Nat
                         /\ packings[o].packedQuantity[p] \in Nat
                         /\ pickings[o].pickedQuantity[p] \in Nat
                         /\ pickings[o].quantity[p] \in Nat
                         /\ picked[p] \in Int
  BY RowFields, CoveredOne DEF Counted
<1>5. ASSUME UNCHANGED <<onHand, reserved, picked, located, pickings, dispatched>>,
             \A k \in Picking \ {o} : /\ packings'[k] = packings[k]
                                      /\ k \in deleting' => k \in deleting,
             pickings[o].status = "completed",
             dispatched[o] = Nothing,
             packings[o].status \notin Finished,
             packings'[o].status \notin Finished,
             o \in deleting' => packings'[o].status = "pending",
             packings'[o].status # "none" =>
               \A p \in Product :
                 /\ packings'[o].packedQuantity[p] <= packings'[o].quantity[p]
                 /\ packings'[o].quantity[p] <= pickings[o].pickedQuantity[p]
      PROVE  StockInv'
  <2>1. OnlyOrder(o)
    BY <1>5 DEF OnlyOrder
  <2>2. RowInv(o)'
    BY <1>2, <1>4, <1>5
    DEF RowInv, OrderAgrees, ReservationDue, Outstanding, Nothing
  <2>3. \A p \in Product : picked'[p] = picked[p] + (PickedBy(o, p)' - PickedBy(o, p))
    BY <1>4, <1>5 DEF PickedBy, Outstanding
  <2>4. Covered'
    BY <1>5 DEF Covered, StockInv
  <2> QED BY <2>1, <2>2, <2>3, <2>4, OrderStepKeeps
<1>6. CASE CreatePacking(o)
  <2>1. /\ packings'[o] = [status |-> "pending", quantity |-> pickings[o].pickedQuantity,
                           packedQuantity |-> Nothing]
        /\ \A k \in Picking \ {o} : packings'[k] = packings[k]
    BY <1>6 DEF CreatePacking, ToPack, Counted, TypeOK
  <2>2. /\ packings'[o].status = "pending"
        /\ packings'[o].quantity = pickings[o].pickedQuantity
        /\ packings'[o].packedQuantity = Nothing
    BY <2>1
  <2>3. /\ pickings[o].status = "completed" /\ packings[o].status = "none"
        /\ UNCHANGED <<onHand, reserved, picked, located, pickings, dispatched, deleting>>
    BY <1>6 DEF CreatePacking, stockVars
  <2>4. dispatched[o] = Nothing
    BY <1>2, <2>3 DEF RowInv, OrderAgrees
  <2>5. \A p \in Product : /\ packings'[o].packedQuantity[p] <= packings'[o].quantity[p]
                           /\ packings'[o].quantity[p] <= pickings[o].pickedQuantity[p]
    BY <1>4, <2>2 DEF Nothing
  <2> QED BY <1>5, <2>1, <2>2, <2>3, <2>4, <2>5 DEF Finished
<1>7. ASSUME NEW q \in [Product -> Nat], NEW row \in PackingOrder,
             packings' = [packings EXCEPT ![o] = row],
             row.status \in Editable, row.quantity = packings[o].quantity,
             row.packedQuantity = q,
             \A p \in Product : q[p] <= packings[o].quantity[p],
             packings[o].status \in Editable,
             o \in deleting => row.status = "pending",
             UNCHANGED <<onHand, reserved, picked, located, pickings, dispatched, deleting>>
      PROVE  StockInv'
  <2>1. packings'[o] = row /\ \A k \in Picking \ {o} : packings'[k] = packings[k]
    BY <1>7 DEF Counted, TypeOK
  <2>2. pickings[o].status = "completed" /\ dispatched[o] = Nothing
    BY <1>2, <1>7 DEF RowInv, OrderAgrees, Editable
  <2>3. \A p \in Product : packings[o].quantity[p] <= pickings[o].pickedQuantity[p]
    BY <1>2, <1>7 DEF RowInv, OrderAgrees, Editable
  <2> QED BY <1>5, <1>7, <2>1, <2>2, <2>3 DEF Editable, Finished
<1>8. CASE StartPacking(o)
  <2> DEFINE row == [packings[o] EXCEPT !.status = "in_progress"]
  <2>1. /\ row \in PackingOrder /\ row.status = "in_progress"
        /\ row.quantity = packings[o].quantity
        /\ row.packedQuantity = packings[o].packedQuantity
    BY <1>3 DEF PackingOrder, OrderStatus, Editable
  <2>2. packings' = [packings EXCEPT ![o] = row]
    BY <1>8 DEF StartPacking
  <2>3. /\ packings[o].status = "pending" /\ o \notin deleting
        /\ UNCHANGED <<onHand, reserved, picked, located, pickings, dispatched, deleting>>
    BY <1>8 DEF StartPacking, Undisturbed, stockVars
  <2> HIDE DEF row
  <2>4. \A p \in Product : packings[o].packedQuantity[p] <= packings[o].quantity[p]
    BY <1>2, <2>3 DEF RowInv, OrderAgrees
  <2>5. packings[o].packedQuantity \in [Product -> Nat]
    BY <1>3 DEF Units
  <2> QED BY <1>7, <2>1, <2>2, <2>3, <2>4, <2>5 DEF Editable
<1>9. ASSUME NEW p \in Product, NEW n \in 0..MaxQuantity, PackUnits(o, p, n)
      PROVE  StockInv'
  <2> DEFINE q == [packings[o].packedQuantity EXCEPT ![p] = n]
             row == [packings[o] EXCEPT !.packedQuantity = q, !.status = "in_progress"]
  <2>1. /\ q \in [Product -> Nat]
        /\ \A r \in Product : q[r] = IF r = p THEN n ELSE packings[o].packedQuantity[r]
    BY <1>3 DEF Units
  <2>2. packings' = [packings EXCEPT ![o] = row]
    BY <1>9 DEF PackUnits
  <2>3. /\ packings[o].status \in Editable /\ o \notin deleting
        /\ n <= packings[o].quantity[p]
        /\ UNCHANGED <<onHand, reserved, picked, located, pickings, dispatched, deleting>>
    BY <1>9 DEF PackUnits, Undisturbed, stockVars
  <2> HIDE DEF q
  <2>4. /\ row \in PackingOrder /\ row.status = "in_progress"
        /\ row.quantity = packings[o].quantity
        /\ row.packedQuantity = q
    BY <1>3, <2>1 DEF PackingOrder, OrderStatus, Editable, Units
  <2> HIDE DEF row
  <2>5. \A r \in Product : q[r] <= packings[o].quantity[r]
    BY <1>2, <2>1, <2>3 DEF RowInv, OrderAgrees, Editable
  <2> QED BY <1>7, <2>1, <2>2, <2>3, <2>4, <2>5 DEF Editable
<1>10. ASSUME NEW status \in {"completed", "cancelled"},
              packings' = [packings EXCEPT ![o].status = status]
       PROVE  /\ packings'[o].status = status
              /\ packings'[o].quantity = packings[o].quantity
              /\ packings'[o].packedQuantity = packings[o].packedQuantity
              /\ \A k \in Picking \ {o} : packings'[k] = packings[k]
  BY <1>3, <1>10 DEF Counted, TypeOK, PackingOrder
<1>11. CASE CompletePacking(o)
  <2>1. /\ packings[o].status \in Editable /\ o \notin deleting
        /\ packings' = [packings EXCEPT ![o].status = "completed"]
        /\ ConsumeReservations(o, packings[o].packedQuantity)
        /\ UNCHANGED <<located, deleting>>
    BY <1>11 DEF CompletePacking, Undisturbed
  <2>2. \A p \in Product : packings[o].packedQuantity[p] <= packings[o].packedQuantity[p]
    BY <1>4
  <2> QED BY <1>3, <1>10, <2>1, <2>2, ConsumeKeeps
<1>12. CASE CancelPacking(o)
  <2>1. /\ packings[o].status \in Editable /\ o \notin deleting
        /\ packings' = [packings EXCEPT ![o].status = "cancelled"]
        /\ ConsumeReservations(o, Nothing)
        /\ UNCHANGED <<located, deleting>>
    BY <1>12 DEF CancelPacking, Undisturbed
  <2>2. \A p \in Product : Nothing[p] <= packings[o].packedQuantity[p]
    BY <1>4 DEF Nothing
  <2> QED BY <1>3, <1>10, <2>1, <2>2, ConsumeKeeps
<1>13. CASE CheckPackingDeletion(o)
  <2>1. /\ packings[o].status = "pending" /\ deleting' = deleting \cup {o}
        /\ UNCHANGED <<onHand, reserved, picked, located, pickings, packings, dispatched>>
    BY <1>13 DEF CheckPackingDeletion, stockVars
  <2>2. pickings[o].status = "completed" /\ dispatched[o] = Nothing
    BY <1>2, <2>1 DEF RowInv, OrderAgrees
  <2>3. \A p \in Product : /\ packings[o].packedQuantity[p] <= packings[o].quantity[p]
                           /\ packings[o].quantity[p] <= pickings[o].pickedQuantity[p]
    BY <1>2, <2>1 DEF RowInv, OrderAgrees
  <2> QED BY <1>5, <2>1, <2>2, <2>3 DEF Finished
<1>14. CASE DeletePackingRow(o)
  <2>1. /\ o \in deleting /\ deleting' = deleting \ {o}
        /\ packings'[o] = NoPacking /\ \A k \in Picking \ {o} : packings'[k] = packings[k]
        /\ UNCHANGED <<onHand, reserved, picked, located, pickings, dispatched>>
    BY <1>14 DEF DeletePackingRow, stockVars, Counted, TypeOK
  <2>2. packings[o].status = "pending"
    BY <1>2, <2>1 DEF RowInv, OrderAgrees
  <2>3. pickings[o].status = "completed" /\ dispatched[o] = Nothing
    BY <1>2, <2>2 DEF RowInv, OrderAgrees
  <2>4. packings'[o].status = "none"
    BY <2>1 DEF NoPacking
  <2> QED BY <1>5, <2>1, <2>2, <2>3, <2>4 DEF Finished
<1> QED BY <1>1, <1>6, <1>8, <1>9, <1>11, <1>12, <1>13, <1>14

\* So does every request on a sales order.
LEMMA SalesKeeps ==
  ASSUME Counted, Counted', StockInv, SalesNext
  PROVE  StockInv'
<1>1. PICK s \in Sale :
        \/ \E quantity \in Requests : CreateSale(s, quantity)
        \/ \E o \in Picking, allowPartial \in BOOLEAN : ReleaseSale(s, o, allowPartial)
        \/ CancelSale(s)
  BY DEF SalesNext
<1>2. CASE UNCHANGED <<stockVars, pickings, packings, dispatched, deleting>>
  BY <1>2 DEF stockVars, StockInv, PickedIsSum, PickedBy, Outstanding, RowInv, OrderAgrees,
              ReservationDue, Covered
<1>3. ASSUME NEW o \in Picking, NEW allowPartial \in BOOLEAN,
             ReleaseSale(s, o, allowPartial)
      PROVE  StockInv'
  <2> DEFINE allocation ==
               [p \in Product |-> Greatest(0, Least(Pending(s, p), Available(p)))]
  <2>1. allocation \in Units
    BY RowFields DEF Pending, Available, Greatest, Least, Counted, TypeOK, Units
  <2>2. /\ IsNextPicking(o)
        /\ CreateInTransaction(o, allocation, s)
        /\ UNCHANGED <<onHand, picked, located, packings, dispatched, deleting>>
    BY <1>3 DEF ReleaseSale
  <2> HIDE DEF allocation
  <2> QED BY <2>1, <2>2, CreationKeeps
<1> QED BY <1>1, <1>2, <1>3 DEF CreateSale, CancelSale

\* StockInv holds of the empty database.
LEMMA StockInvInit == Init => StockInv
<1> SUFFICES ASSUME Init PROVE StockInv
  OBVIOUS
<1>1. ASSUME NEW o \in Picking
      PROVE  /\ pickings[o] = NoPicking /\ pickings[o].status = "none"
             /\ pickings[o].reservedQuantity = Nothing
             /\ pickings[o].pickedQuantity = Nothing
             /\ pickings[o].quantity = Nothing
             /\ packings[o].status = "none" /\ dispatched[o] = Nothing
             /\ o \notin deleting
  BY DEF Init, NoPicking, NoPacking
<1>2. ASSUME NEW o \in Picking
      PROVE  RowInv(o) /\ \A p \in Product : PickedBy(o, p) = 0
  BY <1>1 DEF RowInv, OrderAgrees, ReservationDue, PickedBy, Outstanding, Editable, Nothing
<1>3. PickedIsSum
  <2> SUFFICES ASSUME NEW p \in Product
               PROVE  picked[p] = Total([o \in Picking |-> PickedBy(o, p)], MaxPickings)
    BY DEF PickedIsSum
  <2> DEFINE f == [o \in Picking |-> PickedBy(o, p)]
  <2>1. \A i \in 1..MaxPickings : f[i] = 0
    BY <1>2 DEF Picking
  <2> HIDE DEF f
  <2>2. Total(f, MaxPickings) = 0
    BY <2>1, TotalAllZero, FulfilmentAssumption
  <2>3. picked[p] = 0
    BY DEF Init, Nothing
  <2> QED BY <2>2, <2>3 DEF f
<1>4. Covered
  <2> SUFFICES ASSUME NEW p \in Product
               PROVE  /\ reserved[p] <= onHand[p]
                      /\ located[p] \in [Location -> Nat]
                      /\ LocatedQuantity(located[p]) <= onHand[p] - picked[p]
    BY DEF Covered
  <2>1. onHand[p] = 0 /\ reserved[p] = 0 /\ picked[p] = 0 /\ located[p] = NoUnits
    BY DEF Init, Nothing
  <2>2. \A i \in 1..NumLocations : NoUnits[i] = 0
    BY DEF NoUnits, Location
  <2>3. LocatedQuantity(NoUnits) = 0
    BY <2>2, TotalAllZero, ShelvesAssumption DEF LocatedQuantity
  <2> QED BY <2>1, <2>3 DEF NoUnits
<1> QED BY <1>2, <1>3, <1>4 DEF StockInv

\* The inductive invariant: the rows of every order agree, the counter of picked
\* units is their sum, and what is reserved, located and picked is on hand.
THEOREM StockInvariant ==
  ASSUME OverlapDelete = FALSE
  PROVE  Spec => []StockInv
<1>1. Counted /\ Counted' /\ StockInv /\ [Next]_vars => StockInv'
  <2> SUFFICES ASSUME Counted, Counted', StockInv, [Next]_vars PROVE StockInv'
    OBVIOUS
  <2>1. CASE UNCHANGED vars
    BY <2>1 DEF vars, StockInv, PickedIsSum, PickedBy, Outstanding, RowInv, OrderAgrees,
                ReservationDue, Covered
  <2> QED BY <2>1, StockKeeps, PickingKeeps, PackingKeeps, SalesKeeps DEF Next
<1>2. TypeOK /\ ReservedIsSum => Counted
  BY DEF Counted
<1> QED BY <1>1, <1>2, StockInvInit, TypeCorrect, ReservationsAddUp, PTL DEF Spec

-----------------------------------------------------------------------------
(***************************************************************************)
(* What follows from it.                                                   *)
(***************************************************************************)

\* The counter of picked units is the sum over the outstanding orders: the
\* clamps at zero in releasePicked and consumeReservations never act.
THEOREM PickedAddsUp ==
  ASSUME OverlapDelete = FALSE
  PROVE  Spec => []PickedIsSum
<1>1. StockInv => PickedIsSum
  BY DEF StockInv
<1> QED BY <1>1, StockInvariant, PTL

\* Every order holds the reservation its state calls for, through pickings and
\* packings that finish, are cancelled, deleted and made again.
THEOREM OrderHoldsReservation ==
  ASSUME OverlapDelete = FALSE
  PROVE  Spec => []ReservationFollowsOrder
<1>1. StockInv => ReservationFollowsOrder
  BY DEF StockInv, RowInv, ReservationFollowsOrder
<1> QED BY <1>1, StockInvariant, PTL

\* The picking, the packing and the dispatched units of an order are consistent.
THEOREM OrdersConsistent ==
  ASSUME OverlapDelete = FALSE
  PROVE  Spec => []OrdersAgree
<1>1. StockInv => OrdersAgree
  BY DEF StockInv, RowInv, OrdersAgree
<1> QED BY <1>1, StockInvariant, PTL

\* A packing sends out only what was picked for its order.
THEOREM OnlyPickedIsDispatched ==
  ASSUME OverlapDelete = FALSE
  PROVE  Spec => []DispatchedWerePicked
<1>1. OrdersAgree => DispatchedWerePicked
  BY DEF OrdersAgree, OrderAgrees, DispatchedWerePicked
<1> QED BY <1>1, OrdersConsistent, PTL

\* The integrity report stays empty and the CHECK constraints on the stock
\* rows never refuse a commit.
THEOREM StockIntegrity ==
  ASSUME OverlapDelete = FALSE
  PROVE  Spec => [](IntegrityReportEmpty /\ StockChecks)
<1>1. Counted /\ StockInv => IntegrityReportEmpty /\ StockChecks
  <2> SUFFICES ASSUME Counted, StockInv, NEW p \in Product
               PROVE  /\ onHand[p] >= 0 /\ reserved[p] >= 0 /\ picked[p] >= 0
                      /\ reserved[p] <= onHand[p] /\ picked[p] <= onHand[p]
                      /\ LocatedQuantity(located[p]) <= onHand[p] - picked[p]
                      /\ \A l \in Location : 0 <= located[p][l]
    BY DEF IntegrityReportEmpty, StockChecks
  <2>1. 0 <= picked[p] /\ picked[p] <= reserved[p]
    BY PickedIsReserved DEF StockInv
  <2> QED BY <2>1, CoveredOne
<1>2. TypeOK /\ ReservedIsSum => Counted
  BY DEF Counted
<1> QED BY <1>1, <1>2, StockInvariant, TypeCorrect, ReservationsAddUp, PTL

\* A picker is never refused units of an order that holds its reservation.
THEOREM ReservedCanBePicked ==
  ASSUME OverlapDelete = FALSE
  PROVE  Spec => []PickNeverRefused
<1>1. Counted /\ StockInv => PickNeverRefused
  <2> SUFFICES ASSUME Counted, StockInv, NEW o \in Picking, NEW p \in Product,
                      pickings[o].status \in Editable
               PROVE  CanAllocate(onHand[p], picked[p], located[p],
                                  pickings[o].quantity[p] - pickings[o].pickedQuantity[p],
                                  NoLocation)
    BY DEF PickNeverRefused
  <2>1. /\ PickedBy(o, p) = pickings[o].pickedQuantity[p]
        /\ pickings[o].reservedQuantity[p] = pickings[o].quantity[p]
    BY DEF StockInv, RowInv, ReservationDue, PickedBy, Outstanding
  <2>2. pickings[o].reservedQuantity[p] - PickedBy(o, p) <= reserved[p] - picked[p]
    BY PickedIsReserved DEF StockInv
  <2>3. pickings[o].quantity[p] \in Nat /\ pickings[o].pickedQuantity[p] \in Nat
    BY RowFields DEF Counted
  <2>4. pickings[o].quantity[p] - pickings[o].pickedQuantity[p] <= onHand[p] - picked[p]
    BY <2>1, <2>2, <2>3, CoveredOne
  <2> QED BY <2>3, <2>4, CoveredOne DEF CanAllocate, UnlocatedQuantity
<1>2. TypeOK /\ ReservedIsSum => Counted
  BY DEF Counted
<1> QED BY <1>1, <1>2, StockInvariant, TypeCorrect, ReservationsAddUp, PTL

\* A packing can always be completed or cancelled, whatever the others hold.
THEOREM PackedCanBeDispatched ==
  ASSUME OverlapDelete = FALSE
  PROVE  Spec => []DispatchNeverRefused
<1>1. Counted /\ StockInv => DispatchNeverRefused
  <2> SUFFICES ASSUME Counted, StockInv, NEW o \in Picking, NEW p \in Product,
                      packings[o].status \in Editable
               PROVE  onHand[p] - packings[o].packedQuantity[p]
                        >= reserved[p] - pickings[o].reservedQuantity[p]
    BY DEF DispatchNeverRefused
  <2>1. RowInv(o) /\ packings[o].status \notin Finished /\ packings[o].status # "none"
    BY DEF StockInv, Editable, Finished
  <2>2. pickings[o].reservedQuantity[p] = pickings[o].pickedQuantity[p]
    BY <2>1 DEF RowInv, OrderAgrees, ReservationDue, Outstanding, Editable
  <2>3. packings[o].packedQuantity[p] <= packings[o].quantity[p]
        /\ packings[o].quantity[p] <= pickings[o].pickedQuantity[p]
    BY <2>1 DEF RowInv, OrderAgrees
  <2>4. /\ packings[o].packedQuantity[p] \in Nat /\ packings[o].quantity[p] \in Nat
        /\ pickings[o].pickedQuantity[p] \in Nat
    BY RowFields DEF Counted
  <2> QED BY <2>2, <2>3, <2>4, CoveredOne
<1>2. TypeOK /\ ReservedIsSum => Counted
  BY DEF Counted
<1> QED BY <1>1, <1>2, StockInvariant, TypeCorrect, ReservationsAddUp, PTL

-----------------------------------------------------------------------------
(***************************************************************************)
(* Sales orders.  What a sales order counts as released and                *)
(* shipped follows its pickings order by order (AccountsFollow), so it is  *)
(* a sum over them (SaleAccounts).  A picking asks for at least one unit;  *)
(* an outstanding one is therefore visible in the difference between       *)
(* released and shipped units, and a closed sales order, where there is no *)
(* difference, has none (ClosedHasNone).  With the accounts, no CHECK of   *)
(* the database refuses a commit, and the whole of Fulfilment implements   *)
(* the ledger of claims.                                                   *)
(***************************************************************************)

\* What picking o adds to the shipped units of sales order s, and to the
\* released units that did not ship.
ShippedFor(s, o, p) == IF pickings[o].sale = s THEN dispatched[o][p] ELSE 0

HeldFor(s, o, p) ==
  IF pickings[o].sale = s /\ Outstanding(o) THEN pickings[o].quantity[p] ELSE 0

\* A picking that exists asks for something, and for no more of a product than
\* a request may name.
PickingsAsk ==
  \A o \in Picking :
    /\ pickings[o].status # "none" => \E p \in Product : pickings[o].quantity[p] > 0
    /\ \A p \in Product : pickings[o].quantity[p] <= MaxQuantity

\* What the status of a sales order says of its quantities.
SaleStatusAgrees ==
  \A s \in Sale, p \in Product :
    /\ sales[s].quantity[p] <= MaxQuantity
    /\ sales[s].status = "none" =>
         sales[s].releasedQuantity[p] = 0 /\ sales[s].shippedQuantity[p] = 0
    /\ sales[s].status = "shipped" => sales[s].shippedQuantity[p] >= sales[s].quantity[p]
    /\ sales[s].status = "cancelled" =>
         sales[s].releasedQuantity[p] <= sales[s].shippedQuantity[p]

SalesInv == PickingsAsk /\ SaleStatusAgrees /\ SaleAccounts /\ NeverOverReleased

-----------------------------------------------------------------------------
(***************************************************************************)
(* The accounts of a sales order.                                          *)
(***************************************************************************)

\* The amounts of one picking are numbers.
LEMMA AmountsTyped ==
  ASSUME TypeOK, NEW s, NEW o \in Picking, NEW p \in Product
  PROVE  ShippedFor(s, o, p) \in Nat /\ HeldFor(s, o, p) \in Nat
BY RowFields DEF ShippedFor, HeldFor

\* If the amounts of one picking are the only ones that change, and the columns
\* of every sales order move by that change, they are still the sums.
LEMMA AccountsFollow ==
  ASSUME TypeOK, TypeOK', SaleAccounts, NEW o \in Picking, OnlyOrder(o),
         \A s \in Sale, p \in Product :
           /\ sales'[s].shippedQuantity[p] =
                sales[s].shippedQuantity[p] + (ShippedFor(s, o, p)' - ShippedFor(s, o, p))
           /\ sales'[s].releasedQuantity[p] =
                sales[s].releasedQuantity[p] + (ShippedFor(s, o, p)' - ShippedFor(s, o, p))
                                             + (HeldFor(s, o, p)' - HeldFor(s, o, p))
  PROVE  SaleAccounts'
<1> SUFFICES ASSUME NEW s \in Sale, NEW p \in Product
             PROVE  /\ sales'[s].shippedQuantity[p] =
                         Total([k \in Picking |-> ShippedFor(s, k, p)'], MaxPickings)
                    /\ sales'[s].releasedQuantity[p] = sales'[s].shippedQuantity[p] +
                         Total([k \in Picking |-> HeldFor(s, k, p)'], MaxPickings)
  BY DEF SaleAccounts, ShippedFor, HeldFor
<1> DEFINE f == [k \in Picking |-> ShippedFor(s, k, p)]
           g == [k \in Picking |-> ShippedFor(s, k, p)']
           h == [k \in Picking |-> HeldFor(s, k, p)]
           j == [k \in Picking |-> HeldFor(s, k, p)']
<1>1. ASSUME NEW k \in Picking
      PROVE  /\ ShippedFor(s, k, p) \in Int /\ HeldFor(s, k, p) \in Int
             /\ ShippedFor(s, k, p)' \in Int /\ HeldFor(s, k, p)' \in Int
  <2>1. ShippedFor(s, k, p) \in Nat /\ HeldFor(s, k, p) \in Nat
    BY AmountsTyped
  <2>2. ShippedFor(s, k, p)' \in Nat /\ HeldFor(s, k, p)' \in Nat
    BY DEF TypeOK, PickingOrder, Units, ShippedFor, HeldFor
  <2> QED BY <2>1, <2>2
<1>2. \A k \in Picking : f[k] \in Int /\ g[k] \in Int /\ h[k] \in Int /\ j[k] \in Int
  BY <1>1
<1>3. \A k \in Picking \ {o} : g[k] = f[k] /\ j[k] = h[k]
  BY DEF OnlyOrder, ShippedFor, HeldFor, Outstanding
<1>4. /\ sales[s].shippedQuantity[p] = Total(f, MaxPickings)
      /\ sales[s].releasedQuantity[p] = sales[s].shippedQuantity[p] + Total(h, MaxPickings)
  BY DEF SaleAccounts, ShippedFor, HeldFor
<1>5. /\ sales'[s].shippedQuantity[p] = sales[s].shippedQuantity[p] + (g[o] - f[o])
      /\ sales'[s].releasedQuantity[p] =
           sales[s].releasedQuantity[p] + (g[o] - f[o]) + (j[o] - h[o])
  OBVIOUS
<1>6. sales[s].shippedQuantity[p] \in Int /\ Total(h, MaxPickings) \in Int
  <2>1. MaxPickings \in Nat /\ \A i \in 1..MaxPickings : h[i] \in Int
    BY <1>2, FulfilmentAssumption DEF Picking
  <2> HIDE DEF h
  <2> QED BY <2>1, RowFields, TotalInt
<1> HIDE DEF f, g, h, j
<1>7. Total(g, MaxPickings) = Total(f, MaxPickings) + (g[o] - f[o])
  BY <1>2, <1>3, SumFollows
<1>8. Total(j, MaxPickings) = Total(h, MaxPickings) + (j[o] - h[o])
  BY <1>2, <1>3, SumFollows
<1>9. g[o] \in Int /\ f[o] \in Int /\ h[o] \in Int /\ j[o] \in Int
  BY <1>2
<1> QED BY <1>4, <1>5, <1>6, <1>7, <1>8, <1>9 DEF g, j

\* The accounts hold as long as no picking and no column of theirs changes.
LEMMA AccountsSame ==
  ASSUME SaleAccounts, UNCHANGED <<pickings, packings, dispatched>>,
         \A s \in Sale : /\ sales'[s].shippedQuantity = sales[s].shippedQuantity
                        /\ sales'[s].releasedQuantity = sales[s].releasedQuantity
  PROVE  SaleAccounts'
<1> SUFFICES ASSUME NEW s \in Sale, NEW p \in Product
             PROVE  /\ sales'[s].shippedQuantity[p] =
                         Total([k \in Picking |-> ShippedFor(s, k, p)'], MaxPickings)
                    /\ sales'[s].releasedQuantity[p] = sales'[s].shippedQuantity[p] +
                         Total([k \in Picking |-> HeldFor(s, k, p)'], MaxPickings)
  BY DEF SaleAccounts, ShippedFor, HeldFor
<1>1. \A k \in Picking : /\ ShippedFor(s, k, p)' = ShippedFor(s, k, p)
                         /\ HeldFor(s, k, p)' = HeldFor(s, k, p)
  BY DEF ShippedFor, HeldFor, Outstanding
<1>2. /\ sales[s].shippedQuantity[p] =
           Total([k \in Picking |-> ShippedFor(s, k, p)], MaxPickings)
      /\ sales[s].releasedQuantity[p] = sales[s].shippedQuantity[p] +
           Total([k \in Picking |-> HeldFor(s, k, p)], MaxPickings)
  BY DEF SaleAccounts, ShippedFor, HeldFor
<1>3. /\ [k \in Picking |-> ShippedFor(s, k, p)'] = [k \in Picking |-> ShippedFor(s, k, p)]
      /\ [k \in Picking |-> HeldFor(s, k, p)'] = [k \in Picking |-> HeldFor(s, k, p)]
  BY <1>1
<1> QED BY <1>2, <1>3

\* The columns are naturals, and what one outstanding picking holds is part of
\* the difference between released and shipped units.
LEMMA AccountsBound ==
  ASSUME TypeOK, SaleAccounts, NEW s \in Sale, NEW p \in Product
  PROVE  /\ sales[s].shippedQuantity[p] \in Nat
         /\ sales[s].releasedQuantity[p] \in Nat
         /\ sales[s].shippedQuantity[p] <= sales[s].releasedQuantity[p]
         /\ \A o \in Picking :
              HeldFor(s, o, p) <= sales[s].releasedQuantity[p] - sales[s].shippedQuantity[p]
<1> DEFINE f == [k \in Picking |-> ShippedFor(s, k, p)]
           h == [k \in Picking |-> HeldFor(s, k, p)]
<1>1. \A k \in Picking : f[k] \in Nat /\ h[k] \in Nat /\ h[k] = HeldFor(s, k, p)
  BY AmountsTyped
<1>2. /\ sales[s].shippedQuantity[p] = Total(f, MaxPickings)
      /\ sales[s].releasedQuantity[p] = sales[s].shippedQuantity[p] + Total(h, MaxPickings)
  BY DEF SaleAccounts, ShippedFor, HeldFor
<1>3. Picking = 1..MaxPickings /\ MaxPickings \in Nat
  BY FulfilmentAssumption DEF Picking
<1> HIDE DEF f, h
<1>4. Total(f, MaxPickings) \in Nat
  BY <1>1, <1>3, TotalNat
<1>5. Total(h, MaxPickings) \in Nat /\ \A k \in 1..MaxPickings : h[k] <= Total(h, MaxPickings)
  BY <1>1, <1>3, TotalNat
<1> QED BY <1>1, <1>2, <1>3, <1>4, <1>5

\* A closed sales order has no outstanding picking.
LEMMA ClosedHasNone ==
  ASSUME TypeOK, SalesInv, NEW s \in Sale, sales[s].status \in ClosedSale,
         NEW o \in Picking, pickings[o].sale = s
  PROVE  ~Outstanding(o)
<1> SUFFICES ASSUME Outstanding(o) PROVE FALSE
  OBVIOUS
<1>1. PICK p \in Product : pickings[o].quantity[p] > 0
  BY DEF Outstanding, Editable, SalesInv, PickingsAsk
<1>2. pickings[o].quantity[p] \in Nat /\ sales[s].quantity[p] \in Nat
  BY RowFields
<1>3. /\ sales[s].shippedQuantity[p] \in Nat /\ sales[s].releasedQuantity[p] \in Nat
      /\ pickings[o].quantity[p] <= sales[s].releasedQuantity[p] - sales[s].shippedQuantity[p]
  BY AccountsBound DEF SalesInv, HeldFor
<1>4. sales[s].releasedQuantity[p] <= sales[s].shippedQuantity[p]
  BY <1>2, <1>3 DEF SalesInv, SaleStatusAgrees, NeverOverReleased, ClosedSale
<1> QED BY <1>1, <1>2, <1>3, <1>4

\* What a progress report writes: it adds to the quantities of one sales order,
\* and "shipped" is the status of one whose lines have all shipped.
LEMMA ProgressWrites ==
  ASSUME TypeOK, NEW s \in Sale,
         NEW released \in [Product -> Int], NEW shipped \in [Product -> Int],
         sales' = SalesAfterProgress(s, released, shipped)
  PROVE  /\ \A t \in Sale \ {s} : sales'[t] = sales[t]
         /\ sales'[s].quantity = sales[s].quantity
         /\ \A p \in Product :
              /\ sales'[s].releasedQuantity[p] = sales[s].releasedQuantity[p] + released[p]
              /\ sales'[s].shippedQuantity[p] = sales[s].shippedQuantity[p] + shipped[p]
         /\ sales[s].status # "cancelled" => sales'[s].status \notin {"none", "cancelled"}
         /\ sales[s].status # "cancelled" /\ sales'[s].status = "shipped" =>
              \A p \in Product : sales[s].quantity[p] > 0 =>
                                   sales'[s].shippedQuantity[p] >= sales[s].quantity[p]
<1> DEFINE order == sales[s]
           rel == [p \in Product |-> order.releasedQuantity[p] + released[p]]
           shp == [p \in Product |-> order.shippedQuantity[p] + shipped[p]]
           status == IF order.status = "cancelled" THEN order.status
                     ELSE SalesOrderStatus(ItemsOf(order), order.quantity, rel, shp)
           after == [order EXCEPT !.releasedQuantity = rel,
                                  !.shippedQuantity = shp,
                                  !.status = status]
<1>1. s # NoSale
  BY FulfilmentAssumption
<1>2. sales' = [sales EXCEPT ![s] = after]
  BY <1>1 DEF SalesAfterProgress
<1>3. /\ after.releasedQuantity = rel /\ after.shippedQuantity = shp
      /\ after.status = status /\ after.quantity = order.quantity
  <2>1. order \in SalesOrder
    BY RowFields
  <2> HIDE DEF order, rel, shp, status
  <2> QED BY <2>1 DEF SalesOrder
<1>4. sales'[s] = after /\ \A t \in Sale \ {s} : sales'[t] = sales[t]
  <2> HIDE DEF after
  <2> QED BY <1>2 DEF TypeOK
<1>5. order.status # "cancelled" =>
        /\ status \notin {"none", "cancelled"}
        /\ status = "shipped" => \A p \in ItemsOf(order) : shp[p] >= order.quantity[p]
  <2> HIDE DEF order, rel, shp
  <2> QED BY DEF SalesOrderStatus
<1> HIDE DEF after
<1> QED BY <1>3, <1>4, <1>5 DEF ItemsOf

\* A progress report that releases no more than what was ordered leaves the
\* statuses in agreement with the quantities.
LEMMA ProgressKeeps ==
  ASSUME TypeOK, TypeOK', SalesInv, NEW s \in Sale,
         NEW released \in [Product -> Int], NEW shipped \in [Product -> Nat],
         sales' = SalesAfterProgress(s, released, shipped),
         sales[s].status # "cancelled",
         \A p \in Product :
           sales[s].releasedQuantity[p] + released[p] <= sales[s].quantity[p]
  PROVE  SaleStatusAgrees' /\ NeverOverReleased'
<1> SUFFICES ASSUME NEW t \in Sale, NEW p \in Product
             PROVE  /\ sales'[t].quantity[p] <= MaxQuantity
                    /\ sales'[t].status = "none" =>
                         sales'[t].releasedQuantity[p] = 0 /\ sales'[t].shippedQuantity[p] = 0
                    /\ sales'[t].status = "shipped" =>
                         sales'[t].shippedQuantity[p] >= sales'[t].quantity[p]
                    /\ sales'[t].status = "cancelled" =>
                         sales'[t].releasedQuantity[p] <= sales'[t].shippedQuantity[p]
                    /\ sales'[t].releasedQuantity[p] <= sales'[t].quantity[p]
  BY DEF SaleStatusAgrees, NeverOverReleased
<1>1. CASE t # s
  <2>1. sales'[t] = sales[t]
    BY <1>1, ProgressWrites
  <2> QED BY <2>1 DEF SalesInv, SaleStatusAgrees, NeverOverReleased
<1>2. CASE t = s
  <2>1. /\ sales'[s].quantity = sales[s].quantity
        /\ sales'[s].releasedQuantity[p] = sales[s].releasedQuantity[p] + released[p]
        /\ sales'[s].status \notin {"none", "cancelled"}
        /\ sales'[s].status = "shipped" /\ sales[s].quantity[p] > 0 =>
             sales'[s].shippedQuantity[p] >= sales[s].quantity[p]
    BY ProgressWrites
  <2>2. sales[s].quantity[p] \in Nat /\ sales[s].quantity[p] <= MaxQuantity
    BY RowFields DEF SalesInv, SaleStatusAgrees
  <2>3. sales'[s].shippedQuantity[p] \in Nat
    <3>1. sales[s].shippedQuantity[p] \in Nat
      BY AccountsBound DEF SalesInv
    <3>2. sales'[s].shippedQuantity[p] = sales[s].shippedQuantity[p] + shipped[p]
      BY ProgressWrites
    <3> QED BY <3>1, <3>2
  <2> QED BY <1>2, <2>1, <2>2, <2>3
<1> QED BY <1>1, <1>2

-----------------------------------------------------------------------------
(***************************************************************************)
(* The requests, one order at a time.                                      *)
(***************************************************************************)

\* A step of one order keeps SalesInv if its picking still asks for something,
\* the accounts follow and the sales orders are in order.
LEMMA OrderKeepsSales ==
  ASSUME TypeOK, TypeOK', SalesInv, NEW o \in Picking, OnlyOrder(o),
         pickings'[o].status # "none" => \E p \in Product : pickings'[o].quantity[p] > 0,
         \A p \in Product : pickings'[o].quantity[p] <= MaxQuantity,
         \A s \in Sale, p \in Product :
           /\ sales'[s].shippedQuantity[p] =
                sales[s].shippedQuantity[p] + (ShippedFor(s, o, p)' - ShippedFor(s, o, p))
           /\ sales'[s].releasedQuantity[p] =
                sales[s].releasedQuantity[p] + (ShippedFor(s, o, p)' - ShippedFor(s, o, p))
                                             + (HeldFor(s, o, p)' - HeldFor(s, o, p)),
         SaleStatusAgrees', NeverOverReleased'
  PROVE  SalesInv'
<1>1. SaleAccounts'
  BY AccountsFollow DEF SalesInv
<1>2. PickingsAsk'
  BY DEF SalesInv, PickingsAsk, OnlyOrder
<1> QED BY <1>1, <1>2 DEF SalesInv

\* The same for a step that reports nothing to a sales order.
LEMMA QuietKeepsSales ==
  ASSUME TypeOK, TypeOK', SalesInv, NEW o \in Picking, OnlyOrder(o), UNCHANGED sales,
         pickings'[o].status # "none" => \E p \in Product : pickings'[o].quantity[p] > 0,
         \A p \in Product : pickings'[o].quantity[p] <= MaxQuantity,
         \A s \in Sale, p \in Product : /\ ShippedFor(s, o, p)' = ShippedFor(s, o, p)
                                        /\ HeldFor(s, o, p)' = HeldFor(s, o, p)
  PROVE  SalesInv'
<1>1. SaleStatusAgrees' /\ NeverOverReleased'
  BY DEF SalesInv, SaleStatusAgrees, NeverOverReleased
<1>2. ASSUME NEW s \in Sale, NEW p \in Product
      PROVE  /\ sales'[s].shippedQuantity[p] =
                  sales[s].shippedQuantity[p] + (ShippedFor(s, o, p)' - ShippedFor(s, o, p))
             /\ sales'[s].releasedQuantity[p] =
                  sales[s].releasedQuantity[p] + (ShippedFor(s, o, p)' - ShippedFor(s, o, p))
                                               + (HeldFor(s, o, p)' - HeldFor(s, o, p))
  BY RowFields, AmountsTyped
<1> QED BY <1>1, <1>2, OrderKeepsSales

\* A new picking holds what it asks for, for its sales order if it has one.
LEMMA CreationHolds ==
  ASSUME TypeOK, StockInv, NEW o \in Picking, NEW requested \in Units, NEW s,
         IsNextPicking(o), CreateInTransaction(o, requested, s),
         UNCHANGED <<packings, dispatched, deleting>>
  PROVE  /\ OnlyOrder(o)
         /\ pickings'[o].quantity = requested /\ pickings'[o].status = "pending"
         /\ \A t \in Sale, p \in Product :
              /\ ShippedFor(t, o, p) = 0 /\ ShippedFor(t, o, p)' = 0
              /\ HeldFor(t, o, p) = 0
              /\ HeldFor(t, o, p)' = IF t = s THEN requested[p] ELSE 0
<1>1. pickings[o].status = "none" /\ RowInv(o) /\ pickings[o].sale = NoSale
  BY DEF IsNextPicking, StockInv, RowInv, OrderAgrees, NoPicking
<1>2. dispatched[o] = Nothing
  BY <1>1, PlainRows
<1>3. /\ pickings'[o].status = "pending" /\ pickings'[o].sale = s
      /\ pickings'[o].quantity = requested
      /\ \A k \in Picking \ {o} : pickings'[k] = pickings[k]
  BY DEF CreateInTransaction, TypeOK
<1>4. OnlyOrder(o)
  BY <1>3 DEF OnlyOrder
<1> QED BY <1>1, <1>2, <1>3, <1>4, FulfilmentAssumption
        DEF ShippedFor, HeldFor, Outstanding, Editable, Nothing

\* A picking that is given up returns to its sales order what it held, and no
\* sales order that has outstanding pickings is closed.
LEMMA ReturnKeeps ==
  ASSUME TypeOK, TypeOK', StockInv, SalesInv, NEW o \in Picking,
         pickings[o].status \in Editable, ReturnToSalesOrder(o),
         UNCHANGED <<packings, dispatched, deleting>>,
         \A k \in Picking \ {o} : pickings'[k] = pickings[k],
         \/ pickings'[o] = NoPicking
         \/ /\ pickings'[o].status = "cancelled"
            /\ pickings'[o].quantity = pickings[o].quantity
  PROVE  /\ SalesInv'
         /\ \A s \in Sale : sales[s].status \in ClosedSale => sales'[s] = sales[s]
<1> DEFINE back == [p \in Product |-> - pickings[o].quantity[p]]
<1>1. Outstanding(o) /\ dispatched[o] = Nothing /\ packings[o].status = "none"
  <2>1. RowInv(o) /\ pickings[o].status # "completed"
    BY DEF StockInv, Editable
  <2> QED BY <2>1, PlainRows DEF Outstanding
<1>2. OnlyOrder(o)
  BY DEF OnlyOrder
<1>3. /\ pickings'[o].status # "none" => \E p \in Product : pickings'[o].quantity[p] > 0
      /\ \A p \in Product : pickings'[o].quantity[p] <= MaxQuantity
  BY FulfilmentAssumption DEF SalesInv, PickingsAsk, NoPicking, Nothing, Editable
<1>4. ASSUME NEW s \in Sale, NEW p \in Product
      PROVE  /\ ShippedFor(s, o, p) = 0 /\ ShippedFor(s, o, p)' = 0
             /\ HeldFor(s, o, p) = IF pickings[o].sale = s THEN pickings[o].quantity[p] ELSE 0
             /\ HeldFor(s, o, p)' = 0
  <2>1. dispatched'[o][p] = 0 /\ dispatched[o][p] = 0
    BY <1>1 DEF Nothing
  <2>2. pickings'[o].status \in {"none", "cancelled"}
    BY DEF NoPicking
  <2> QED BY <1>1, <2>1, <2>2 DEF ShippedFor, HeldFor, Outstanding, Editable
<1>5. sales' = SalesAfterProgress(pickings[o].sale, back, Nothing)
  BY DEF ReturnToSalesOrder
<1>6. CASE pickings[o].sale = NoSale
  <2>1. UNCHANGED sales
    BY <1>5, <1>6 DEF SalesAfterProgress
  <2>2. \A s \in Sale, p \in Product : /\ ShippedFor(s, o, p)' = ShippedFor(s, o, p)
                                       /\ HeldFor(s, o, p)' = HeldFor(s, o, p)
    BY <1>4, <1>6, FulfilmentAssumption
  <2> QED BY <1>2, <1>3, <2>1, <2>2, QuietKeepsSales
<1>7. CASE pickings[o].sale # NoSale
  <2> DEFINE s == pickings[o].sale
  <2>1. s \in Sale
    BY <1>7, RowFields
  <2>2. sales[s].status \notin ClosedSale
    BY <1>1, <2>1, ClosedHasNone
  <2>3. /\ back \in [Product -> Int] /\ Nothing \in [Product -> Nat]
        /\ Nothing \in [Product -> Int]
    BY RowFields DEF Nothing
  <2>4. \A p \in Product : back[p] = - pickings[o].quantity[p] /\ pickings[o].quantity[p] \in Nat
    BY RowFields
  <2> HIDE DEF back, s
  <2>5. \A p \in Product : sales[s].releasedQuantity[p] + back[p] <= sales[s].quantity[p]
    <3> SUFFICES ASSUME NEW p \in Product
                 PROVE  sales[s].releasedQuantity[p] + back[p] <= sales[s].quantity[p]
      OBVIOUS
    <3>1. sales[s].releasedQuantity[p] <= sales[s].quantity[p]
      BY <2>1 DEF SalesInv, NeverOverReleased
    <3>2. sales[s].releasedQuantity[p] \in Int /\ sales[s].quantity[p] \in Nat
      BY <2>1, RowFields
    <3> QED BY <2>4, <3>1, <3>2
  <2>6. sales' = SalesAfterProgress(s, back, Nothing)
    BY <1>5 DEF s
  <2>7. SaleStatusAgrees' /\ NeverOverReleased'
    BY <2>1, <2>2, <2>3, <2>5, <2>6, ProgressKeeps DEF ClosedSale
  <2>8. /\ \A t \in Sale \ {s} : sales'[t] = sales[t]
        /\ \A p \in Product :
             /\ sales'[s].releasedQuantity[p] = sales[s].releasedQuantity[p] + back[p]
             /\ sales'[s].shippedQuantity[p] = sales[s].shippedQuantity[p] + Nothing[p]
    BY <2>1, <2>3, <2>6, ProgressWrites
  <2>9. ASSUME NEW t \in Sale, NEW p \in Product
        PROVE  /\ sales'[t].shippedQuantity[p] =
                    sales[t].shippedQuantity[p] + (ShippedFor(t, o, p)' - ShippedFor(t, o, p))
               /\ sales'[t].releasedQuantity[p] =
                    sales[t].releasedQuantity[p] + (ShippedFor(t, o, p)' - ShippedFor(t, o, p))
                                                 + (HeldFor(t, o, p)' - HeldFor(t, o, p))
    <3>1. sales[t].shippedQuantity[p] \in Int /\ sales[t].releasedQuantity[p] \in Int
      BY RowFields
    <3>2. CASE t = s
      BY <1>4, <2>4, <2>8, <3>1, <3>2 DEF Nothing, s
    <3>3. CASE t # s
      BY <1>4, <2>8, <3>1, <3>3 DEF s
    <3> QED BY <3>2, <3>3
  <2>10. SalesInv'
    BY <1>2, <1>3, <2>7, <2>9, OrderKeepsSales
  <2> QED BY <2>2, <2>8, <2>10
<1> QED BY <1>6, <1>7

\* A closed sales order is left as it is.
LeavesClosed == \A s \in Sale : sales[s].status \in ClosedSale => sales'[s] = sales[s]

\* Every request on a picking order keeps the accounts.
LEMMA PickingKeepsSales ==
  ASSUME TypeOK, TypeOK', StockInv, SalesInv, PickingNext
  PROVE  SalesInv' /\ LeavesClosed
<1> USE FulfilmentAssumption
<1>1. PICK o \in Picking :
        \/ \E requested \in Requests : CreatePicking(o, requested)
        \/ StartPicking(o)
        \/ \E p \in Product, n \in 0..MaxQuantity, l \in Location \cup {NoLocation} :
             PickUnits(o, p, n, l) \/ UnpickUnits(o, p, n, l)
        \/ CompletePicking(o)
        \/ CancelPicking(o)
        \/ DeletePicking(o)
  BY DEF PickingNext
<1>2. pickings[o] \in PickingOrder
  BY RowFields
<1>3. ASSUME NEW requested \in Requests, CreatePicking(o, requested)
      PROVE  SalesInv' /\ LeavesClosed
  <2>1. requested \in Units /\ \A p \in Product : requested[p] <= MaxQuantity
    BY DEF Requests, Units
  <2>2. \E p \in Product : requested[p] > 0
    <3>1. PICK p \in Product : requested[p] # 0
      BY DEF Requests, Nothing
    <3> QED BY <2>1, <3>1 DEF Units
  <2>3. /\ IsNextPicking(o) /\ CreateInTransaction(o, requested, NoSale)
        /\ UNCHANGED <<packings, dispatched, deleting, sales>>
    BY <1>3 DEF CreatePicking
  <2>4. /\ OnlyOrder(o)
        /\ pickings'[o].quantity = requested
        /\ \A t \in Sale, p \in Product :
             /\ ShippedFor(t, o, p) = 0 /\ ShippedFor(t, o, p)' = 0
             /\ HeldFor(t, o, p) = 0
             /\ HeldFor(t, o, p)' = IF t = NoSale THEN requested[p] ELSE 0
    BY <2>1, <2>3, CreationHolds
  <2>5. \A t \in Sale, p \in Product : /\ ShippedFor(t, o, p)' = ShippedFor(t, o, p)
                                       /\ HeldFor(t, o, p)' = HeldFor(t, o, p)
    BY <2>4
  <2>6. SalesInv'
    BY <2>1, <2>2, <2>3, <2>4, <2>5, QuietKeepsSales
  <2> QED BY <2>3, <2>6 DEF LeavesClosed
<1>4. ASSUME UNCHANGED <<packings, dispatched, deleting, sales>>,
             pickings[o].status \in Editable,
             \A k \in Picking \ {o} : pickings'[k] = pickings[k],
             pickings'[o].status \in {"in_progress", "completed"},
             pickings'[o].sale = pickings[o].sale,
             pickings'[o].quantity = pickings[o].quantity
      PROVE  SalesInv' /\ LeavesClosed
  <2>1. OnlyOrder(o)
    BY <1>4 DEF OnlyOrder
  <2>2. packings[o].status = "none"
    BY <1>4, PlainRows DEF StockInv, Editable
  <2>3. Outstanding(o) /\ Outstanding(o)'
    BY <1>4, <2>2 DEF Outstanding, Editable, Finished
  <2>4. \A t \in Sale, p \in Product : /\ ShippedFor(t, o, p)' = ShippedFor(t, o, p)
                                       /\ HeldFor(t, o, p)' = HeldFor(t, o, p)
    BY <1>4, <2>3 DEF ShippedFor, HeldFor
  <2>5. /\ pickings'[o].status # "none" => \E p \in Product : pickings'[o].quantity[p] > 0
        /\ \A p \in Product : pickings'[o].quantity[p] <= MaxQuantity
    BY <1>4 DEF SalesInv, PickingsAsk, Editable
  <2>6. SalesInv'
    BY <1>4, <2>1, <2>4, <2>5, QuietKeepsSales
  <2> QED BY <1>4, <2>6 DEF LeavesClosed
<1>5. CASE StartPicking(o)
  <2>1. /\ \A k \in Picking \ {o} : pickings'[k] = pickings[k]
        /\ pickings'[o].status = "in_progress"
        /\ pickings'[o].sale = pickings[o].sale
        /\ pickings'[o].quantity = pickings[o].quantity
    BY <1>2, <1>5 DEF StartPicking, TypeOK, PickingOrder
  <2> QED BY <1>4, <1>5, <2>1 DEF StartPicking, Editable
<1>6. ASSUME NEW p \in Product, NEW n, NEW l,
             PickUnits(o, p, n, l) \/ UnpickUnits(o, p, n, l)
      PROVE  SalesInv' /\ LeavesClosed
  <2> DEFINE taken == [pickings[o].pickedQuantity EXCEPT ![p] = n]
             row == [pickings[o] EXCEPT !.pickedQuantity = taken, !.status = "in_progress"]
  <2>1. /\ pickings' = [pickings EXCEPT ![o] = row]
        /\ pickings[o].status \in Editable
        /\ UNCHANGED <<packings, dispatched, deleting, sales>>
    BY <1>6 DEF PickUnits, UnpickUnits
  <2>2. /\ row.status = "in_progress" /\ row.sale = pickings[o].sale
        /\ row.quantity = pickings[o].quantity
    <3> HIDE DEF taken
    <3> QED BY <1>2 DEF PickingOrder
  <2> HIDE DEF row
  <2>3. pickings'[o] = row /\ \A k \in Picking \ {o} : pickings'[k] = pickings[k]
    BY <2>1 DEF TypeOK
  <2> QED BY <1>4, <2>1, <2>2, <2>3
<1>7. CASE CompletePicking(o)
  <2>1. /\ \A k \in Picking \ {o} : pickings'[k] = pickings[k]
        /\ pickings'[o].status = "completed"
        /\ pickings'[o].sale = pickings[o].sale
        /\ pickings'[o].quantity = pickings[o].quantity
    BY <1>2, <1>7 DEF CompletePicking, TypeOK, PickingOrder
  <2> QED BY <1>4, <1>7, <2>1 DEF CompletePicking
<1>8. CASE CancelPicking(o)
  <2>1. /\ \A k \in Picking \ {o} : pickings'[k] = pickings[k]
        /\ pickings'[o].status = "cancelled"
        /\ pickings'[o].quantity = pickings[o].quantity
    BY <1>2, <1>8 DEF CancelPicking, TypeOK, PickingOrder
  <2> QED BY <1>8, <2>1, ReturnKeeps DEF CancelPicking, LeavesClosed
<1>9. CASE DeletePicking(o)
  <2>1. pickings'[o] = NoPicking /\ \A k \in Picking \ {o} : pickings'[k] = pickings[k]
    BY <1>9 DEF DeletePicking, TypeOK
  <2> QED BY <1>9, <2>1, ReturnKeeps DEF DeletePicking, LeavesClosed, Editable
<1> QED BY <1>1, <1>3, <1>5, <1>6, <1>7, <1>8, <1>9

\* Completing or cancelling a packing reports what it ships, and returns what it
\* does not.
LEMMA ConsumeKeepsSales ==
  ASSUME TypeOK, TypeOK', StockInv, SalesInv, NEW o \in Picking, NEW packed \in Units,
         ConsumeReservations(o, packed),
         packings[o].status \in Editable, packings'[o].status \in Finished,
         \A p \in Product : packed[p] <= packings[o].packedQuantity[p],
         \A k \in Picking \ {o} : packings'[k] = packings[k],
         UNCHANGED deleting
  PROVE  SalesInv' /\ LeavesClosed
<1> DEFINE unsent == [p \in Product |-> - (pickings[o].quantity[p] - packed[p])]
<1>1. RowInv(o) /\ pickings[o].status = "completed" /\ dispatched[o] = Nothing /\ Outstanding(o)
  BY DEF StockInv, RowInv, OrderAgrees, Editable, Finished, Outstanding
<1>2. /\ \A k \in Picking \ {o} : /\ pickings'[k] = pickings[k]
                                  /\ dispatched'[k] = dispatched[k]
      /\ pickings'[o] = [pickings[o] EXCEPT !.reservedQuantity = Nothing]
  <2>1. NoneIsEmpty
    BY DEF StockInv, RowInv, OrderAgrees, NoneIsEmpty
  <2> QED BY <2>1, ConsumeStep
<1>3. /\ pickings'[o].status = "completed" /\ pickings'[o].sale = pickings[o].sale
      /\ pickings'[o].quantity = pickings[o].quantity
  BY <1>1, <1>2, RowFields DEF PickingOrder
<1>4. OnlyOrder(o) /\ ~Outstanding(o)'
  BY <1>2, <1>3 DEF OnlyOrder, Outstanding, Editable
<1>5. /\ pickings'[o].status # "none" => \E p \in Product : pickings'[o].quantity[p] > 0
      /\ \A p \in Product : pickings'[o].quantity[p] <= MaxQuantity
  BY <1>1, <1>3 DEF SalesInv, PickingsAsk
<1>6. \A p \in Product : dispatched[o][p] = 0 /\ dispatched'[o][p] = packed[p]
  BY <1>1 DEF ConsumeReservations, TypeOK, Nothing, Units
<1>7. ASSUME NEW t \in Sale, NEW p \in Product
      PROVE  /\ ShippedFor(t, o, p) = 0
             /\ ShippedFor(t, o, p)' = IF pickings[o].sale = t THEN packed[p] ELSE 0
             /\ HeldFor(t, o, p) = IF pickings[o].sale = t THEN pickings[o].quantity[p] ELSE 0
             /\ HeldFor(t, o, p)' = 0
  BY <1>1, <1>3, <1>4, <1>6 DEF ShippedFor, HeldFor
<1>8. sales' = SalesAfterProgress(pickings[o].sale, unsent, packed)
  BY DEF ConsumeReservations, Unshipped
<1>9. \A p \in Product : /\ pickings[o].quantity[p] \in Nat /\ packed[p] \in Nat
                         /\ packed[p] <= pickings[o].quantity[p]
  <2> SUFFICES ASSUME NEW p \in Product
               PROVE  /\ pickings[o].quantity[p] \in Nat /\ packed[p] \in Nat
                      /\ packed[p] <= pickings[o].quantity[p]
    OBVIOUS
  <2>1. /\ pickings[o].quantity[p] \in Nat /\ pickings[o].pickedQuantity[p] \in Nat
        /\ packings[o].quantity[p] \in Nat /\ packings[o].packedQuantity[p] \in Nat
        /\ packed[p] \in Nat
    BY RowFields DEF Units
  <2>2. /\ packed[p] <= packings[o].packedQuantity[p]
        /\ packings[o].packedQuantity[p] <= packings[o].quantity[p]
        /\ packings[o].quantity[p] <= pickings[o].pickedQuantity[p]
        /\ pickings[o].pickedQuantity[p] <= pickings[o].quantity[p]
    BY <1>1 DEF RowInv, OrderAgrees, Editable
  <2> QED BY <2>1, <2>2
<1>10. CASE pickings[o].sale = NoSale
  <2>1. UNCHANGED sales
    BY <1>8, <1>10 DEF SalesAfterProgress
  <2>2. \A s \in Sale, p \in Product : /\ ShippedFor(s, o, p)' = ShippedFor(s, o, p)
                                       /\ HeldFor(s, o, p)' = HeldFor(s, o, p)
    BY <1>7, <1>10, FulfilmentAssumption
  <2> QED BY <1>4, <1>5, <2>1, <2>2, QuietKeepsSales DEF LeavesClosed
<1>11. CASE pickings[o].sale # NoSale
  <2> DEFINE s == pickings[o].sale
  <2>1. s \in Sale
    BY <1>11, RowFields
  <2>2. sales[s].status \notin ClosedSale
    BY <1>1, <2>1, ClosedHasNone
  <2>3. /\ unsent \in [Product -> Int]
        /\ packed \in [Product -> Nat] /\ packed \in [Product -> Int]
    BY <1>9 DEF Units
  <2>4. \A p \in Product : unsent[p] = - (pickings[o].quantity[p] - packed[p])
    OBVIOUS
  <2> HIDE DEF unsent, s
  <2>5. ASSUME NEW p \in Product
        PROVE  sales[s].releasedQuantity[p] + unsent[p] <= sales[s].quantity[p]
    <3>1. sales[s].releasedQuantity[p] <= sales[s].quantity[p]
      BY <2>1 DEF SalesInv, NeverOverReleased
    <3>2. sales[s].releasedQuantity[p] \in Int /\ sales[s].quantity[p] \in Nat
      BY <2>1, RowFields
    <3> QED BY <1>9, <2>4, <3>1, <3>2
  <2>6. sales' = SalesAfterProgress(s, unsent, packed)
    BY <1>8 DEF s
  <2>7. SaleStatusAgrees' /\ NeverOverReleased'
    BY <2>1, <2>2, <2>3, <2>5, <2>6, ProgressKeeps DEF ClosedSale
  <2>8. /\ \A t \in Sale \ {s} : sales'[t] = sales[t]
        /\ \A p \in Product :
             /\ sales'[s].releasedQuantity[p] = sales[s].releasedQuantity[p] + unsent[p]
             /\ sales'[s].shippedQuantity[p] = sales[s].shippedQuantity[p] + packed[p]
    BY <2>1, <2>3, <2>6, ProgressWrites
  <2>9. ASSUME NEW t \in Sale, NEW p \in Product
        PROVE  /\ sales'[t].shippedQuantity[p] =
                    sales[t].shippedQuantity[p] + (ShippedFor(t, o, p)' - ShippedFor(t, o, p))
               /\ sales'[t].releasedQuantity[p] =
                    sales[t].releasedQuantity[p] + (ShippedFor(t, o, p)' - ShippedFor(t, o, p))
                                                 + (HeldFor(t, o, p)' - HeldFor(t, o, p))
    <3>1. sales[t].shippedQuantity[p] \in Int /\ sales[t].releasedQuantity[p] \in Int
      BY RowFields
    <3>2. CASE t = s
      BY <1>7, <1>9, <2>4, <2>8, <3>1, <3>2 DEF s
    <3>3. CASE t # s
      BY <1>7, <2>8, <3>1, <3>3 DEF s
    <3> QED BY <3>2, <3>3
  <2>10. SalesInv'
    BY <1>4, <1>5, <2>7, <2>9, OrderKeepsSales
  <2> QED BY <2>2, <2>8, <2>10 DEF LeavesClosed
<1> QED BY <1>10, <1>11

\* Every request on a packing order keeps the accounts.
LEMMA PackingKeepsSales ==
  ASSUME OverlapDelete = FALSE, TypeOK, TypeOK', StockInv, SalesInv, PackingNext
  PROVE  SalesInv' /\ LeavesClosed
<1>1. PICK o \in Picking :
        \/ CreatePacking(o)
        \/ StartPacking(o)
        \/ \E p \in Product, n \in 0..MaxQuantity : PackUnits(o, p, n)
        \/ CompletePacking(o)
        \/ CancelPacking(o)
        \/ CheckPackingDeletion(o)
        \/ DeletePackingRow(o)
  BY DEF PackingNext
<1>2. RowInv(o)
  BY DEF StockInv
<1>3. /\ Nothing \in Units /\ packings[o].packedQuantity \in Units
      /\ packings[o] \in PackingOrder
  BY EmptyTyped, RowFields DEF Units
<1>4. ASSUME UNCHANGED <<pickings, dispatched, sales>>,
             \A k \in Picking \ {o} : /\ packings'[k] = packings[k]
                                      /\ k \in deleting' => k \in deleting,
             packings[o].status \notin Finished, packings'[o].status \notin Finished
      PROVE  SalesInv' /\ LeavesClosed
  <2>1. OnlyOrder(o)
    BY <1>4 DEF OnlyOrder
  <2>2. Outstanding(o)' <=> Outstanding(o)
    BY <1>4 DEF Outstanding
  <2>3. \A t \in Sale, p \in Product : /\ ShippedFor(t, o, p)' = ShippedFor(t, o, p)
                                       /\ HeldFor(t, o, p)' = HeldFor(t, o, p)
    BY <1>4, <2>2 DEF ShippedFor, HeldFor
  <2>4. /\ pickings'[o].status # "none" => \E p \in Product : pickings'[o].quantity[p] > 0
        /\ \A p \in Product : pickings'[o].quantity[p] <= MaxQuantity
    BY <1>4 DEF SalesInv, PickingsAsk
  <2>5. SalesInv'
    BY <1>4, <2>1, <2>3, <2>4, QuietKeepsSales
  <2> QED BY <1>4, <2>5 DEF LeavesClosed
<1>5. CASE CreatePacking(o)
  <2>1. /\ packings'[o] = [status |-> "pending", quantity |-> pickings[o].pickedQuantity,
                           packedQuantity |-> Nothing]
        /\ \A k \in Picking \ {o} : packings'[k] = packings[k]
    BY <1>5 DEF CreatePacking, ToPack, TypeOK
  <2> QED BY <1>4, <1>5, <2>1 DEF CreatePacking, Finished
<1>6. CASE StartPacking(o)
  <2>1. /\ packings'[o].status = "in_progress"
        /\ \A k \in Picking \ {o} : packings'[k] = packings[k]
    BY <1>3, <1>6 DEF StartPacking, TypeOK, PackingOrder
  <2> QED BY <1>4, <1>6, <2>1 DEF StartPacking, Finished
<1>7. ASSUME NEW p \in Product, NEW n, PackUnits(o, p, n)
      PROVE  SalesInv' /\ LeavesClosed
  <2> DEFINE q == [packings[o].packedQuantity EXCEPT ![p] = n]
             row == [packings[o] EXCEPT !.packedQuantity = q, !.status = "in_progress"]
  <2>1. packings' = [packings EXCEPT ![o] = row]
    BY <1>7 DEF PackUnits
  <2>2. row.status = "in_progress"
    <3> HIDE DEF q
    <3> QED BY <1>3 DEF PackingOrder
  <2> HIDE DEF row
  <2>3. packings'[o] = row /\ \A k \in Picking \ {o} : packings'[k] = packings[k]
    BY <2>1 DEF TypeOK
  <2> QED BY <1>4, <1>7, <2>2, <2>3 DEF PackUnits, Editable, Finished
<1>8. CASE CompletePacking(o)
  <2>1. /\ packings'[o].status = "completed"
        /\ \A k \in Picking \ {o} : packings'[k] = packings[k]
    BY <1>3, <1>8 DEF CompletePacking, TypeOK, PackingOrder
  <2>2. \A p \in Product : packings[o].packedQuantity[p] <= packings[o].packedQuantity[p]
    BY RowFields
  <2> QED BY <1>3, <1>8, <2>1, <2>2, ConsumeKeepsSales DEF CompletePacking, Finished
<1>9. CASE CancelPacking(o)
  <2>1. /\ packings'[o].status = "cancelled"
        /\ \A k \in Picking \ {o} : packings'[k] = packings[k]
    BY <1>3, <1>9 DEF CancelPacking, TypeOK, PackingOrder
  <2>2. \A p \in Product : Nothing[p] <= packings[o].packedQuantity[p]
    BY RowFields DEF Nothing
  <2> QED BY <1>3, <1>9, <2>1, <2>2, ConsumeKeepsSales DEF CancelPacking, Finished
<1>10. CASE CheckPackingDeletion(o)
  BY <1>4, <1>10 DEF CheckPackingDeletion, Finished
<1>11. CASE DeletePackingRow(o)
  <2>1. /\ o \in deleting /\ packings[o].status = "pending"
        /\ packings'[o] = NoPacking /\ \A k \in Picking \ {o} : packings'[k] = packings[k]
    BY <1>2, <1>11 DEF DeletePackingRow, RowInv, OrderAgrees, TypeOK
  <2> QED BY <1>4, <1>11, <2>1 DEF DeletePackingRow, NoPacking, Finished
<1> QED BY <1>1, <1>5, <1>6, <1>7, <1>8, <1>9, <1>10, <1>11

\* A release takes no more than what is pending, and only open sales orders are
\* released or cancelled.
LEMMA SalesKeepsSales ==
  ASSUME TypeOK, TypeOK', StockInv, SalesInv, SalesNext
  PROVE  SalesInv' /\ LeavesClosed
<1> USE FulfilmentAssumption
<1>1. PICK s \in Sale :
        \/ \E quantity \in Requests : CreateSale(s, quantity)
        \/ \E o \in Picking, allowPartial \in BOOLEAN : ReleaseSale(s, o, allowPartial)
        \/ CancelSale(s)
  BY DEF SalesNext
<1>2. sales[s] \in SalesOrder
  BY RowFields
<1>3. ASSUME UNCHANGED <<pickings, packings, dispatched>>,
             \A t \in Sale \ {s} : sales'[t] = sales[t],
             sales'[s].releasedQuantity = sales[s].releasedQuantity,
             sales'[s].shippedQuantity = sales[s].shippedQuantity,
             sales'[s].status \in {"open", "cancelled"},
             \A p \in Product :
               /\ sales'[s].quantity[p] <= MaxQuantity
               /\ sales[s].releasedQuantity[p] <= sales'[s].quantity[p]
               /\ sales'[s].status = "cancelled" =>
                    sales[s].releasedQuantity[p] <= sales[s].shippedQuantity[p]
      PROVE  SalesInv'
  <2>1. SaleAccounts'
    <3>1. \A t \in Sale : /\ sales'[t].shippedQuantity = sales[t].shippedQuantity
                          /\ sales'[t].releasedQuantity = sales[t].releasedQuantity
      BY <1>3
    <3> QED BY <1>3, <3>1, AccountsSame DEF SalesInv
  <2>2. PickingsAsk'
    BY <1>3 DEF SalesInv, PickingsAsk
  <2>3. SaleStatusAgrees' /\ NeverOverReleased'
    BY <1>3 DEF SalesInv, SaleStatusAgrees, NeverOverReleased
  <2> QED BY <2>1, <2>2, <2>3 DEF SalesInv
<1>4. ASSUME NEW quantity \in Requests, CreateSale(s, quantity)
      PROVE  SalesInv' /\ LeavesClosed
  <2> DEFINE row == [NoSaleOrder EXCEPT !.status = "open", !.quantity = quantity]
  <2>1. /\ row.status = "open" /\ row.quantity = quantity
        /\ row.releasedQuantity = Nothing /\ row.shippedQuantity = Nothing
    BY DEF NoSaleOrder
  <2>2. sales' = [sales EXCEPT ![s] = row] /\ sales[s].status = "none"
    BY <1>4 DEF CreateSale
  <2> HIDE DEF row
  <2>3. sales'[s] = row /\ \A t \in Sale \ {s} : sales'[t] = sales[t]
    BY <2>2 DEF TypeOK
  <2>4. \A p \in Product : sales[s].releasedQuantity[p] = 0 /\ sales[s].shippedQuantity[p] = 0
    BY <2>2 DEF SalesInv, SaleStatusAgrees
  <2>5. sales[s].releasedQuantity = Nothing /\ sales[s].shippedQuantity = Nothing
    <3>1. sales[s].releasedQuantity \in [Product -> Int] /\ sales[s].shippedQuantity \in [Product -> Int]
      BY RowFields
    <3> QED BY <2>4, <3>1 DEF Nothing
  <2>6. \A p \in Product : quantity[p] <= MaxQuantity /\ 0 <= quantity[p]
    BY DEF Requests
  <2>7. SalesInv'
    BY <1>3, <1>4, <2>1, <2>3, <2>4, <2>5, <2>6 DEF CreateSale
  <2>8. LeavesClosed
    BY <2>2, <2>3 DEF LeavesClosed, ClosedSale
  <2> QED BY <2>7, <2>8
<1>5. CASE CancelSale(s)
  <2>1. /\ sales'[s].status = "cancelled"
        /\ sales'[s].quantity = sales[s].quantity
        /\ sales'[s].releasedQuantity = sales[s].releasedQuantity
        /\ sales'[s].shippedQuantity = sales[s].shippedQuantity
        /\ \A t \in Sale \ {s} : sales'[t] = sales[t]
    BY <1>2, <1>5 DEF CancelSale, TypeOK, SalesOrder
  <2>2. \A p \in Product : /\ sales[s].quantity[p] <= MaxQuantity
                           /\ sales[s].releasedQuantity[p] <= sales[s].quantity[p]
    BY DEF SalesInv, SaleStatusAgrees, NeverOverReleased
  <2>3. SalesInv'
    BY <1>3, <1>5, <2>1, <2>2 DEF CancelSale, Cancellable
  <2>4. LeavesClosed
    BY <1>5, <2>1 DEF CancelSale, LeavesClosed
  <2> QED BY <2>3, <2>4
<1>6. ASSUME NEW o \in Picking, NEW allowPartial \in BOOLEAN, ReleaseSale(s, o, allowPartial)
      PROVE  SalesInv' /\ LeavesClosed
  <2> DEFINE allocation ==
               [p \in Product |-> Greatest(0, Least(Pending(s, p), Available(p)))]
  <2>1. /\ allocation \in [Product -> Nat] /\ allocation \in Units
        /\ allocation \in [Product -> Int]
    BY RowFields DEF Pending, Available, Greatest, Least, TypeOK, Units
  <2>2. /\ IsNextPicking(o) /\ CreateInTransaction(o, allocation, s)
        /\ UNCHANGED <<packings, dispatched, deleting>>
        /\ sales' = SalesAfterProgress(s, allocation, Nothing)
        /\ sales[s].status \notin ClosedSale \cup {"none"}
        /\ \E p \in Product : allocation[p] > 0
    BY <1>6 DEF ReleaseSale
  <2>3. ASSUME NEW p \in Product
        PROVE  /\ sales[s].releasedQuantity[p] + allocation[p] <= sales[s].quantity[p]
               /\ allocation[p] <= MaxQuantity
    <3>1. /\ sales[s].releasedQuantity[p] \in Nat /\ sales[s].quantity[p] \in Nat
          /\ sales[s].releasedQuantity[p] <= sales[s].quantity[p]
          /\ sales[s].quantity[p] <= MaxQuantity
      BY RowFields, AccountsBound DEF SalesInv, NeverOverReleased, SaleStatusAgrees
    <3>2. onHand[p] \in Int /\ reserved[p] \in Int
      BY DEF TypeOK
    <3> QED BY <3>1, <3>2 DEF Greatest, Least, Pending, Available
  <2> HIDE DEF allocation
  <2>4. /\ OnlyOrder(o)
        /\ pickings'[o].quantity = allocation
        /\ \A t \in Sale, p \in Product :
             /\ ShippedFor(t, o, p) = 0 /\ ShippedFor(t, o, p)' = 0
             /\ HeldFor(t, o, p) = 0
             /\ HeldFor(t, o, p)' = IF t = s THEN allocation[p] ELSE 0
    BY <2>1, <2>2, CreationHolds
  <2>5. Nothing \in [Product -> Nat] /\ Nothing \in [Product -> Int]
    BY DEF Nothing
  <2>6. /\ \A t \in Sale \ {s} : sales'[t] = sales[t]
        /\ \A p \in Product :
             /\ sales'[s].releasedQuantity[p] = sales[s].releasedQuantity[p] + allocation[p]
             /\ sales'[s].shippedQuantity[p] = sales[s].shippedQuantity[p] + Nothing[p]
    BY <2>1, <2>2, <2>5, ProgressWrites
  <2>7. SaleStatusAgrees' /\ NeverOverReleased'
    BY <2>1, <2>2, <2>3, <2>5, ProgressKeeps DEF ClosedSale
  <2>8. ASSUME NEW t \in Sale, NEW p \in Product
        PROVE  /\ sales'[t].shippedQuantity[p] =
                    sales[t].shippedQuantity[p] + (ShippedFor(t, o, p)' - ShippedFor(t, o, p))
               /\ sales'[t].releasedQuantity[p] =
                    sales[t].releasedQuantity[p] + (ShippedFor(t, o, p)' - ShippedFor(t, o, p))
                                                 + (HeldFor(t, o, p)' - HeldFor(t, o, p))
    <3>1. /\ sales[t].shippedQuantity[p] \in Int /\ sales[t].releasedQuantity[p] \in Int
          /\ allocation[p] \in Int
      BY <2>1, RowFields
    <3>2. CASE t = s
      BY <2>4, <2>6, <3>1, <3>2 DEF Nothing
    <3>3. CASE t # s
      BY <2>4, <2>6, <3>1, <3>3
    <3> QED BY <3>2, <3>3
  <2>9. /\ \E p \in Product : pickings'[o].quantity[p] > 0
        /\ \A p \in Product : pickings'[o].quantity[p] <= MaxQuantity
    BY <2>2, <2>3, <2>4
  <2>10. SalesInv'
    BY <2>4, <2>7, <2>8, <2>9, OrderKeepsSales
  <2> QED BY <2>2, <2>6, <2>10 DEF LeavesClosed
<1> QED BY <1>1, <1>4, <1>5, <1>6

\* Adjustments and relocations do not concern sales orders.
LEMMA UnconcernedKeepsSales ==
  ASSUME SalesInv, UNCHANGED <<pickings, packings, sales, dispatched>>
  PROVE  SalesInv' /\ LeavesClosed
<1>1. SaleAccounts'
  BY AccountsSame DEF SalesInv
<1>2. PickingsAsk' /\ SaleStatusAgrees' /\ NeverOverReleased' /\ LeavesClosed
  BY DEF SalesInv, PickingsAsk, SaleStatusAgrees, NeverOverReleased, LeavesClosed
<1> QED BY <1>1, <1>2 DEF SalesInv

\* There is no sales order and no picking at first.
LEMMA SalesInvInit == Init => SalesInv
<1> SUFFICES ASSUME Init PROVE SalesInv
  OBVIOUS
<1>1. ASSUME NEW s \in Sale
      PROVE  /\ sales[s].status = "none" /\ sales[s].quantity = Nothing
             /\ sales[s].releasedQuantity = Nothing /\ sales[s].shippedQuantity = Nothing
  BY DEF Init, NoSaleOrder
<1>2. ASSUME NEW o \in Picking
      PROVE  /\ pickings[o].status = "none" /\ pickings[o].quantity = Nothing
             /\ pickings[o].sale = NoSale
  BY DEF Init, NoPicking
<1>3. PickingsAsk /\ SaleStatusAgrees /\ NeverOverReleased
  BY <1>1, <1>2, FulfilmentAssumption
  DEF PickingsAsk, SaleStatusAgrees, NeverOverReleased, Nothing
<1>4. ASSUME NEW s \in Sale, NEW p \in Product
      PROVE  /\ sales[s].shippedQuantity[p] = 0 /\ sales[s].releasedQuantity[p] = 0
             /\ Total([o \in Picking |-> ShippedFor(s, o, p)], MaxPickings) = 0
             /\ Total([o \in Picking |-> HeldFor(s, o, p)], MaxPickings) = 0
  <2> DEFINE f == [o \in Picking |-> ShippedFor(s, o, p)]
             h == [o \in Picking |-> HeldFor(s, o, p)]
  <2>1. \A i \in 1..MaxPickings : f[i] = 0 /\ h[i] = 0
    BY <1>2, FulfilmentAssumption DEF ShippedFor, HeldFor, Picking
  <2> HIDE DEF f, h
  <2>2. Total(f, MaxPickings) = 0 /\ Total(h, MaxPickings) = 0
    BY <2>1, TotalAllZero, FulfilmentAssumption
  <2> QED BY <1>1, <2>2 DEF f, h, Nothing
<1>5. SaleAccounts
  BY <1>4 DEF SaleAccounts, ShippedFor, HeldFor
<1> QED BY <1>3, <1>5 DEF SalesInv

-----------------------------------------------------------------------------
(***************************************************************************)
(* What sales orders may rely on.                                          *)
(***************************************************************************)

\* Every step keeps SalesInv and leaves closed sales orders as they are.
LEMMA StepKeepsSales ==
  ASSUME OverlapDelete = FALSE, TypeOK, TypeOK', StockInv, SalesInv, [Next]_vars
  PROVE  SalesInv' /\ LeavesClosed
<1>1. CASE UNCHANGED vars
  BY <1>1, UnconcernedKeepsSales DEF vars
<1>2. CASE StockNext
  BY <1>2, UnconcernedKeepsSales DEF StockNext, IncreaseStock, DecreaseStock, Relocate
<1> QED BY <1>1, <1>2, PickingKeepsSales, PackingKeepsSales, SalesKeepsSales DEF Next

\* The inductive invariant of the sales orders.
THEOREM SalesInvariant ==
  ASSUME OverlapDelete = FALSE
  PROVE  Spec => []SalesInv
<1>1. TypeOK /\ TypeOK' /\ StockInv /\ SalesInv /\ [Next]_vars => SalesInv'
  BY StepKeepsSales
<1> QED BY <1>1, SalesInvInit, StockInvariant, TypeCorrect, PTL DEF Spec

\* What a sales order counts as shipped and released is what its pickings
\* dispatched and what its outstanding pickings hold, whatever was cancelled,
\* deleted, packed short or released again.
THEOREM SalesAddUp ==
  ASSUME OverlapDelete = FALSE
  PROVE  Spec => []SaleAccounts
<1>1. SalesInv => SaleAccounts
  BY DEF SalesInv
<1> QED BY <1>1, SalesInvariant, PTL

\* No sequence of releases and returns releases more than was ordered.
THEOREM ReleasedWithinOrder ==
  ASSUME OverlapDelete = FALSE
  PROVE  Spec => []NeverOverReleased
<1>1. SalesInv => NeverOverReleased
  BY DEF SalesInv
<1> QED BY <1>1, SalesInvariant, PTL

\* No late picking or packing reports progress to a closed sales order.
THEOREM ClosedStaysClosed ==
  ASSUME OverlapDelete = FALSE
  PROVE  Spec => ClosedSaleStaysClosed
<1>1. TypeOK /\ TypeOK' /\ StockInv /\ SalesInv /\ [Next]_vars => [LeavesClosed]_vars
  BY StepKeepsSales
<1>2. Spec => [][LeavesClosed]_vars
  BY <1>1, SalesInvariant, StockInvariant, TypeCorrect, PTL DEF Spec
<1> QED BY <1>2 DEF ClosedSaleStaysClosed, LeavesClosed

\* The CHECK constraints of the migrations refuse no commit of a handler.
THEOREM ChecksNeverRefuse ==
  ASSUME OverlapDelete = FALSE
  PROVE  Spec => []DbChecks
<1>1. TypeOK /\ SalesInv => SalesChecks
  <2> SUFFICES ASSUME TypeOK, SalesInv, NEW s \in Sale, NEW p \in Product
               PROVE  /\ 0 <= sales[s].shippedQuantity[p]
                      /\ sales[s].shippedQuantity[p] <= sales[s].releasedQuantity[p]
    BY DEF SalesChecks
  <2> QED BY AccountsBound DEF SalesInv
<1>2. IntegrityReportEmpty /\ StockChecks /\ SalesChecks => DbChecks
  BY DEF DbChecks
<1> QED BY <1>1, <1>2, SalesInvariant, StockIntegrity, TypeCorrect, PTL

\* So the handlers alone behave as the handlers under the constraints.
THEOREM ConstraintsAddNothing ==
  ASSUME OverlapDelete = FALSE
  PROVE  Spec => CheckedSpec
BY ChecksNeverRefuse, PTL DEF Spec, CheckedSpec

-----------------------------------------------------------------------------
(***************************************************************************)
(* Fulfilment implements ReservationLedger.  The claim of an order is the  *)
(* reservation its items record; ReservedIsSum makes the units nobody      *)
(* claims the available ones, and StockInv says which claim an order has.  *)
(***************************************************************************)
Claims == [o \in Picking |-> pickings[o].reservedQuantity]

\* The units nobody claims are the available ones.
LEMMA FreeIsAvailable ==
  ASSUME ReservedIsSum, NEW p \in Product
  PROVE  Ledger!Free(p) = Available(p)
<1>1. [o \in Picking |-> Claims[o][p]] = [o \in Picking |-> pickings[o].reservedQuantity[p]]
  BY DEF Claims
<1>2. Ledger!Total([o \in Picking |-> Claims[o][p]], MaxPickings) =
        Total([o \in Picking |-> Claims[o][p]], MaxPickings)
  BY DEF Ledger!Total, Total
<1>3. Ledger!Claimed(p) = Ledger!Total([o \in Picking |-> Claims[o][p]], MaxPickings)
  BY DEF Ledger!Claimed, Claims
<1> QED BY <1>1, <1>2, <1>3 DEF Ledger!Free, ReservedIsSum, Available

\* An order's claim changes when its items' reservations do.
LEMMA OneClaimChanges ==
  ASSUME NEW o \in Picking, NEW amount, pickings'[o].reservedQuantity = amount,
         \A k \in Picking \ {o} : pickings'[k].reservedQuantity = pickings[k].reservedQuantity
  PROVE  Claims' = [Claims EXCEPT ![o] = amount]
BY DEF Claims

\* Requests that touch neither the units on hand nor a reservation are no steps
\* of the ledger.
LEMMA ClaimsKept ==
  ASSUME UNCHANGED onHand,
         \A o \in Picking : pickings'[o].reservedQuantity = pickings[o].reservedQuantity
  PROVE  UNCHANGED <<onHand, Claims>>
BY DEF Claims

\* The empty database maps to the empty ledger.
LEMMA LedgerInit == Init => Ledger!Init
BY DEF Init, Ledger!Init, Ledger!NoClaim, NoPicking, Nothing

\* Adjustments are receipts and withdrawals of unclaimed units.
LEMMA StockImplements ==
  ASSUME TypeOK, ReservedIsSum, StockNext
  PROVE  Ledger!Next \/ UNCHANGED <<onHand, Claims>>
<1>1. PICK p \in Product, q \in 1..MaxQuantity, l \in Location \cup {NoLocation} :
        \/ IncreaseStock(p, q, l)
        \/ DecreaseStock(p, q, l)
        \/ \E to \in Location \cup {NoLocation} : Relocate(p, q, l, to)
  BY DEF StockNext
<1>2. CASE IncreaseStock(p, q, l)
  <2>1. Ledger!Receive(p, q)
    BY <1>2 DEF IncreaseStock, Ledger!Receive
  <2> QED BY <2>1 DEF Ledger!Next
<1>3. CASE DecreaseStock(p, q, l)
  <2>1. Ledger!Withdraw(p, q)
    BY <1>3, FreeIsAvailable DEF DecreaseStock, Ledger!Withdraw
  <2> QED BY <2>1 DEF Ledger!Next
<1>4. CASE \E to \in Location \cup {NoLocation} : Relocate(p, q, l, to)
  BY <1>4, ClaimsKept DEF Relocate
<1> QED BY <1>1, <1>2, <1>3, <1>4

\* A new picking is a grant from unclaimed units.
LEMMA CreationImplements ==
  ASSUME TypeOK, ReservedIsSum, StockInv, NEW o \in Picking,
         NEW requested \in [Product -> 0..MaxQuantity], NEW s,
         IsNextPicking(o), CreateInTransaction(o, requested, s), UNCHANGED onHand
  PROVE  Ledger!Next
<1>1. pickings[o].reservedQuantity = Nothing
  BY DEF IsNextPicking, StockInv, RowInv, OrderAgrees, NoPicking
<1>2. /\ pickings'[o].reservedQuantity = requested
      /\ \A k \in Picking \ {o} : pickings'[k] = pickings[k]
  BY DEF CreateInTransaction, TypeOK
<1>3. Claims' = [Claims EXCEPT ![o] = requested]
  BY <1>2, OneClaimChanges
<1>4. \A p \in Product : requested[p] > 0 => requested[p] <= Ledger!Free(p)
  BY FreeIsAvailable DEF CreateInTransaction
<1>5. Ledger!Grant(o, requested)
  BY <1>1, <1>3, <1>4 DEF Ledger!Grant, Ledger!NoClaim, Nothing, Claims
<1> QED BY <1>5 DEF Ledger!Next, Ledger!Amounts

\* An order whose reservation becomes a smaller one shrinks its claim.
LEMMA SettlementImplements ==
  ASSUME NEW o \in Picking, NEW target \in [Product -> 0..MaxQuantity],
         pickings'[o].reservedQuantity = target,
         \A k \in Picking \ {o} : pickings'[k] = pickings[k],
         \A p \in Product : target[p] <= pickings[o].reservedQuantity[p],
         UNCHANGED onHand
  PROVE  Ledger!Next
<1>1. Claims' = [Claims EXCEPT ![o] = target]
  BY OneClaimChanges
<1>2. Ledger!Shrink(o, target)
  BY <1>1 DEF Ledger!Shrink, Claims
<1> QED BY <1>2 DEF Ledger!Next, Ledger!Amounts

\* Pickings claim what they ask for, keep what was picked when they complete
\* and give up their claim when they are cancelled or deleted.
LEMMA PickingImplements ==
  ASSUME TypeOK, ReservedIsSum, StockInv, SalesInv, PickingNext
  PROVE  Ledger!Next \/ UNCHANGED <<onHand, Claims>>
<1> USE FulfilmentAssumption
<1>1. PICK o \in Picking :
        \/ \E requested \in Requests : CreatePicking(o, requested)
        \/ StartPicking(o)
        \/ \E p \in Product, n \in 0..MaxQuantity, l \in Location \cup {NoLocation} :
             PickUnits(o, p, n, l) \/ UnpickUnits(o, p, n, l)
        \/ CompletePicking(o)
        \/ CancelPicking(o)
        \/ DeletePicking(o)
  BY DEF PickingNext
<1>2. pickings[o] \in PickingOrder
  BY RowFields
<1>3. Nothing \in [Product -> 0..MaxQuantity]
  BY DEF Nothing
<1>4. \A p \in Product : Nothing[p] <= pickings[o].reservedQuantity[p]
  BY RowFields DEF Nothing
<1>5. CASE \E requested \in Requests : CreatePicking(o, requested)
  BY <1>5, CreationImplements DEF CreatePicking, Requests
<1>6. CASE StartPicking(o)
  <2>1. \A k \in Picking : pickings'[k].reservedQuantity = pickings[k].reservedQuantity
    BY <1>2, <1>6 DEF StartPicking, TypeOK, PickingOrder
  <2> QED BY <1>6, <2>1, ClaimsKept DEF StartPicking, stockVars
<1>7. ASSUME NEW p \in Product, NEW n \in 0..MaxQuantity, NEW l,
             PickUnits(o, p, n, l) \/ UnpickUnits(o, p, n, l)
      PROVE  UNCHANGED <<onHand, Claims>>
  <2> DEFINE taken == [pickings[o].pickedQuantity EXCEPT ![p] = n]
             row == [pickings[o] EXCEPT !.pickedQuantity = taken, !.status = "in_progress"]
  <2>1. pickings' = [pickings EXCEPT ![o] = row]
    BY <1>7 DEF PickUnits, UnpickUnits
  <2>2. row.reservedQuantity = pickings[o].reservedQuantity
    <3> HIDE DEF taken
    <3> QED BY <1>2 DEF PickingOrder
  <2> HIDE DEF row
  <2>3. \A k \in Picking : pickings'[k].reservedQuantity = pickings[k].reservedQuantity
    BY <2>1, <2>2 DEF TypeOK
  <2> QED BY <1>7, <2>3, ClaimsKept DEF PickUnits, UnpickUnits
<1>8. CASE CompletePicking(o)
  <2> DEFINE target == pickings[o].pickedQuantity
  <2>1. RowInv(o) /\ pickings[o].status \in Editable
    BY <1>8 DEF CompletePicking, StockInv
  <2>2. ASSUME NEW p \in Product
        PROVE  target[p] \in 0..MaxQuantity /\ target[p] <= pickings[o].reservedQuantity[p]
    BY <2>1, RowFields DEF RowInv, OrderAgrees, ReservationDue, SalesInv, PickingsAsk
  <2>3. target \in [Product -> 0..MaxQuantity]
    BY <2>2, RowFields
  <2>4. /\ pickings'[o].reservedQuantity = target
        /\ \A k \in Picking \ {o} : pickings'[k] = pickings[k]
    BY <1>2, <1>8 DEF CompletePicking, Settled, TypeOK, PickingOrder
  <2> QED BY <1>8, <2>2, <2>3, <2>4, SettlementImplements DEF CompletePicking
<1>9. CASE CancelPicking(o)
  <2>1. /\ pickings'[o].reservedQuantity = Nothing
        /\ \A k \in Picking \ {o} : pickings'[k] = pickings[k]
    BY <1>2, <1>9 DEF CancelPicking, Settled, TypeOK, PickingOrder
  <2> QED BY <1>3, <1>4, <1>9, <2>1, SettlementImplements DEF CancelPicking
<1>10. CASE DeletePicking(o)
  <2>1. /\ pickings'[o].reservedQuantity = Nothing
        /\ \A k \in Picking \ {o} : pickings'[k] = pickings[k]
    BY <1>10 DEF DeletePicking, NoPicking, TypeOK
  <2> QED BY <1>3, <1>4, <1>10, <2>1, SettlementImplements DEF DeletePicking
<1> QED BY <1>1, <1>5, <1>6, <1>7, <1>8, <1>9, <1>10

\* Consuming the reservations of an order dispatches its claim.
LEMMA ConsumeImplements ==
  ASSUME TypeOK, NEW o \in Picking, NEW packed \in [Product -> 0..MaxQuantity],
         ConsumeReservations(o, packed),
         \A p \in Product : packed[p] <= pickings[o].reservedQuantity[p]
  PROVE  Ledger!Next
<1>1. /\ pickings'[o].reservedQuantity = Nothing
      /\ \A k \in Picking \ {o} : pickings'[k] = pickings[k]
  <2>1. pickings[o] \in PickingOrder
    BY RowFields
  <2> QED BY <2>1 DEF ConsumeReservations, TypeOK, PickingOrder
<1>2. Claims' = [Claims EXCEPT ![o] = Nothing]
  BY <1>1, OneClaimChanges
<1>3. Ledger!Dispatch(o, packed)
  BY <1>2 DEF Ledger!Dispatch, Ledger!NoClaim, ConsumeReservations, Nothing, Claims
<1> QED BY <1>3 DEF Ledger!Next, Ledger!Amounts

\* A packing touches the ledger when it ends: it sends what was packed of the
\* order's claim, or nothing.
LEMMA PackingImplements ==
  ASSUME TypeOK, StockInv, SalesInv, PackingNext
  PROVE  Ledger!Next \/ UNCHANGED <<onHand, Claims>>
<1> USE FulfilmentAssumption
<1>1. PICK o \in Picking :
        \/ CreatePacking(o)
        \/ StartPacking(o)
        \/ \E p \in Product, n \in 0..MaxQuantity : PackUnits(o, p, n)
        \/ CompletePacking(o)
        \/ CancelPacking(o)
        \/ CheckPackingDeletion(o)
        \/ DeletePackingRow(o)
  BY DEF PackingNext
<1>2. CASE UNCHANGED <<onHand, pickings>>
  BY <1>2, ClaimsKept
<1>3. CASE CompletePacking(o)
  <2>1. RowInv(o) /\ packings[o].status \in Editable
    BY <1>3 DEF CompletePacking, StockInv
  <2>2. pickings[o].status = "completed" /\ Outstanding(o)
    BY <2>1 DEF RowInv, OrderAgrees, Outstanding, Editable, Finished
  <2>3. ASSUME NEW p \in Product
        PROVE  /\ packings[o].packedQuantity[p] \in 0..MaxQuantity
               /\ packings[o].packedQuantity[p] <= pickings[o].reservedQuantity[p]
    <3>1. /\ packings[o].packedQuantity[p] <= packings[o].quantity[p]
          /\ packings[o].quantity[p] <= pickings[o].pickedQuantity[p]
          /\ pickings[o].pickedQuantity[p] <= pickings[o].quantity[p]
          /\ pickings[o].reservedQuantity[p] = pickings[o].pickedQuantity[p]
      BY <2>1, <2>2 DEF RowInv, OrderAgrees, ReservationDue, Editable
    <3>2. pickings[o].quantity[p] <= MaxQuantity
      BY DEF SalesInv, PickingsAsk
    <3> QED BY <3>1, <3>2, RowFields
  <2>4. packings[o].packedQuantity \in [Product -> 0..MaxQuantity]
    BY <2>3, RowFields
  <2> QED BY <1>3, <2>3, <2>4, ConsumeImplements DEF CompletePacking
<1>4. CASE CancelPacking(o)
  <2>1. Nothing \in [Product -> 0..MaxQuantity]
    BY DEF Nothing
  <2>2. \A p \in Product : Nothing[p] <= pickings[o].reservedQuantity[p]
    BY RowFields DEF Nothing
  <2> QED BY <1>4, <2>1, <2>2, ConsumeImplements DEF CancelPacking
<1> QED BY <1>1, <1>2, <1>3, <1>4
        DEF CreatePacking, StartPacking, PackUnits, CheckPackingDeletion, DeletePackingRow,
            stockVars

\* A release is a grant: it takes no more than a request may name, since no
\* sales order asks for more.
LEMMA SalesImplements ==
  ASSUME TypeOK, ReservedIsSum, StockInv, SalesInv, SalesNext
  PROVE  Ledger!Next \/ UNCHANGED <<onHand, Claims>>
<1> USE FulfilmentAssumption
<1>1. PICK s \in Sale :
        \/ \E quantity \in Requests : CreateSale(s, quantity)
        \/ \E o \in Picking, allowPartial \in BOOLEAN : ReleaseSale(s, o, allowPartial)
        \/ CancelSale(s)
  BY DEF SalesNext
<1>2. CASE UNCHANGED <<onHand, pickings>>
  BY <1>2, ClaimsKept
<1>3. ASSUME NEW o \in Picking, NEW allowPartial \in BOOLEAN, ReleaseSale(s, o, allowPartial)
      PROVE  Ledger!Next
  <2> DEFINE allocation ==
               [p \in Product |-> Greatest(0, Least(Pending(s, p), Available(p)))]
  <2>1. ASSUME NEW p \in Product PROVE allocation[p] \in 0..MaxQuantity
    <3>1. /\ sales[s].releasedQuantity[p] \in Nat /\ sales[s].quantity[p] \in Nat
          /\ sales[s].quantity[p] <= MaxQuantity
      BY RowFields, AccountsBound DEF SalesInv, SaleStatusAgrees
    <3>2. onHand[p] \in Int /\ reserved[p] \in Int
      BY DEF TypeOK
    <3> QED BY <3>1, <3>2 DEF Greatest, Least, Pending, Available
  <2>2. allocation \in [Product -> 0..MaxQuantity]
    BY <2>1
  <2>3. IsNextPicking(o) /\ CreateInTransaction(o, allocation, s) /\ UNCHANGED onHand
    BY <1>3 DEF ReleaseSale
  <2> HIDE DEF allocation
  <2> QED BY <2>2, <2>3, CreationImplements
<1> QED BY <1>1, <1>2, <1>3 DEF CreateSale, CancelSale, stockVars

\* Every execution is an execution of the ledger: whatever the orders do,
\* a reservation is granted from unclaimed units only and only shrinks, and an
\* order sends out at most its own.
THEOREM ImplementsLedger ==
  ASSUME OverlapDelete = FALSE
  PROVE  Spec => LedgerSpec
<1>1. TypeOK /\ ReservedIsSum /\ StockInv /\ SalesInv /\ [Next]_vars
        => [Ledger!Next]_<<onHand, Claims>>
  <2> SUFFICES ASSUME TypeOK, ReservedIsSum, StockInv, SalesInv, [Next]_vars
               PROVE  Ledger!Next \/ UNCHANGED <<onHand, Claims>>
    OBVIOUS
  <2>1. CASE UNCHANGED vars
    BY <2>1, ClaimsKept DEF vars
  <2> QED BY <2>1, StockImplements, PickingImplements, PackingImplements, SalesImplements
          DEF Next
<1>2. Spec => Ledger!Init /\ [][Ledger!Next]_<<onHand, Claims>>
  BY <1>1, LedgerInit, SalesInvariant, StockInvariant, TypeCorrect, ReservationsAddUp, PTL
  DEF Spec
<1> QED BY <1>2, PTL DEF LedgerSpec, Ledger!Spec, Claims

=============================================================================
