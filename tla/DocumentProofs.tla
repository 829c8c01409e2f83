--------------------------- MODULE DocumentProofs ---------------------------
(***************************************************************************)
(* Proofs about the documents of the warehouse, for any number of them.    *)
(*                                                                         *)
(* Receiving: what the receipts bring is on hand and counted by the        *)
(* orders, once, and a return takes back no more than was shipped.         *)
(*                                                                         *)
(* Waves: a completed wave is settled and what was picked stays picked.    *)
(* The names of Waves are those of its instance W.                         *)
(***************************************************************************)
EXTENDS Receiving, TLAPS

CONSTANTS NumOrders, Wave, Asked, MaxPick                     \* of Waves
VARIABLES waveOrders, waves, creating, picking, completing    \* of Waves

W == INSTANCE Waves WITH orders <- waveOrders

\* Facts about sums (ShelfTheorems, whose own locations play no part here).
Sums == INSTANCE ShelfTheorems WITH NumLocations <- 0

ItemRow == [quantity : 0..MaxQuantity, received : Nat]

OrderRow ==
  [status : {"none"} \union Receivable \union OrderEnded, items : [Product -> ItemRow],
   excess : BOOLEAN]

ReceiptRow ==
  [status : {"none", "open", "completed", "cancelled"},
   kind : {"purchase", "customer_return"}, order : Order \union {None},
   dispatch : Dispatch \union {None}, lines : [Line -> LineRow \union {None}]]

Writing == [line : Line, row : LineRow]

\* Every row has its columns, and only an open receipt has a line to write: so
\* what a receipt posts when it is completed is what it keeps.
Rows ==
  /\ orders \in [Order -> OrderRow]
  /\ receipts \in [Receipt -> ReceiptRow]
  /\ onHand \in [Product -> Nat]
  /\ writing \in [Receipt -> Writing \union {None}]
  /\ \A r \in Receipt : writing[r] # None => receipts[r].status = "open"

ReceivingInv ==
  Rows /\ StockWasReceived /\ ItemsCountReceipts /\ ExcessConfirmed /\ OrderStatusFollows

\* These are the types of the rows of receipts and of their orders.
LEMMA RowsGiveTypes == Rows => ReceivingTypeOK
BY DEF Rows, ReceivingTypeOK, OrderRow, ItemRow, ReceiptRow, Writing

-----------------------------------------------------------------------------
(* Sums over lines and receipts. *)

\* The lemmas of ShelfTheorems that are used, about this module's Total.
LEMMA SumSame ==
  /\ \A n \in Nat : \A f : (\A i \in 1..n : f[i] \in Nat) => Total(f, n) \in Nat
  /\ \A n \in Nat : \A f : (\A i \in 1..n : f[i] \in Nat) => \A k \in 1..n : f[k] <= Total(f, n)
  /\ \A n \in Nat : \A f : (\A i \in 1..n : f[i] = 0) => Total(f, n) = 0
<1>1. \A n, f : Total(f, n) = Sums!Total(f, n)
  BY Zenon DEF Total, Sums!Total
<1> QED
  BY <1>1, Sums!TotalNat, Sums!TotalAllZero, 0 \in Nat

LEMMA SumChange ==
  ASSUME NEW n \in Nat, NEW f, NEW g, NEW k \in 1..n, NEW d \in Int,
         \A i \in 1..n : f[i] \in Nat,
         \A i \in 1..n : g[i] = IF i = k THEN f[i] + d ELSE f[i]
  PROVE  Total(g, n) = Total(f, n) + d
<1>1. Total(f, n) = Sums!Total(f, n) /\ Total(g, n) = Sums!Total(g, n)
  BY Zenon DEF Total, Sums!Total
<1>2. \A i \in 1..n : f[i] \in Int
  OBVIOUS
<1> QED
  BY <1>1, <1>2, Sums!TotalUpdate, 0 \in Nat

\* Units of the product on some lines.
UnitsOf(row, p, D) ==
  IF row # None /\ row.product = p /\ row.disposition \in D THEN row.quantity ELSE 0

UnitsOn(lines, p, D) == Total([l \in Line |-> UnitsOf(lines[l], p, D)], NumLines)

LEMMA OnLinesIsUnitsOn ==
  ASSUME NEW r, NEW p, NEW D
  PROVE  /\ OnLines(r, p, D) = UnitsOn(receipts[r].lines, p, D)
         /\ OnLines(r, p, D)' = UnitsOn(receipts'[r].lines, p, D)
BY DEF OnLines, UnitsOn, UnitsOf

LEMMA UnitsOnNat ==
  ASSUME ReceivingAssumption, NEW lines \in [Line -> LineRow \union {None}], NEW p, NEW D
  PROVE  /\ UnitsOn(lines, p, D) \in Nat
         /\ \A l \in Line : UnitsOf(lines[l], p, D) \in Nat
         /\ (\A l \in Line : lines[l] = None) => UnitsOn(lines, p, D) = 0
<1> DEFINE f == [l \in Line |-> UnitsOf(lines[l], p, D)]
<1>1. \A l \in Line : UnitsOf(lines[l], p, D) \in Nat
  BY DEF UnitsOf, LineRow, Quantity
<1>2. \A l \in 1..NumLines : f[l] \in Nat /\ f[l] = UnitsOf(lines[l], p, D)
  BY <1>1 DEF Line
<1>3. NumLines \in Nat
  BY DEF ReceivingAssumption
<1> HIDE DEF f
<1>4. Total(f, NumLines) \in Nat
  BY <1>2, <1>3, SumSame
<1>5. ASSUME \A l \in Line : lines[l] = None
      PROVE  Total(f, NumLines) = 0
  <2>1. \A l \in 1..NumLines : f[l] = 0
    BY <1>2, <1>5 DEF UnitsOf, Line
  <2> QED
    BY <1>3, <2>1, SumSame
<1> QED
  BY <1>1, <1>4, <1>5 DEF UnitsOn, f

\* A line that is written adds its units and takes away those it had.
LEMMA UnitsOnWrite ==
  ASSUME ReceivingAssumption, NEW lines \in [Line -> LineRow \union {None}], NEW p, NEW D,
         NEW l \in Line, NEW row \in LineRow \union {None}
  PROVE  UnitsOn([lines EXCEPT ![l] = row], p, D) =
           UnitsOn(lines, p, D) + (UnitsOf(row, p, D) - UnitsOf(lines[l], p, D))
<1> DEFINE after == [lines EXCEPT ![l] = row]
           f == [k \in Line |-> UnitsOf(lines[k], p, D)]
           g == [k \in Line |-> UnitsOf(after[k], p, D)]
           d == UnitsOf(row, p, D) - UnitsOf(lines[l], p, D)
<1>1. \A k \in Line : f[k] \in Nat /\ f[k] = UnitsOf(lines[k], p, D)
  BY UnitsOnNat
<1>2. UnitsOf(row, p, D) \in Nat
  BY DEF UnitsOf, LineRow, Quantity
<1>3. \A k \in Line : g[k] = IF k = l THEN UnitsOf(row, p, D) ELSE f[k]
  OBVIOUS
<1>4. d \in Int /\ f[l] + d = UnitsOf(row, p, D)
  BY <1>1, <1>2
<1>5. \A k \in 1..NumLines : f[k] \in Nat /\ g[k] = IF k = l THEN f[k] + d ELSE f[k]
  BY <1>1, <1>3, <1>4 DEF Line
<1>6. NumLines \in Nat /\ l \in 1..NumLines
  BY DEF ReceivingAssumption, Line
<1> HIDE DEF f, g, d
<1>7. Total(g, NumLines) = Total(f, NumLines) + d
  BY <1>4, <1>5, <1>6, SumChange
<1> QED
  BY <1>7 DEF UnitsOn, f, g, d

\* A line that is deleted takes its units away.
LEMMA UnitsOnDelete ==
  ASSUME ReceivingAssumption, NEW lines \in [Line -> LineRow \union {None}], NEW p, NEW D,
         NEW l \in Line
  PROVE  UnitsOn([lines EXCEPT ![l] = None], p, D)
           = UnitsOn(lines, p, D) - UnitsOf(lines[l], p, D)
<1> DEFINE after == [lines EXCEPT ![l] = None]
           f == [k \in Line |-> UnitsOf(lines[k], p, D)]
           g == [k \in Line |-> UnitsOf(after[k], p, D)]
           d == 0 - UnitsOf(lines[l], p, D)
<1>1. \A k \in Line : f[k] \in Nat /\ f[k] = UnitsOf(lines[k], p, D)
  BY UnitsOnNat
<1>2. UnitsOf(None, p, D) = 0
  BY DEF UnitsOf
<1>3. \A k \in Line : g[k] = IF k = l THEN f[k] + d ELSE f[k]
  BY <1>1, <1>2
<1>4. d \in Int /\ NumLines \in Nat /\ l \in 1..NumLines
  BY <1>1 DEF ReceivingAssumption, Line
<1> HIDE DEF f, g, d
<1>5. Total(g, NumLines) = Total(f, NumLines) + d
  BY <1>1, <1>3, <1>4, SumChange DEF Line
<1>6. UnitsOn(lines, p, D) = Total(f, NumLines) /\ UnitsOn(after, p, D) = Total(g, NumLines)
  BY DEF UnitsOn, f, g
<1>7. UnitsOn(lines, p, D) \in Nat /\ UnitsOf(lines[l], p, D) \in Nat
  BY UnitsOnNat
<1> QED
  BY <1>5, <1>6, <1>7 DEF d

\* Units of the product that some of the receipts `rs` brought.
Brought(rs, R, p, D) ==
  Total([r \in Receipt |-> IF r \in R THEN UnitsOn(rs[r].lines, p, D) ELSE 0], NumReceipts)

LEMMA BroughtNat ==
  ASSUME ReceivingAssumption, NEW rs \in [Receipt -> ReceiptRow], NEW R, NEW p, NEW D
  PROVE  /\ Brought(rs, R, p, D) \in Nat
         /\ R = {} => Brought(rs, R, p, D) = 0
         /\ \A r \in Receipt : r \in R => UnitsOn(rs[r].lines, p, D) <= Brought(rs, R, p, D)
<1> DEFINE f == [r \in Receipt |-> IF r \in R THEN UnitsOn(rs[r].lines, p, D) ELSE 0]
<1>1. \A r \in Receipt : UnitsOn(rs[r].lines, p, D) \in Nat
  BY UnitsOnNat DEF ReceiptRow
<1>2. \A r \in 1..NumReceipts :
        f[r] \in Nat /\ f[r] = IF r \in R THEN UnitsOn(rs[r].lines, p, D) ELSE 0
  BY <1>1 DEF Receipt
<1>3. NumReceipts \in Nat
  BY DEF ReceivingAssumption
<1> HIDE DEF f
<1>4. Total(f, NumReceipts) \in Nat /\ \A r \in 1..NumReceipts : f[r] <= Total(f, NumReceipts)
  BY <1>2, <1>3, SumSame
<1>5. ASSUME R = {}
      PROVE  Total(f, NumReceipts) = 0
  <2>1. \A r \in 1..NumReceipts : f[r] = 0
    BY <1>2, <1>5
  <2> QED
    BY <1>3, <2>1, SumSame
<1>6. \A r \in Receipt : r \in R => UnitsOn(rs[r].lines, p, D) <= Total(f, NumReceipts)
  BY <1>2, <1>4 DEF Receipt
<1> QED
  BY <1>4, <1>5, <1>6 DEF Brought, f

\* Only the lines of those receipts count.
LEMMA BroughtSame ==
  ASSUME NEW rs, NEW qs, NEW R, NEW p, NEW D,
         \A r \in Receipt : r \in R => qs[r].lines = rs[r].lines
  PROVE  Brought(qs, R, p, D) = Brought(rs, R, p, D)
<1>1. \A r \in Receipt :
        (IF r \in R THEN UnitsOn(qs[r].lines, p, D) ELSE 0)
          = (IF r \in R THEN UnitsOn(rs[r].lines, p, D) ELSE 0)
  OBVIOUS
<1> QED
  BY <1>1 DEF Brought

\* One receipt more brings its units.
LEMMA BroughtMore ==
  ASSUME ReceivingAssumption, NEW rs \in [Receipt -> ReceiptRow], NEW R, NEW p, NEW D,
         NEW r1 \in Receipt, r1 \notin R
  PROVE  Brought(rs, R \union {r1}, p, D) = Brought(rs, R, p, D) + UnitsOn(rs[r1].lines, p, D)
<1> DEFINE f == [r \in Receipt |-> IF r \in R THEN UnitsOn(rs[r].lines, p, D) ELSE 0]
           g == [r \in Receipt |-> IF r \in R \union {r1} THEN UnitsOn(rs[r].lines, p, D) ELSE 0]
           d == UnitsOn(rs[r1].lines, p, D)
<1>1. \A r \in Receipt : UnitsOn(rs[r].lines, p, D) \in Nat
  BY UnitsOnNat DEF ReceiptRow
<1>2. \A r \in 1..NumReceipts : f[r] \in Nat /\ g[r] = IF r = r1 THEN f[r] + d ELSE f[r]
  BY <1>1 DEF Receipt
<1>3. NumReceipts \in Nat /\ r1 \in 1..NumReceipts /\ d \in Int
  BY <1>1 DEF ReceivingAssumption, Receipt
<1> HIDE DEF f, g, d
<1>4. Total(g, NumReceipts) = Total(f, NumReceipts) + d
  BY <1>2, <1>3, SumChange
<1> QED
  BY <1>4 DEF Brought, f, g, d

Completed == {r \in Receipt : receipts[r].status = "completed"}

\* What is to be shown, in these terms.
LEMMA PropertiesAsSums ==
  /\ StockWasReceived = \A p \in Product : onHand[p] = Brought(receipts, Completed, p, {"restock"})
  /\ StockWasReceived' =
       \A p \in Product : onHand'[p] = Brought(receipts', Completed', p, {"restock"})
  /\ ItemsCountReceipts =
       \A o \in Order, p \in Product :
         orders[o].items[p].quantity > 0 =>
           orders[o].items[p].received = Brought(receipts, CompletedFor(o), p, Disposition)
  /\ ItemsCountReceipts' =
       \A o \in Order, p \in Product :
         orders'[o].items[p].quantity > 0 =>
           orders'[o].items[p].received = Brought(receipts', CompletedFor(o)', p, Disposition)
<1>1. StockWasReceived = \A p \in Product : onHand[p] = Brought(receipts, Completed, p, {"restock"})
  BY OnLinesIsUnitsOn DEF StockWasReceived, OverReceipts, Brought, Completed
<1>2. StockWasReceived' =
        \A p \in Product : onHand'[p] = Brought(receipts', Completed', p, {"restock"})
  BY OnLinesIsUnitsOn DEF StockWasReceived, OverReceipts, Brought, Completed
<1>3. ItemsCountReceipts =
       \A o \in Order, p \in Product :
         orders[o].items[p].quantity > 0 =>
           orders[o].items[p].received = Brought(receipts, CompletedFor(o), p, Disposition)
  BY OnLinesIsUnitsOn DEF ItemsCountReceipts, OverReceipts, Brought
<1>4. ItemsCountReceipts' =
       \A o \in Order, p \in Product :
         orders'[o].items[p].quantity > 0 =>
           orders'[o].items[p].received = Brought(receipts', CompletedFor(o)', p, Disposition)
  BY OnLinesIsUnitsOn DEF ItemsCountReceipts, OverReceipts, Brought, CompletedFor
<1> QED
  BY <1>1, <1>2, <1>3, <1>4

-----------------------------------------------------------------------------
(* The steps. *)

LEMMA InitInv ==
  ASSUME ReceivingAssumption, Init
  PROVE  ReceivingInv
<1>1. Rows
  BY DEF Init, Rows, OrderRow, ItemRow, NoItem, ReceiptRow, NoReceipt, ReceivingAssumption
<1>2. Completed = {} /\ \A o \in Order : CompletedFor(o) = {}
  BY DEF Init, Completed, CompletedFor, NoReceipt
<1>3. StockWasReceived /\ ItemsCountReceipts
  <2>1. \A p \in Product, R \in {Completed} \union {CompletedFor(o) : o \in Order} : \A D :
          Brought(receipts, R, p, D) = 0
    BY <1>1, <1>2, BroughtNat DEF Rows
  <2> QED
    BY <1>2, <2>1, PropertiesAsSums DEF Init, NoItem
<1>4. ExcessConfirmed /\ OrderStatusFollows
  BY <1>2 DEF Init, ExcessConfirmed, OrderStatusFollows, NoItem
<1> QED
  BY <1>1, <1>3, <1>4 DEF ReceivingInv

\* Purchase orders change while receipts do not.
LEMMA PurchaseInv ==
  ASSUME ReceivingAssumption, ReceivingInv, NEW o \in Order,
         \/ \E items \in Items : CreateOrder(o, items) \/ ReplaceItems(o, items)
         \/ CancelOrder(o) \/ CloseOrder(o)
  PROVE  ReceivingInv' /\ KeepsEnded
<1>1. /\ orders \in [Order -> OrderRow] /\ UNCHANGED <<receipts, onHand, writing>>
      /\ Completed' = Completed /\ \A k \in Order : CompletedFor(k)' = CompletedFor(k)
  BY DEF ReceivingInv, Rows, CreateOrder, ReplaceItems, CancelOrder, CloseOrder, EndOrder,
         Completed, CompletedFor
<1>2. StockWasReceived'
  BY <1>1, PropertiesAsSums DEF ReceivingInv
<1>3. ASSUME NEW row \in OrderRow, orders' = [orders EXCEPT ![o] = row],
             orders[o].status \notin OrderEnded,
             \A p \in Product :
               /\ row.items[p].quantity > 0 =>
                    row.items[p].received = Brought(receipts, CompletedFor(o), p, Disposition)
               /\ row.items[p].received > row.items[p].quantity => row.excess,
             row.status \in {"none", "open", "cancelled"} <=> CompletedFor(o) = {},
             row.status # "received",
             row.status \in {"partially_received", "closed"} =>
               \E p \in Product : row.items[p].received < row.items[p].quantity
      PROVE  ReceivingInv' /\ KeepsEnded
  <2>1. /\ orders' \in [Order -> OrderRow] /\ orders'[o] = row
        /\ \A k \in Order : k # o => orders'[k] = orders[k]
    BY <1>1, <1>3
  <2>2. Rows'
    BY <1>1, <2>1 DEF ReceivingInv, Rows
  <2>3. ItemsCountReceipts'
    <3>1. ASSUME NEW k \in Order, NEW p \in Product, orders'[k].items[p].quantity > 0
          PROVE  orders'[k].items[p].received = Brought(receipts, CompletedFor(k), p, Disposition)
      BY <1>3, <2>1, <3>1, PropertiesAsSums DEF ReceivingInv
    <3> QED
      BY <1>1, <3>1, PropertiesAsSums
  <2>4. ExcessConfirmed'
    BY <1>3, <2>1 DEF ReceivingInv, ExcessConfirmed
  <2>5. OrderStatusFollows'
    BY <1>1, <1>3, <2>1 DEF ReceivingInv, OrderStatusFollows
  <2>6. KeepsEnded
    BY <1>1, <1>3, <2>1 DEF KeepsEnded
  <2> QED
    BY <1>2, <2>2, <2>3, <2>4, <2>5, <2>6 DEF ReceivingInv
<1>4. ASSUME NEW items \in Items, CreateOrder(o, items) \/ ReplaceItems(o, items)
      PROVE  ReceivingInv' /\ KeepsEnded
  <2> DEFINE row == [orders[o] EXCEPT !.status = "open", !.items = Ordered(items)]
  <2>1. orders[o].status \in {"none", "open"}
    BY <1>4 DEF CreateOrder, ReplaceItems, ItemsReplaceable
  <2>2. orders' = [orders EXCEPT ![o] = row]
    <3>1. orders[o] = [status |-> orders[o].status, items |-> orders[o].items,
                       excess |-> orders[o].excess]
      BY <1>1 DEF OrderRow
    <3>2. CASE CreateOrder(o, items)
      BY <1>1, <3>2 DEF CreateOrder
    <3>3. CASE ReplaceItems(o, items)
      <4>1. [orders[o] EXCEPT !.items = Ordered(items)] = row
        BY <3>1, <3>3 DEF ReplaceItems, ItemsReplaceable
      <4> QED
        BY <3>3, <4>1 DEF ReplaceItems
    <3> QED
      BY <1>4, <3>2, <3>3
  <2>3. /\ Ordered(items) \in [Product -> ItemRow]
        /\ \A p \in Product : Ordered(items)[p].received = 0
        /\ \A p \in Product : Ordered(items)[p].quantity \in 0..MaxQuantity
    BY DEF Ordered, Items, ItemRow
  <2>4. row \in OrderRow /\ row.status = "open" /\ row.items = Ordered(items)
    BY <1>1, <2>3 DEF OrderRow, Receivable
  <2>5. CompletedFor(o) = {}
    BY <2>1 DEF ReceivingInv, OrderStatusFollows
  <2>6. \A p \in Product : Brought(receipts, CompletedFor(o), p, Disposition) = 0
    BY <2>5, BroughtNat DEF ReceivingInv, Rows
  <2> HIDE DEF row
  <2>7. \A p \in Product : ~(Ordered(items)[p].received > Ordered(items)[p].quantity)
    BY <2>3 DEF ReceivingAssumption
  <2> QED
    BY <1>3, <2>1, <2>2, <2>3, <2>4, <2>5, <2>6, <2>7 DEF OrderEnded
<1>5. ASSUME NEW from, NEW to, EndOrder(o, from, to),
             <<from, to>> \in {<<"open", "cancelled">>, <<"partially_received", "closed">>}
      PROVE  ReceivingInv' /\ KeepsEnded
  <2> DEFINE row == [orders[o] EXCEPT !.status = to]
  <2>1. orders[o].status = from /\ orders' = [orders EXCEPT ![o] = row]
    BY <1>5 DEF EndOrder
  <2>2. row \in OrderRow /\ row.status = to /\ row.items = orders[o].items
        /\ row.excess = orders[o].excess
    BY <1>1, <1>5 DEF OrderRow, Receivable, OrderEnded
  <2> HIDE DEF row
  <2>3. /\ orders[o].status \notin OrderEnded /\ to # "received"
        /\ to \in {"none", "open", "cancelled"} <=> CompletedFor(o) = {}
        /\ to \in {"partially_received", "closed"} =>
             \E p \in Product : orders[o].items[p].received < orders[o].items[p].quantity
    BY <1>5, <2>1 DEF ReceivingInv, OrderStatusFollows, OrderEnded
  <2>4. \A p \in Product :
          /\ orders[o].items[p].quantity > 0 =>
               orders[o].items[p].received = Brought(receipts, CompletedFor(o), p, Disposition)
          /\ orders[o].items[p].received > orders[o].items[p].quantity => orders[o].excess
    BY PropertiesAsSums DEF ReceivingInv, ExcessConfirmed
  <2> QED
    BY <1>3, <2>1, <2>2, <2>3, <2>4
<1> QED
  BY <1>4, <1>5 DEF CancelOrder, CloseOrder

\* Receipts change that are not completed, and none is.
LEMMA QuietReceipts ==
  ASSUME ReceivingAssumption, ReceivingInv, UNCHANGED <<orders, onHand>>,
         receipts' \in [Receipt -> ReceiptRow], writing' \in [Receipt -> Writing \union {None}],
         \A r \in Receipt :
           /\ receipts'[r].status = "completed" <=> receipts[r].status = "completed"
           /\ receipts[r].status \in {"completed", "cancelled"} => receipts'[r] = receipts[r]
           /\ writing'[r] # None => receipts'[r].status = "open"
  PROVE  ReceivingInv' /\ KeepsEnded
<1>1. Rows'
  BY DEF ReceivingInv, Rows
<1>2. Completed' = Completed /\ \A o \in Order : CompletedFor(o)' = CompletedFor(o)
  BY DEF Completed, CompletedFor
<1>3. StockWasReceived'
  <2>1. \A p : Brought(receipts', Completed, p, {"restock"}) = Brought(receipts, Completed, p, {"restock"})
    BY BroughtSame DEF Completed
  <2> QED
    BY <1>2, <2>1, PropertiesAsSums DEF ReceivingInv
<1>4. ItemsCountReceipts'
  <2>1. \A o \in Order, p \in Product :
          Brought(receipts', CompletedFor(o), p, Disposition)
            = Brought(receipts, CompletedFor(o), p, Disposition)
    BY BroughtSame DEF CompletedFor
  <2> QED
    BY <1>2, <2>1, PropertiesAsSums DEF ReceivingInv
<1>5. ExcessConfirmed' /\ OrderStatusFollows'
  BY <1>2 DEF ReceivingInv, ExcessConfirmed, OrderStatusFollows
<1> QED
  BY <1>1, <1>3, <1>4, <1>5 DEF ReceivingInv, KeepsEnded

LEMMA OpenReceiptInv ==
  ASSUME ReceivingAssumption, ReceivingInv, NEW r \in Receipt,
         NEW kind \in {"purchase", "customer_return"}, NEW o \in Order \union {None},
         NEW d \in Dispatch \union {None}, OpenReceipt(r, kind, o, d)
  PROVE  ReceivingInv' /\ KeepsEnded
<1> DEFINE row == [NoReceipt EXCEPT !.status = "open", !.kind = kind, !.order = o, !.dispatch = d]
<1>1. /\ receipts[r].status = "none" /\ receipts' = [receipts EXCEPT ![r] = row]
      /\ UNCHANGED <<orders, onHand, writing>>
  BY DEF OpenReceipt
<1>2. row \in ReceiptRow /\ row.status = "open"
  BY DEF ReceiptRow, NoReceipt
<1> HIDE DEF row
<1>3. Rows
  BY DEF ReceivingInv
<1> QED
  BY <1>1, <1>2, <1>3, QuietReceipts DEF Rows

LEMMA CheckInv ==
  ASSUME ReceivingAssumption, ReceivingInv, NEW r \in Receipt, NEW l \in Line, NEW row \in LineRow,
         CheckLine(r, l, row) \/ CheckCorrection(r, l, row)
  PROVE  ReceivingInv' /\ KeepsEnded
<1> DEFINE w == [line |-> l, row |-> row]
<1>1. /\ receipts[r].status = "open" /\ writing' = [writing EXCEPT ![r] = w]
      /\ UNCHANGED <<orders, onHand, receipts>>
  BY DEF CheckLine, CheckCorrection, Writes, Locked
<1>2. w \in Writing
  BY DEF Writing
<1> HIDE DEF w
<1>3. Rows
  BY DEF ReceivingInv
<1> QED
  BY <1>1, <1>2, <1>3, QuietReceipts DEF Rows

\* What an open receipt becomes, with another line or another status.
WithLine(r, l, row) == [receipts[r] EXCEPT !.lines = [@ EXCEPT ![l] = row]]

WithStatus(r, status) == [receipts[r] EXCEPT !.status = status]

LEMMA OpenRow ==
  ASSUME Rows, NEW r \in Receipt
  PROVE  /\ \A l \in Line, row \in LineRow \union {None} :
              /\ WithLine(r, l, row) \in ReceiptRow
              /\ WithLine(r, l, row).status = receipts[r].status
              /\ WithLine(r, l, row).lines = [receipts[r].lines EXCEPT ![l] = row]
              /\ WithLine(r, l, row).dispatch = receipts[r].dispatch
         /\ \A status \in {"completed", "cancelled"} :
              /\ WithStatus(r, status) \in ReceiptRow
              /\ WithStatus(r, status).status = status
              /\ WithStatus(r, status).lines = receipts[r].lines
              /\ WithStatus(r, status).order = receipts[r].order
              /\ WithStatus(r, status).dispatch = receipts[r].dispatch
BY DEF Rows, ReceiptRow, WithLine, WithStatus

LEMMA ChangeReceiptInv ==
  ASSUME ReceivingAssumption, ReceivingInv, NEW r \in Receipt,
         WriteLine(r) \/ (\E l \in Line : RemoveLine(r, l)) \/ CancelReceipt(r)
  PROVE  ReceivingInv' /\ KeepsEnded
<1>1. Rows
  BY DEF ReceivingInv
<1>2. receipts[r].status = "open" /\ UNCHANGED <<orders, onHand>>
  BY <1>1 DEF WriteLine, RemoveLine, CancelReceipt, Locked, Rows
<1>3. ASSUME NEW after \in ReceiptRow, after.status = "open",
             receipts' = [receipts EXCEPT ![r] = after],
             writing' = writing \/ writing' = [writing EXCEPT ![r] = None]
      PROVE  ReceivingInv' /\ KeepsEnded
  BY <1>1, <1>2, <1>3, QuietReceipts DEF Rows
<1>4. CASE WriteLine(r)
  <2> DEFINE w == writing[r]
             after == WithLine(r, w.line, w.row)
  <2>1. w.line \in Line /\ w.row \in LineRow
    BY <1>1, <1>4 DEF WriteLine, Rows, Writing
  <2>2. after \in ReceiptRow /\ after.status = "open"
    BY <1>1, <1>2, <2>1, OpenRow
  <2>3. receipts' = [receipts EXCEPT ![r] = after] /\ writing' = [writing EXCEPT ![r] = None]
    BY <1>4 DEF WriteLine, WithLine
  <2> HIDE DEF after
  <2> QED
    BY <1>3, <2>2, <2>3
<1>5. ASSUME NEW l \in Line, RemoveLine(r, l)
      PROVE  ReceivingInv' /\ KeepsEnded
  <2> DEFINE after == WithLine(r, l, None)
  <2>1. after \in ReceiptRow /\ after.status = "open"
    BY <1>1, <1>2, OpenRow
  <2>2. receipts' = [receipts EXCEPT ![r] = after] /\ writing' = writing
    BY <1>5 DEF RemoveLine, WithLine
  <2> HIDE DEF after
  <2> QED
    BY <1>3, <2>1, <2>2
<1>6. CASE CancelReceipt(r)
  <2> DEFINE after == WithStatus(r, "cancelled")
  <2>1. after \in ReceiptRow /\ after.status = "cancelled"
    BY <1>1, <1>2, OpenRow
  <2>2. receipts' = [receipts EXCEPT ![r] = after] /\ writing' = writing /\ writing[r] = None
    BY <1>6 DEF CancelReceipt, Locked, WithStatus
  <2> HIDE DEF after
  <2> QED
    BY <1>1, <1>2, <2>1, <2>2, QuietReceipts DEF Rows
<1> QED
  BY <1>4, <1>5, <1>6

\* Completing a receipt posts its lines to the stock and to its order, once.
LEMMA CompleteInv ==
  ASSUME ReceivingAssumption, ReceivingInv, NEW r \in Receipt, NEW allow \in BOOLEAN,
         CompleteReceipt(r, allow)
  PROVE  ReceivingInv' /\ KeepsEnded
<1> DEFINE o == receipts[r].order
           units(p, D) == UnitsOn(receipts[r].lines, p, D)
<1>1. /\ receipts[r].status = "open" /\ writing[r] = None /\ writing' = writing
      /\ receipts' = [receipts EXCEPT ![r] = WithStatus(r, "completed")]
      /\ onHand' = [p \in Product |-> onHand[p] + Posted(r, p)]
  BY DEF CompleteReceipt, Locked, WithStatus
<1>2. /\ WithStatus(r, "completed") \in ReceiptRow /\ WithStatus(r, "completed").status = "completed"
      /\ WithStatus(r, "completed").lines = receipts[r].lines
      /\ WithStatus(r, "completed").order = o
  BY OpenRow DEF ReceivingInv
<1>3. Rows /\ receipts \in [Receipt -> ReceiptRow] /\ None \notin Order
  BY DEF ReceivingInv, Rows, ReceivingAssumption
<1>4. /\ receipts' \in [Receipt -> ReceiptRow] /\ receipts'[r].status = "completed"
      /\ receipts'[r].order = o
      /\ \A k \in Receipt : receipts'[k].lines = receipts[k].lines
      /\ \A k \in Receipt : k # r => receipts'[k] = receipts[k]
  BY <1>1, <1>2, <1>3
<1>5. \A p, D : units(p, D) \in Nat /\ OnLines(r, p, D) = units(p, D)
  BY <1>3, UnitsOnNat, OnLinesIsUnitsOn DEF ReceiptRow
<1>6. /\ Completed' = Completed \union {r} /\ r \notin Completed
      /\ \A k \in Order : CompletedFor(k)' = IF k = o THEN CompletedFor(k) \union {r} ELSE CompletedFor(k)
      /\ \A k \in Order : r \notin CompletedFor(k)
  BY <1>1, <1>4 DEF Completed, CompletedFor
<1>7. \A R, p, D :
        /\ Brought(receipts', R, p, D) = Brought(receipts, R, p, D)
        /\ r \notin R =>
             Brought(receipts', R \union {r}, p, D) = Brought(receipts, R, p, D) + units(p, D)
  <2>1. \A R, p, D : Brought(receipts', R, p, D) = Brought(receipts, R, p, D)
    BY <1>4, BroughtSame
  <2>2. \A R, p, D : r \notin R =>
          Brought(receipts, R \union {r}, p, D) = Brought(receipts, R, p, D) + units(p, D)
    BY <1>3, BroughtMore
  <2> QED
    BY <2>1, <2>2
<1> HIDE DEF units
<1>8. StockWasReceived' /\ onHand' \in [Product -> Nat]
  <2>1. \A p \in Product : onHand'[p] = onHand[p] + units(p, {"restock"})
    BY <1>1, <1>5 DEF Posted
  <2>2. \A p \in Product : onHand[p] = Brought(receipts, Completed, p, {"restock"}) /\ onHand[p] \in Nat
    BY <1>3, PropertiesAsSums DEF ReceivingInv, Rows
  <2>3. \A p \in Product : onHand'[p] = Brought(receipts', Completed', p, {"restock"})
    BY <1>6, <1>7, <2>1, <2>2
  <2>4. StockWasReceived'
    BY <2>3, PropertiesAsSums
  <2>5. \A p \in Product : onHand'[p] \in Nat
    BY <1>5, <2>1, <2>2
  <2> QED
    BY <1>1, <2>4, <2>5
<1>9. CASE o = None
  <2>1. orders' = orders /\ \A k \in Order : CompletedFor(k)' = CompletedFor(k)
    BY <1>3, <1>6, <1>9 DEF CompleteReceipt
  <2>2. ItemsCountReceipts'
    <3> SUFFICES ASSUME NEW k \in Order, NEW p \in Product, orders'[k].items[p].quantity > 0
                 PROVE  orders'[k].items[p].received
                          = Brought(receipts', CompletedFor(k)', p, Disposition)
      BY PropertiesAsSums
    <3>1. orders[k].items[p].quantity > 0 =>
            orders[k].items[p].received = Brought(receipts, CompletedFor(k), p, Disposition)
      BY PropertiesAsSums DEF ReceivingInv
    <3> QED
      BY <1>7, <2>1, <3>1
  <2>3. ExcessConfirmed' /\ OrderStatusFollows'
    BY <2>1 DEF ReceivingInv, ExcessConfirmed, OrderStatusFollows
  <2>4. Rows' /\ KeepsEnded
    BY <1>1, <1>3, <1>4, <1>8, <2>1 DEF Rows, KeepsEnded
  <2> QED
    BY <1>8, <2>2, <2>3, <2>4 DEF ReceivingInv
<1>10. CASE o # None
  <2> DEFINE row == [status |-> StatusAfter(r, o), items |-> ItemsAfter(r, o),
                     excess |-> orders[o].excess \/ (allow /\ Excess(r, o))]
             after == ItemsAfter(r, o)
  <2>1. /\ o \in Order /\ orders[o].status \in Receivable
        /\ Excess(r, o) => allow
        /\ orders' = [orders EXCEPT ![o] = row]
    BY <1>3, <1>10 DEF CompleteReceipt, ReceiptRow
  <2>2. orders[o] \in OrderRow /\ orders[o].items \in [Product -> ItemRow]
    BY <1>3, <2>1 DEF Rows, OrderRow
  <2>3. ASSUME NEW p \in Product
        PROVE  /\ after[p] \in ItemRow /\ after[p].quantity = orders[o].items[p].quantity
               /\ after[p].quantity = 0 => after[p].received = 0
               /\ after[p].quantity > 0 =>
                    after[p].received = orders[o].items[p].received + units(p, Disposition)
    <3>1. /\ orders[o].items[p] \in ItemRow /\ units(p, Disposition) \in Nat
          /\ OnLines(r, p, Disposition) = units(p, Disposition)
      BY <1>5, <2>2
    <3>2. after[p] = IF orders[o].items[p].quantity = 0 THEN NoItem
                     ELSE [orders[o].items[p] EXCEPT !.received = @ + units(p, Disposition)]
      BY <3>1 DEF ItemsAfter
    <3> QED
      BY <3>1, <3>2 DEF ItemRow, NoItem, ReceivingAssumption
  <2>4. after \in [Product -> ItemRow]
    BY <2>3 DEF ItemsAfter
  <2> HIDE DEF after
  <2>5. /\ row.status = StatusAfter(r, o) /\ row.items = after
        /\ row.excess = (orders[o].excess \/ (allow /\ Excess(r, o)))
    BY DEF after
  <2>6. StatusAfter(r, o) \in {"received", "partially_received"}
    BY DEF StatusAfter
  <2>7. orders[o].excess \in BOOLEAN
    BY <2>2 DEF OrderRow
  <2>8. row \in OrderRow
    BY <2>4, <2>6, <2>7 DEF OrderRow, Receivable, OrderEnded, after
  <2> HIDE DEF row
  <2>9. /\ orders' \in [Order -> OrderRow] /\ orders'[o] = row
        /\ \A k \in Order : k # o => orders'[k] = orders[k]
    BY <1>3, <2>1, <2>8 DEF Rows
  <2>10. Rows'
    BY <1>1, <1>3, <1>4, <1>8, <2>9 DEF Rows
  <2>11. ItemsCountReceipts'
    <3> SUFFICES ASSUME NEW k \in Order, NEW p \in Product, orders'[k].items[p].quantity > 0
                 PROVE  orders'[k].items[p].received
                          = Brought(receipts', CompletedFor(k)', p, Disposition)
      BY PropertiesAsSums
    <3>1. orders[k].items[p].quantity > 0 =>
            orders[k].items[p].received = Brought(receipts, CompletedFor(k), p, Disposition)
      BY PropertiesAsSums DEF ReceivingInv
    <3>2. CASE k # o
      BY <1>6, <1>7, <2>9, <3>1, <3>2
    <3>3. CASE k = o
      <4>1. /\ after[p].quantity > 0 /\ orders[o].items[p].quantity > 0
            /\ orders'[k].items[p].received = orders[o].items[p].received + units(p, Disposition)
        BY <2>3, <2>5, <2>9, <3>3
      <4>2. CompletedFor(k)' = CompletedFor(k) \union {r} /\ r \notin CompletedFor(k)
        BY <1>6, <3>3
      <4> QED
        BY <1>7, <3>1, <3>3, <4>1, <4>2
    <3> QED
      BY <3>2, <3>3
  <2>12. ExcessConfirmed'
    <3> SUFFICES ASSUME NEW k \in Order, NEW p \in Product,
                        orders'[k].items[p].received > orders'[k].items[p].quantity
                 PROVE  orders'[k].excess
      BY DEF ExcessConfirmed
    <3>1. CASE k # o
      BY <2>9, <3>1 DEF ReceivingInv, ExcessConfirmed
    <3>2. CASE k = o
      <4>1. after[p].received > orders[o].items[p].quantity
        BY <2>3, <2>5, <2>9, <3>2
      <4>2. Excess(r, o)
        BY <4>1 DEF Excess, after
      <4> QED
        BY <2>1, <2>5, <2>9, <3>2, <4>2
    <3> QED
      BY <3>1, <3>2
  <2>13. OrderStatusFollows'
    <3>1. /\ StatusAfter(r, o) = "received" =>
               ~ \E p \in Product : after[p].received < after[p].quantity
          /\ StatusAfter(r, o) = "partially_received" =>
               \E p \in Product : after[p].received < after[p].quantity
      BY <2>4 DEF StatusAfter, after, ItemRow
    <3>2. \A k \in Order : k = o => CompletedFor(k)' # {}
      BY <1>6
    <3>3. \A k \in Order : k # o => CompletedFor(k)' = CompletedFor(k)
      BY <1>6
    <3> QED
      BY <2>5, <2>6, <2>9, <3>1, <3>2, <3>3 DEF ReceivingInv, OrderStatusFollows
  <2>14. KeepsEnded
    BY <1>1, <1>3, <1>4, <2>1, <2>9 DEF KeepsEnded, Receivable, OrderEnded
  <2> QED
    BY <1>8, <2>10, <2>11, <2>12, <2>13, <2>14 DEF ReceivingInv
<1> QED
  BY <1>9, <1>10

\* Whatever is done, the sums agree and nothing that has ended changes.
LEMMA StepInv ==
  ASSUME ReceivingAssumption, ReceivingInv, [Next]_vars
  PROVE  ReceivingInv' /\ KeepsEnded
<1>1. CASE UNCHANGED vars
  <2>1. Rows'
    BY <1>1 DEF vars, ReceivingInv, Rows
  <2>2. \A r \in Receipt :
           /\ receipts'[r] = receipts[r]
           /\ writing'[r] # None => receipts'[r].status = "open"
    BY <1>1 DEF vars, ReceivingInv, Rows
  <2> QED
    BY <1>1, <2>1, <2>2, QuietReceipts DEF vars, Rows
<1>2. CASE \E o \in Order :
             \/ \E items \in Items : CreateOrder(o, items) \/ ReplaceItems(o, items)
             \/ CancelOrder(o) \/ CloseOrder(o)
  BY <1>2, PurchaseInv
<1>3. ASSUME NEW r \in Receipt, NEW o \in Order \union {None}, OpenReceipt(r, "purchase", o, None)
      PROVE  ReceivingInv' /\ KeepsEnded
  BY <1>3, OpenReceiptInv
<1>4. ASSUME NEW r \in Receipt, NEW d \in Dispatch \union {None},
             OpenReceipt(r, "customer_return", None, d)
      PROVE  ReceivingInv' /\ KeepsEnded
  BY <1>4, OpenReceiptInv
<1> QED
  BY <1>1, <1>2, <1>3, <1>4, CheckInv, ChangeReceiptInv, CompleteInv DEF Next

\* The stock on hand, the items and the status of every purchase order are what
\* the completed receipts make them, and nothing that has ended changes again.
THEOREM ReceiptsCounted ==
  ASSUME ReceivingAssumption
  PROVE  Spec => [](StockWasReceived /\ ItemsCountReceipts /\ ExcessConfirmed /\ OrderStatusFollows)
<1>1. Init => ReceivingInv
  BY InitInv
<1>2. ReceivingInv /\ [Next]_vars => ReceivingInv'
  BY StepInv
<1>3. ReceivingInv => StockWasReceived /\ ItemsCountReceipts /\ ExcessConfirmed /\ OrderStatusFollows
  BY DEF ReceivingInv
<1> QED
  BY <1>1, <1>2, <1>3, PTL DEF Spec

-----------------------------------------------------------------------------
(* Returns. *)

\* A return takes back no more than its order shipped, nor would it once the
\* line it is about to write is written.
ReturnsFit ==
  \A r \in Receipt, p \in Product :
    receipts[r].dispatch # None =>
      LET shipped == Shipped[receipts[r].dispatch][p]
      IN  /\ UnitsOn(receipts[r].lines, p, Disposition) <= shipped
          /\ writing[r] # None =>
               UnitsOn([receipts[r].lines EXCEPT ![writing[r].line] = writing[r].row],
                       p, Disposition) <= shipped

\* Lines and what is to be written stay, or it is not written after all.
LEMMA ReturnsStay ==
  ASSUME ReturnsFit,
         \A r \in Receipt :
           /\ receipts'[r].lines = receipts[r].lines /\ receipts'[r].dispatch = receipts[r].dispatch
           /\ writing'[r] \in {writing[r], None}
  PROVE  ReturnsFit'
BY DEF ReturnsFit

\* One receipt changes; its lines fit, and will.
LEMMA ReturnChanges ==
  ASSUME ReturnsFit, NEW r \in Receipt,
         \A k \in Receipt : k # r =>
           receipts'[k] = receipts[k] /\ writing'[k] = writing[k],
         \A p \in Product :
           receipts'[r].dispatch # None =>
             LET shipped == Shipped[receipts'[r].dispatch][p]
             IN  /\ UnitsOn(receipts'[r].lines, p, Disposition) <= shipped
                 /\ writing'[r] # None =>
                      UnitsOn([receipts'[r].lines EXCEPT ![writing'[r].line] = writing'[r].row],
                              p, Disposition) <= shipped
  PROVE  ReturnsFit'
BY DEF ReturnsFit

\* The units of an open return are among those that count as returned.
LEMMA ReturnedCounts ==
  ASSUME ReceivingAssumption, Rows, NEW r \in Receipt, receipts[r].status = "open", NEW p \in Product
  PROVE  /\ UnitsOn(receipts[r].lines, p, Disposition) \in Nat
         /\ Returned(receipts[r].dispatch, p) \in Nat
         /\ UnitsOn(receipts[r].lines, p, Disposition) <= Returned(receipts[r].dispatch, p)
<1> DEFINE R == {k \in Receipt : /\ receipts[k].dispatch = receipts[r].dispatch
                                 /\ receipts[k].status \in {"open", "completed"}}
<1>1. Returned(receipts[r].dispatch, p) = Brought(receipts, R, p, Disposition)
  BY OnLinesIsUnitsOn DEF Returned, OverReceipts, Brought
<1>2. r \in R
  OBVIOUS
<1> HIDE DEF R
<1>3. receipts \in [Receipt -> ReceiptRow]
  BY DEF Rows
<1>4. UnitsOn(receipts[r].lines, p, Disposition) \in Nat
  BY <1>3, UnitsOnNat DEF ReceiptRow
<1> QED
  BY <1>1, <1>2, <1>3, <1>4, BroughtNat

\* What a line adds to the units of a product.
LEMMA UnitsOfLine ==
  ASSUME NEW row \in LineRow, NEW p \in Product
  PROVE  /\ row.quantity \in Nat
         /\ UnitsOf(row, p, Disposition) \in Nat
         /\ UnitsOf(row, p, Disposition) <= row.quantity
         /\ row.product # p => UnitsOf(row, p, Disposition) = 0
         /\ row.product = p /\ row # None => UnitsOf(row, p, Disposition) = row.quantity
         /\ UnitsOf(None, p, Disposition) = 0
BY DEF UnitsOf, LineRow, Quantity

LEMMA CheckedLineFits ==
  ASSUME ReceivingAssumption, Rows, ReturnsFit, NEW r \in Receipt, NEW l \in Line,
         NEW row \in LineRow, CheckLine(r, l, row) \/ CheckCorrection(r, l, row)
  PROVE  ReturnsFit'
<1> DEFINE lines == receipts[r].lines
           d == receipts[r].dispatch
           w == [line |-> l, row |-> row]
<1>1. /\ receipts[r].status = "open" /\ UNCHANGED receipts /\ writing' = [writing EXCEPT ![r] = w]
      /\ w.line = l /\ w.row = row
  BY DEF CheckLine, CheckCorrection, Locked, Writes
<1>2. lines \in [Line -> LineRow \union {None}] /\ d \in Dispatch \union {None}
  BY DEF Rows, ReceiptRow
<1>3. ASSUME NEW p \in Product, d # None
      PROVE  UnitsOn([lines EXCEPT ![l] = row], p, Disposition) <= Shipped[d][p]
  <2> DEFINE units == UnitsOn(lines, p, Disposition)
  <2>1. units \in Nat /\ Returned(d, p) \in Nat /\ units <= Returned(d, p) /\ units <= Shipped[d][p]
    BY <1>1, <1>3, ReturnedCounts DEF ReturnsFit
  <2>2. Shipped[d][p] \in Nat
    BY <1>2, <1>3 DEF ReceivingAssumption
  <2>3. UnitsOn([lines EXCEPT ![l] = row], p, Disposition)
          = units + (UnitsOf(row, p, Disposition) - UnitsOf(lines[l], p, Disposition))
    BY <1>2, UnitsOnWrite
  <2>4. /\ row.quantity \in Nat /\ UnitsOf(row, p, Disposition) \in Nat
        /\ UnitsOf(row, p, Disposition) <= row.quantity
        /\ row.product # p => UnitsOf(row, p, Disposition) = 0
        /\ UnitsOf(None, p, Disposition) = 0
    BY UnitsOfLine
  <2>5. CASE CheckLine(r, l, row)
    <3>1. lines[l] = None /\ (row.product = p => Returned(d, p) + row.quantity <= Shipped[d][p])
      BY <1>3, <2>5 DEF CheckLine, CanReturn
    <3> HIDE DEF units, lines, d
    <3> QED
      BY <2>1, <2>2, <2>3, <2>4, <3>1
  <2>6. CASE CheckCorrection(r, l, row)
    <3> DEFINE old == lines[l]
    <3>1. /\ old # None /\ row.product = old.product
          /\ row.quantity > old.quantity =>
               Returned(d, old.product) + (row.quantity - old.quantity) <= Shipped[d][old.product]
      BY <1>3, <2>6 DEF CheckCorrection, GrowthReturnable, CanReturn
    <3>2. old \in LineRow
      BY <1>2, <3>1
    <3>3. /\ old.quantity \in Nat
          /\ old.product = p => UnitsOf(old, p, Disposition) = old.quantity
          /\ old.product # p => UnitsOf(old, p, Disposition) = 0
      BY <3>1, <3>2, UnitsOfLine
    <3> HIDE DEF units, old, d
    <3>4. CASE old.product = p
      BY <2>1, <2>2, <2>3, <2>4, <3>1, <3>3, <3>4 DEF old
    <3>5. CASE old.product # p
      BY <2>1, <2>2, <2>3, <2>4, <3>1, <3>3, <3>5 DEF old
    <3> QED
      BY <3>4, <3>5
  <2> QED
    BY <2>5, <2>6
<1>4. /\ \A k \in Receipt : k # r => receipts'[k] = receipts[k] /\ writing'[k] = writing[k]
      /\ receipts'[r] = receipts[r] /\ writing'[r] = w
  BY <1>1 DEF Rows
<1>5. \A p \in Product : d # None => UnitsOn(lines, p, Disposition) <= Shipped[d][p]
  BY DEF ReturnsFit
<1> HIDE DEF w
<1> QED
  BY <1>1, <1>3, <1>4, <1>5, ReturnChanges

LEMMA ChangedReceiptFits ==
  ASSUME ReceivingAssumption, Rows, ReturnsFit, NEW r \in Receipt,
         WriteLine(r) \/ (\E l \in Line : RemoveLine(r, l)) \/ CancelReceipt(r)
  PROVE  ReturnsFit'
<1> DEFINE lines == receipts[r].lines
           d == receipts[r].dispatch
<1>1. lines \in [Line -> LineRow \union {None}] /\ d \in Dispatch \union {None}
  BY DEF Rows, ReceiptRow
<1>2. CASE WriteLine(r)
  <2> DEFINE w == writing[r]
             after == WithLine(r, w.line, w.row)
  <2>1. w # None /\ w.line \in Line /\ w.row \in LineRow
    BY <1>2 DEF WriteLine, Rows, Writing
  <2>2. after.lines = [lines EXCEPT ![w.line] = w.row] /\ after.dispatch = d
    BY <2>1, OpenRow
  <2>3. receipts' = [receipts EXCEPT ![r] = after] /\ writing' = [writing EXCEPT ![r] = None]
    BY <1>2 DEF WriteLine, WithLine
  <2> HIDE DEF after
  <2>4. /\ receipts'[r] = after /\ writing'[r] = None
        /\ \A k \in Receipt : k # r => receipts'[k] = receipts[k] /\ writing'[k] = writing[k]
    BY <2>3 DEF Rows
  <2> QED
    BY <2>1, <2>2, <2>4, ReturnChanges DEF ReturnsFit
<1>3. ASSUME NEW l \in Line, RemoveLine(r, l)
      PROVE  ReturnsFit'
  <2> DEFINE after == WithLine(r, l, None)
  <2>1. after.lines = [lines EXCEPT ![l] = None] /\ after.dispatch = d
    BY OpenRow
  <2>2. receipts' = [receipts EXCEPT ![r] = after] /\ writing' = writing /\ writing[r] = None
    BY <1>3 DEF RemoveLine, WithLine, Locked
  <2> HIDE DEF after
  <2>3. /\ receipts'[r] = after /\ writing'[r] = None
        /\ \A k \in Receipt : k # r => receipts'[k] = receipts[k] /\ writing'[k] = writing[k]
    BY <2>2 DEF Rows
  <2>4. ASSUME NEW p \in Product, d # None
        PROVE  UnitsOn(after.lines, p, Disposition) <= Shipped[d][p]
    <3>1. UnitsOn(after.lines, p, Disposition)
            = UnitsOn(lines, p, Disposition) - UnitsOf(lines[l], p, Disposition)
      BY <1>1, <2>1, UnitsOnDelete
    <3>3. UnitsOn(lines, p, Disposition) \in Nat /\ UnitsOf(lines[l], p, Disposition) \in Nat
      BY <1>1, UnitsOnNat
    <3>4. UnitsOn(lines, p, Disposition) <= Shipped[d][p] /\ Shipped[d][p] \in Nat
      BY <1>1, <2>4 DEF ReturnsFit, ReceivingAssumption
    <3> HIDE DEF lines, d
    <3> QED
      BY <3>1, <3>3, <3>4
  <2> QED
    BY <2>1, <2>3, <2>4, ReturnChanges
<1>4. CASE CancelReceipt(r)
  <2>1. /\ receipts' = [receipts EXCEPT ![r] = WithStatus(r, "cancelled")] /\ writing' = writing
    BY <1>4 DEF CancelReceipt, WithStatus
  <2>2. /\ WithStatus(r, "cancelled").lines = lines /\ WithStatus(r, "cancelled").dispatch = d
    BY OpenRow
  <2> QED
    BY <2>1, <2>2, ReturnsStay DEF Rows
<1> QED
  BY <1>2, <1>3, <1>4

LEMMA ReturnStep ==
  ASSUME ReceivingAssumption, ReceivingInv, ReturnsFit, [Next]_vars
  PROVE  ReturnsFit'
<1>1. Rows
  BY DEF ReceivingInv
<1>2. CASE UNCHANGED <<receipts, writing>>
  BY <1>2, ReturnsStay
<1>3. ASSUME NEW r \in Receipt, NEW kind \in {"purchase", "customer_return"},
             NEW o \in Order \union {None}, NEW d \in Dispatch \union {None}, OpenReceipt(r, kind, o, d)
      PROVE  ReturnsFit'
  <2> DEFINE row == [NoReceipt EXCEPT !.status = "open", !.kind = kind, !.order = o, !.dispatch = d]
  <2>1. /\ receipts[r].status = "none" /\ receipts' = [receipts EXCEPT ![r] = row]
        /\ writing' = writing
    BY <1>3 DEF OpenReceipt
  <2>2. row.dispatch = d /\ row.lines = [l \in Line |-> None]
    BY DEF NoReceipt
  <2> HIDE DEF row
  <2>3. /\ receipts'[r] = row /\ writing'[r] = None
        /\ \A k \in Receipt : k # r => receipts'[k] = receipts[k] /\ writing'[k] = writing[k]
    BY <1>1, <2>1 DEF Rows
  <2>4. row.lines \in [Line -> LineRow \union {None}] /\ \A l \in Line : row.lines[l] = None
    BY <2>2
  <2>5. \A p \in Product : UnitsOn(row.lines, p, Disposition) = 0
    BY <2>4, UnitsOnNat
  <2>6. \A p \in Product : d # None => Shipped[d][p] \in Nat
    BY DEF ReceivingAssumption
  <2>7. \A p \in Product : d # None => UnitsOn(row.lines, p, Disposition) <= Shipped[d][p]
    BY <2>5, <2>6
  <2> QED
    BY <2>2, <2>3, <2>7, ReturnChanges
<1>4. ASSUME NEW r \in Receipt, NEW allow \in BOOLEAN, CompleteReceipt(r, allow)
      PROVE  ReturnsFit'
  <2>1. receipts' = [receipts EXCEPT ![r] = WithStatus(r, "completed")] /\ writing' = writing
    BY <1>4 DEF CompleteReceipt, WithStatus
  <2>2. /\ WithStatus(r, "completed").lines = receipts[r].lines
        /\ WithStatus(r, "completed").dispatch = receipts[r].dispatch
    BY <1>1, OpenRow
  <2> QED
    BY <1>1, <2>1, <2>2, ReturnsStay DEF Rows
<1>5. CASE \E o \in Order :
             \/ \E items \in Items : CreateOrder(o, items) \/ ReplaceItems(o, items)
             \/ CancelOrder(o) \/ CloseOrder(o)
  BY <1>2, <1>5 DEF CreateOrder, ReplaceItems, CancelOrder, CloseOrder, EndOrder
<1>6. ASSUME NEW r \in Receipt,
             \/ \E o \in Order \union {None} : OpenReceipt(r, "purchase", o, None)
             \/ \E d \in Dispatch \union {None} : OpenReceipt(r, "customer_return", None, d)
      PROVE  ReturnsFit'
  BY <1>3, <1>6
<1> QED
  BY <1>1, <1>2, <1>4, <1>5, <1>6, CheckedLineFits, ChangedReceiptFits DEF Next, vars

LEMMA ReturnsInit ==
  ASSUME Init
  PROVE  ReturnsFit
BY DEF Init, ReturnsFit, NoReceipt

LEMMA ReturnsFitGivesIt == ReturnsFit => OneReturnWithinShipped
BY OnLinesIsUnitsOn DEF ReturnsFit, OneReturnWithinShipped

\* No return takes back more of a product than its order shipped, however its
\* lines are corrected and beside whatever other returns.
THEOREM ReturnsWithin ==
  ASSUME ReceivingAssumption
  PROVE  Spec => []OneReturnWithinShipped
<1>1. Init => ReceivingInv /\ ReturnsFit
  BY InitInv, ReturnsInit
<1>2. ReceivingInv /\ ReturnsFit /\ [Next]_vars => ReceivingInv' /\ ReturnsFit'
  BY StepInv, ReturnStep
<1> QED
  BY <1>1, <1>2, ReturnsFitGivesIt, PTL DEF Spec

-----------------------------------------------------------------------------
(* Waves. *)

WaveOrderRow ==
  [status : W!Waveable \union W!OrderEnded, wave : Wave \union {None}, picked : Nat]

\* A wave that is being created does not exist yet, one that is being completed
\* does; so no order comes to a wave after its completion has read it ...
LivesInOrder ==
  \A w \in Wave :
    /\ creating[w] # {} => waves[w] = "none"
    /\ completing[w] # None => waves[w] # "none"

\* ... and an order that the completion has dealt with, or need not deal with,
\* has ended or is in the wave no longer.
DealtWith ==
  \A w \in Wave, o \in W!Order :
    completing[w] # None /\ completing[w][o] = "skip" /\ waveOrders[o].wave = w =>
      waveOrders[o].status \in W!OrderEnded

WaveDomains ==
  /\ creating = [w \in Wave |-> creating[w]]
  /\ picking = [w \in Wave |-> picking[w]]
  /\ completing = [w \in Wave |-> completing[w]]
  /\ \A w \in Wave :
       /\ creating[w] \subseteq W!Order
       /\ picking[w] # None => DOMAIN picking[w].target \subseteq W!Order

WavesInv == W!WavesTypeOK /\ WaveDomains /\ LivesInOrder /\ DealtWith /\ W!CompletedWaveSettled

LEMMA SumInt ==
  ASSUME NEW n \in Nat, NEW f, \A i \in 1..n : f[i] \in Int
  PROVE  W!Total(f, n) \in Int
<1>1. W!Total(f, n) = Sums!Total(f, n)
  BY Zenon DEF W!Total, Sums!Total
<1> QED
  BY <1>1, Sums!TotalInt, 0 \in Nat

LEMMA WavesInit ==
  ASSUME W!WavesAssumption, W!Init
  PROVE  WavesInv
<1>1. \A o \in W!Order : waveOrders[o] = [status |-> "pending", wave |-> None, picked |-> 0]
  BY DEF W!Init
<1>2. \A w \in Wave : /\ waves[w] = "none" /\ creating[w] = {}
                      /\ picking[w] = None /\ completing[w] = None
  BY DEF W!Init
<1>3. \A o \in W!Order : Asked[o] \in Nat
  BY DEF W!WavesAssumption, W!Order
<1>4. W!WavesTypeOK
  BY <1>2, <1>3 DEF W!Init, W!WavesTypeOK, W!Waveable
<1> QED
  BY <1>1, <1>2, <1>4
     DEF W!Init, WavesInv, WaveDomains, LivesInOrder, DealtWith, W!CompletedWaveSettled

LEMMA WavesTyped ==
  ASSUME W!WavesAssumption, WavesInv
  PROVE  /\ waveOrders \in [W!Order -> WaveOrderRow] /\ NumOrders \in Nat /\ None \notin Wave
         /\ \A o \in W!Order : /\ Asked[o] \in Nat \ {0} /\ waveOrders[o].picked \in 0..Asked[o]
                             /\ \/ waveOrders[o].status \in W!Waveable
                                \/ waveOrders[o].status \in W!OrderEnded
         /\ W!Waveable \intersect W!OrderEnded = {}
<1>1. waveOrders \in [W!Order -> WaveOrderRow]
  BY DEF WavesInv, W!WavesTypeOK, WaveOrderRow
<1>2. \A o \in W!Order : /\ waveOrders[o].picked \in Nat
                         /\ waveOrders[o].status \in W!Waveable \union W!OrderEnded
  BY <1>1 DEF WaveOrderRow
<1>3. \A o \in W!Order : Asked[o] \in Nat \ {0} /\ waveOrders[o].picked <= Asked[o]
  BY DEF W!WavesAssumption, WavesInv, W!WavesTypeOK, W!Order
<1>4. W!Waveable \intersect W!OrderEnded = {}
  BY DEF W!Waveable, W!OrderEnded
<1> QED
  BY <1>1, <1>2, <1>3, <1>4 DEF W!WavesAssumption

\* What orders that are changed may become, while no wave is; a pick or the
\* completion of a wave may end.
LEMMA WaveOrdersChange ==
  ASSUME W!WavesAssumption, WavesInv, UNCHANGED <<waves, creating>>,
         waveOrders' \in [W!Order -> WaveOrderRow],
         \A o \in W!Order :
           /\ waveOrders'[o].picked <= Asked[o]
           /\ waveOrders'[o].wave \in {waveOrders[o].wave, None}
           /\ waveOrders[o].status \in W!OrderEnded => waveOrders'[o].status = waveOrders[o].status,
         picking' = [w \in Wave |-> picking'[w]],
         completing' = [w \in Wave |-> completing'[w]],
         \A w \in Wave : /\ picking'[w] \in {picking[w], None}
                         /\ completing'[w] \in {completing[w], None}
  PROVE  WavesInv'
<1>1. W!WavesTypeOK' /\ WaveDomains' /\ LivesInOrder'
  BY DEF WavesInv, W!WavesTypeOK, WaveDomains, LivesInOrder, WaveOrderRow
<1>2. ASSUME NEW w \in Wave, NEW o \in W!Order, waveOrders'[o].wave = w
      PROVE  waveOrders[o].wave = w
  BY <1>2 DEF W!WavesAssumption
<1>3. DealtWith'
  BY <1>2 DEF WavesInv, DealtWith
<1>4. W!CompletedWaveSettled'
  BY <1>2 DEF WavesInv, W!CompletedWaveSettled
<1> QED
  BY <1>1, <1>3, <1>4 DEF WavesInv

\* Recording a picked quantity.
LEMMA PickedRow ==
  ASSUME W!WavesAssumption, WavesInv, NEW o \in W!Order, NEW n \in 0..Asked[o], W!Editable(o)
  PROVE  /\ W!WithPicked(o, n) \in WaveOrderRow /\ W!WithPicked(o, n).picked = n
         /\ W!WithPicked(o, n).wave = waveOrders[o].wave
<1>1. /\ waveOrders[o] \in WaveOrderRow /\ n \in Nat
      /\ waveOrders[o].status \in {"pending", "in_progress"}
  BY WavesTyped DEF W!Editable, W!Waveable
<1>2. CASE n = waveOrders[o].picked
  BY <1>1, <1>2 DEF W!WithPicked
<1>3. CASE n # waveOrders[o].picked
  BY <1>1, <1>3 DEF W!WithPicked, WaveOrderRow, W!Waveable
<1> QED
  BY <1>2, <1>3

LEMMA OrderStepInv ==
  ASSUME W!WavesAssumption, WavesInv, NEW o \in W!Order, W!OrderStep(o)
  PROVE  WavesInv' /\ W!KeepsEnded
<1>1. ASSUME NEW n \in 0..Asked[o], W!UpdateItem(o, n)
      PROVE  WavesInv' /\ W!KeepsEnded
  <2>1. /\ W!Editable(o) /\ waveOrders' = [waveOrders EXCEPT ![o] = W!WithPicked(o, n)]
        /\ UNCHANGED <<waves, creating, picking, completing>>
    BY <1>1 DEF W!UpdateItem
  <2>2. /\ W!WithPicked(o, n) \in WaveOrderRow /\ W!WithPicked(o, n).picked = n
        /\ W!WithPicked(o, n).wave = waveOrders[o].wave
    BY <2>1, PickedRow
  <2>3. waveOrders[o].status \notin W!OrderEnded
    BY <2>1, WavesTyped DEF W!Editable
  <2> QED
    BY <2>1, <2>2, <2>3, WavesTyped, WaveOrdersChange DEF W!KeepsEnded, WavesInv, WaveDomains
<1>2. ASSUME NEW status \in W!OrderEnded, W!UpdateStatus(o, status)
      PROVE  WavesInv' /\ W!KeepsEnded
  <2>1. /\ waveOrders[o].status \notin W!OrderEnded
        /\ waveOrders' = [waveOrders EXCEPT ![o].status = status]
        /\ UNCHANGED <<waves, creating, picking, completing>>
    BY <1>2, WavesTyped DEF W!UpdateStatus
  <2>2. [waveOrders[o] EXCEPT !.status = status] \in WaveOrderRow
    BY WavesTyped DEF WaveOrderRow
  <2> QED
    BY <2>1, <2>2, WavesTyped, WaveOrdersChange DEF W!KeepsEnded, WavesInv, WaveDomains
<1> QED
  BY <1>1, <1>2 DEF W!OrderStep

\* A wave is created of orders that were free when they were checked.
LEMMA CreationInv ==
  ASSUME W!WavesAssumption, WavesInv, NEW w \in Wave,
         (\E O \in SUBSET W!Order : W!CheckOrders(w, O)) \/ W!CreateWave(w)
  PROVE  WavesInv' /\ W!KeepsEnded
<1>1. ASSUME NEW O \in SUBSET W!Order, W!CheckOrders(w, O)
      PROVE  WavesInv' /\ W!KeepsEnded
  BY <1>1 DEF W!CheckOrders, WavesInv, W!WavesTypeOK, WaveDomains, LivesInOrder, DealtWith,
              W!CompletedWaveSettled, W!KeepsEnded
<1>2. CASE W!CreateWave(w)
  <2>1. /\ waves[w] = "none" /\ waves' = [waves EXCEPT ![w] = "open"]
        /\ completing[w] = None /\ completing' = completing /\ picking' = picking
        /\ creating' = [creating EXCEPT ![w] = {}]
    BY <1>2 DEF W!CreateWave, WavesInv, LivesInOrder
  <2>2. \A o \in W!Order :
          /\ waveOrders'[o] \in WaveOrderRow /\ waveOrders'[o].status = waveOrders[o].status
          /\ waveOrders'[o].picked = waveOrders[o].picked
          /\ waveOrders'[o].wave = w \/ waveOrders'[o] = waveOrders[o]
    <3> TAKE o \in W!Order
    <3>1. waveOrders[o] \in WaveOrderRow
      BY WavesTyped
    <3>2. waveOrders'[o] = IF o \in creating[w] THEN [waveOrders[o] EXCEPT !.wave = w]
                           ELSE waveOrders[o]
      BY <1>2 DEF W!CreateWave
    <3> QED
      BY <3>1, <3>2 DEF WaveOrderRow
  <2>3. waveOrders' \in [W!Order -> WaveOrderRow]
    BY <1>2, <2>2 DEF W!CreateWave
  <2>4. W!WavesTypeOK'
    BY <2>1, <2>2, <2>3 DEF WavesInv, W!WavesTypeOK, WaveOrderRow
  <2>5. WaveDomains' /\ LivesInOrder'
    BY <2>1 DEF WavesInv, W!WavesTypeOK, WaveDomains, LivesInOrder
  <2>6. DealtWith'
    BY <2>1, <2>2 DEF WavesInv, DealtWith
  <2>7. W!CompletedWaveSettled'
    BY <2>1, <2>2 DEF WavesInv, W!WavesTypeOK, W!CompletedWaveSettled
  <2> QED
    BY <2>2, <2>4, <2>5, <2>6, <2>7 DEF WavesInv, W!KeepsEnded
<1> QED
  BY <1>1, <1>2

\* An order is to get no more units than its item lacks.
LEMMA SplitInv ==
  ASSUME W!WavesAssumption, WavesInv, NEW w \in Wave, NEW q \in 1..MaxPick, W!SplitPick(w, q)
  PROVE  WavesInv' /\ W!KeepsEnded
<1> DEFINE served == {o \in W!Order : W!Take(w, o, q) > 0}
           pick == [units |-> q,
                    target |-> [o \in served |-> waveOrders[o].picked + W!Take(w, o, q)]]
<1>1. /\ picking' = [picking EXCEPT ![w] = pick]
      /\ UNCHANGED <<waveOrders, waves, creating, completing>>
  BY DEF W!SplitPick
<1>2. \A o \in served : pick.target[o] \in 1..Asked[o]
  <2> SUFFICES ASSUME NEW o \in W!Order, W!Take(w, o, q) > 0
               PROVE  waveOrders[o].picked + W!Take(w, o, q) \in 1..Asked[o]
    OBVIOUS
  <2>1. \A k \in W!Order : W!Needs(w, k) \in Nat /\ W!Needs(w, k) <= Asked[k] - waveOrders[k].picked
    BY WavesTyped DEF W!Needs
  <2>2. W!Total([k \in W!Order |-> W!Needs(w, k)], o - 1) \in Int
    <3> DEFINE f == [k \in W!Order |-> W!Needs(w, k)]
    <3>1. o - 1 \in Nat /\ \A i \in 1..(o - 1) : i \in W!Order
      BY WavesTyped DEF W!Order
    <3>2. \A i \in 1..(o - 1) : f[i] \in Int
      BY <2>1, <3>1
    <3> HIDE DEF f
    <3>3. W!Total(f, o - 1) \in Int
      BY <3>1, <3>2, SumInt
    <3> QED
      BY <3>3 DEF f
  <2>3. q \in Int /\ W!Needs(w, o) \in Nat /\ W!Needs(w, o) <= Asked[o] - waveOrders[o].picked
        /\ waveOrders[o].picked \in Nat /\ Asked[o] \in Nat
    BY <2>1, WavesTyped DEF W!WavesAssumption
  <2>4. W!Take(w, o, q) \in Int /\ W!Take(w, o, q) <= W!Needs(w, o)
    BY <2>2, <2>3 DEF W!Take, W!Least, W!Greatest
  <2> QED
    BY <2>3, <2>4
<1>3. DOMAIN pick.target \subseteq W!Order /\ DOMAIN pick.target = served
  OBVIOUS
<1> HIDE DEF pick, served
<1>4. W!WavesTypeOK'
  BY <1>1, <1>2, <1>3 DEF WavesInv, W!WavesTypeOK, WaveDomains
<1>5. WaveDomains' /\ LivesInOrder'
  BY <1>1, <1>3 DEF WavesInv, WaveDomains, LivesInOrder
<1> QED
  BY <1>1, <1>4, <1>5 DEF WavesInv, DealtWith, W!CompletedWaveSettled, W!KeepsEnded

\* All orders of a pick can still be edited, or none is changed.
LEMMA CommitInv ==
  ASSUME W!WavesAssumption, WavesInv, NEW w \in Wave,
         W!CommitPick(w) \/ W!AbortPick(w) \/ W!AbortCompletion(w)
  PROVE  WavesInv' /\ W!KeepsEnded
<1>1. CASE W!AbortPick(w) \/ W!AbortCompletion(w)
  BY <1>1, WavesTyped, WaveOrdersChange
     DEF W!AbortPick, W!AbortCompletion, W!KeepsEnded, WavesInv, W!WavesTypeOK, WaveDomains
<1>2. CASE W!CommitPick(w)
  <2> DEFINE target == picking[w].target
  <2>1. DOMAIN target \subseteq W!Order /\ \A o \in DOMAIN target : target[o] \in 1..Asked[o]
    BY <1>2 DEF W!CommitPick, WavesInv, W!WavesTypeOK, WaveDomains
  <2>2. ASSUME NEW o \in W!Order
        PROVE  /\ waveOrders'[o] \in WaveOrderRow /\ waveOrders'[o].picked <= Asked[o]
               /\ waveOrders'[o].wave = waveOrders[o].wave
               /\ waveOrders[o].status \in W!OrderEnded => waveOrders'[o] = waveOrders[o]
    <3>1. waveOrders'[o] = IF o \in DOMAIN target THEN W!WithPicked(o, target[o]) ELSE waveOrders[o]
      BY <1>2 DEF W!CommitPick
    <3>2. CASE o \notin DOMAIN target
      BY <3>1, <3>2, WavesTyped
    <3>3. CASE o \in DOMAIN target
      <4>1. W!Editable(o)
        BY <1>2, <3>3 DEF W!CommitPick
      <4>2. waveOrders[o].status \notin W!OrderEnded
        BY <4>1, WavesTyped DEF W!Editable
      <4>3. target[o] \in 0..Asked[o] /\ target[o] <= Asked[o]
        BY <2>1, <3>3, WavesTyped
      <4> QED
        BY <3>1, <3>3, <4>1, <4>2, <4>3, PickedRow
    <3> QED
      BY <3>2, <3>3
  <2>3. waveOrders' \in [W!Order -> WaveOrderRow]
    BY <1>2, <2>2 DEF W!CommitPick
  <2>4. UNCHANGED <<waves, creating, completing>> /\ picking' = [picking EXCEPT ![w] = None]
    BY <1>2 DEF W!CommitPick
  <2>5. WavesInv'
    BY <2>2, <2>3, <2>4, WaveOrdersChange DEF WavesInv, WaveDomains
  <2> QED
    BY <2>2, <2>5 DEF W!KeepsEnded
<1> QED
  BY <1>1, <1>2

\* Reading a wave to complete it: what is skipped has ended, or is not in it.
LEMMA ReadInv ==
  ASSUME W!WavesAssumption, WavesInv, NEW w \in Wave, W!ReadWave(w)
  PROVE  WavesInv' /\ W!KeepsEnded
<1> DEFINE decisions == [o \in W!Order |-> W!Decision(w, o)]
<1>1. /\ waves[w] = "open" /\ completing' = [completing EXCEPT ![w] = decisions]
      /\ UNCHANGED <<waveOrders, waves, creating, picking>>
  BY DEF W!ReadWave
<1>2. decisions \in [W!Order -> {"skip", "leave", "complete"}]
  BY DEF W!Decision
<1>3. \A o \in W!Order : decisions[o] = "skip" /\ waveOrders[o].wave = w =>
                         waveOrders[o].status \in W!OrderEnded
  BY WavesTyped DEF W!Decision
<1> HIDE DEF decisions
<1>4. W!WavesTypeOK' /\ WaveDomains' /\ LivesInOrder'
  BY <1>1, <1>2 DEF WavesInv, W!WavesTypeOK, WaveDomains, LivesInOrder
<1>5. DealtWith'
  BY <1>1, <1>3 DEF WavesInv, DealtWith, WaveDomains
<1> QED
  BY <1>1, <1>4, <1>5 DEF WavesInv, W!CompletedWaveSettled, W!KeepsEnded

\* Completing a wave, one order after the other.
LEMMA NextOrderInv ==
  ASSUME W!WavesAssumption, WavesInv, NEW w \in Wave, NEW o \in W!Order,
         W!LeaveWave(w, o) \/ W!CompleteOrder(w, o)
  PROVE  WavesInv' /\ W!KeepsEnded
<1>1. /\ completing[w] # None /\ completing' = [completing EXCEPT ![w][o] = "skip"]
      /\ UNCHANGED <<waves, creating, picking>>
      /\ \/ waveOrders' = [waveOrders EXCEPT ![o].wave = None]
         \/ /\ waveOrders' = [waveOrders EXCEPT ![o].status = "completed"]
            /\ waveOrders[o].status \notin W!OrderEnded
  BY WavesTyped DEF W!LeaveWave, W!CompleteOrder, W!IsNext, W!CanComplete
<1>2. completing[w] \in [W!Order -> {"skip", "leave", "complete"}]
  BY <1>1 DEF WavesInv, W!WavesTypeOK
<1>3. /\ completing'[w] \in [W!Order -> {"skip", "leave", "complete"}] /\ completing'[w][o] = "skip"
      /\ \A k \in W!Order : k # o => completing'[w][k] = completing[w][k]
      /\ \A v \in Wave : v # w => completing'[v] = completing[v]
      /\ completing' = [v \in Wave |-> completing'[v]]
  BY <1>1, <1>2 DEF WavesInv, WaveDomains
<1>4. waveOrders[o] \in WaveOrderRow /\ "completed" \in W!OrderEnded
  BY WavesTyped DEF W!OrderEnded
<1>5. /\ waveOrders' \in [W!Order -> WaveOrderRow] /\ waveOrders'[o].picked = waveOrders[o].picked
      /\ \/ waveOrders'[o].wave = None
         \/ waveOrders'[o].wave = waveOrders[o].wave /\ waveOrders'[o].status \in W!OrderEnded
      /\ \A k \in W!Order : k # o => waveOrders'[k] = waveOrders[k]
      /\ waveOrders[o].status \in W!OrderEnded => waveOrders'[o].status = waveOrders[o].status
  <2>1. CASE waveOrders' = [waveOrders EXCEPT ![o].wave = None]
    <3>1. [waveOrders[o] EXCEPT !.wave = None] \in WaveOrderRow
      BY <1>4 DEF WaveOrderRow
    <3> QED
      BY <2>1, <3>1, <1>4, WavesTyped DEF WaveOrderRow
  <2>2. CASE /\ waveOrders' = [waveOrders EXCEPT ![o].status = "completed"]
             /\ waveOrders[o].status \notin W!OrderEnded
    <3>1. [waveOrders[o] EXCEPT !.status = "completed"] \in WaveOrderRow
      BY <1>4 DEF WaveOrderRow
    <3> QED
      BY <2>2, <3>1, <1>4, WavesTyped DEF WaveOrderRow
  <2> QED
    BY <1>1, <2>1, <2>2
<1>6. W!WavesTypeOK'
  <2>1. \A v \in Wave : completing'[v] # None =>
          completing'[v] \in [W!Order -> {"skip", "leave", "complete"}]
    BY <1>3 DEF WavesInv, W!WavesTypeOK
  <2>2. \A k \in W!Order : waveOrders'[k].picked <= Asked[k]
    BY <1>5 DEF WavesInv, W!WavesTypeOK
  <2> QED
    BY <1>1, <1>5, <2>1, <2>2 DEF WavesInv, W!WavesTypeOK, WaveOrderRow
<1>7. WaveDomains' /\ LivesInOrder'
  BY <1>1, <1>3 DEF WavesInv, WaveDomains, LivesInOrder
<1>8. DealtWith'
  BY <1>1, <1>3, <1>5 DEF WavesInv, DealtWith, W!WavesAssumption
<1>9. W!CompletedWaveSettled'
  BY <1>1, <1>5 DEF WavesInv, W!CompletedWaveSettled, W!WavesAssumption
<1> QED
  BY <1>5, <1>6, <1>7, <1>8, <1>9 DEF WavesInv, W!KeepsEnded

\* A wave ends: completed when its orders are dealt with, or dissolved.
LEMMA EndWaveInv ==
  ASSUME W!WavesAssumption, WavesInv, NEW w \in Wave, W!CompleteWave(w) \/ W!CancelWave(w)
  PROVE  WavesInv' /\ W!KeepsEnded
<1>1. CASE W!CompleteWave(w)
  <2>1. /\ completing[w] # None /\ waves' = [waves EXCEPT ![w] = "completed"]
        /\ completing' = [completing EXCEPT ![w] = None]
        /\ UNCHANGED <<waveOrders, creating, picking>>
        /\ \A o \in W!Order : waveOrders[o].wave = w => waveOrders[o].status \in W!OrderEnded
    BY <1>1 DEF W!CompleteWave, WavesInv, DealtWith
  <2>2. waves[w] # "none" /\ creating[w] = {}
    BY <2>1 DEF WavesInv, LivesInOrder
  <2>3. W!WavesTypeOK' /\ WaveDomains' /\ LivesInOrder' /\ DealtWith'
    BY <2>1, <2>2 DEF WavesInv, W!WavesTypeOK, WaveDomains, LivesInOrder, DealtWith
  <2> QED
    BY <2>1, <2>3 DEF WavesInv, W!WavesTypeOK, W!CompletedWaveSettled, W!KeepsEnded
<1>2. CASE W!CancelWave(w)
  <2>1. /\ waves[w] = "open" /\ waves' = [waves EXCEPT ![w] = "cancelled"]
        /\ UNCHANGED <<creating, picking, completing>>
    BY <1>2 DEF W!CancelWave, W!LockedOpen
  <2>2. ASSUME NEW o \in W!Order
        PROVE  /\ waveOrders'[o] \in WaveOrderRow /\ waveOrders'[o].status = waveOrders[o].status
               /\ waveOrders'[o].picked = waveOrders[o].picked
               /\ waveOrders'[o].wave = None \/ waveOrders'[o].wave = waveOrders[o].wave
    <3>1. waveOrders[o] \in WaveOrderRow
      BY WavesTyped
    <3>2. waveOrders'[o] = IF waveOrders[o].wave = w THEN [waveOrders[o] EXCEPT !.wave = None]
                           ELSE waveOrders[o]
      BY <1>2 DEF W!CancelWave
    <3> QED
      BY <3>1, <3>2 DEF WaveOrderRow
  <2>3. waveOrders' \in [W!Order -> WaveOrderRow]
    BY <1>2, <2>2 DEF W!CancelWave
  <2>4. W!WavesTypeOK' /\ WaveDomains' /\ LivesInOrder'
    BY <2>1, <2>2, <2>3 DEF WavesInv, W!WavesTypeOK, WaveDomains, LivesInOrder, WaveOrderRow
  <2>5. DealtWith' /\ W!CompletedWaveSettled'
    BY <2>1, <2>2 DEF WavesInv, W!WavesTypeOK, DealtWith, W!CompletedWaveSettled, W!WavesAssumption
  <2> QED
    BY <2>2, <2>4, <2>5 DEF WavesInv, W!KeepsEnded
<1> QED
  BY <1>1, <1>2

\* Whatever a wave or an order does, the invariant stays and nothing that has
\* ended changes.
LEMMA WavesStep ==
  ASSUME W!WavesAssumption, WavesInv, [W!Next]_(W!vars)
  PROVE  WavesInv' /\ W!KeepsEnded
<1>1. CASE UNCHANGED W!vars
  BY <1>1 DEF W!vars, WavesInv, W!WavesTypeOK, WaveDomains, LivesInOrder, DealtWith,
              W!CompletedWaveSettled, W!KeepsEnded
<1>2. ASSUME NEW w \in Wave, W!WaveStep(w)
      PROVE  WavesInv' /\ W!KeepsEnded
  BY <1>2, CreationInv, SplitInv, CommitInv, ReadInv, NextOrderInv, EndWaveInv DEF W!WaveStep
<1>3. ASSUME NEW o \in W!Order, W!OrderStep(o)
      PROVE  WavesInv' /\ W!KeepsEnded
  BY <1>3, OrderStepInv
<1> QED
  BY <1>1, <1>2, <1>3 DEF W!Next

\* Once a wave is completed, every order still in it has ended, although its
\* completion reads the wave once and changes its orders one by one afterwards.
THEOREM CompletedSettled ==
  ASSUME W!WavesAssumption
  PROVE  W!Spec => [](W!WavesTypeOK /\ W!CompletedWaveSettled)
<1>1. W!Init => WavesInv
  BY WavesInit
<1>2. WavesInv /\ [W!Next]_(W!vars) => WavesInv'
  BY WavesStep
<1>3. WavesInv => W!WavesTypeOK /\ W!CompletedWaveSettled
  BY DEF WavesInv
<1> QED
  BY <1>1, <1>2, <1>3, PTL DEF W!Spec

\* No step, however late, changes the progress of an order that has ended.
THEOREM EndedOrdersStay ==
  ASSUME W!WavesAssumption
  PROVE  W!Spec => W!EndedOrderKept
<1>1. W!Init => WavesInv
  BY WavesInit
<1>2. WavesInv /\ [W!Next]_(W!vars) => WavesInv' /\ W!KeepsEnded
  BY WavesStep
<1> QED
  BY <1>1, <1>2, PTL DEF W!Spec, W!EndedOrderKept

-----------------------------------------------------------------------------
(* What a shared pick adds, where one wave alone picks the orders. *)

\* The units a pick under way gives to an order.
Gain(w, o) ==
  IF o \in DOMAIN picking[w].target THEN picking[w].target[o] - waveOrders[o].picked ELSE 0

\* A pick under way gives all of its units to the orders, as they are now.
GainsAll ==
  \A w \in Wave : picking[w] # None =>
    picking[w].units = W!Total([o \in W!Order |-> Gain(w, o)], NumOrders)

\* The facts about sums, about the Total of waves.
LEMMA WaveSums ==
  /\ \A n, f : W!Total(f, n) = Sums!Total(f, n)
  /\ \A f : W!Total(f, 0) = 0
  /\ \A n \in Nat : \A f : (\A i \in 1..n : f[i] \in Int) => W!Total(f, n) \in Int
  /\ \A n \in Nat \ {0} : \A f : (\A i \in 1..n : f[i] \in Int) =>
       W!Total(f, n) = W!Total(f, n - 1) + f[n]
  /\ \A n \in Nat : \A f, g : (\A i \in 1..n : f[i] \in Int /\ g[i] = f[i]) =>
       W!Total(g, n) = W!Total(f, n)
  /\ \A n \in Nat : \A f, g, s :
       (\A i \in 1..n : f[i] \in Int /\ g[i] \in Int /\ s[i] = f[i] + g[i]) =>
         W!Total(s, n) = W!Total(f, n) + W!Total(g, n)
<1>1. \A n, f : W!Total(f, n) = Sums!Total(f, n)
  BY Zenon DEF W!Total, Sums!Total
<1> QED
  BY <1>1, Sums!TotalZero, Sums!TotalInt, Sums!TotalStep, Sums!TotalSame, Sums!TotalPlus

\* The orders of a wave take, one after the other, all of the units.
LEMMA AllTaken ==
  ASSUME W!WavesAssumption, WavesInv, NEW w \in Wave, NEW q \in Nat, q <= W!Remaining(w)
  PROVE  /\ \A o \in W!Order : W!Take(w, o, q) \in Nat
         /\ W!Total([o \in W!Order |-> W!Take(w, o, q)], NumOrders) = q
<1> DEFINE needs == [o \in W!Order |-> W!Needs(w, o)]
           takes == [o \in W!Order |-> W!Take(w, o, q)]
           Served == {n \in 0..NumOrders : W!Total(takes, n) = W!Least(q, W!Total(needs, n))}
<1>1. NumOrders \in Nat /\ W!Order = 1..NumOrders
  BY WavesTyped DEF W!Order
<1>2. \A o \in W!Order : W!Needs(w, o) \in Nat /\ needs[o] = W!Needs(w, o)
  BY WavesTyped DEF W!Needs
<1>3. \A n \in 0..NumOrders : (\A i \in 1..n : needs[i] \in Int) /\ W!Total(needs, n) \in Int
  <2> SUFFICES ASSUME NEW n \in 0..NumOrders
               PROVE  (\A i \in 1..n : needs[i] \in Int) /\ W!Total(needs, n) \in Int
    OBVIOUS
  <2>1. n \in Nat /\ \A i \in 1..n : i \in W!Order
    BY <1>1
  <2>2. \A i \in 1..n : needs[i] \in Int
    BY <1>2, <2>1
  <2> HIDE DEF needs
  <2> QED
    BY <2>1, <2>2, WaveSums
<1>4. \A o \in W!Order :
        takes[o] = W!Least(W!Needs(w, o), W!Greatest(0, q - W!Total(needs, o - 1)))
  BY DEF W!Take
<1>5. q <= W!Total(needs, NumOrders)
  BY DEF W!Remaining
<1>6. \A o \in W!Order : takes[o] = W!Take(w, o, q)
  OBVIOUS
<1> HIDE DEF needs, takes
<1>7. \A o \in W!Order : takes[o] \in Nat
  <2> TAKE o \in W!Order
  <2>1. o - 1 \in 0..NumOrders
    BY <1>1
  <2>2. W!Total(needs, o - 1) \in Int /\ W!Needs(w, o) \in Nat
    BY <1>2, <1>3, <2>1
  <2> QED
    BY <1>4, <2>2 DEF W!Least, W!Greatest
<1>8. 0 \in Served
  BY <1>1, WaveSums DEF W!Least
<1>9. ASSUME NEW n \in 1..NumOrders, n - 1 \in Served PROVE n \in Served
  <2>1. n \in W!Order /\ n \in Nat \ {0} /\ n - 1 \in 0..NumOrders /\ n \in 0..NumOrders
    BY <1>1
  <2>2. W!Total(needs, n) = W!Total(needs, n - 1) + needs[n]
    BY <1>3, <2>1, WaveSums
  <2>3. \A i \in 1..n : i \in W!Order /\ takes[i] \in Int
    BY <1>1, <1>7, <2>1
  <2>4. W!Total(takes, n) = W!Total(takes, n - 1) + takes[n]
    BY <2>1, <2>3, WaveSums
  <2>5. W!Total(takes, n - 1) = W!Least(q, W!Total(needs, n - 1))
    BY <1>9
  <2>6. W!Total(needs, n - 1) \in Int /\ needs[n] \in Nat /\ needs[n] = W!Needs(w, n)
    BY <1>2, <1>3, <2>1
  <2>7. takes[n] = W!Least(needs[n], W!Greatest(0, q - W!Total(needs, n - 1)))
    BY <1>4, <2>1, <2>6
  <2>8. W!Total(takes, n) = W!Least(q, W!Total(needs, n))
    BY <2>2, <2>4, <2>5, <2>6, <2>7 DEF W!Least, W!Greatest
  <2> QED
    BY <2>1, <2>8
<1> HIDE DEF Served
<1>10. \A n \in 0..NumOrders : n \in Served
  BY ONLY <1>1, <1>8, <1>9, Sums!UpTo
<1>11. NumOrders \in 0..NumOrders
  BY <1>1
<1>12. W!Total(takes, NumOrders) = W!Least(q, W!Total(needs, NumOrders))
  BY <1>10, <1>11 DEF Served
<1>13. W!Total(takes, NumOrders) = q
  BY <1>3, <1>5, <1>11, <1>12 DEF W!Least
<1> QED
  BY <1>6, <1>7, <1>13 DEF takes

LEMMA GainsStart == ASSUME W!Init PROVE GainsAll
BY DEF W!Init, GainsAll

\* The split gives all units.
LEMMA SplitGains ==
  ASSUME W!WavesAssumption, WavesInv, GainsAll, NEW w \in Wave, NEW q \in 1..MaxPick,
         W!SplitPick(w, q)
  PROVE  GainsAll'
<1> DEFINE served == {o \in W!Order : W!Take(w, o, q) > 0}
           pick == [units |-> q,
                    target |-> [o \in served |-> waveOrders[o].picked + W!Take(w, o, q)]]
           takes == [o \in W!Order |-> W!Take(w, o, q)]
           gains == [o \in W!Order |-> Gain(w, o)']
<1>1. /\ picking' = [picking EXCEPT ![w] = pick] /\ q <= W!Remaining(w)
      /\ UNCHANGED <<waveOrders, waves, creating, completing>>
  BY DEF W!SplitPick
<1>2. q \in Nat /\ \A o \in W!Order : W!Take(w, o, q) \in Nat
  <2>1. q \in Nat
    BY DEF W!WavesAssumption
  <2> QED
    BY <1>1, <2>1, AllTaken
<1>3. W!Total(takes, NumOrders) = q
  BY <1>1, <1>2, AllTaken
<1>4. picking'[w] = pick /\ \A v \in Wave : v # w => picking'[v] = picking[v]
  BY <1>1 DEF WavesInv, WaveDomains
<1>5. /\ pick.units = q /\ DOMAIN pick.target = served
      /\ \A o \in served : pick.target[o] = waveOrders[o].picked + W!Take(w, o, q)
  OBVIOUS
<1>6. \A o \in W!Order : gains[o] = takes[o] /\ takes[o] \in Int
  <2> SUFFICES ASSUME NEW o \in W!Order PROVE Gain(w, o)' = W!Take(w, o, q) /\ W!Take(w, o, q) \in Int
    OBVIOUS
  <2>1. waveOrders[o].picked \in Nat /\ W!Take(w, o, q) \in Nat
    BY <1>2, WavesTyped
  <2>2. Gain(w, o)' = IF o \in served THEN pick.target[o] - waveOrders[o].picked ELSE 0
    BY <1>1, <1>4, <1>5 DEF Gain
  <2> QED
    BY <1>5, <2>1, <2>2
<1> HIDE DEF takes, gains, pick, served
<1>7. W!Total(gains, NumOrders) = q
  <2>1. NumOrders \in Nat /\ W!Order = 1..NumOrders
    BY WavesTyped DEF W!Order
  <2> QED
    BY <1>3, <1>6, <2>1, WaveSums
<1>8. W!Total([o \in W!Order |-> Gain(w, o)'], NumOrders) = picking'[w].units
  BY <1>4, <1>5, <1>7 DEF gains
<1> QED
  BY <1>1, <1>4, <1>8 DEF GainsAll, Gain

\* While the orders keep what they picked, so does what a pick is to give.
LEMMA QuietGains ==
  ASSUME WavesInv, GainsAll,
         \A o \in W!Order : waveOrders'[o].picked = waveOrders[o].picked,
         \A w \in Wave : picking'[w] \in {picking[w], None},
         waveOrders' = waveOrders \/ picking' = picking
  PROVE  GainsAll' /\ W!PickAdds
<1>1. GainsAll'
  <2> SUFFICES ASSUME NEW w \in Wave, picking'[w] # None
               PROVE  picking'[w].units = W!Total([o \in W!Order |-> Gain(w, o)'], NumOrders)
    BY DEF GainsAll
  <2>1. picking'[w] = picking[w]
    OBVIOUS
  <2>2. \A o \in W!Order : Gain(w, o)' = Gain(w, o)
    BY <2>1 DEF Gain
  <2>3. [o \in W!Order |-> Gain(w, o)'] = [o \in W!Order |-> Gain(w, o)]
    BY <2>2
  <2> QED
    BY <2>1, <2>3 DEF GainsAll
<1>2. W!PickAdds
  BY DEF W!PickAdds
<1> QED
  BY <1>1, <1>2

\* Writing a pick adds its units to what the orders picked.
LEMMA CommitAdds ==
  ASSUME W!WavesAssumption, WavesInv, GainsAll, NEW w \in Wave, W!CommitPick(w),
         \A v \in Wave : v = w
  PROVE  GainsAll' /\ W!PickAdds
<1> DEFINE target == picking[w].target
           gains == [o \in W!Order |-> Gain(w, o)]
           picked == [o \in W!Order |-> waveOrders[o].picked]
           after == [o \in W!Order |-> waveOrders'[o].picked]
<1>1. /\ picking[w] # None /\ picking' = [picking EXCEPT ![w] = None]
      /\ \A o \in DOMAIN target : W!Editable(o)
      /\ waveOrders' = [o \in W!Order |->
           IF o \in DOMAIN target THEN W!WithPicked(o, target[o]) ELSE waveOrders[o]]
  BY DEF W!CommitPick
<1>2. \A v \in Wave : picking'[v] = None
  BY <1>1 DEF WavesInv, WaveDomains
<1>3. DOMAIN target \subseteq W!Order /\ \A o \in DOMAIN target : target[o] \in 1..Asked[o]
  BY <1>1 DEF WavesInv, W!WavesTypeOK, WaveDomains
<1>4. \A o \in W!Order : /\ picked[o] \in Int /\ gains[o] \in Int
                         /\ after[o] = picked[o] + gains[o]
  <2> SUFFICES ASSUME NEW o \in W!Order
               PROVE  /\ waveOrders[o].picked \in Int /\ Gain(w, o) \in Int
                      /\ waveOrders'[o].picked = waveOrders[o].picked + Gain(w, o)
    OBVIOUS
  <2>1. waveOrders[o].picked \in Nat /\ Asked[o] \in Nat
    BY WavesTyped
  <2>2. ASSUME o \in DOMAIN target
        PROVE  waveOrders'[o].picked = target[o] /\ target[o] \in Nat
    <3>1. target[o] \in 0..Asked[o] /\ W!Editable(o)
      BY <1>1, <1>3, <2>1, <2>2
    <3>2. W!WithPicked(o, target[o]).picked = target[o]
      BY <3>1, PickedRow
    <3> QED
      BY <1>1, <2>1, <2>2, <3>1, <3>2
  <2>3. ASSUME o \notin DOMAIN target PROVE waveOrders'[o] = waveOrders[o]
    BY <1>1, <2>3
  <2> HIDE DEF target
  <2>4. Gain(w, o) = IF o \in DOMAIN target THEN target[o] - waveOrders[o].picked ELSE 0
    BY DEF Gain, target
  <2> QED
    BY <2>1, <2>2, <2>3, <2>4
<1>5. picking[w].units = W!Total(gains, NumOrders)
  BY <1>1 DEF GainsAll
<1>6. W!Picked = W!Total(picked, NumOrders) /\ W!Picked' = W!Total(after, NumOrders)
  BY DEF W!Picked
<1> HIDE DEF target, gains, picked, after
<1>7. W!Total(after, NumOrders) = W!Total(picked, NumOrders) + W!Total(gains, NumOrders)
  <2>1. NumOrders \in Nat /\ W!Order = 1..NumOrders
    BY WavesTyped DEF W!Order
  <2>2. \A i \in 1..NumOrders :
          picked[i] \in Int /\ gains[i] \in Int /\ after[i] = picked[i] + gains[i]
    BY <1>4, <2>1
  <2>3. \A n \in Nat : \A f, g, s :
          (\A i \in 1..n : f[i] \in Int /\ g[i] \in Int /\ s[i] = f[i] + g[i]) =>
            W!Total(s, n) = W!Total(f, n) + W!Total(g, n)
    BY WaveSums
  <2> QED
    BY ONLY <2>1, <2>2, <2>3
<1>8. W!PickAdds
  BY <1>5, <1>6, <1>7 DEF W!PickAdds
<1> QED
  BY <1>2, <1>8 DEF GainsAll

\* Where one wave alone picks, a pick that is written adds all of its units.
LEMMA PicksAddUp ==
  ASSUME W!WavesAssumption, WavesInv, GainsAll, \A v, w \in Wave : v = w,
         W!WaveOnlyNext \/ UNCHANGED W!vars
  PROVE  GainsAll' /\ W!PickAdds
<1>1. ASSUME UNCHANGED W!vars PROVE GainsAll' /\ W!PickAdds
  BY <1>1, QuietGains DEF W!vars
<1>2. ASSUME NEW w \in Wave, NEW O, W!CheckOrders(w, O) PROVE GainsAll' /\ W!PickAdds
  BY <1>2, QuietGains DEF W!CheckOrders
<1>3. ASSUME NEW w \in Wave, W!CreateWave(w) \/ W!CancelWave(w) PROVE GainsAll' /\ W!PickAdds
  <2>1. picking' = picking
    BY <1>3 DEF W!CreateWave, W!CancelWave
  <2>2. \A o \in W!Order : waveOrders'[o].picked = waveOrders[o].picked
    <3> TAKE o \in W!Order
    <3>1. waveOrders[o] \in WaveOrderRow
      BY WavesTyped
    <3>2. \/ waveOrders'[o] = [waveOrders[o] EXCEPT !.wave = w]
          \/ waveOrders'[o] = [waveOrders[o] EXCEPT !.wave = None]
          \/ waveOrders'[o] = waveOrders[o]
      BY <1>3 DEF W!CreateWave, W!CancelWave
    <3> QED
      BY <3>1, <3>2 DEF WaveOrderRow
  <2> QED
    BY <2>1, <2>2, QuietGains
<1>4. ASSUME NEW w \in Wave, NEW q \in 1..MaxPick, W!SplitPick(w, q)
      PROVE  GainsAll' /\ W!PickAdds
  <2>1. waveOrders' = waveOrders
    BY <1>4 DEF W!SplitPick
  <2> QED
    BY <1>4, <2>1, SplitGains DEF W!PickAdds
<1>5. ASSUME NEW w \in Wave, W!CommitPick(w) PROVE GainsAll' /\ W!PickAdds
  BY <1>5, CommitAdds
<1>6. ASSUME NEW w \in Wave,
             W!AbortPick(w) \/ W!ReadWave(w) \/ W!AbortCompletion(w) \/ W!CompleteWave(w)
      PROVE  GainsAll' /\ W!PickAdds
  <2>1. waveOrders' = waveOrders /\ \A v \in Wave : picking'[v] \in {picking[v], None}
    BY <1>6 DEF W!AbortPick, W!ReadWave, W!AbortCompletion, W!CompleteWave, WavesInv, WaveDomains
  <2> QED
    BY <2>1, QuietGains
<1>7. ASSUME NEW w \in Wave, NEW o \in W!Order, W!LeaveWave(w, o) \/ W!CompleteOrder(w, o)
      PROVE  GainsAll' /\ W!PickAdds
  <2>1. picking' = picking /\ waveOrders[o] \in WaveOrderRow
    BY <1>7, WavesTyped DEF W!LeaveWave, W!CompleteOrder
  <2>2. \A k \in W!Order : waveOrders'[k].picked = waveOrders[k].picked
    BY <1>7, <2>1, WavesTyped DEF W!LeaveWave, W!CompleteOrder, WaveOrderRow
  <2> QED
    BY <2>1, <2>2, QuietGains
<1> QED
  BY <1>1, <1>2, <1>3, <1>4, <1>5, <1>6, <1>7 DEF W!WaveOnlyNext, W!WaveStep

=============================================================================
