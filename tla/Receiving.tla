----------------------------- MODULE Receiving -----------------------------
(***************************************************************************)
(* Goods entering the warehouse: purchase orders, the receipts that post   *)
(* them to stock, and customer returns, which are receipts of another kind *)
(* (receipts.service.ts, purchase-orders.service.ts).                      *)
(*                                                                         *)
(* A receipt is changed only with its row locked, and a purchase order     *)
(* only with its own; the lines of OTHER receipts and the items of the     *)
(* order are read without a lock.  So registering a line is two steps:     *)
(* what it reads, and what it writes.                                      *)
(*                                                                         *)
(* Abstracted: locations and lots of a line (Shelves and Lots say what     *)
(* they do to the stock), partners, and the access of the user.            *)
(***************************************************************************)
EXTENDS Totals

CONSTANTS
  Product,
  Order,          \* purchase orders
  Dispatch,       \* picking orders whose packing was completed
  None,
  NumReceipts,
  NumLines,       \* bound: lines of a receipt
  MaxQuantity,    \* bound: units of a line and of an item
  Shipped         \* [Dispatch -> [Product -> Nat]], packed and dispatched

\* What an instance has to give its constants.
ReceivingAssumption ==
  /\ NumReceipts \in Nat /\ NumLines \in Nat /\ MaxQuantity \in Nat \ {0}
  /\ None \notin Product \cup Order \cup Dispatch
  /\ Shipped \in [Dispatch -> [Product -> Nat]]

VARIABLES
  orders,     \* purchase_orders with their items; quantity 0: not an item
  receipts,   \* receipts with their lines
  onHand,     \* units of each product posted to the warehouse
  writing     \* of each receipt, the line its open transaction is to write

vars == <<orders, receipts, onHand, writing>>

Receipt == 1..NumReceipts
Line == 1..NumLines
Quantity == 1..MaxQuantity

\* Mutated form of Receivable: closed orders still take receipts.
ReceivableUntilReceived == {"open", "partially_received", "closed"}

Receivable == {"open", "partially_received"}
OrderEnded == {"received", "closed", "cancelled"}
Disposition == {"restock", "scrap"}

NoItem == [quantity |-> 0, received |-> 0]
LineRow == [product : Product, quantity : Quantity, disposition : Disposition]
NoReceipt == [status |-> "none", kind |-> "purchase", order |-> None,
              dispatch |-> None, lines |-> [l \in Line |-> None]]

Init ==
  /\ orders = [o \in Order |-> [status |-> "none", items |-> [p \in Product |-> NoItem],
                                excess |-> FALSE]]
  /\ receipts = [r \in Receipt |-> NoReceipt]
  /\ onHand = [p \in Product |-> 0]
  /\ writing = [r \in Receipt |-> None]

-----------------------------------------------------------------------------
(* Sums over lines (sumByProduct) *)

\* Units of product `p` on the lines of `r` whose disposition is in `D`.
OnLines(r, p, D) ==
  LET units(l) == LET row == receipts[r].lines[l]
                  IN  IF row # None /\ row.product = p /\ row.disposition \in D
                      THEN row.quantity ELSE 0
  IN  Total([l \in Line |-> units(l)], NumLines)

\* Units of `p` on the lines of the receipts `R`.
OverReceipts(R, p, D) ==
  Total([r \in Receipt |-> IF r \in R THEN OnLines(r, p, D) ELSE 0], NumReceipts)

\* returnableItems: what open and completed returns took of a dispatch.
Returned(d, p) ==
  OverReceipts({r \in Receipt : /\ receipts[r].dispatch = d
                                /\ receipts[r].status \in {"open", "completed"}},
               p, Disposition)

CanReturn(d, p, extra) ==
  /\ Shipped[d][p] > 0
  /\ Returned(d, p) + extra <= Shipped[d][p]

-----------------------------------------------------------------------------
(* Purchase orders *)

Items == [Product -> 0..MaxQuantity] \ {[p \in Product |-> 0]}

Ordered(items) == [p \in Product |-> [quantity |-> items[p], received |-> 0]]

CreateOrder(o, items) ==
  /\ orders[o].status = "none"
  /\ orders' = [orders EXCEPT ![o].status = "open", ![o].items = Ordered(items)]
  /\ UNCHANGED <<receipts, onHand, writing>>

\* Mutated form of ItemsReplaceable: items of an order being received too.
ItemsReplaceableAnyway(o) == orders[o].status \in Receivable

ItemsReplaceable(o) ==
  /\ orders[o].status = "open"
  /\ \A p \in Product : orders[o].items[p].received = 0

\* update: the items are deleted and created again.
ReplaceItems(o, items) ==
  /\ ItemsReplaceable(o)
  /\ orders' = [orders EXCEPT ![o].items = Ordered(items)]
  /\ UNCHANGED <<receipts, onHand, writing>>

EndOrder(o, from, to) ==
  /\ orders[o].status = from
  /\ orders' = [orders EXCEPT ![o].status = to]
  /\ UNCHANGED <<receipts, onHand, writing>>

CancelOrder(o) == EndOrder(o, "open", "cancelled")

CloseOrder(o) == EndOrder(o, "partially_received", "closed")

-----------------------------------------------------------------------------
(* Receipts and returns *)

\* create, createReturn: against an order that can be received, against a
\* dispatched picking order, or of a supplier or customer alone.
OpenReceipt(r, kind, o, d) ==
  /\ receipts[r].status = "none"
  /\ \A k \in 1..(r - 1) : receipts[k].status # "none"   \* rows in the order they come
  /\ kind = "purchase" => d = None /\ (o # None => orders[o].status \in Receivable)
  /\ kind = "customer_return" => o = None
  /\ receipts' = [receipts EXCEPT ![r] = [NoReceipt EXCEPT !.status = "open", !.kind = kind,
                                                           !.order = o, !.dispatch = d]]
  /\ UNCHANGED <<orders, onHand, writing>>

\* Mutated form of Locked: the status is read without locking the row.
OpenUnlocked(r) == receipts[r].status = "open"

\* lockOpenReceipt: the row is free and the receipt open.
Locked(r) ==
  /\ receipts[r].status = "open"
  /\ writing[r] = None

DispositionAllowed(r, row) ==
  row.disposition = "scrap" => receipts[r].kind = "customer_return"

Writes(r, l, row) ==
  /\ writing' = [writing EXCEPT ![r] = [line |-> l, row |-> row]]
  /\ UNCHANGED <<orders, receipts, onHand>>

\* addLine up to its insert: the product must be in the order, and the units
\* still returnable.
CheckLine(r, l, row) ==
  /\ Locked(r)
  /\ receipts[r].lines[l] = None
  /\ \A k \in 1..(l - 1) : receipts[r].lines[k] # None
  /\ receipts[r].order # None => orders[receipts[r].order].items[row.product].quantity > 0
  /\ DispositionAllowed(r, row)
  /\ receipts[r].dispatch # None => CanReturn(receipts[r].dispatch, row.product, row.quantity)
  /\ Writes(r, l, row)

\* Mutated form of GrowthReturnable: a correction is not checked.
GrowthUnchecked(r, old, row) == TRUE

\* updateLine: only what a correction adds has to be returnable.
GrowthReturnable(r, old, row) ==
  receipts[r].dispatch # None /\ row.quantity > old.quantity
    => CanReturn(receipts[r].dispatch, old.product, row.quantity - old.quantity)

\* updateLine up to its update; the product of a line stays.
CheckCorrection(r, l, row) ==
  /\ Locked(r)
  /\ LET old == receipts[r].lines[l]
     IN  /\ old # None /\ old # row
         /\ row.product = old.product
         /\ DispositionAllowed(r, row)
         /\ GrowthReturnable(r, old, row)
  /\ Writes(r, l, row)

WriteLine(r) ==
  /\ writing[r] # None
  /\ receipts' = [receipts EXCEPT ![r].lines[writing[r].line] = writing[r].row]
  /\ writing' = [writing EXCEPT ![r] = None]
  /\ UNCHANGED <<orders, onHand>>

RemoveLine(r, l) ==
  /\ Locked(r)
  /\ receipts[r].lines[l] # None
  /\ receipts' = [receipts EXCEPT ![r].lines[l] = None]
  /\ UNCHANGED <<orders, onHand, writing>>

CancelReceipt(r) ==
  /\ Locked(r)
  /\ receipts' = [receipts EXCEPT ![r].status = "cancelled"]
  /\ UNCHANGED <<orders, onHand, writing>>

\* Mutated form of Posted: scrapped units enter the stock as well.
PostedAll(r, p) == OnLines(r, p, Disposition)

\* postLine, of every line to be restocked.
Posted(r, p) == OnLines(r, p, {"restock"})

\* The items of order `o` after the lines of `r` are counted.
ItemsAfter(r, o) ==
  [p \in Product |->
     IF orders[o].items[p].quantity = 0 THEN NoItem
     ELSE [orders[o].items[p] EXCEPT !.received = @ + OnLines(r, p, Disposition)]]

\* Mutated form of Excess: what earlier receipts brought is forgotten.
ExcessOfThis(r, o) ==
  \E p \in Product : OnLines(r, p, Disposition) > orders[o].items[p].quantity

Excess(r, o) ==
  \E p \in Product : ItemsAfter(r, o)[p].received > orders[o].items[p].quantity

\* Mutated form of StatusAfter: it looks at the items before they are counted.
StatusBefore(r, o) ==
  IF \A p \in Product : orders[o].items[p].received >= orders[o].items[p].quantity
  THEN "received" ELSE "partially_received"

StatusAfter(r, o) ==
  IF \A p \in Product : ItemsAfter(r, o)[p].received >= ItemsAfter(r, o)[p].quantity
  THEN "received" ELSE "partially_received"

\* complete: every line posted and the order counted, in one transaction.
CompleteReceipt(r, allowOverReceipt) ==
  /\ Locked(r)
  /\ \E l \in Line : receipts[r].lines[l] # None
  /\ LET o == receipts[r].order
     IN  IF o = None THEN UNCHANGED orders
         ELSE /\ orders[o].status \in Receivable
              /\ Excess(r, o) => allowOverReceipt
              /\ orders' = [orders EXCEPT ![o] =
                   [status |-> StatusAfter(r, o), items |-> ItemsAfter(r, o),
                    excess |-> @.excess \/ (allowOverReceipt /\ Excess(r, o))]]
  /\ receipts' = [receipts EXCEPT ![r].status = "completed"]
  /\ onHand' = [p \in Product |-> onHand[p] + Posted(r, p)]
  /\ UNCHANGED writing

Next ==
  \/ \E o \in Order :
       \/ \E items \in Items : CreateOrder(o, items) \/ ReplaceItems(o, items)
       \/ CancelOrder(o) \/ CloseOrder(o)
  \/ \E r \in Receipt :
       \/ \E o \in Order \cup {None} : OpenReceipt(r, "purchase", o, None)
       \/ \E d \in Dispatch \cup {None} : OpenReceipt(r, "customer_return", None, d)
       \/ \E l \in Line, row \in LineRow : CheckLine(r, l, row) \/ CheckCorrection(r, l, row)
       \/ WriteLine(r)
       \/ \E l \in Line : RemoveLine(r, l)
       \/ CancelReceipt(r)
       \/ \E allow \in BOOLEAN : CompleteReceipt(r, allow)

Spec == Init /\ [][Next]_vars

-----------------------------------------------------------------------------
(* Properties *)

\* Orders and receipts have the columns of their tables, a line being
\* written is a line, and its receipt is open while it is.
ReceivingTypeOK ==
  /\ orders \in [Order -> [status : {"none"} \cup Receivable \cup OrderEnded,
                           items : [Product -> [quantity : 0..MaxQuantity, received : Nat]],
                           excess : BOOLEAN]]
  /\ \A r \in Receipt :
       /\ receipts[r].status \in {"none", "open", "completed", "cancelled"}
       /\ receipts[r].kind \in {"purchase", "customer_return"}
       /\ receipts[r].order \in Order \cup {None}
       /\ receipts[r].dispatch \in Dispatch \cup {None}
       /\ receipts[r].lines \in [Line -> LineRow \cup {None}]
       /\ writing[r] \in [line : Line, row : LineRow] \cup {None}
       /\ writing[r] # None => receipts[r].status = "open"
  /\ onHand \in [Product -> Nat]

CompletedFor(o) == {r \in Receipt : receipts[r].order = o /\ receipts[r].status = "completed"}

\* What is on hand is what the completed receipts brought, scrapped units
\* left out: no correction, cancellation or second completion changes it.
StockWasReceived ==
  \A p \in Product :
    onHand[p] = OverReceipts({r \in Receipt : receipts[r].status = "completed"},
                             p, {"restock"})

\* Every item of an order counts exactly what the completed receipts of the
\* order brought of its product, however its items were replaced before.
ItemsCountReceipts ==
  \A o \in Order, p \in Product :
    LET item == orders[o].items[p]
    IN  item.quantity > 0 => item.received = OverReceipts(CompletedFor(o), p, Disposition)

\* An order takes more than it asked for only if somebody confirmed it.
ExcessConfirmed ==
  \A o \in Order, p \in Product :
    orders[o].items[p].received > orders[o].items[p].quantity => orders[o].excess

\* The status of an order follows its receipts: open and cancelled orders
\* have none completed, the others have some, received ones lack nothing and
\* partially received or closed ones do.
OrderStatusFollows ==
  \A o \in Order :
    LET lacking == \E p \in Product : orders[o].items[p].received < orders[o].items[p].quantity
    IN  /\ orders[o].status \in {"none", "open", "cancelled"} <=> CompletedFor(o) = {}
        /\ orders[o].status = "received" => ~lacking
        /\ orders[o].status \in {"partially_received", "closed"} => lacking

\* No single return takes back more of a product than its order shipped,
\* however its lines are corrected.
OneReturnWithinShipped ==
  \A r \in Receipt, p \in Product :
    receipts[r].dispatch # None
      => OnLines(r, p, Disposition) <= Shipped[receipts[r].dispatch][p]

\* Orders that ended and receipts that were completed or cancelled never
\* change again, whatever transactions were under way.
KeepsEnded ==
  /\ \A o \in Order : orders[o].status \in OrderEnded => orders'[o] = orders[o]
  /\ \A r \in Receipt :
       receipts[r].status \in {"completed", "cancelled"} => receipts'[r] = receipts[r]

EndedIsFinal == [][KeepsEnded]_vars

\* The comment of assertReturnable: units returned, completed or in open
\* returns, cannot exceed what the order shipped.  The code does not keep it,
\* and no run checks it: two returns are each checked without the other's line.
ReturnsWithinShipped ==
  \A d \in Dispatch, p \in Product : Returned(d, p) <= Shipped[d][p]

\* The comment of complete: it posts every line and updates the order it
\* belongs to.  So an order counts every unit its receipts posted.  The code
\* does not keep it, and no run checks it: items that are replaced meanwhile
\* take the count of their units with them.
OrderCountsPosted ==
  \A o \in Order, p \in Product :
    OverReceipts(CompletedFor(o), p, Disposition) = orders[o].items[p].received

=============================================================================
