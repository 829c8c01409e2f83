--------------------------- MODULE SalesProgress ---------------------------
(***************************************************************************)
(* The status of a sales order while several transactions report progress  *)
(* (sales-order-progress.ts, and release and cancel of                     *)
(* sales-orders.service.ts).  Fulfilment writes the status together with   *)
(* the quantities; here a transaction is taken apart into its statements:  *)
(* it adds to the item of its product, whose row it keeps locked, reads    *)
(* all items, without what others have not committed, and writes the       *)
(* status.  A release locks the order first; so does a cancellation.       *)
(*                                                                         *)
(* Every picking order is for one product.                                 *)
(***************************************************************************)
EXTENDS Integers

CONSTANTS Process,   \* transactions that run at the same time
          Product,
          Ordered    \* units ordered of each product

\* What an instance has to give its constants.
SalesProgressAssumption == Ordered \in [Product -> Nat \ {0}]

VARIABLES items,     \* sales_order_items, committed
          status,    \* sales_orders.status, committed
          doing      \* of each process, its transaction

vars == <<items, status, doing>>

Nothing == [stage |-> "none"]

Init ==
  /\ items = [p \in Product |-> [released |-> 0, shipped |-> 0]]
  /\ status = "open"
  /\ doing = [t \in Process |-> Nothing]

Active == {t \in Process : doing[t] # Nothing}

\* The rows are locked by transactions that changed or locked them.
ItemFree(p) == \A t \in Active : doing[t].product = p => doing[t].stage = "releasing"

\* Mutated form: the order is read without a lock.
OrderUnlocked(t) == TRUE

OrderFree(t) == \A u \in Active \ {t} : ~doing[u].order

\* The items as the transaction sees them: committed ones and its own changes.
Seen(t) ==
  [items EXCEPT ![doing[t].product] =
     [released |-> @.released + doing[t].released, shipped |-> @.shipped + doing[t].shipped]]

Closed == {"shipped", "cancelled"}

\* Mutated form: released units count as shipped ones.
StatusByReleased(lines) ==
  CASE \A p \in Product : lines[p].released >= Ordered[p] -> "shipped"
    [] \E p \in Product : lines[p].shipped > 0 -> "partially_shipped"
    [] \E p \in Product : lines[p].released > 0 -> "partially_released"
    [] OTHER -> "open"

\* salesOrderStatus
StatusOf(lines) ==
  CASE \A p \in Product : lines[p].shipped >= Ordered[p] -> "shipped"
    [] \E p \in Product : lines[p].shipped > 0 -> "partially_shipped"
    [] \A p \in Product : lines[p].released >= Ordered[p] -> "released"
    [] \E p \in Product : lines[p].released > 0 -> "partially_released"
    [] OTHER -> "open"

-----------------------------------------------------------------------------

Transaction(stage, p, released, shipped, order) ==
  [stage |-> stage, product |-> p, released |-> released, shipped |-> shipped,
   order |-> order, status |-> "open"]

Begin(t, transaction) ==
  /\ doing[t] = Nothing
  /\ doing' = [doing EXCEPT ![t] = transaction]
  /\ UNCHANGED <<items, status>>

\* applySalesOrderProgress, when a picking is cancelled or a packing ends: of
\* its units some ship and the others become pending again.
Report(t, p, units, shipped) ==
  /\ ItemFree(p)
  /\ units \in 1..(items[p].released - items[p].shipped) /\ shipped <= units
  /\ Begin(t, Transaction("changed", p, shipped - units, shipped, FALSE))

\* release, which takes everything pending or what is available of it
LockToRelease(t, p, units) ==
  /\ OrderFree(t) /\ status \notin Closed
  /\ units \in 1..(Ordered[p] - items[p].released)
  /\ Begin(t, Transaction("releasing", p, units, 0, TRUE))

ReleaseItems(t) ==
  /\ doing[t].stage = "releasing" /\ ItemFree(doing[t].product)
  /\ doing' = [doing EXCEPT ![t].stage = "changed"]
  /\ UNCHANGED <<items, status>>

\* A cancelled order keeps its status.
StillOpen == status # "cancelled"

\* The status is computed from what is read now and written later.
ReadItems(t) ==
  /\ doing[t].stage = "changed"
  /\ doing' = [doing EXCEPT ![t].stage = IF StillOpen THEN "read" ELSE "kept",
                            ![t].status = StatusOf(Seen(t))]
  /\ UNCHANGED <<items, status>>

\* The update waits for the row of the order.
WriteStatus(t) ==
  /\ doing[t].stage = "read" /\ OrderFree(t)
  /\ doing' = [doing EXCEPT ![t].stage = "written", ![t].order = TRUE]
  /\ UNCHANGED <<items, status>>

Commit(t) ==
  /\ doing[t].stage \in {"written", "kept"}
  /\ items' = Seen(t)
  /\ status' = IF doing[t].stage = "written" THEN doing[t].status ELSE status
  /\ doing' = [doing EXCEPT ![t] = Nothing]

\* Mutated form: units on their way are no obstacle.
NoExcess == \A p \in Product : items[p].shipped <= items[p].released

\* No picking is in progress.
AllSettled == \A p \in Product : items[p].released <= items[p].shipped

\* cancel
Cancel(t) ==
  /\ doing[t] = Nothing /\ OrderFree(t)
  /\ status \notin Closed /\ AllSettled
  /\ status' = "cancelled"
  /\ UNCHANGED <<items, doing>>

Next ==
  \E t \in Process :
    \/ \E p \in Product : \E units \in 1..Ordered[p] :
         \/ LockToRelease(t, p, units)
         \/ \E shipped \in 0..units : Report(t, p, units, shipped)
    \/ ReleaseItems(t) \/ ReadItems(t) \/ WriteStatus(t) \/ Commit(t)
    \/ Cancel(t)

Spec == Init /\ [][Next]_vars

-----------------------------------------------------------------------------
(* Correctness *)

\* Type invariant, with the CHECK constraints of the items.
ProgressTypeOK ==
  /\ status \in {"open", "partially_released", "released", "partially_shipped", "shipped", "cancelled"}
  /\ \A p \in Product :
       0 <= items[p].shipped /\ items[p].shipped <= items[p].released /\ items[p].released <= Ordered[p]

\* A sales order that is shipped has shipped everything, so that closing it
\* leaves no unit behind, however reports overtake each other.
ShippedWasAll ==
  status = "shipped" => \A p \in Product : items[p].shipped = Ordered[p]

\* A cancelled order stays cancelled and nothing of it moves any more: late
\* reports find it settled.
KeepsCancelled == status = "cancelled" => status' = status /\ items' = items

CancelledForGood == [][KeepsCancelled]_vars

\* Applies the deltas, then refreshes the order status: when no transaction is
\* under way the status is that of the items.  The code does not keep it, and
\* no run checks it: two transactions each read the items without the other's.
StatusMatchesItems ==
  Active = {} /\ status # "cancelled" => status = StatusOf(items)

=============================================================================
