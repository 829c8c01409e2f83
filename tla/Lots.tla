-------------------------------- MODULE Lots --------------------------------
(***************************************************************************)
(* How units of a lot-tracked product are spread over its lots             *)
(* (stock/lot-stock.ts).  Lots are numbered in the order their rows were   *)
(* created, `lots` holds the units of each in one place (a warehouse or a  *)
(* picking item) and `expires` their expiry, NoExpiry while there is none. *)
(* An allocation is the sequence of lots a movement took, in that order.   *)
(***************************************************************************)
EXTENDS Totals, Sequences, FiniteSets

CONSTANTS NumLots, Strategy

\* What an instance has to give its constants.
LotsAssumption == NumLots \in Nat /\ Strategy \in {"fefo", "fifo", "lifo"}

Lot == 1..NumLots

NoLot == 0                \* the caller named no lot

NoExpiry == 0

NoLotUnits == [l \in Lot |-> 0]

\* fefoOrder: lots without expiry last, and lots that expire together in the
\* order they were first received.
ExpiresFirst(expires, a, b) ==
  \/ expires[a] # NoExpiry /\ expires[b] = NoExpiry
  \/ expires[a] # NoExpiry /\ expires[a] < expires[b]
  \/ expires[a] = expires[b] /\ a < b

\* lotOrder
Leaves(expires, a, b) ==
  CASE Strategy = "fefo" -> ExpiresFirst(expires, a, b)
    [] Strategy = "fifo" -> a < b
    [] Strategy = "lifo" -> b < a

\* The lots that leave before others, as pairs; and the pairs turned round.
LeavingOrder(expires) == {p \in Lot \X Lot : Leaves(expires, p[1], p[2])}

Reversed(order) == {p \in Lot \X Lot : <<p[2], p[1]>> \in order}

\* rows.sort: these lots in this order.
Sorted(lotSet, order) ==
  CHOOSE s \in [1..Cardinality(lotSet) -> lotSet] :
    \A i, j \in 1..Cardinality(lotSet) : i < j => <<s[i], s[j]>> \in order

\* The lots that hold units, only the named one if there is one, in order.
Rows(lots, l, order) ==
  LET sorted == Sorted({k \in Lot : lots[k] > 0 /\ (l = NoLot \/ l = k)}, order)
  IN  [i \in DOMAIN sorted |-> [lot |-> sorted[i], quantity |-> lots[sorted[i]]]]

\* takeFromLots and receivedLots: q units of these lots in this order, from
\* none once nothing remains to take.
Allocation(rows, q) ==
  LET units == [i \in DOMAIN rows |-> rows[i].quantity]
      remaining == [i \in DOMAIN rows |-> q - Total(units, i - 1)]
  IN  [i \in {j \in DOMAIN rows : remaining[j] > 0} |->
         [lot |-> rows[i].lot, quantity |-> Least(units[i], remaining[i])]]

Allocated(allocation) ==
  Total([i \in DOMAIN allocation |-> allocation[i].quantity], Len(allocation))

UnitsOf(allocation, l) ==
  Total([i \in DOMAIN allocation |->
           IF allocation[i].lot = l THEN allocation[i].quantity ELSE 0], Len(allocation))

AddToLots(lots, allocation) == [l \in Lot |-> lots[l] + UnitsOf(allocation, l)]

TakenFrom(lots, allocation) == [l \in Lot |-> lots[l] - UnitsOf(allocation, l)]

\* takeFromLots for a tracked product: in the order lots leave.
TakeFromLots(expires, lots, q, l) == Allocation(Rows(lots, l, LeavingOrder(expires)), q)

\* returnPickedLots for a tracked product: the lots that leave last go back.
ReturnPickedLots(expires, lots, q, l) ==
  Allocation(Rows(lots, l, Reversed(LeavingOrder(expires))), q)

=============================================================================
