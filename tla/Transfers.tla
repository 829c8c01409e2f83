------------------------------ MODULE Transfers ------------------------------
(***************************************************************************)
(* Units that move between warehouses: at once (stock.service transfer) or *)
(* in two steps, sent and received (transfers/stock-transfers.service).    *)
(* Units of a sent transfer are in no warehouse; its row remembers how many *)
(* and of which lots, and receiving part of them leaves a difference.      *)
(* A transfer of several products does the same for each of them in one    *)
(* transaction, in product order; the model follows one product.           *)
(***************************************************************************)
EXTENDS LotStock

CONSTANTS NumTransfers,
          MaxTransferred   \* bound: units that leave a warehouse for another

\* What an instance has to give its constants.
TransfersAssumption == NumTransfers \in Nat /\ MaxTransferred \in Nat

Transfer == 1..NumTransfers

VARIABLE transfers

vars == <<lotVars, transfers>>

NoTransfer == [from |-> NoWarehouse, to |-> NoWarehouse, quantity |-> 0,
               allocations |-> <<>>, received |-> 0, status |-> "none"]

Init == LotInit /\ transfers = [t \in Transfer |-> NoTransfer]

CanLeave(w, q) ==
  /\ moved["transfer_out"] + q <= MaxTransferred
  /\ q <= Available(w)

\* stock.service transfer: both rows are locked, then both are written.
TransferDirect(v, w, q, l) ==
  /\ v # w /\ CanLeave(v, q)
  /\ LET taken == LotsTaken(v, q, l)
     IN  /\ Served(taken, q, l)
         /\ stock' = [stock EXCEPT ![v].onHand = @ - q, ![v].lots = TakenFrom(@, taken),
                                   ![w].onHand = @ + q, ![w].lots = AddToLots(@, taken)]
  /\ moved' = [moved EXCEPT !["transfer_out"] = @ + q, !["transfer_in"] = @ + q]
  /\ UNCHANGED <<product, known, expires, orders, lotUnits, transfers>>

\* send, with takeFromOrigin
Send(t, v, w, q, l) ==
  /\ transfers[t].status = "none"
  /\ v # w /\ CanLeave(v, q)
  /\ LET taken == LotsTaken(v, q, l)
     IN  /\ Served(taken, q, l)
         /\ stock' = [stock EXCEPT ![v].onHand = @ - q, ![v].lots = TakenFrom(@, taken)]
         /\ transfers' = [transfers EXCEPT ![t] =
              [NoTransfer EXCEPT !.from = v, !.to = w, !.quantity = q,
                                 !.allocations = taken, !.status = "in_transit"]]
  /\ moved' = Moved("transfer_out", q)
  /\ UNCHANGED <<product, known, expires, orders, lotUnits>>

\* Mutated form: the lots are received whole, whatever arrived of them.
ReceivedLotsWhole(allocations, q) == IF q = 0 THEN <<>> ELSE allocations

\* receivedLots
ReceivedLots(allocations, q) == Allocation(allocations, q)

InTransit(t) == transfers[t].status = "in_transit"

\* receive, with putIntoDestination
Receive(t, q) ==
  /\ InTransit(t) /\ q <= transfers[t].quantity
  /\ stock' = [stock EXCEPT ![transfers[t].to].onHand = @ + q,
                 ![transfers[t].to].lots =
                   AddToLots(@, ReceivedLots(transfers[t].allocations, q))]
  /\ transfers' = [transfers EXCEPT ![t].received = q, ![t].status = "received"]
  /\ moved' = Moved("transfer_in", q)
  /\ UNCHANGED <<product, known, expires, orders, lotUnits>>

TransferStep ==
  \/ \E v, w \in Warehouse, q \in Units, l \in NamedLots :
       \/ TransferDirect(v, w, q, l)
       \/ \E t \in Transfer : Send(t, v, w, q, l)
  \/ \E t \in Transfer, q \in 0..MaxReceived : Receive(t, q)

Next == (StockStep /\ UNCHANGED transfers) \/ TransferStep

\* Lot tracking is settled before there is stock.
Spec == Init /\ [][Next]_vars

-----------------------------------------------------------------------------
(* Correctness *)

\* Type invariant, of the rows of transfers.
TransfersTypeOK ==
  /\ LotStockTypeOK
  /\ transfers \in [Transfer ->
       [from : Warehouse \union {NoWarehouse}, to : Warehouse \union {NoWarehouse},
        quantity : Nat, allocations : Seq([lot : Lot, quantity : Units]),
        received : Nat, status : {"none", "in_transit", "received"}]]

UnitsOutside(t) == transfers[t].quantity - transfers[t].received

\* Units that entered and neither left by hand nor were shipped are in a
\* warehouse, on the road or recorded as the difference of a transfer: what is
\* sent arrives once, and what does not arrive is known.
UnitsConserved ==
  moved["adjustment_increase"] - moved["adjustment_decrease"] - moved["order_shipment"] =
    Total([w \in Warehouse |-> stock[w].onHand], NumWarehouses)
      + Total([t \in Transfer |-> UnitsOutside(t)], NumTransfers)

LotUnitsOutside(t, l) ==
  UnitsOf(transfers[t].allocations, l)
    - UnitsOf(ReceivedLots(transfers[t].allocations, transfers[t].received), l)

\* The units of a lot are on shelves, in orders, on the road or recorded as
\* missing from a transfer of that lot.
LotsTraceableAcross ==
  \A l \in Lot :
    lotUnits[l] = LotUnitsOnShelves(l) + LotUnitsInOrders(l)
                    + Total([t \in Transfer |-> LotUnitsOutside(t, l)], NumTransfers)

=============================================================================
