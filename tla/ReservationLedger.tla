-------------------------- MODULE ReservationLedger --------------------------
(***************************************************************************)
(* What fulfilment promises, without saying how: every order holds a claim *)
(* on units of the warehouse.  A claim is granted only from units nobody   *)
(* claims, it can only shrink, and dispatching an order takes out at most  *)
(* the units of its own claim and ends it.  Units leave otherwise only if  *)
(* nobody claims them.                                                     *)
(***************************************************************************)
EXTENDS Totals

CONSTANTS
  Product,
  MaxPickings,     \* number of orders
  Order,           \* 1..MaxPickings
  MaxQuantity      \* bound: units of one product in one request

VARIABLES
  stock,           \* units in the warehouse, by product
  claim            \* units each order holds, by product

Amounts == [Product -> 0..MaxQuantity]

NoClaim == [p \in Product |-> 0]

Claimed(p) == Total([o \in Order |-> claim[o][p]], MaxPickings)

Free(p) == stock[p] - Claimed(p)

Init ==
  /\ stock = NoClaim
  /\ claim = [o \in Order |-> NoClaim]

Receive(p, q) ==
  /\ stock' = [stock EXCEPT ![p] = @ + q]
  /\ UNCHANGED claim

Withdraw(p, q) ==
  /\ q <= Free(p)
  /\ stock' = [stock EXCEPT ![p] = @ - q]
  /\ UNCHANGED claim

Grant(o, amount) ==
  /\ claim[o] = NoClaim
  /\ \A p \in Product : amount[p] > 0 => amount[p] <= Free(p)
  /\ claim' = [claim EXCEPT ![o] = amount]
  /\ UNCHANGED stock

Shrink(o, amount) ==
  /\ \A p \in Product : amount[p] <= claim[o][p]
  /\ claim' = [claim EXCEPT ![o] = amount]
  /\ UNCHANGED stock

Dispatch(o, sent) ==
  /\ \A p \in Product : sent[p] <= claim[o][p]
  /\ stock' = [p \in Product |-> stock[p] - sent[p]]
  /\ claim' = [claim EXCEPT ![o] = NoClaim]

Next ==
  \/ \E p \in Product, q \in 1..MaxQuantity : Receive(p, q) \/ Withdraw(p, q)
  \/ \E o \in Order, amount \in Amounts :
       Grant(o, amount) \/ Shrink(o, amount) \/ Dispatch(o, amount)

Spec == Init /\ [][Next]_<<stock, claim>>

=============================================================================
