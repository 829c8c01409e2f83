------------------------------ MODULE Shipping ------------------------------
(***************************************************************************)
(* Despatch of packing orders (shipping/shipping.service.ts): a completed  *)
(* packing is handed to a carrier once and delivered once.  Every request  *)
(* reads what it decides on in statements of its own and writes later.     *)
(*                                                                         *)
(* Packing orders are completed elsewhere, for good (see Fulfilment).      *)
(* Abstracted: tracking numbers, notes, photos and dates; a carrier that   *)
(* is only a name.                                                         *)
(***************************************************************************)
EXTENDS Naturals, FiniteSets

CONSTANTS Packing, Carrier, Receiver,
          NoCarrier,
          Request      \* requests that run at the same time

\* What an instance has to give its constants.
ShippingAssumption == NoCarrier \notin Carrier

VARIABLES completed,   \* packing orders that are completed
          active,      \* carriers that are active
          shipments,   \* the rows: packing, carrier, status and who received it
          doing        \* what each request does

vars == <<completed, active, shipments, doing>>

Idle == [stage |-> "idle"]
Nobody == "nobody"

Shipment == [packing : Packing, number : Request, carrier : Carrier \union {NoCarrier},
             receivedBy : Receiver \union {Nobody}]

Init ==
  /\ completed = {}
  /\ active = Carrier
  /\ shipments = {}
  /\ doing = [q \in Request |-> Idle]

End(q) == doing' = [doing EXCEPT ![q] = Idle]

\* updateStatus of the packing service
Complete(p) ==
  /\ completed' = completed \union {p}
  /\ UNCHANGED <<active, shipments, doing>>

\* updateCarrier
SetActive(c, a) ==
  /\ active' = IF a THEN active \union {c} ELSE active \ {c}
  /\ UNCHANGED <<completed, shipments, doing>>

\* Mutated form: packings that are still open are despatched too.
AnyPacking(p) == ~ \E s \in shipments : s.packing = p

\* ship (checks)
Shippable(p) == p \in completed /\ ~ \E s \in shipments : s.packing = p

CheckShip(q, p, c) ==
  /\ doing[q] = Idle /\ Shippable(p)
  /\ doing' = [doing EXCEPT ![q] = [stage |-> "shipping", packing |-> p, carrier |-> c]]
  /\ UNCHANGED <<completed, active, shipments>>

\* ship (carrier)
FindCarrier(q) ==
  /\ doing[q].stage = "shipping"
  /\ IF doing[q].carrier \in active \union {NoCarrier}
     THEN doing' = [doing EXCEPT ![q].stage = "creating"]
     ELSE End(q)
  /\ UNCHANGED <<completed, active, shipments>>

\* Mutated form: the shipments table has no unique index on the packing.
NoIndex(p) == TRUE

\* packingOrderId @unique of Shipment
Unshipped(p) == ~ \E s \in shipments : s.packing = p

\* ship (row)
CreateShipment(q) ==
  LET p == doing[q].packing
  IN  /\ doing[q].stage = "creating"
      /\ shipments' = IF Unshipped(p)
           THEN shipments \union
                  {[packing |-> p, number |-> q, carrier |-> doing[q].carrier, receivedBy |-> Nobody]}
           ELSE shipments
      /\ End(q)
      /\ UNCHANGED <<completed, active>>

\* Mutated form: a delivery is registered again.
OnTheWayOrNot(s) == TRUE

\* The status of a shipment is shipped until somebody received it.
OnTheWay(s) == s.receivedBy = Nobody

\* deliver (checks)
CheckDeliver(q, s, r) ==
  /\ doing[q] = Idle /\ s \in shipments /\ OnTheWay(s)
  /\ doing' = [doing EXCEPT ![q] =
       [stage |-> "delivering", packing |-> s.packing, number |-> s.number, receiver |-> r]]
  /\ UNCHANGED <<completed, active, shipments>>

\* deliver (row): the row is written by its id.
WriteDelivery(q) ==
  LET d == doing[q]
  IN  /\ d.stage = "delivering"
      /\ shipments' = {IF s.packing = d.packing /\ s.number = d.number
                       THEN [s EXCEPT !.receivedBy = d.receiver] ELSE s : s \in shipments}
      /\ End(q)
      /\ UNCHANGED <<completed, active>>

Next ==
  \/ \E p \in Packing : Complete(p)
  \/ \E c \in Carrier, a \in BOOLEAN : SetActive(c, a)
  \/ \E q \in Request :
       \/ \E p \in Packing, c \in Carrier \union {NoCarrier} : CheckShip(q, p, c)
       \/ FindCarrier(q) \/ CreateShipment(q) \/ WriteDelivery(q)
       \/ \E s \in shipments, r \in Receiver : CheckDeliver(q, s, r)

Spec == Init /\ [][Next]_vars

\* One request at a time.
AloneNext == Next /\ Cardinality({q \in Request : doing'[q] # Idle}) <= 1

-----------------------------------------------------------------------------
(* Correctness *)

\* Type invariant: what was despatched, or is about to be, had been completed.
ShippingTypeOK ==
  /\ completed \subseteq Packing /\ active \subseteq Carrier
  /\ shipments \subseteq Shipment
  /\ \A s \in shipments : s.packing \in completed
  /\ \A q \in Request :
       doing[q].stage \in {"shipping", "creating", "delivering"} => doing[q].packing \in completed

\* "A completed packing leaves the warehouse once", however many requests
\* despatch it at the same time, with one carrier or with several.
LeavesOnce ==
  \A s, t \in shipments : s.packing = t.packing => s = t

\* "El despacho ya se registró como entregado": who received a shipment is not
\* written over by another delivery.
KeepsReceiver == \A s \in shipments : s.receivedBy # Nobody => s \in shipments'

DeliveredOnce == [][KeepsReceiver]_vars

=============================================================================
