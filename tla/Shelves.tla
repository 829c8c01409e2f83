------------------------------- MODULE Shelves -------------------------------
(***************************************************************************)
(* Where the units of one product are inside one warehouse                 *)
(* (stock/location-stock.ts).  A function `loc` holds the location_stock   *)
(* quantities of the product; locations are numbered in pick sequence, so  *)
(* "in pick sequence" is the order of the numbers.  A unit on hand is in a *)
(* location, picked, or unlocated, and the last is never stored: it is     *)
(* what the other two leave.                                               *)
(*                                                                         *)
(* Abstracted: a location that is full, inactive or not storable makes     *)
(* putAway refuse.  Refusals only take behaviours away, so no safety       *)
(* property proved or checked here depends on them.                        *)
(***************************************************************************)
EXTENDS Totals

CONSTANT NumLocations        \* locations of the warehouse, in pick sequence

ASSUME ShelvesAssumption == NumLocations \in Nat

Location == 1..NumLocations

NoLocation == 0              \* the caller named no location

NoUnits == [l \in Location |-> 0]

LocatedQuantity(loc) == Total(loc, NumLocations)

UnlocatedQuantity(onHand, picked, loc) == onHand - picked - LocatedQuantity(loc)

\* putAway: with no location the units are left unlocated.
PutAway(loc, l, q) ==
  IF l = NoLocation THEN loc ELSE [loc EXCEPT ![l] = @ + q]

\* assertUnlocatedAvailable and takeFromLocation: units taken from exactly
\* the named location, or from unlocated stock if none is named.
CanTake(onHand, picked, loc, q, l) ==
  q <= IF l = NoLocation THEN UnlocatedQuantity(onHand, picked, loc) ELSE loc[l]

Taken(loc, q, l) ==
  IF l = NoLocation THEN loc ELSE [loc EXCEPT ![l] = @ - q]

\* What each location gives when `q` units are taken in pick sequence: it
\* gives what the locations before it left to take, up to what it holds.
TakenInSequence(loc, q) ==
  [l \in Location |-> Least(loc[l], Greatest(0, q - Total(loc, l - 1)))]

\* allocateOutbound's two refusals: the named location does not hold the
\* units, or the warehouse has too few in locations and unlocated together.
CanAllocate(onHand, picked, loc, q, l) ==
  IF l = NoLocation
  THEN q <= LocatedQuantity(loc) + UnlocatedQuantity(onHand, picked, loc)
  ELSE CanTake(onHand, picked, loc, q, l)

\* Mutated form: the pick is recorded and the location keeps its units.
AllocateLeavingShelves(loc, q, l) == loc

AllocateOutbound(loc, q, l) ==
  IF l = NoLocation
  THEN [k \in Location |-> loc[k] - TakenInSequence(loc, q)[k]]
  ELSE Taken(loc, q, l)

=============================================================================
