------------------------------- MODULE Waves -------------------------------
(***************************************************************************)
(* Picking waves (waves.service.ts): picking orders of one warehouse       *)
(* picked together, seen through one product that all of them ask for.     *)
(* Orders are numbered in the order they are served, higher priority first *)
(* and then older.                                                         *)
(*                                                                         *)
(* Only a pick and a cancellation lock the wave.  Creating one reads its   *)
(* orders without locking them; a pick reads the items before it locks     *)
(* their orders; completing one loads it outside any transaction and then  *)
(* changes its orders one transaction at a time.  Each of these is split   *)
(* where what was read can become stale.                                   *)
(***************************************************************************)
EXTENDS Totals

CONSTANTS
  NumOrders,
  Wave,
  None,
  Asked,        \* units of the product each order asks for
  MaxPick         \* bound: units of one shared pick

\* What an instance has to give its constants.
WavesAssumption ==
  /\ NumOrders \in Nat /\ MaxPick \in Nat
  /\ None \notin Wave
  /\ Asked \in [1..NumOrders -> Nat \ {0}]

VARIABLES
  orders,       \* picking_orders: status, wave and picked units of the item
  waves,        \* picking_waves: status
  creating,     \* of each wave, the orders its open transaction found free
  picking,      \* of each wave, the shared pick being spread
  completing    \* of each wave, what its completion still has to do

vars == <<orders, waves, creating, picking, completing>>

Order == 1..NumOrders

Waveable == {"pending", "in_progress"}
OrderEnded == {"completed", "cancelled"}

Init ==
  /\ orders = [o \in Order |-> [status |-> "pending", wave |-> None, picked |-> 0]]
  /\ waves = [w \in Wave |-> "none"]
  /\ creating = [w \in Wave |-> {}]
  /\ picking = [w \in Wave |-> None]
  /\ completing = [w \in Wave |-> None]

-----------------------------------------------------------------------------
(* One order at a time (picking.service.ts), its row locked *)

\* Mutated form of Editable: the status of the order is not looked at again.
EditableAnyway(o) == TRUE

Editable(o) == orders[o].status \in Waveable

\* updateItemInTransaction: progress starts a pending order.
WithPicked(o, n) ==
  IF n = orders[o].picked THEN orders[o]
  ELSE [orders[o] EXCEPT !.picked = n,
                         !.status = IF @ = "pending" THEN "in_progress" ELSE @]

\* A picker records the units of one order.
UpdateItem(o, n) ==
  /\ Editable(o)
  /\ n \in 0..Asked[o]
  /\ orders' = [orders EXCEPT ![o] = WithPicked(o, n)]
  /\ UNCHANGED <<waves, creating, picking, completing>>

CanComplete(o) == orders[o].status \in Waveable /\ orders[o].picked > 0

UpdateStatus(o, status) ==
  /\ orders[o].status \in Waveable
  /\ status = "completed" => CanComplete(o)
  /\ orders' = [orders EXCEPT ![o].status = status]
  /\ UNCHANGED <<waves, creating, picking, completing>>

-----------------------------------------------------------------------------
(* Creating a wave *)

Free(o) == orders[o].status \in Waveable /\ orders[o].wave = None

\* create up to the check of its orders.
CheckOrders(w, O) ==
  /\ waves[w] = "none" /\ creating[w] = {}
  /\ O # {} /\ \A o \in O : Free(o)
  /\ creating' = [creating EXCEPT ![w] = O]
  /\ UNCHANGED <<orders, waves, picking, completing>>

\* create: the wave is inserted and its orders are claimed by their ids.
CreateWave(w) ==
  /\ creating[w] # {}
  /\ waves' = [waves EXCEPT ![w] = "open"]
  /\ orders' = [o \in Order |->
       IF o \in creating[w] THEN [orders[o] EXCEPT !.wave = w] ELSE orders[o]]
  /\ creating' = [creating EXCEPT ![w] = {}]
  /\ UNCHANGED <<picking, completing>>

-----------------------------------------------------------------------------
(* Picking for the whole wave *)

\* Mutated form of Needs: what was picked already is picked again.
NeedsAgain(w, o) ==
  IF orders[o].wave = w /\ orders[o].status \in Waveable THEN Asked[o] ELSE 0

Needs(w, o) ==
  IF orders[o].wave = w /\ orders[o].status \in Waveable
  THEN Asked[o] - orders[o].picked ELSE 0

\* What the pick list shows as remaining.
Remaining(w) == Total([o \in Order |-> Needs(w, o)], NumOrders)

\* Mutated form of Take: every order takes as if it were served first.
TakeFirst(w, o, q) == Least(Needs(w, o), q)

\* What order `o` gets of `q` units: what those before it leave.
Take(w, o, q) ==
  Least(Needs(w, o), Greatest(0, q - Total([k \in Order |-> Needs(w, k)], o - 1)))

LockedOpen(w) == waves[w] = "open" /\ picking[w] = None

\* pick up to the split: the picked quantity each item is to have.
SplitPick(w, q) ==
  /\ LockedOpen(w)
  /\ q <= Remaining(w)
  /\ LET served == {o \in Order : Take(w, o, q) > 0}
     IN  picking' = [picking EXCEPT ![w] =
           [units |-> q, target |-> [o \in served |-> orders[o].picked + Take(w, o, q)]]]
  /\ UNCHANGED <<orders, waves, creating, completing>>

\* pick: every item set to its target, or nothing if an order is refused.
CommitPick(w) ==
  /\ picking[w] # None
  /\ LET target == picking[w].target
     IN  /\ \A o \in DOMAIN target : Editable(o)
         /\ orders' = [o \in Order |->
              IF o \in DOMAIN target THEN WithPicked(o, target[o]) ELSE orders[o]]
  /\ picking' = [picking EXCEPT ![w] = None]
  /\ UNCHANGED <<waves, creating, completing>>

AbortPick(w) ==
  /\ picking[w] # None
  /\ picking' = [picking EXCEPT ![w] = None]
  /\ UNCHANGED <<orders, waves, creating, completing>>

-----------------------------------------------------------------------------
(* Completing and cancelling *)

\* Mutated form of Decision: untouched orders are skipped.
DecisionPicked(w, o) ==
  IF orders[o].wave # w \/ orders[o].status \notin Waveable \/ orders[o].picked = 0
  THEN "skip" ELSE "complete"

\* What completing the wave will do to `o`, as it is when the wave is read.
Decision(w, o) ==
  IF orders[o].wave # w \/ orders[o].status \notin Waveable THEN "skip"
  ELSE IF orders[o].picked = 0 THEN "leave" ELSE "complete"

ReadWave(w) ==
  /\ waves[w] = "open" /\ completing[w] = None
  /\ completing' = [completing EXCEPT ![w] = [o \in Order |-> Decision(w, o)]]
  /\ UNCHANGED <<orders, waves, creating, picking>>

\* The next order the completion has to change.
IsNext(w, o) ==
  /\ completing[w] # None
  /\ completing[w][o] # "skip"
  /\ \A k \in 1..(o - 1) : completing[w][k] = "skip"

LeaveWave(w, o) ==
  /\ IsNext(w, o) /\ completing[w][o] = "leave"
  /\ orders' = [orders EXCEPT ![o].wave = None]
  /\ completing' = [completing EXCEPT ![w][o] = "skip"]
  /\ UNCHANGED <<waves, creating, picking>>

CompleteOrder(w, o) ==
  /\ IsNext(w, o) /\ completing[w][o] = "complete"
  /\ CanComplete(o)
  /\ orders' = [orders EXCEPT ![o].status = "completed"]
  /\ completing' = [completing EXCEPT ![w][o] = "skip"]
  /\ UNCHANGED <<waves, creating, picking>>

\* An order cannot be completed any more, or the server stops.
AbortCompletion(w) ==
  /\ completing[w] # None
  /\ completing' = [completing EXCEPT ![w] = None]
  /\ UNCHANGED <<orders, waves, creating, picking>>

\* The row lock of a pick or a cancellation makes the update wait.
CompleteWave(w) ==
  /\ completing[w] # None
  /\ \A o \in Order : completing[w][o] = "skip"
  /\ picking[w] = None
  /\ waves' = [waves EXCEPT ![w] = "completed"]
  /\ completing' = [completing EXCEPT ![w] = None]
  /\ UNCHANGED <<orders, creating, picking>>

CancelWave(w) ==
  /\ LockedOpen(w)
  /\ waves' = [waves EXCEPT ![w] = "cancelled"]
  /\ orders' = [o \in Order |->
       IF orders[o].wave = w THEN [orders[o] EXCEPT !.wave = None] ELSE orders[o]]
  /\ UNCHANGED <<creating, picking, completing>>

WaveStep(w) ==
  \/ \E O \in SUBSET Order : CheckOrders(w, O)
  \/ CreateWave(w)
  \/ \E q \in 1..MaxPick : SplitPick(w, q)
  \/ CommitPick(w) \/ AbortPick(w)
  \/ ReadWave(w) \/ AbortCompletion(w) \/ CompleteWave(w)
  \/ \E o \in Order : LeaveWave(w, o) \/ CompleteOrder(w, o)
  \/ CancelWave(w)

OrderStep(o) ==
  \/ \E n \in 0..Asked[o] : UpdateItem(o, n)
  \/ \E status \in OrderEnded : UpdateStatus(o, status)

Next == (\E w \in Wave : WaveStep(w)) \/ (\E o \in Order : OrderStep(o))

Spec == Init /\ [][Next]_vars

\* The orders of waves are picked through waves alone.
WaveOnlyNext == \E w \in Wave : WaveStep(w)

-----------------------------------------------------------------------------
(* Properties *)

\* Orders, waves and the transactions under way have the values of their
\* tables, and no pick aims above what its item asks for.
WavesTypeOK ==
  /\ orders \in [Order -> [status : Waveable \cup OrderEnded,
                           wave : Wave \cup {None}, picked : Nat]]
  /\ waves \in [Wave -> {"none", "open", "completed", "cancelled"}]
  /\ \A w \in Wave :
       /\ picking[w] # None =>
            \A o \in DOMAIN picking[w].target : picking[w].target[o] \in 1..Asked[o]
       /\ completing[w] # None =>
            completing[w] \in [Order -> {"skip", "leave", "complete"}]
  /\ \A o \in Order : orders[o].picked <= Asked[o]

\* Once a wave is completed, every order still in it is completed or
\* cancelled, although its completion read it before changing anything.
CompletedWaveSettled ==
  \A w \in Wave, o \in Order :
    waves[w] = "completed" /\ orders[o].wave = w => orders[o].status \in OrderEnded

\* No step of a wave, however late, changes the progress of an order that
\* was completed or cancelled in the meantime.
KeepsEnded ==
  \A o \in Order :
    orders[o].status \in OrderEnded =>
      orders'[o].status = orders[o].status /\ orders'[o].picked = orders[o].picked

EndedOrderKept == [][KeepsEnded]_vars

Picked == Total([o \in Order |-> orders[o].picked], NumOrders)

\* The comment of pick: one picked quantity is spread, all or nothing.  So
\* the picked units of the orders grow by exactly that quantity.
PickAdds ==
  \A w \in Wave : picking[w] # None /\ orders' # orders /\ picking'[w] = None
    => Picked' = Picked + picking[w].units

PickAddsItsUnits == [][PickAdds]_vars

\* The refusal of create: only orders that are in no other wave are grouped.
\* So an order never passes from an open wave to another.  The code does not
\* keep it, and no run checks it: two creations find the same order free.
NeverTakenFromWave ==
  [][\A o \in Order :
       LET w == orders[o].wave
       IN  w # None /\ waves[IF w = None THEN CHOOSE v \in Wave : TRUE ELSE w] = "open"
             => orders'[o].wave \in {w, None}]_vars

\* The comment of cancel: the wave is dissolved and its orders can be picked
\* one by one.  So a cancelled wave stays cancelled.  The code does not keep
\* it, and no run checks it: a completion that began before ends the wave.
DissolvedForGood ==
  [][\A w \in Wave : waves[w] = "cancelled" => waves'[w] = "cancelled"]_vars

=============================================================================
