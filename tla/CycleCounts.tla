---------------------------- MODULE CycleCounts ----------------------------
(***************************************************************************)
(* Cycle counts of one product of a warehouse                              *)
(* (cycle-counts/cycle-counts.service.ts).  A count remembers what the     *)
(* books expected in each place when the line was made, what a person      *)
(* counted there, and on approval applies the difference to the books as   *)
(* they are then.  Places are the locations and the units in none.         *)
(*                                                                         *)
(* The books alone cannot tell whether that is right, so the model also    *)
(* keeps what is really in each place: units get lost and turn up without  *)
(* the service, every other movement is booked as it happens, and a person *)
(* counts what is there.                                                   *)
(*                                                                         *)
(* The lines of a count that ended are never read again and are forgotten. *)
(*                                                                         *)
(* Abstracted: the lots of counted units (LotStock models entering and     *)
(* leaving lots), full locations, and what hides expected quantities from  *)
(* the counters of a blind count.                                          *)
(***************************************************************************)
EXTENDS Shelves, SequencesExt

CONSTANTS Count, MaxUnits,
          MaxSurprises   \* bound: units that get lost or turn up

\* What an instance has to give its constants.
CountsAssumption == MaxUnits \in Nat /\ MaxSurprises \in Nat

VARIABLES books,      \* warehouse_stock and location_stock
          real,       \* the units that are in each place
          surprises,
          counts

vars == <<books, real, surprises, counts>>

Place == Location \union {NoLocation}

Unlocated(b) == UnlocatedQuantity(b.onHand, b.picked, b.loc)

Booked(b, p) == IF p = NoLocation THEN Unlocated(b) ELSE b.loc[p]

Available == books.onHand - books.reserved

NotCounted == -1

\* A line of a count, or none.  `moved` and `exact` are not stored: units were
\* moved in this place since the line was made, and the counted quantity is
\* what the books should hold there.
NoLine == [made |-> FALSE, expected |-> 0, counted |-> NotCounted,
           moved |-> FALSE, exact |-> FALSE]

NoLines == [p \in Place |-> NoLine]

\* `read` is the units outside picks that a request read before it reads the
\* locations, and `reading` what it makes of them.
NoCount == [status |-> "none", lines |-> NoLines, reading |-> "nothing", read |-> 0]

Init ==
  /\ books = [onHand |-> 0, reserved |-> 0, picked |-> 0, loc |-> NoUnits]
  /\ real = [p \in Place |-> 0]
  /\ surprises = 0
  /\ counts = [c \in Count |-> NoCount]

-----------------------------------------------------------------------------
(* Units move, and the lines made before know nothing of it *)

Disturbed(c, P) ==
  LET touched == IF counts[c].reading = "nothing" THEN P ELSE Place
  IN  [counts[c] EXCEPT !.lines =
        [p \in Place |-> IF p \in touched THEN [@[p] EXCEPT !.moved = TRUE] ELSE @[p]]]

Disturb(P) == counts' = [c \in Count |-> Disturbed(c, P)]

\* registerMovement (increase), and receipts
Receive(p) ==
  /\ books.onHand < MaxUnits
  /\ books' = [books EXCEPT !.onHand = @ + 1, !.loc = PutAway(@, p, 1)]
  /\ real' = [real EXCEPT ![p] = @ + 1]
  /\ Disturb({p})
  /\ UNCHANGED surprises

\* registerMovement (decrease): the units are there to be taken.
Withdraw(p) ==
  /\ Available >= 1 /\ Booked(books, p) >= 1 /\ real[p] >= 1
  /\ books' = [books EXCEPT !.onHand = @ - 1, !.loc = Taken(@, 1, p)]
  /\ real' = [real EXCEPT ![p] = @ - 1]
  /\ Disturb({p})
  /\ UNCHANGED surprises

\* relocate
Relocate(p, q) ==
  /\ p # q /\ Booked(books, p) >= 1 /\ real[p] >= 1
  /\ books' = [books EXCEPT !.loc = PutAway(Taken(@, 1, p), q, 1)]
  /\ real' = [real EXCEPT ![p] = @ - 1, ![q] = @ + 1]
  /\ Disturb({p, q})
  /\ UNCHANGED surprises

\* settleReservations and movePickedUnits of a picking
Reserve ==
  /\ Available >= 1
  /\ books' = [books EXCEPT !.reserved = @ + 1]
  /\ UNCHANGED <<real, surprises, counts>>

Pick(p) ==
  /\ books.picked < books.reserved /\ Booked(books, p) >= 1 /\ real[p] >= 1
  /\ books' = [books EXCEPT !.picked = @ + 1, !.loc = Taken(@, 1, p)]
  /\ real' = [real EXCEPT ![p] = @ - 1]
  /\ Disturb({p})
  /\ UNCHANGED surprises

\* What nobody books: a quantity counted before it is out of date.
Surprise(p, d) ==
  /\ surprises < MaxSurprises
  /\ real[p] + d \in 0..MaxUnits
  /\ real' = [real EXCEPT ![p] = @ + d]
  /\ surprises' = surprises + 1
  /\ counts' = [c \in Count |-> [counts[c] EXCEPT !.lines[p].exact = FALSE]]
  /\ UNCHANGED books

-----------------------------------------------------------------------------
(* Making lines *)

Made(expected) == [NoLine EXCEPT !.made = TRUE, !.expected = expected]

\* Locked by lockCount in a status, with no request of its own under way.
Locked(c, S) == counts[c].status \in S /\ counts[c].reading = "nothing"

\* create (by locations): a line for each location that holds units.
CreateByLocation(c, L) ==
  /\ Locked(c, {"none"})
  /\ counts' = [counts EXCEPT ![c] = [NoCount EXCEPT !.status = "open",
       !.lines = [p \in Place |->
         IF p \in L /\ books.loc[p] > 0 THEN Made(books.loc[p]) ELSE NoLine]]]
  /\ UNCHANGED <<books, real, surprises>>

\* create (by products) and addLine (no location) read warehouse_stock, and
\* then location_stock, with no lock on either.
ReadStock(c, request) ==
  /\ \/ request = "create" /\ Locked(c, {"none"})
     \/ request = "add" /\ Locked(c, {"open"}) /\ ~counts[c].lines[NoLocation].made
  /\ counts' = [counts EXCEPT ![c].reading = request,
                              ![c].read = books.onHand - books.picked,
                              ![c].lines[NoLocation].moved = FALSE]
  /\ UNCHANGED <<books, real, surprises>>

ReadUnlocated(c) == counts[c].read - LocatedQuantity(books.loc)

\* create (by products): a line for each location that holds units of the
\* product, and one for the units in none.
CreateByProduct(c) ==
  /\ counts[c].reading = "create"
  /\ counts' = [counts EXCEPT ![c] = [NoCount EXCEPT !.status = "open",
       !.lines = [p \in Place |->
         IF p = NoLocation
         THEN [Made(ReadUnlocated(c)) EXCEPT !.moved = counts[c].lines[NoLocation].moved]
         ELSE IF books.loc[p] > 0 THEN Made(books.loc[p]) ELSE NoLine]]]
  /\ UNCHANGED <<books, real, surprises>>

Counted(line, q) == [line EXCEPT !.counted = q, !.exact = ~line.moved]

\* addLine: with the counted quantity, in a place that has no line yet.
AddLine(c, p) ==
  /\ ~counts[c].lines[p].made
  /\ \/ p # NoLocation /\ Locked(c, {"open"})
     \/ p = NoLocation /\ counts[c].reading = "add"
  /\ LET line == IF p = NoLocation
                 THEN [Made(ReadUnlocated(c)) EXCEPT !.moved = counts[c].lines[p].moved]
                 ELSE Made(books.loc[p])
     IN  counts' = [counts EXCEPT ![c].lines[p] = Counted(line, real[p]),
                                  ![c].reading = "nothing", ![c].read = 0]
  /\ UNCHANGED <<books, real, surprises>>

-----------------------------------------------------------------------------
(* Counting *)

\* recordCount: any number of times while the count is open.
RecordCount(c, p) ==
  /\ Locked(c, {"open"}) /\ counts[c].lines[p].made
  /\ counts' = [counts EXCEPT ![c].lines[p] = Counted(@, real[p])]
  /\ UNCHANGED <<books, real, surprises>>

Complete(c) ==
  \A p \in Place : counts[c].lines[p].made => counts[c].lines[p].counted # NotCounted

\* submit
Submit(c) ==
  /\ Locked(c, {"open"}) /\ Complete(c)
  /\ counts' = [counts EXCEPT ![c].status = "submitted"]
  /\ UNCHANGED <<books, real, surprises>>

Reopen(c) ==
  /\ Locked(c, {"submitted"})
  /\ counts' = [counts EXCEPT ![c].status = "open"]
  /\ UNCHANGED <<books, real, surprises>>

Cancel(c) ==
  /\ Locked(c, {"open", "submitted"})
  /\ counts' = [counts EXCEPT ![c] = [NoCount EXCEPT !.status = "cancelled"]]
  /\ UNCHANGED <<books, real, surprises>>

Difference(line) == line.counted - line.expected

\* Mutated form: units that orders reserved are written off.
CanAdjustReserved(b, p, d) == d < 0 => CanTake(b.onHand, b.picked, b.loc, -d, p)

\* Mutated form: any units of the warehouse cover the shortage of a place.
CanAdjustAvailable(b, p, d) == d < 0 => b.onHand - b.reserved >= -d

\* adjust: the refusals of a shortage ...
CanAdjust(b, p, d) ==
  d < 0 => /\ b.onHand - b.reserved >= -d
           /\ CanTake(b.onHand, b.picked, b.loc, -d, p)

\* Mutated form: the place is set to the counted quantity.
AdjustTo(b, p, d, counted) ==
  [b EXCEPT !.onHand = @ + d,
            !.loc = IF p = NoLocation THEN @ ELSE [@ EXCEPT ![p] = counted]]

\* ... and what a line does to the books.
Adjust(b, p, d, counted) ==
  [b EXCEPT !.onHand = @ + d,
            !.loc = IF d > 0 THEN PutAway(@, p, d) ELSE Taken(@, -d, p)]

\* approve: every line with a difference, one after the other in the order the
\* database returned them, all or none.
Approve(c) ==
  /\ Locked(c, {"submitted"})
  /\ LET line(p) == counts[c].lines[p]
         changes == {p \in Place : line(p).made /\ Difference(line(p)) # 0}
     IN  /\ \E order \in SetToSeqs(changes) :
              LET after[i \in 0..Len(order)] ==
                    IF i = 0 THEN books
                    ELSE Adjust(after[i - 1], order[i], Difference(line(order[i])),
                                line(order[i]).counted)
              IN  /\ \A i \in DOMAIN order :
                       CanAdjust(after[i - 1], order[i], Difference(line(order[i])))
                  /\ books' = after[Len(order)]
         /\ counts' = [k \in Count |->
              IF k = c THEN [NoCount EXCEPT !.status = "approved"]
              ELSE [counts[k] EXCEPT !.lines = [p \in Place |->
                      IF p \in changes \/ (changes # {} /\ counts[k].reading # "nothing")
                      THEN [@[p] EXCEPT !.moved = TRUE, !.exact = FALSE] ELSE @[p]]]]
  /\ UNCHANGED <<real, surprises>>

Next ==
  \/ \E p \in Place :
       \/ Receive(p) \/ Withdraw(p) \/ Pick(p)
       \/ \E q \in Place : Relocate(p, q)
       \/ \E d \in {-1, 1} : Surprise(p, d)
  \/ Reserve
  \/ \E c \in Count :
       \/ \E L \in SUBSET Location \ {{}} : CreateByLocation(c, L)
       \/ \E request \in {"create", "add"} : ReadStock(c, request)
       \/ CreateByProduct(c)
       \/ \E p \in Place : AddLine(c, p) \/ RecordCount(c, p)
       \/ Submit(c) \/ Reopen(c) \/ Cancel(c) \/ Approve(c)

Spec == Init /\ [][Next]_vars

-----------------------------------------------------------------------------
(* Correctness *)

\* Type invariant, with what the database checks of stock rows: no adjustment
\* leaves a quantity negative.
CountsTypeOK ==
  /\ books \in [onHand : Nat, reserved : Nat, picked : Nat, loc : [Location -> Nat]]
  /\ real \in [Place -> Nat] /\ surprises \in 0..MaxSurprises
  /\ counts \in [Count ->
       [status : {"none", "open", "submitted", "approved", "cancelled"},
        lines : [Place -> [made : BOOLEAN, expected : Int, counted : Nat \union {NotCounted},
                           moved : BOOLEAN, exact : BOOLEAN]],
        reading : {"nothing", "create", "add"}, read : Nat]]

\* No count takes a unit that an order reserved, or puts more units in
\* locations than are on the shelves.
CountsKeepStock ==
  /\ books.picked <= books.reserved /\ books.reserved <= books.onHand
  /\ Unlocated(books) >= 0

\* A count that is approved makes the books right in every place where no unit
\* moved between the line and its counting, and that nothing unbooked or no
\* other count changed after; units that are booked after the counting may.
Corrects ==
  \A c \in Count :
    counts[c].status = "submitted" /\ counts'[c].status = "approved" =>
      \A p \in Place :
        counts[c].lines[p].made /\ counts[c].lines[p].exact => Booked(books', p) = real'[p]

CountCorrects == [][Corrects]_vars

\* "the expected quantity is what the system has now": it is a quantity.  The
\* code does not keep it, and no run checks it: units that are put in a location
\* between the two reads are subtracted and were not counted.
ExpectedIsAQuantity ==
  \A c \in Count, p \in Place : counts[c].lines[p].expected >= 0

=============================================================================
