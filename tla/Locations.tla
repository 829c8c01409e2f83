----------------------------- MODULE Locations -----------------------------
(***************************************************************************)
(* The tree of locations of a warehouse (locations/locations.service.ts)   *)
(* and the units stored in it (stock/location-stock.ts).  The service runs *)
(* its checks in statements of their own and writes in a later one: a      *)
(* request that passed its checks is in `requests` until it writes, and    *)
(* what it checked may be out of date by then.                             *)
(*                                                                         *)
(* Units move in transactions, of a receipt, a pick, a count, a transfer,  *)
(* an adjustment or an import of opening balances: line after line locks   *)
(* the stock row of its product, for the rest of the transaction, and puts *)
(* units away or takes them.  Until the commit only the transaction itself *)
(* sees them, its own capacity checks included.                            *)
(*                                                                         *)
(* Abstracted: codes, names, custom fields, the type and the pick sequence *)
(* of a location, and capacities that are changed; every location is       *)
(* storable and active.  The lines of a transaction come in any order.     *)
(***************************************************************************)
EXTENDS Totals, FiniteSets

CONSTANTS Location, Root,    \* Root: no parent
          NumProducts,
          Capacity,          \* units a location takes
          MaxDepth,          \* MAX_DEPTH
          MaxUnits,          \* bound: units of a line
          MaxRequests        \* bound: requests and transactions under way

\* What an instance has to give its constants.
LocationsAssumption ==
  /\ Root \notin Location
  /\ {NumProducts, Capacity, MaxDepth, MaxUnits, MaxRequests} \subseteq Nat

VARIABLES parent,     \* of each location that exists
          units,      \* location_stock: what each product has in each location
          requests    \* requests between their checks and their write, and
                \* transactions before their commit

vars == <<parent, units, requests>>

Product == 1..NumProducts

Existing == DOMAIN parent

Sum(column) == Total(column, NumProducts)

Used(l) == Sum([p \in Product |-> units[p][l]])

Open == {r \in requests : r.kind = "stock"}

Init ==
  /\ parent = <<>>
  /\ units = [p \in Product |-> [l \in Location |-> 0]]
  /\ requests = {}

-----------------------------------------------------------------------------
(* The tree *)

\* ancestors: the path that starts at a location, read one by one, at most
\* MaxDepth of them.
Ancestors(l) ==
  LET walk[n \in 0..MaxDepth] ==
        IF n = 0 THEN l
        ELSE IF walk[n - 1] \in Existing THEN parent[walk[n - 1]] ELSE Root
  IN  {walk[n] : n \in 0..(MaxDepth - 1)} \ {Root}

\* create: the parent exists, which the foreign key also sees to.
Create(l, p) ==
  /\ l \notin Existing /\ p \in Existing \union {Root}
  /\ parent' = [k \in Existing \union {l} |-> IF k = l THEN p ELSE parent[k]]
  /\ UNCHANGED <<units, requests>>

Asked(request) ==
  /\ Cardinality(requests) < MaxRequests /\ request \notin requests
  /\ requests' = requests \union {request}
  /\ UNCHANGED <<parent, units>>

\* Mutated form: only the new parent itself is compared.
NotItself(l, p) == l # p

\* assertNotDescendant
NotDescendant(l, p) == l \notin {p} \union Ancestors(p)

\* update (checks): moving to the root checks nothing.
CheckMove(l, p) ==
  /\ l \in Existing
  /\ p = Root \/ (p \in Existing /\ NotDescendant(l, p))
  /\ Asked([kind |-> "move", location |-> l, parent |-> p])

\* Mutated form: nothing refers to the locations table.
NoForeignKey(r) == TRUE

\* An update of a row that is gone, or a row that refers to it, is an error.
StillThere(r) == r.location \in Existing

\* update (write): a location or a parent that is gone by now is an error.
WriteMove(r) ==
  /\ r.kind = "move"
  /\ parent' = IF StillThere(r) /\ r.parent \in Existing \union {Root}
               THEN [parent EXCEPT ![r.location] = r.parent] ELSE parent
  /\ requests' = requests \ {r}
  /\ UNCHANGED units

Children(l) == {k \in Existing : parent[k] = l}

\* Mutated form: stock alone keeps a location.
EmptyOfStock(l) == Used(l) = 0

Empty(l) == Children(l) = {} /\ Used(l) = 0

\* delete (checks)
CheckDelete(l) ==
  /\ l \in Existing /\ Empty(l)
  /\ Asked([kind |-> "delete", location |-> l])

\* Mutated form: location_stock does not refer to the locations.
NotReferred(l) == FALSE

\* Rows of location_stock that are not committed keep their location.
Referred(l) == \E t \in Open, p \in Product : t.moved[p][l] # 0

\* delete (write): the rows of its stock go with it and the locations inside
\* become top-level ones.
WriteDelete(r) ==
  /\ r.kind = "delete" /\ ~Referred(r.location)
  /\ parent' = [k \in Existing \ {r.location} |->
                  IF parent[k] = r.location THEN Root ELSE parent[k]]
  /\ units' = [p \in Product |-> [units[p] EXCEPT ![r.location] = 0]]
  /\ requests' = requests \ {r}

-----------------------------------------------------------------------------
(* The stock *)

\* A transaction by the product of its first line, the products whose stock
\* rows it has locked, and what it has moved.
Started(p) ==
  [kind |-> "stock", first |-> p, locked |-> {},
   moved |-> [k \in Product |-> [l \in Location |-> 0]]]

\* Mutated form: the stock row of the product is not locked.
Unlocked(t, p) == TRUE

Lockable(t, p) == \A other \in Open \ {t} : p \notin other.locked

Line(t, p, l, change) ==
  /\ t \in Open \/ (t = Started(p) /\ Cardinality(requests) < MaxRequests)
  /\ Lockable(t, p)
  /\ requests' = (requests \ {t}) \union
                    {[kind |-> "stock", first |-> t.first, locked |-> t.locked \union {p},
                      moved |-> [t.moved EXCEPT ![p][l] = @ + change]]}
  /\ UNCHANGED <<parent, units>>

\* Mutated form: the capacity is read outside of the transaction.
CommittedUsed(t, l) == Used(l)

\* What a transaction sees in a location.
SeenUsed(t, l) == Used(l) + Sum([p \in Product |-> t.moved[p][l]])

\* putAway.  A deletion between its check and its upsert is refused by the
\* foreign key and ends the transaction, as Rollback does.
PutAway(t, p, l, q) ==
  /\ l \in Existing /\ SeenUsed(t, l) + q <= Capacity
  /\ Line(t, p, l, q)

\* takeFromLocation
TakeFromLocation(t, p, l, q) ==
  /\ l \in Existing /\ q <= units[p][l] + t.moved[p][l]
  /\ Line(t, p, l, -q)

\* The last line of the transaction is done.
Commit(t) ==
  /\ t.kind = "stock"
  /\ units' = [p \in Product |-> [l \in Location |-> units[p][l] + t.moved[p][l]]]
  /\ requests' = requests \ {t}
  /\ UNCHANGED parent

\* A line is refused, and with it the whole receipt or the whole file.
Rollback(t) ==
  /\ t.kind = "stock"
  /\ requests' = requests \ {t}
  /\ UNCHANGED <<parent, units>>

-----------------------------------------------------------------------------

MoveUnits(t, p) ==
  \E l \in Location, q \in 1..MaxUnits :
    PutAway(t, p, l, q) \/ TakeFromLocation(t, p, l, q)

Change ==
  \/ \E l \in Location :
       \/ \E p \in Location \union {Root} : Create(l, p) \/ CheckMove(l, p)
       \/ CheckDelete(l)
  \/ \E p \in Product : MoveUnits(Started(p), p)

Write ==
  \/ \E r \in requests : WriteMove(r) \/ WriteDelete(r) \/ Commit(r) \/ Rollback(r)
  \/ \E t \in Open, p \in Product : MoveUnits(t, p)

Next == Change \/ Write

Spec == Init /\ [][Next]_vars

\* Nothing else happens between the checks of a request and its write, or
\* while a transaction is open.
UndisturbedNext == Write \/ (requests = {} /\ Change)

-----------------------------------------------------------------------------
(* Correctness *)

\* Type invariant: the parent of a location exists and nothing is stored in a
\* location that does not.
LocationsTypeOK ==
  /\ Existing \subseteq Location
  /\ \A l \in Existing : parent[l] \in Existing \union {Root}
  /\ units \in [Product -> [Location -> Nat]]
  /\ \A l \in Location \ Existing : Used(l) = 0

\* "Capacity is checked across products without locking them, so concurrent
\* put-aways may exceed it slightly" (putAway), made exact.  A transaction
\* fills a location up in its own view only, and there are as many of them as
\* products they can lock: once the capacity for each product, no more.
FilledOncePerProduct == \A l \in Location : Used(l) <= NumProducts * Capacity

\* The locations above a location, of which a tree has none twice.
Above(l) ==
  LET walk[n \in 0..Cardinality(Location)] ==
        IF n = 0 THEN parent[l]
        ELSE IF walk[n - 1] = Root THEN Root ELSE parent[walk[n - 1]]
  IN  {walk[n] : n \in DOMAIN walk}

\* "Una ubicación no puede quedar dentro de sí misma"
NeverInsideItself == \A l \in Existing : l \notin Above(l)

Delete(r) == r.kind = "delete" /\ r \notin requests'

\* "La ubicación tiene N unidades. Muévelas antes de eliminarla." and "La
\* ubicación tiene ubicaciones internas": the location that a delete removes
\* holds no units and no locations.
DeletesEmpty ==
  \A r \in requests : Delete(r) => Children(r.location) = {} /\ Used(r.location) = 0

OnlyEmptyDeleted == [][DeletesEmpty]_vars

\* The stock half of it: a deletion loses no unit of a location.  The code does
\* not keep it beside other requests, and no run checks it then: units can be
\* put away between the check and the deletion.
NoUnitsDeleted ==
  [][\A r \in requests : Delete(r) => Used(r.location) = 0]_vars

=============================================================================
