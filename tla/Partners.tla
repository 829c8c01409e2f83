------------------------------ MODULE Partners ------------------------------
(***************************************************************************)
(* Customers and suppliers (partners/partners.service.ts).  An update      *)
(* checks the kinds the partner will have against the row it read, and     *)
(* writes only the kinds it was asked to change.                           *)
(*                                                                         *)
(* Abstracted: every other field (custom fields are in CustomFields).      *)
(***************************************************************************)
EXTENDS FiniteSets, Naturals

CONSTANTS Partner, Kind,
          Request      \* requests that run at the same time

VARIABLES created,   \* the partners there are; none is ever deleted
          kinds,     \* isCustomer and isSupplier of each
          active,    \* those that are active
          doing      \* what each request does

vars == <<created, kinds, active, doing>>

Idle == [stage |-> "idle"]

Init ==
  /\ created = {} /\ active = {}
  /\ kinds = [p \in Partner |-> {}]
  /\ doing = [q \in Request |-> Idle]

\* Mutated form: only an update that takes both kinds away is refused.
NotBothTaken(now, on, off) == off # Kind

\* assertHasKind, of what the partner is and of what the update changes
KeepsKind(now, on, off) == (now \ off) \union on # {}

\* create
Create(p, ks) ==
  /\ p \notin created /\ KeepsKind({}, ks, {})
  /\ created' = created \union {p} /\ active' = active \union {p}
  /\ kinds' = [kinds EXCEPT ![p] = ks]
  /\ UNCHANGED doing

\* update (findById and check)
CheckUpdate(q, p, on, off) ==
  /\ doing[q] = Idle /\ p \in created /\ KeepsKind(kinds[p], on, off)
  /\ doing' = [doing EXCEPT ![q] = [stage |-> "writing", partner |-> p, on |-> on, off |-> off]]
  /\ UNCHANGED <<created, kinds, active>>

\* update (row): a partner is deactivated the same way.
WriteUpdate(q) ==
  LET d == doing[q]
  IN  /\ d.stage = "writing"
      /\ kinds' = [kinds EXCEPT ![d.partner] = (@ \ d.off) \union d.on]
      /\ active' \in {active, active \union {d.partner}, active \ {d.partner}}
      /\ doing' = [doing EXCEPT ![q] = Idle]
      /\ UNCHANGED created

Next ==
  \/ \E p \in Partner, ks \in SUBSET Kind : Create(p, ks)
  \/ \E q \in Request :
       \/ \E p \in Partner, on, off \in SUBSET Kind :
            on \intersect off = {} /\ CheckUpdate(q, p, on, off)
       \/ WriteUpdate(q)

Spec == Init /\ [][Next]_vars

\* One request at a time.
AloneNext == Next /\ Cardinality({q \in Request : doing'[q] # Idle}) <= 1

-----------------------------------------------------------------------------
(* Correctness *)

\* "Marca si es cliente, proveedor o ambos": no update leaves a partner that
\* is neither, and that no list of customers or suppliers shows.
PartnerHasKind ==
  \A p \in created : kinds[p] # {}

=============================================================================
