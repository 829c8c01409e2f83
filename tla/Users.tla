------------------------------- MODULE Users -------------------------------
(***************************************************************************)
(* The users of a company and its administrators (users/users.service.ts). *)
(* An update reads the user it is about, decides from what it read whether *)
(* the company loses an administrator, and only then begins a transaction, *)
(* which locks the administrators it finds, counts the others and writes.  *)
(*                                                                         *)
(* Abstracted: names, warehouses, custom roles and passwords; the plan's   *)
(* limits and the invitations are in Seats, the sessions in Sessions.      *)
(***************************************************************************)
EXTENDS Naturals

CONSTANTS User, Request    \* Request: requests that run at the same time

VARIABLES role, active,    \* of each user
          doing            \* what each request does

vars == <<role, active, doing>>

Idle == [stage |-> "idle"]

Admins == {u \in User : role[u] = "admin" /\ active[u]}

\* A company begins with one administrator (createTenant), who creates others.
Init ==
  /\ role \in [User -> {"admin", "operator"}]
  /\ active \in [User -> BOOLEAN]
  /\ Admins # {}
  /\ doing = [q \in Request |-> Idle]

\* A column that is not sent keeps its value.
Change == [role : {"admin", "operator", "kept"}, active : {"yes", "no", "kept"}]

\* update (checks): nobody deactivates himself or takes his own role away.
Read(q, actor, u, change) ==
  LET deactivates == change.active = "no"
      demotes == role[u] = "admin" /\ change.role = "operator"
  IN  /\ doing[q] = Idle /\ active[actor]
      /\ actor = u => ~deactivates /\ ~demotes
      /\ doing' = [doing EXCEPT ![q] =
           [stage |-> IF u \in Admins /\ (deactivates \/ demotes) THEN "asked" ELSE "cleared",
            user |-> u, change |-> change, locked |-> {}]]
      /\ UNCHANGED <<role, active>>

\* Mutated form: a lock does not keep others out.
Unlocked(users) == TRUE

\* FOR UPDATE: rows that another transaction has locked are waited for.
Lockable(users) ==
  \A q \in Request : doing[q] # Idle => doing[q].locked \intersect users = {}

\* Mutated form: the administrators are counted without a lock.
NobodyLocked == {}

LockedAdmins == Admins

\* update (transaction): the administrators are locked and the others counted.
CountAdmins(q) ==
  /\ doing[q].stage = "asked" /\ Lockable(Admins)
  /\ doing' = [doing EXCEPT ![q] =
       IF Admins \ {@.user} = {} THEN Idle
       ELSE [@ EXCEPT !.stage = "cleared", !.locked = LockedAdmins]]
  /\ UNCHANGED <<role, active>>

\* update (transaction): only the columns that were sent are written.
Write(q) ==
  LET d == doing[q]
  IN  /\ d.stage = "cleared"
      /\ \A p \in Request \ {q} : doing[p] # Idle => d.user \notin doing[p].locked
      /\ role' = IF d.change.role = "kept" THEN role
                 ELSE [role EXCEPT ![d.user] = d.change.role]
      /\ active' = IF d.change.active = "kept" THEN active
                   ELSE [active EXCEPT ![d.user] = (d.change.active = "yes")]
      /\ doing' = [doing EXCEPT ![q] = Idle]

Next ==
  \E q \in Request :
    \/ \E actor, u \in User, change \in Change : Read(q, actor, u, change)
    \/ CountAdmins(q) \/ Write(q)

Spec == Init /\ [][Next]_vars

\* Nobody becomes an administrator, or one again, beside other requests.
AloneNext ==
  Next /\ (Admins' \subseteq Admins \/ \A q \in Request : doing'[q] = Idle)

-----------------------------------------------------------------------------
(* Correctness *)

\* Type invariant: what is locked is locked once.
UsersTypeOK ==
  /\ role \in [User -> {"admin", "operator"}] /\ active \in [User -> BOOLEAN]
  /\ \A p, q \in Request :
       p # q /\ doing[p] # Idle /\ doing[q] # Idle =>
         doing[p].locked \intersect doing[q].locked = {}

\* "Debe quedar al menos un administrador activo": administrators who take each
\* other's role away at the same time, and those who deactivate each other,
\* leave one.
AdminRemains == Admins # {}

=============================================================================
