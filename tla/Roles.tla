-------------------------------- MODULE Roles --------------------------------
(***************************************************************************)
(* The roles a company defines (roles/roles.service.ts), given to its      *)
(* users by users/users.service.ts and by an invitation                    *)
(* (invitations/invitations.service.ts), over the foreign keys of          *)
(* prisma/schema.prisma.  A request checks in statements of its own and    *)
(* writes later.                                                           *)
(*                                                                         *)
(* A user without such a role has the permissions of its base role.        *)
(* Abstracted: names, permissions, base roles; a person has at most one    *)
(* pending invitation and seats are free (see Seats).                      *)
(***************************************************************************)
EXTENDS Naturals, FiniteSets

CONSTANTS Role, Person,
          NoRole,      \* customRoleId null
          Request      \* requests that run at the same time

\* What an instance has to give its constants.
RolesAssumption == NoRole \notin Role

VARIABLES roles,     \* of each role: not made yet, there, or deleted
          users,     \* people who are users
          invited,   \* people with a pending invitation
          roleOf,    \* customRoleId of each user
          offered,   \* customRoleId of each invitation
          doing      \* what each request does

vars == <<roles, users, invited, roleOf, offered, doing>>

Idle == [stage |-> "idle"]

Init ==
  /\ roles = [r \in Role |-> "new"]
  /\ users = {} /\ invited = {}
  /\ roleOf = [u \in Person |-> NoRole] /\ offered = roleOf
  /\ doing = [q \in Request |-> Idle]

End(q) == doing' = [doing EXCEPT ![q] = Idle]

There == {r \in Role : roles[r] = "there"}

\* create
CreateRole(r) ==
  /\ roles[r] = "new"
  /\ roles' = [roles EXCEPT ![r] = "there"]
  /\ UNCHANGED <<users, invited, roleOf, offered, doing>>

\* assertCustomRoleExists and assertReferencesExist: a role of the company.
FindRole(q, stage, u, r) ==
  /\ doing[q] = Idle
  /\ r \in There \union {NoRole}
  /\ doing' = [doing EXCEPT ![q] = [stage |-> stage, person |-> u, role |-> r]]
  /\ UNCHANGED <<roles, users, invited, roleOf, offered>>

\* Mutated form: customRoleId is a column without a foreign key.
AnyRole(r) == TRUE

\* The foreign keys on customRoleId of users and user_invitations.
Referable(r) == r \in There \union {NoRole}

\* create and update of the user: the row, or an error of the foreign key.
WriteUser(q) ==
  LET d == doing[q]
  IN  /\ d.stage = "giving"
      /\ IF Referable(d.role)
         THEN /\ users' = users \union {d.person}
              /\ roleOf' = [roleOf EXCEPT ![d.person] = d.role]
         ELSE UNCHANGED <<users, roleOf>>
      /\ End(q)
      /\ UNCHANGED <<roles, invited, offered>>

\* invite (row)
WriteInvitation(q) ==
  LET d == doing[q]
  IN  /\ d.stage = "inviting"
      /\ IF Referable(d.role)
         THEN /\ invited' = invited \union {d.person}
              /\ offered' = [offered EXCEPT ![d.person] = d.role]
         ELSE UNCHANGED <<invited, offered>>
      /\ End(q)
      /\ UNCHANGED <<roles, users, roleOf>>

\* accept (findValidByToken)
FindInvitation(q, u) ==
  /\ doing[q] = Idle /\ u \in invited
  /\ doing' = [doing EXCEPT ![q] = [stage |-> "accepting", person |-> u, role |-> offered[u]]]
  /\ UNCHANGED <<roles, users, invited, roleOf, offered>>

\* accept (transaction): with the role that was read; the email address of a
\* user is unique.
Accept(q) ==
  LET d == doing[q]
  IN  /\ d.stage = "accepting"
      /\ IF d.person \in invited \ users /\ Referable(d.role)
         THEN /\ invited' = invited \ {d.person}
              /\ users' = users \union {d.person}
              /\ roleOf' = [roleOf EXCEPT ![d.person] = d.role]
         ELSE UNCHANGED <<invited, users, roleOf>>
      /\ End(q)
      /\ UNCHANGED <<roles, offered>>

\* Mutated form: users are not counted.
Deletable(r) == r \in There

\* _count.users: invitations are not counted.
Unassigned(r) == r \in There /\ \A u \in users : roleOf[u] # r

\* delete (check)
CheckDelete(q, r) ==
  /\ doing[q] = Idle /\ Unassigned(r)
  /\ doing' = [doing EXCEPT ![q] = [stage |-> "deleting", role |-> r]]
  /\ UNCHANGED <<roles, users, invited, roleOf, offered>>

\* Mutated form: the rows that refer to the role stay as they are.
Kept(assigned, r) == assigned

\* ON DELETE SET NULL
SetNull(assigned, r) ==
  [u \in Person |-> IF assigned[u] = r THEN NoRole ELSE assigned[u]]

\* delete (row): a role that is gone is an error.
DeleteRole(q) ==
  LET r == doing[q].role
  IN  /\ doing[q].stage = "deleting"
      /\ roles' = [roles EXCEPT ![r] = "deleted"]
      /\ roleOf' = SetNull(roleOf, r) /\ offered' = SetNull(offered, r)
      /\ End(q)
      /\ UNCHANGED <<users, invited>>

Next ==
  \/ \E r \in Role : CreateRole(r)
  \/ \E q \in Request :
       \/ \E u \in Person, r \in Role \union {NoRole} :
            \/ FindRole(q, "giving", u, r)
            \/ u \notin users /\ FindRole(q, "inviting", u, r)
       \/ WriteUser(q) \/ WriteInvitation(q) \/ Accept(q)
       \/ \E u \in Person : FindInvitation(q, u)
       \/ \E r \in Role : CheckDelete(q, r)
       \/ DeleteRole(q)

Spec == Init /\ [][Next]_vars

\* One request at a time.
AloneNext == Next /\ Cardinality({q \in Request : doing'[q] # Idle}) <= 1

-----------------------------------------------------------------------------
(* Correctness *)

\* Type invariant: no user and no invitation refers to a role that is not
\* there, whatever is deleted between a check and the write that follows it.
RolesTypeOK ==
  /\ roles \in [Role -> {"new", "there", "deleted"}]
  /\ users \subseteq Person /\ invited \subseteq Person
  /\ \A u \in Person : {roleOf[u], offered[u]} \subseteq There \union {NoRole}

\* "Eliminar rol personalizado sin usuarios asignados": nobody falls back to the
\* permissions of a base role because a role was deleted.
KeepsRoleInUse == \A u \in users : roleOf[u] # NoRole => roles'[roleOf[u]] = "there"

RoleInUseKept == [][KeepsRoleInUse]_vars

=============================================================================
