------------------------------- MODULE Seats -------------------------------
(***************************************************************************)
(* How a company gets its users: invitations                               *)
(* (invitations/invitations.service.ts) and users created by hand          *)
(* (users/users.service.ts), within the limit of its plan                  *)
(* (tenancy/plan-limits.service.ts).  A request reads invitations and      *)
(* checks the limit in statements of its own and writes later.             *)
(*                                                                         *)
(* A user is found by the email address, which is unique and can be        *)
(* changed.  Abstracted: roles and the administrator that must be left     *)
(* (see Users), tokens (an invitation has one that is usable until it      *)
(* expires, resending renews both), the delivery of the message, suspended *)
(* companies, and addresses that differ only in upper and lower case.      *)
(***************************************************************************)
EXTENDS Naturals, FiniteSets

CONSTANTS Email,
          Request,          \* requests that run at the same time
          Limit,            \* resolveLimits(...).users
          MaxInvitations    \* bound: invitations ever made

\* What an instance has to give its constants.
SeatsAssumption == Limit \in Nat \ {0} /\ MaxInvitations \in Nat

VARIABLES users,        \* by address: no user, an active or an inactive one
          cameBy,       \* history: the invitation that made the user, 0 if none
          invitations,  \* the rows, by number: email, accepted, expired
          made,         \* invitations made so far
          doing         \* what each request does

vars == <<users, cameBy, invitations, made, doing>>

Idle == [stage |-> "idle"]

Active == {e \in Email : users[e] = "active"}

Init ==
  /\ users \in [Email -> {"none", "active"}] /\ Cardinality(Active) = 1
  /\ cameBy = [e \in Email |-> 0]
  /\ invitations = <<>>
  /\ made = 0
  /\ doing = [q \in Request |-> Idle]

\* Mutated form: one too many is noticed.
SeatFreeOrLast == Cardinality(Active) <= Limit

\* assertCanCreate
SeatFree == Cardinality(Active) < Limit

Existing == DOMAIN invitations

Pending == {i \in Existing : ~invitations[i].accepted}

PendingOf(e) == {i \in Pending : invitations[i].email = e}

Without(numbers) == [i \in Existing \ numbers |-> invitations[i]]

WithExpired(i, expired) == [invitations EXCEPT ![i].expired = expired]

\* A request, and whether the invitation that it accepts had expired when read.
Start(q, stage, e, i, expired) ==
  /\ doing[q] = Idle
  /\ doing' = [doing EXCEPT ![q] =
       [stage |-> stage, email |-> e, invitation |-> i, expired |-> expired]]

Continue(q, stage) == doing' = [doing EXCEPT ![q].stage = stage]

End(q) == doing' = [doing EXCEPT ![q] = Idle]

\* A request that ends early: refused (a username that is taken), or failed.
GiveUp(q) ==
  /\ doing[q] # Idle /\ End(q)
  /\ UNCHANGED <<users, cameBy, invitations, made>>

-----------------------------------------------------------------------------
(* Invitations *)

\* invite (checks)
CheckInvite(q, e) ==
  /\ users[e] = "none" /\ SeatFree
  /\ Start(q, "inviting", e, 0, FALSE)
  /\ UNCHANGED <<users, cameBy, invitations, made>>

\* Mutated form: also the invitations that were accepted.
AllOf(e) == {i \in Existing : invitations[i].email = e}

\* Mutated form: an invitation of the person stays.
NoneReplaced(e) == {}

Replaced(e) == PendingOf(e)

\* invite (deleteMany)
DropPending(q) ==
  /\ doing[q].stage = "inviting"
  /\ invitations' = Without(Replaced(doing[q].email))
  /\ Continue(q, "replacing")
  /\ UNCHANGED <<users, cameBy, made>>

\* invite (row)
CreateInvitation(q) ==
  /\ doing[q].stage = "replacing" /\ made < MaxInvitations
  /\ made' = made + 1
  /\ invitations' = [i \in Existing \union {made'} |->
       IF i = made' THEN [email |-> doing[q].email, accepted |-> FALSE, expired |-> FALSE]
       ELSE invitations[i]]
  /\ End(q)
  /\ UNCHANGED <<users, cameBy>>

\* resend (findPendingById)
CheckResend(q, i) ==
  /\ i \in Pending
  /\ Start(q, "resending", invitations[i].email, i, FALSE)
  /\ UNCHANGED <<users, cameBy, invitations, made>>

\* resend (row): an expired invitation is good again, and one that was accepted
\* meanwhile is written as well.
WriteResend(q) ==
  LET i == doing[q].invitation
  IN  /\ doing[q].stage = "resending"
      /\ invitations' = IF i \in Existing THEN WithExpired(i, FALSE) ELSE invitations
      /\ End(q)
      /\ UNCHANGED <<users, cameBy, made>>

Revoke(i) ==
  /\ i \in Pending
  /\ invitations' = Without({i})
  /\ UNCHANGED <<users, cameBy, made, doing>>

\* The time to live of an invitation; that of an accepted one is never asked.
Expire(i) ==
  /\ i \in Pending
  /\ invitations' = WithExpired(i, TRUE)
  /\ UNCHANGED <<users, cameBy, made, doing>>

\* Mutated form: whether it has expired is not asked.
Unaccepted(i) == i \in Pending

\* findValidByToken
Valid(i) == i \in Pending /\ ~invitations[i].expired

\* accept (findValidByToken)
FindInvitation(q, i) ==
  /\ Valid(i)
  /\ Start(q, "accepting", invitations[i].email, i, invitations[i].expired)
  /\ UNCHANGED <<users, cameBy, invitations, made>>

\* accept (assertCanCreate)
CheckAccept(q) ==
  /\ doing[q].stage = "accepting" /\ SeatFree
  /\ Continue(q, "joining")
  /\ UNCHANGED <<users, cameBy, invitations, made>>

\* Mutated form: an invitation that was read is there.
ReadPending(i) == TRUE

\* The count of updateMany: whether the invitation is still pending.
StillPending(i) == i \in Pending

\* Mutated form: the users table has no unique index on the email.
AnyEmail(e) == TRUE

\* @@unique([tenantId, email]) of User
EmailFree(e) == users[e] = "none"

\* accept (transaction): the invitation and the user, or neither (GiveUp); the
\* email address of a user is unique, and a conflict takes both back.
Join(q) ==
  LET e == doing[q].email
      i == doing[q].invitation
  IN  /\ doing[q].stage = "joining" /\ StillPending(i) /\ EmailFree(e)
      /\ users' = [users EXCEPT ![e] = "active"]
      /\ cameBy' = [cameBy EXCEPT ![e] = i]
      /\ invitations' = [j \in Existing |->
           IF j = i THEN [invitations[j] EXCEPT !.accepted = TRUE] ELSE invitations[j]]
      /\ End(q)
      /\ UNCHANGED made

-----------------------------------------------------------------------------
(* Users *)

\* create of the users service (check)
CheckCreate(q, e) ==
  /\ SeatFree
  /\ Start(q, "creating", e, 0, FALSE)
  /\ UNCHANGED <<users, cameBy, invitations, made>>

\* create (row)
CreateUser(q) ==
  /\ doing[q].stage = "creating" /\ EmailFree(doing[q].email)
  /\ users' = [users EXCEPT ![doing[q].email] = "active"]
  /\ End(q)
  /\ UNCHANGED <<cameBy, invitations, made>>

\* update, which looks at no limit: the user of address e gets address f.
Update(e, f, standing) ==
  /\ users[e] # "none" /\ (f = e \/ EmailFree(f))
  /\ users' = [d \in Email |->
       IF d = f THEN standing ELSE IF d = e THEN "none" ELSE users[d]]
  /\ cameBy' = [d \in Email |->
       IF d = f THEN cameBy[e] ELSE IF d = e THEN 0 ELSE cameBy[d]]
  /\ UNCHANGED <<invitations, made, doing>>

Standing == {"active", "inactive"}

InviteOrCreate ==
  \/ \E q \in Request :
       \/ \E e \in Email : CheckInvite(q, e) \/ CheckCreate(q, e)
       \/ \E i \in Existing : CheckResend(q, i) \/ FindInvitation(q, i)
       \/ DropPending(q) \/ CreateInvitation(q) \/ WriteResend(q)
       \/ CheckAccept(q) \/ Join(q) \/ CreateUser(q) \/ GiveUp(q)
  \/ \E i \in Existing : Revoke(i) \/ Expire(i)

Next ==
  \/ InviteOrCreate
  \/ \E e, f \in Email, standing \in Standing : Update(e, f, standing)

Spec == Init /\ [][Next]_vars

\* Nobody is reactivated.
NoReactivationNext ==
  \/ InviteOrCreate
  \/ \E e, f \in Email, standing \in Standing :
       Update(e, f, standing) /\ (users[e] = "inactive" => standing = "inactive")

-----------------------------------------------------------------------------
(* Correctness *)

Member == {e \in Email : users[e] # "none"}

\* The requests that will make an invitation of a person.
Replacing(e) == {q \in Request : doing[q].stage = "replacing" /\ doing[q].email = e}

\* Type invariant: requests that invite the same person at the same time leave
\* an invitation each, and no more, those counted that they are about to make.
SeatsTypeOK ==
  /\ users \in [Email -> {"none"} \union Standing]
  /\ Existing \subseteq 1..made
  /\ \A e \in Email :
       Cardinality(PendingOf(e)) + Cardinality(Replacing(e)) <= Cardinality(Request)

\* "Soft limit: concurrent creations can exceed it by a few units, which is
\* acceptable for billing tiers", made exact: by one for each other request
\* that runs at the same time.
SeatsExceededSlightly == Cardinality(Active) <= Limit + Cardinality(Request) - 1

\* An invitation makes one user and no more: those that are accepted are those
\* by which somebody came who is a user now, and no two users came by the same,
\* whoever was accepted, invited again, created or given another address
\* beside.
OneUserPerInvitation ==
  /\ {cameBy[e] : e \in Member} \ {0} = Existing \ Pending
  /\ \A d, e \in Member : cameBy[d] = cameBy[e] /\ cameBy[d] # 0 => d = e

\* What was accepted stays so, and with the address that was invited: not
\* revoked, replaced or taken back by requests that read it before.  (Resending
\* may renew it all the same.)
KeepsAccepted ==
  \A i \in Existing \ Pending :
    /\ i \in Existing' /\ invitations'[i].accepted
    /\ invitations'[i].email = invitations[i].email

AcceptedForGood == [][KeepsAccepted]_vars

\* "rejects revoked and expired invitations", also those revoked or replaced
\* while they are being accepted: who becomes a user was created by hand, or
\* has an invitation that is still pending and had not expired when it was
\* found.
JoinsInvited ==
  Member \subseteq Member' =>
    \A e \in Member' \ Member : \E q \in Request :
      LET request == doing[q]
      IN  /\ request # Idle /\ request.email = e
          /\ \/ request.stage = "creating"
             \/ /\ request.invitation \in Pending /\ ~request.expired
                /\ invitations[request.invitation].email = e

NobodyJoinsUninvited == [][JoinsInvited]_vars

=============================================================================
