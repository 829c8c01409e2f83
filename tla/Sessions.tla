------------------------------ MODULE Sessions ------------------------------
(***************************************************************************)
(* The sessions of a user (auth/auth.service.ts).  A login issues a refresh *)
(* token; a refresh revokes the token it is shown and issues the next, in  *)
(* statements of their own.  Clients repeat requests and keep tokens they  *)
(* should have dropped, and several requests run at a time.                *)
(*                                                                         *)
(* A token is a login and its number in the order of issue.  Abstracted:   *)
(* hashes, access tokens, and the expiry of a token, which is refused as   *)
(* an unknown one is.                                                      *)
(***************************************************************************)
EXTENDS Naturals, FiniteSets

CONSTANTS Login,       \* bound: logins of the user
          Process,     \* requests that run at the same time
          MaxTokens    \* bound: tokens of one login

VARIABLES issued,    \* tokens issued so far, of each login
          live,      \* those of them that are not revoked
          active,    \* whether the user is active
          doing      \* what each process does

vars == <<issued, live, active, doing>>

Idle == [stage |-> "idle"]

Init ==
  /\ issued = [l \in Login |-> 0]
  /\ live = [l \in Login |-> {}]
  /\ active = TRUE
  /\ doing = [t \in Process |-> Idle]

Now(t, stage) == doing' = [doing EXCEPT ![t].stage = stage]

\* login (checks)
CheckLogin(t, l) ==
  /\ doing[t] = Idle /\ active /\ issued[l] = 0
  /\ ~ \E u \in Process : doing[u] # Idle /\ doing[u].login = l
  /\ doing' = [doing EXCEPT ![t] = [stage |-> "issuing", login |-> l, number |-> 0]]
  /\ UNCHANGED <<issued, live, active>>

\* issueTokens
Issue(t) ==
  /\ doing[t].stage = "issuing"
  /\ LET l == doing[t].login
     IN  /\ issued[l] < MaxTokens
         /\ issued' = [issued EXCEPT ![l] = @ + 1]
         /\ live' = [live EXCEPT ![l] = @ \union {issued[l] + 1}]
  /\ doing' = [doing EXCEPT ![t] = Idle]
  /\ UNCHANGED active

\* refresh (find): a token that is revoked is one that somebody used twice.
FindToken(t, l, n) ==
  /\ doing[t] = Idle
  /\ \/ n \notin live[l]
     \/ active
  /\ doing' = [doing EXCEPT ![t] =
       [stage |-> IF n \in live[l] THEN "found" ELSE "reused", login |-> l, number |-> n]]
  /\ UNCHANGED <<issued, live, active>>

\* Mutated form: the token is revoked whatever happened to it since.
WasFound(t) == TRUE

\* The count of updateMany: whether the token is still live.
StillLive(t) == doing[t].number \in live[doing[t].login]

\* refresh (rotation)
Rotate(t) ==
  /\ doing[t].stage = "found"
  /\ Now(t, IF StillLive(t) THEN "issuing" ELSE "reused")
  /\ live' = [live EXCEPT ![doing[t].login] = @ \ {doing[t].number}]
  /\ UNCHANGED <<issued, active>>

\* revokeAllSessions
RevokeAll == live' = [l \in Login |-> {}]

\* refresh (reuse)
EndSessions(t) ==
  /\ doing[t].stage = "reused"
  /\ RevokeAll
  /\ doing' = [doing EXCEPT ![t] = Idle]
  /\ UNCHANGED <<issued, active>>

\* logout and changePassword; deactivation by update of the users service,
\* which an administrator can undo.
Logout == RevokeAll /\ UNCHANGED <<issued, active, doing>>

SetActive(a) ==
  /\ active' = a
  /\ IF a THEN UNCHANGED live ELSE RevokeAll
  /\ UNCHANGED <<issued, doing>>

Next ==
  \/ \E t \in Process :
       \/ Issue(t) \/ Rotate(t) \/ EndSessions(t)
       \/ \E l \in Login :
            CheckLogin(t, l) \/ \E n \in 1..issued[l] : FindToken(t, l, n)
  \/ Logout \/ \E a \in BOOLEAN : SetActive(a)

Spec == Init /\ [][Next]_vars

-----------------------------------------------------------------------------
(* Correctness *)

\* Type invariant: only the last token of a login is live.
SessionsTypeOK ==
  /\ issued \in [Login -> Nat]
  /\ \A l \in Login : live[l] \subseteq {issued[l]} \ {0}
  /\ \A t \in Process :
       doing[t] = Idle \/ doing[t].stage \in {"issuing", "found", "reused"}

IssuingFor(l) == {t \in Process : doing[t].stage = "issuing" /\ doing[t].login = l}

\* "lets only one concurrent refresh with the same token succeed": however
\* often a client repeats a refresh, and with whichever of its tokens, a login
\* has one token that is live or about to be.
OneTokenPerLogin ==
  \A l \in Login : Cardinality(live[l]) + Cardinality(IssuingFor(l)) <= 1

\* "revokes every session when a rotated token is reused": once the reuse of a
\* token is answered, its login has no token, nor one about to be.  The code
\* does not keep it, and no run checks it: the first use may have revoked the
\* token and not yet issued the next.
ReuseEndsLogin ==
  [][\A t \in Process, l \in Login :
       doing[t].stage = "reused" /\ doing[t].login = l /\ doing'[t] = Idle =>
         live'[l] = {} /\ IssuingFor(l)' = {}]_vars

=============================================================================
