---------------------------- MODULE CompanyProofs ----------------------------
(***************************************************************************)
(* Companies are kept apart, and what a company keeps besides stock, for   *)
(* any rows, people, requests, roles, records and warehouses: proofs about *)
(* TenantIsolation and the parts of MCCompany.                             *)
(*                                                                         *)
(* A behaviour is one of the part that `part` names.  Each section has the *)
(* invariant of a part, that its steps preserve it, and that it therefore  *)
(* holds in every behaviour of that part (the lemma that ends in "Part").  *)
(* The theorems at the end put together what the run checks.               *)
(***************************************************************************)
EXTENDS CodesProofs

\* A set of at most one request.
LEMMA AtMostOne ==
  ASSUME NEW all, IsFiniteSet(all), NEW few \in SUBSET all, Cardinality(few) <= 1
  PROVE  \A p, q \in few : p = q
<1>1. IsFiniteSet(few) /\ Cardinality(few) \in Nat
  BY FS_Subset, FS_CardinalityType
<1>2. CASE Cardinality(few) = 0
  BY <1>1, <1>2, FS_EmptySet
<1>3. CASE Cardinality(few) = 1
  BY <1>1, <1>3, FS_Singleton
<1> QED
  BY <1>1, <1>2, <1>3

-----------------------------------------------------------------------------
(* The rows of companies: only its own are found and changed. *)

\* What makes it so: from the moment it is built, a query of a company requires
\* that company of the rows it filters and gives it to those it creates.
ScopedToBuilder ==
  \A q \in Query :
    queries[q].stage = "built" /\ queries[q].by # NoTenant =>
      /\ queries[q].operation \in Filtered \union {"upsert"} => queries[q].args.where = queries[q].by
      /\ queries[q].operation \in {"create", "upsert"} => queries[q].args.data = queries[q].by

TenancyInv == TenancyTypeOK /\ ScopedToBuilder /\ FindsOnlyOwn

\* Scoping keeps arguments arguments, and names the company in every one that
\* the operation takes (scopeArgs).
LEMMA ScopedArgs ==
  ASSUME NEW operation \in Operation, NEW args \in Args, NEW t \in Tenant
  PROVE  /\ ScopeArgs(operation, args, t) \in Args
         /\ ScopeArgs(operation, args, t).ids = args.ids
         /\ operation \in Filtered \union {"upsert"} => ScopeArgs(operation, args, t).where = t
         /\ operation \in {"create", "upsert"} => ScopeArgs(operation, args, t).data = t
  BY DEF ScopeArgs, Operation, Args, Filtered, SomeTenant

\* The rows a filter matches exist and are of the company it requires.
LEMMA MatchesOwn ==
  ASSUME NEW args \in Args, TenancyTypeOK, NEW t \in Tenant, args.where = t,
         NEW i \in Matches(args)
  PROVE  i \in Id /\ rows[i].tenant = t
  BY TenantAssumption DEF Matches, Args, TenancyTypeOK, NoRow

LEMMA TenancyInitInv == Init => TenancyInv
  BY TenantAssumption DEF Init, TenancyInv, TenancyTypeOK, ScopedToBuilder, FindsOnlyOwn,
     NoRow, Fresh, SomeTenant

LEMMA SwitchInv ==
  ASSUME TenancyInv, NEW t \in SomeTenant, SwitchTo(t)
  PROVE  TenancyInv'
  BY DEF SwitchTo, TenancyInv, TenancyTypeOK, ScopedToBuilder, FindsOnlyOwn

\* A query is scoped when it is built.
LEMMA QueryBuildInv ==
  ASSUME TenancyInv, NEW q \in Query, NEW operation \in Operation, NEW args \in Args,
         Build(q, operation, args)
  PROVE  TenancyInv'
<1> DEFINE scoped == IF running = NoTenant THEN args ELSE ScopeArgs(operation, args, running)
<1> DEFINE built == [stage |-> "built", operation |-> operation, by |-> running, args |-> scoped]
<1>1. running \in SomeTenant
  BY DEF TenancyInv, TenancyTypeOK
<1>2. scoped \in Args
  BY <1>1, ScopedArgs DEF SomeTenant
<1>3. running # NoTenant =>
        /\ operation \in Filtered \union {"upsert"} => scoped.where = running
        /\ operation \in {"create", "upsert"} => scoped.data = running
  BY <1>1, ScopedArgs DEF SomeTenant
<1> HIDE DEF scoped
<1>4. /\ queries' = [queries EXCEPT ![q] = built]
      /\ rows' = rows /\ running' = running
  BY DEF Build, scoped
<1>5. TenancyTypeOK'
  BY <1>1, <1>2, <1>4 DEF TenancyInv, TenancyTypeOK, Operation
<1>6. ScopedToBuilder'
  BY <1>3, <1>4 DEF TenancyInv, ScopedToBuilder
<1>7. FindsOnlyOwn'
  BY <1>4 DEF TenancyInv, FindsOnlyOwn
<1> QED
  BY <1>5, <1>6, <1>7 DEF TenancyInv

\* What a query leaves: the rows are rows, and what it returned is its own.
LEMMA QueryRunInv ==
  ASSUME TenancyInv, NEW q \in Query, NEW returned, queries[q].stage = "built",
         Done(q, returned),
         rows' \in [Id -> [tenant : SomeTenant, writer : SomeTenant]],
         \A i \in Id : rows'[i].tenant = NoTenant => rows'[i] = NoRow,
         queries[q].by # NoTenant => returned \subseteq {queries[q].by}
  PROVE  TenancyInv'
<1> DEFINE done == [stage |-> "done", by |-> queries[q].by, returned |-> returned]
<1>1. queries' = [queries EXCEPT ![q] = done] /\ running' = running
  BY DEF Done
<1>2. queries[q].by \in SomeTenant
  BY DEF TenancyInv, TenancyTypeOK, Fresh
<1>3. TenancyTypeOK'
  BY <1>1, <1>2 DEF TenancyInv, TenancyTypeOK
<1>4. ScopedToBuilder'
  BY <1>1 DEF TenancyInv, ScopedToBuilder
<1>5. FindsOnlyOwn'
  BY <1>1 DEF TenancyInv, FindsOnlyOwn
<1> QED
  BY <1>3, <1>4, <1>5 DEF TenancyInv

\* A query that is built says who built it, and its arguments are arguments.
LEMMA BuiltQuery ==
  ASSUME TenancyInv, NEW q \in Query, queries[q].stage = "built"
  PROVE  /\ queries[q].by \in SomeTenant /\ queries[q].args \in Args
         /\ Matches(ArgsOf(queries[q])) \subseteq Id
         /\ ArgsOf(queries[q]) = queries[q].args
<1>1. queries[q].by \in SomeTenant /\ queries[q].args \in Args
  BY DEF TenancyInv, TenancyTypeOK, Fresh
<1> QED
  BY <1>1 DEF Args, ArgsOf, Matches

\* A row keeps its company when it is written, and loses it when it is deleted.
LEMMA UpdateRows ==
  ASSUME TenancyInv, NEW query, query.by \in SomeTenant,
         NEW ids \in SUBSET Id, \A i \in ids : rows[i] # NoRow, Written(ids, query)
  PROVE  /\ rows' \in [Id -> [tenant : SomeTenant, writer : SomeTenant]]
         /\ \A i \in Id : rows'[i].tenant = rows[i].tenant
         /\ \A i \in Id : rows'[i].tenant = NoTenant => rows'[i] = NoRow
         /\ \A i \in Id \ ids : rows'[i] = rows[i]
<1>1. rows \in [Id -> [tenant : SomeTenant, writer : SomeTenant]]
      /\ \A i \in Id : rows[i].tenant = NoTenant => rows[i] = NoRow
  BY DEF TenancyInv, TenancyTypeOK
<1>2. \A i \in ids : rows'[i] = [rows[i] EXCEPT !.writer = query.by]
  BY DEF Written
<1>3. \A i \in Id \ ids : rows'[i] = rows[i]
  BY DEF Written
<1>4. rows' \in [Id -> [tenant : SomeTenant, writer : SomeTenant]]
  BY <1>1 DEF Written
<1>5. \A i \in ids : rows[i] \in [tenant : SomeTenant, writer : SomeTenant]
  BY <1>1
<1>6. \A i \in ids : rows'[i].tenant = rows[i].tenant
  BY <1>2, <1>5
<1>7. \A i \in ids : rows[i].tenant # NoTenant
  BY <1>1
<1> QED
  BY <1>1, <1>3, <1>4, <1>6, <1>7

LEMMA CreateRows ==
  ASSUME TenancyInv, NEW query, query.by \in SomeTenant, NEW args \in Args,
         Creates(args), Created(args, query)
  PROVE  /\ rows' \in [Id -> [tenant : SomeTenant, writer : SomeTenant]]
         /\ \A i \in Id : rows'[i].tenant = NoTenant => rows'[i] = NoRow
         /\ \A i \in Id : rows'[i] # rows[i] => rows[i] = NoRow /\ rows'[i].tenant = args.data
<1>1. rows \in [Id -> [tenant : SomeTenant, writer : SomeTenant]]
      /\ \A i \in Id : rows[i].tenant = NoTenant => rows[i] = NoRow
  BY DEF TenancyInv, TenancyTypeOK
<1>2. args.data \in SomeTenant /\ args.data # NoTenant /\ \A i \in args.ids : rows[i] = NoRow
  BY DEF Args, Creates
<1>3. rows' = [i \in Id |-> IF i \in args.ids THEN [tenant |-> args.data, writer |-> query.by]
                           ELSE rows[i]]
  BY DEF Created
<1> QED
  BY <1>1, <1>2, <1>3

\* What a step does to the rows when a query runs: they stay rows, and those
\* that change are, or become, rows of the company the query was built for.
OwnRowsOnly(q) ==
  /\ rows' \in [Id -> [tenant : SomeTenant, writer : SomeTenant]]
  /\ \A i \in Id : rows'[i].tenant = NoTenant => rows'[i] = NoRow
  /\ queries[q].by # NoTenant =>
       \A i \in Id : rows'[i] # rows[i] =>
         {rows[i].tenant, rows'[i].tenant} \subseteq {queries[q].by, NoTenant}

LEMMA FindOwn ==
  ASSUME TenancyInv, NEW q \in Query, Find(q)
  PROVE  TenancyInv' /\ OwnRowsOnly(q)
<1> DEFINE returned == {rows[i].tenant : i \in Matches(ArgsOf(queries[q]))}
<1>1. queries[q].stage = "built" /\ queries[q].operation = "find" /\ rows' = rows
      /\ Done(q, returned)
  BY DEF Find
<1>2. OwnRowsOnly(q)
  BY <1>1 DEF TenancyInv, TenancyTypeOK, OwnRowsOnly
<1>3. queries[q].by # NoTenant => returned \subseteq {queries[q].by}
  <2>1. SUFFICES ASSUME queries[q].by # NoTenant, NEW i \in Matches(ArgsOf(queries[q]))
                 PROVE  rows[i].tenant = queries[q].by
    OBVIOUS
  <2>2. queries[q].by \in Tenant /\ queries[q].args \in Args
    BY <1>1, <2>1, BuiltQuery DEF SomeTenant
  <2>3. queries[q].args.where = queries[q].by
    BY <1>1, <2>1 DEF TenancyInv, ScopedToBuilder, Filtered
  <2> QED
    BY <2>1, <2>2, <2>3, MatchesOwn DEF ArgsOf, TenancyInv
<1>4. TenancyInv'
  BY <1>1, <1>2, <1>3, QueryRunInv DEF OwnRowsOnly
<1> QED
  BY <1>2, <1>4

\* A query that changes or deletes what it matches.
LEMMA MatchedOwn ==
  ASSUME TenancyInv, NEW q \in Query, queries[q].stage = "built",
         queries[q].operation \in Filtered \union {"upsert"}, queries[q].by # NoTenant
  PROVE  \A i \in Matches(ArgsOf(queries[q])) : rows[i].tenant = queries[q].by
<1>1. queries[q].by \in Tenant /\ queries[q].args \in Args
  BY BuiltQuery DEF SomeTenant
<1>2. queries[q].args.where = queries[q].by
  BY DEF TenancyInv, ScopedToBuilder
<1> QED
  BY <1>1, <1>2, MatchesOwn DEF ArgsOf, TenancyInv

LEMMA WrittenOwn ==
  ASSUME TenancyInv, NEW q \in Query, queries[q].stage = "built",
         queries[q].operation \in Filtered \union {"upsert"},
         Written(Matches(ArgsOf(queries[q])), queries[q])
  PROVE  OwnRowsOnly(q)
<1>1. queries[q].by \in SomeTenant /\ Matches(ArgsOf(queries[q])) \subseteq Id
  BY BuiltQuery
<1>2. \A i \in Matches(ArgsOf(queries[q])) : rows[i] # NoRow
  BY DEF Matches
<1>3. queries[q].by # NoTenant =>
        \A i \in Matches(ArgsOf(queries[q])) : rows[i].tenant = queries[q].by
  BY MatchedOwn
<1>4. /\ rows' \in [Id -> [tenant : SomeTenant, writer : SomeTenant]]
      /\ \A i \in Id : rows'[i].tenant = rows[i].tenant
      /\ \A i \in Id : rows'[i].tenant = NoTenant => rows'[i] = NoRow
      /\ \A i \in Id \ Matches(ArgsOf(queries[q])) : rows'[i] = rows[i]
  BY <1>1, <1>2, UpdateRows
<1> QED
  BY <1>3, <1>4 DEF OwnRowsOnly

LEMMA UpdateOwn ==
  ASSUME TenancyInv, NEW q \in Query, Update(q)
  PROVE  TenancyInv' /\ OwnRowsOnly(q)
<1>1. queries[q].stage = "built" /\ queries[q].operation \in Filtered \union {"upsert"}
      /\ Written(Matches(ArgsOf(queries[q])), queries[q]) /\ Done(q, {})
  BY DEF Update, Filtered
<1>2. OwnRowsOnly(q)
  BY <1>1, WrittenOwn
<1> QED
  BY <1>1, <1>2, QueryRunInv DEF OwnRowsOnly

LEMMA DeleteOwn ==
  ASSUME TenancyInv, NEW q \in Query, Delete(q)
  PROVE  TenancyInv' /\ OwnRowsOnly(q)
<1> DEFINE gone == Matches(ArgsOf(queries[q]))
<1>1. queries[q].stage = "built" /\ queries[q].operation \in Filtered \union {"upsert"}
      /\ Done(q, {})
  BY DEF Delete, Filtered
<1>2. rows' = [i \in Id |-> IF i \in gone THEN NoRow ELSE rows[i]]
  BY DEF Delete
<1>3. rows \in [Id -> [tenant : SomeTenant, writer : SomeTenant]]
      /\ \A i \in Id : rows[i].tenant = NoTenant => rows[i] = NoRow
  BY DEF TenancyInv, TenancyTypeOK
<1>4. NoRow \in [tenant : SomeTenant, writer : SomeTenant] /\ NoRow.tenant = NoTenant
  BY DEF NoRow, SomeTenant
<1>5. queries[q].by # NoTenant => \A i \in gone : rows[i].tenant = queries[q].by
  BY <1>1, MatchedOwn
<1> HIDE DEF gone
<1>6. OwnRowsOnly(q)
  BY <1>2, <1>3, <1>4, <1>5 DEF OwnRowsOnly
<1> QED
  BY <1>1, <1>6, QueryRunInv DEF OwnRowsOnly

LEMMA CreatedOwn ==
  ASSUME TenancyInv, NEW q \in Query, queries[q].stage = "built",
         queries[q].operation \in {"create", "upsert"},
         Creates(ArgsOf(queries[q])), Created(ArgsOf(queries[q]), queries[q])
  PROVE  OwnRowsOnly(q)
<1>1. queries[q].by \in SomeTenant /\ ArgsOf(queries[q]) \in Args
      /\ ArgsOf(queries[q]) = queries[q].args
  BY BuiltQuery
<1>2. queries[q].by # NoTenant => queries[q].args.data = queries[q].by
  BY DEF TenancyInv, ScopedToBuilder
<1>3. /\ rows' \in [Id -> [tenant : SomeTenant, writer : SomeTenant]]
      /\ \A i \in Id : rows'[i].tenant = NoTenant => rows'[i] = NoRow
      /\ \A i \in Id : rows'[i] # rows[i] =>
           rows[i] = NoRow /\ rows'[i].tenant = ArgsOf(queries[q]).data
  BY <1>1, CreateRows
<1>4. NoRow.tenant = NoTenant
  BY DEF NoRow
<1> QED
  BY <1>1, <1>2, <1>3, <1>4 DEF OwnRowsOnly

LEMMA SameRowsOwn ==
  ASSUME TenancyInv, NEW q \in Query, rows' = rows
  PROVE  OwnRowsOnly(q)
  BY DEF TenancyInv, TenancyTypeOK, OwnRowsOnly

LEMMA CreateOwn ==
  ASSUME TenancyInv, NEW q \in Query, Create(q)
  PROVE  TenancyInv' /\ OwnRowsOnly(q)
<1>1. queries[q].stage = "built" /\ queries[q].operation \in {"create", "upsert"} /\ Done(q, {})
  BY DEF Create
<1>2. CASE Creates(ArgsOf(queries[q]))
  <2>1. Created(ArgsOf(queries[q]), queries[q])
    BY <1>2 DEF Create
  <2>2. OwnRowsOnly(q)
    BY <1>1, <1>2, <2>1, CreatedOwn
  <2> QED
    BY <1>1, <2>2, QueryRunInv DEF OwnRowsOnly
<1>3. CASE ~Creates(ArgsOf(queries[q]))
  <2>1. OwnRowsOnly(q)
    BY <1>3, SameRowsOwn DEF Create
  <2> QED
    BY <1>1, <2>1, QueryRunInv DEF OwnRowsOnly
<1> QED
  BY <1>2, <1>3

LEMMA UpsertOwn ==
  ASSUME TenancyInv, NEW q \in Query, Upsert(q)
  PROVE  TenancyInv' /\ OwnRowsOnly(q)
<1> DEFINE args == ArgsOf(queries[q])
<1>1. queries[q].stage = "built" /\ queries[q].operation = "upsert" /\ Done(q, {})
  BY DEF Upsert
<1>2. OwnRowsOnly(q)
  <2>1. CASE Written(Matches(args), queries[q])
    BY <1>1, <2>1, WrittenOwn
  <2>2. CASE Creates(args) /\ Created(args, queries[q])
    BY <1>1, <2>2, CreatedOwn
  <2>3. CASE rows' = rows
    BY <2>3, SameRowsOwn
  <2> QED
    BY <2>1, <2>2, <2>3 DEF Upsert
<1> QED
  BY <1>1, <1>2, QueryRunInv DEF OwnRowsOnly

LEMMA TenancyStutterInv ==
  ASSUME TenancyInv, UNCHANGED vars
  PROVE  TenancyInv'
  BY DEF vars, TenancyInv, TenancyTypeOK, ScopedToBuilder, FindsOnlyOwn

LEMMA TenancyNextInv ==
  ASSUME TenancyInv, [Next]_vars
  PROVE  TenancyInv'
<1>1. ASSUME NEW t \in SomeTenant, SwitchTo(t) PROVE TenancyInv'
  BY <1>1, SwitchInv
<1>2. ASSUME NEW q \in Query, NEW operation \in Operation, NEW args \in Args,
             Build(q, operation, args)
      PROVE  TenancyInv'
  BY <1>2, QueryBuildInv
<1>3. ASSUME NEW q \in Query, Find(q) \/ Update(q) \/ Delete(q) \/ Create(q) \/ Upsert(q)
      PROVE  TenancyInv'
  BY <1>3, FindOwn, UpdateOwn, DeleteOwn, CreateOwn, UpsertOwn
<1>4. CASE UNCHANGED vars
  BY <1>4, TenancyStutterInv
<1> QED
  BY <1>1, <1>2, <1>3, <1>4 DEF Next

THEOREM TenancyInvariant == Spec => []TenancyInv
<1>1. TenancyInv /\ [Next]_vars => TenancyInv'
  BY TenancyNextInv
<1> QED
  BY <1>1, TenancyInitInv, PTL DEF Spec

\* The type invariant of the rows and the queries, for any companies.
THEOREM TenancyTyping == Spec => []TenancyTypeOK
<1>1. TenancyInv => TenancyTypeOK
  BY DEF TenancyInv
<1> QED
  BY <1>1, TenancyInvariant, PTL

\* A query of a company returns rows of that company only.
THEOREM FindsOwn == Spec => []FindsOnlyOwn
<1>1. TenancyInv => FindsOnlyOwn
  BY DEF TenancyInv
<1> QED
  BY <1>1, TenancyInvariant, PTL

\* A step that ends a query of a company changes rows of that company only: one
\* action does, and it is one of that query.
LEMMA StepOwn ==
  ASSUME TenancyInv, [Next]_vars, NEW q \in Query,
         queries[q].stage = "built", queries'[q].stage = "done", queries[q].by # NoTenant
  PROVE  \A i \in Id : rows'[i] # rows[i] =>
           {rows[i].tenant, rows'[i].tenant} \subseteq {queries[q].by, NoTenant}
<1>1. ASSUME NEW p \in Query, Find(p) \/ Update(p) \/ Delete(p) \/ Create(p) \/ Upsert(p)
      PROVE  q = p /\ OwnRowsOnly(p)
  <2>1. OwnRowsOnly(p)
    BY <1>1, FindOwn, UpdateOwn, DeleteOwn, CreateOwn, UpsertOwn
  <2>2. \E returned : Done(p, returned)
    BY <1>1 DEF Find, Update, Delete, Create, Upsert
  <2>3. q = p
    BY <2>2 DEF Done, TenancyInv, TenancyTypeOK
  <2> QED
    BY <2>1, <2>3
<1>2. ASSUME NEW t \in SomeTenant, SwitchTo(t) PROVE FALSE
  BY <1>2 DEF SwitchTo
<1>3. ASSUME NEW p \in Query, NEW operation \in Operation, NEW args \in Args,
             Build(p, operation, args)
      PROVE  FALSE
  BY <1>3 DEF Build, TenancyInv, TenancyTypeOK
<1>4. CASE UNCHANGED vars
  BY <1>4 DEF vars
<1> QED
  BY <1>1, <1>2, <1>3, <1>4 DEF Next, OwnRowsOnly

\* A query of a company changes, deletes and creates rows of that company only.
THEOREM ChangesOwn == Spec => ChangesOnlyOwn
<1> DEFINE Own ==
      \A q \in Query :
        queries[q].stage = "built" /\ queries'[q].stage = "done" /\ queries[q].by # NoTenant =>
          \A i \in Id : rows'[i] # rows[i] =>
            {rows[i].tenant, rows'[i].tenant} \subseteq {queries[q].by, NoTenant}
<1>1. TenancyInv /\ [Next]_vars => [Own]_vars
  BY StepOwn
<1>2. Spec => [][Own]_vars
  BY <1>1, TenancyInvariant, PTL DEF Spec
<1> QED
  BY <1>2 DEF ChangesOnlyOwn

\* Both hold in every behaviour of a company, whichever of its parts it is of:
\* a behaviour of another part leaves rows and queries alone.
THEOREM CompanyKeepsApart == CompanySpec => []FindsOnlyOwn /\ ChangesOnlyOwn
<1>1. CompanyInit => Init
  BY DEF CompanyInit, TenantsInit
<1>2. [CompanyNext]_companyVars => [Next]_vars
  BY DEF CompanyNext, TenantsNext, companyVars, vars
<1>3. CompanySpec => Spec
  BY <1>1, <1>2, PTL DEF CompanySpec, Spec
<1> QED
  BY <1>3, FindsOwn, ChangesOwn

-----------------------------------------------------------------------------
(* Sessions of a user. *)

SessionStage == {"issuing", "found", "reused"}

SessionRequest == [stage : SessionStage, login : Logins, number : Nat]

\* What every process does is nothing, or a request of some login.
SessionsTyped ==
  /\ issued \in [Logins -> Nat]
  /\ live \in [Logins -> SUBSET Nat]
  /\ signedIn \in BOOLEAN
  /\ refreshing \in [Requests -> {S!Idle} \union SessionRequest]

\* The only live token is the last one issued ...
LastIsLive == \A l \in Logins : live[l] \subseteq {issued[l]} \ {0}

\* ... and while another is about to be issued, which one process does at a
\* time, none is live.
IssuerIsAlone ==
  \A l \in Logins, t \in Requests :
    refreshing[t] # S!Idle /\ refreshing[t].stage = "issuing" /\ refreshing[t].login = l =>
      /\ live[l] = {}
      /\ \A u \in Requests :
           refreshing[u] # S!Idle /\ refreshing[u].stage = "issuing"
             /\ refreshing[u].login = l => u = t

SessionInv == SessionsTyped /\ LastIsLive /\ IssuerIsAlone

LEMMA SessionsInitInv == S!Init => SessionInv
  BY DEF S!Init, SessionInv, SessionsTyped, LastIsLive, IssuerIsAlone, S!Idle

LEMMA IdleIsNoRequest == S!Idle \notin SessionRequest /\ S!Idle.stage = "idle"
  BY DEF S!Idle, SessionRequest, SessionStage

\* A process in a stage of a request has a request.
LEMMA InStage ==
  ASSUME SessionsTyped, NEW t \in Requests, refreshing[t].stage \in SessionStage
  PROVE  refreshing[t] \in SessionRequest /\ refreshing[t] # S!Idle
  BY IdleIsNoRequest DEF SessionsTyped, SessionStage

\* A login starts with no token and nobody to issue one.
LEMMA CheckLoginInv ==
  ASSUME SessionInv, NEW t \in Requests, NEW l \in Logins, S!CheckLogin(t, l)
  PROVE  SessionInv'
<1> DEFINE request == [stage |-> "issuing", login |-> l, number |-> 0]
<1>1. /\ issued' = issued /\ live' = live /\ signedIn' = signedIn
      /\ refreshing' = [refreshing EXCEPT ![t] = request]
      /\ issued[l] = 0 /\ \A u \in Requests : refreshing[u] = S!Idle \/ refreshing[u].login # l
  BY DEF S!CheckLogin
<1>2. request \in SessionRequest /\ live[l] = {}
  BY <1>1 DEF SessionRequest, SessionStage, SessionInv, LastIsLive
<1>3. SessionsTyped'
  BY <1>1, <1>2 DEF SessionInv, SessionsTyped
<1>4. LastIsLive'
  BY <1>1 DEF SessionInv, LastIsLive
<1>5. IssuerIsAlone'
  BY <1>1, <1>2 DEF SessionInv, SessionsTyped, IssuerIsAlone
<1> QED
  BY <1>3, <1>4, <1>5 DEF SessionInv

\* The token that is issued is the only one, as its issuer was alone.
LEMMA IssueInv ==
  ASSUME SessionInv, NEW t \in Requests, S!Issue(t)
  PROVE  SessionInv'
<1> DEFINE l == refreshing[t].login
<1>1. refreshing[t].stage = "issuing" /\ refreshing[t] \in SessionRequest /\ refreshing[t] # S!Idle
  BY InStage DEF S!Issue, SessionInv, SessionStage
<1>2. l \in Logins /\ live[l] = {}
      /\ \A u \in Requests :
           refreshing[u] # S!Idle /\ refreshing[u].stage = "issuing"
             /\ refreshing[u].login = l => u = t
  BY <1>1 DEF SessionRequest, SessionInv, IssuerIsAlone
<1>3. /\ signedIn' = signedIn
      /\ issued' = [issued EXCEPT ![l] = @ + 1]
      /\ live' = [live EXCEPT ![l] = @ \union {issued[l] + 1}]
      /\ refreshing' = [refreshing EXCEPT ![t] = S!Idle]
  BY DEF S!Issue
<1> HIDE DEF l
<1>4. SessionsTyped'
  BY <1>2, <1>3 DEF SessionInv, SessionsTyped
<1>5. LastIsLive'
  BY <1>2, <1>3 DEF SessionInv, SessionsTyped, LastIsLive
<1>6. IssuerIsAlone'
  BY <1>2, <1>3 DEF SessionInv, SessionsTyped, IssuerIsAlone
<1> QED
  BY <1>4, <1>5, <1>6 DEF SessionInv

\* A step that issues nothing and starts no issuing.
LEMMA NothingIssuedInv ==
  ASSUME SessionInv, SessionsTyped', issued' = issued,
         \A l \in Logins : live'[l] \subseteq live[l],
         \A t \in Requests :
           refreshing'[t] # S!Idle /\ refreshing'[t].stage = "issuing" => refreshing'[t] = refreshing[t]
  PROVE  SessionInv'
<1>1. LastIsLive'
  BY DEF SessionInv, LastIsLive
<1>2. IssuerIsAlone'
  BY DEF SessionInv, IssuerIsAlone
<1> QED
  BY <1>1, <1>2 DEF SessionInv

LEMMA FindTokenInv ==
  ASSUME SessionInv, NEW t \in Requests, NEW l \in Logins, NEW n \in Nat, S!FindToken(t, l, n)
  PROVE  SessionInv'
<1> DEFINE request == [stage |-> IF n \in live[l] THEN "found" ELSE "reused", login |-> l, number |-> n]
<1>1. request \in SessionRequest /\ request.stage # "issuing"
  BY DEF SessionRequest, SessionStage
<1>2. /\ issued' = issued /\ live' = live /\ signedIn' = signedIn
      /\ refreshing' = [refreshing EXCEPT ![t] = request]
  BY DEF S!FindToken
<1> HIDE DEF request
<1>3. SessionsTyped'
  BY <1>1, <1>2 DEF SessionInv, SessionsTyped
<1>4. \A u \in Requests :
        refreshing'[u] # S!Idle /\ refreshing'[u].stage = "issuing" => refreshing'[u] = refreshing[u]
  BY <1>1, <1>2 DEF SessionInv, SessionsTyped
<1> QED
  BY <1>2, <1>3, <1>4, NothingIssuedInv

\* A token that is still live proves that nobody is issuing the next one.
LEMMA RotateInv ==
  ASSUME SessionInv, NEW t \in Requests, S!Rotate(t)
  PROVE  SessionInv'
<1> DEFINE l == refreshing[t].login
<1> DEFINE n == refreshing[t].number
<1>1. refreshing[t].stage = "found" /\ refreshing[t] \in SessionRequest /\ refreshing[t] # S!Idle
  BY InStage DEF S!Rotate, SessionInv, SessionStage
<1>2. l \in Logins /\ n \in Nat
  BY <1>1 DEF SessionRequest
<1>3. issued' = issued /\ signedIn' = signedIn /\ live' = [live EXCEPT ![l] = @ \ {n}]
  BY DEF S!Rotate
<1>4. CASE n \in live[l]
  <2> DEFINE request == [refreshing[t] EXCEPT !.stage = "issuing"]
  <2>1. refreshing' = [refreshing EXCEPT ![t] = request]
    BY <1>4 DEF S!Rotate, S!Now, S!StillLive, SessionInv, SessionsTyped
  <2>2. request \in SessionRequest /\ request.stage = "issuing" /\ request.login = l
    BY <1>1 DEF SessionRequest, SessionStage
  <2>3. live'[l] = {}
    BY <1>2, <1>3, <1>4 DEF SessionInv, SessionsTyped, LastIsLive
  <2>4. \A u \in Requests : ~ (refreshing[u] # S!Idle /\ refreshing[u].stage = "issuing" /\ refreshing[u].login = l)
    BY <1>2, <1>4 DEF SessionInv, IssuerIsAlone
  <2> HIDE DEF request, l, n
  <2>5. SessionsTyped'
    BY <1>2, <1>3, <2>1, <2>2 DEF SessionInv, SessionsTyped
  <2>6. LastIsLive'
    BY <1>2, <1>3 DEF SessionInv, SessionsTyped, LastIsLive
  <2>7. IssuerIsAlone'
    BY <1>2, <1>3, <2>1, <2>2, <2>3, <2>4 DEF SessionInv, SessionsTyped, IssuerIsAlone
  <2> QED
    BY <2>5, <2>6, <2>7 DEF SessionInv
<1>5. CASE n \notin live[l]
  <2> DEFINE request == [refreshing[t] EXCEPT !.stage = "reused"]
  <2>1. refreshing' = [refreshing EXCEPT ![t] = request]
    BY <1>5 DEF S!Rotate, S!Now, S!StillLive, SessionInv, SessionsTyped
  <2>2. request \in SessionRequest /\ request.stage # "issuing"
    BY <1>1 DEF SessionRequest, SessionStage
  <2> HIDE DEF request, l, n
  <2>3. SessionsTyped'
    BY <1>2, <1>3, <2>1, <2>2 DEF SessionInv, SessionsTyped
  <2>4. \A u \in Requests :
          refreshing'[u] # S!Idle /\ refreshing'[u].stage = "issuing" => refreshing'[u] = refreshing[u]
    BY <2>1, <2>2 DEF SessionInv, SessionsTyped
  <2>5. \A k \in Logins : live'[k] \subseteq live[k]
    BY <1>2, <1>3 DEF SessionInv, SessionsTyped
  <2> QED
    BY <1>3, <2>3, <2>4, <2>5, NothingIssuedInv
<1> QED
  BY <1>4, <1>5

LEMMA EndSessionsInv ==
  ASSUME SessionInv, NEW t \in Requests, S!EndSessions(t)
  PROVE  SessionInv'
<1>1. /\ issued' = issued /\ signedIn' = signedIn /\ live' = [l \in Logins |-> {}]
      /\ refreshing' = [refreshing EXCEPT ![t] = S!Idle]
  BY DEF S!EndSessions, S!RevokeAll
<1>2. SessionsTyped'
  BY <1>1 DEF SessionInv, SessionsTyped
<1>3. \A u \in Requests :
        refreshing'[u] # S!Idle /\ refreshing'[u].stage = "issuing" => refreshing'[u] = refreshing[u]
  BY <1>1 DEF SessionInv, SessionsTyped
<1> QED
  BY <1>1, <1>2, <1>3, NothingIssuedInv

LEMMA RevokeInv ==
  ASSUME SessionInv, S!Logout \/ \E a \in BOOLEAN : S!SetActive(a)
  PROVE  SessionInv'
<1>1. /\ issued' = issued /\ refreshing' = refreshing /\ signedIn' \in BOOLEAN
      /\ live' = live \/ live' = [l \in Logins |-> {}]
  BY DEF S!Logout, S!SetActive, S!RevokeAll, SessionInv, SessionsTyped
<1>2. SessionsTyped'
  BY <1>1 DEF SessionInv, SessionsTyped
<1> QED
  BY <1>1, <1>2, NothingIssuedInv

LEMMA SessionsStepInv ==
  ASSUME SessionInv, [S!Next]_sessionVars
  PROVE  SessionInv'
<1>1. ASSUME NEW t \in Requests, S!Issue(t) \/ S!Rotate(t) \/ S!EndSessions(t) PROVE SessionInv'
  BY <1>1, IssueInv, RotateInv, EndSessionsInv
<1>2. ASSUME NEW t \in Requests, NEW l \in Logins, S!CheckLogin(t, l) PROVE SessionInv'
  BY <1>2, CheckLoginInv
<1>3. ASSUME NEW t \in Requests, NEW l \in Logins, NEW n \in Nat, S!FindToken(t, l, n)
      PROVE  SessionInv'
  BY <1>3, FindTokenInv
<1>4. CASE S!Logout \/ \E a \in BOOLEAN : S!SetActive(a)
  BY <1>4, RevokeInv
<1>5. CASE UNCHANGED sessionVars
  BY <1>5 DEF sessionVars, SessionInv, SessionsTyped, LastIsLive, IssuerIsAlone
<1> QED
  BY <1>1, <1>2, <1>3, <1>4, <1>5 DEF S!Next

\* Of one login, at most one token is live or about to be.
LEMMA InvGivesOneToken ==
  ASSUME SessionInv
  PROVE  S!OneTokenPerLogin
<1> SUFFICES ASSUME NEW l \in Logins
             PROVE  Cardinality(live[l]) + Cardinality(S!IssuingFor(l)) <= 1
  BY DEF S!OneTokenPerLogin, S!Cardinality, Cardinality
<1>1. \A t \in S!IssuingFor(l) : t \in Requests /\ refreshing[t] # S!Idle
                               /\ refreshing[t].stage = "issuing" /\ refreshing[t].login = l
  BY IdleIsNoRequest DEF S!IssuingFor
<1>2. CASE S!IssuingFor(l) = {}
  <2>1. live[l] = {} \/ live[l] = {issued[l]}
    BY DEF SessionInv, LastIsLive
  <2>2. Cardinality(live[l]) = 0 \/ Cardinality(live[l]) = 1
    BY <2>1, FS_EmptySet, FS_Singleton
  <2>3. Cardinality(S!IssuingFor(l)) = 0
    BY <1>2, FS_EmptySet
  <2> QED
    BY <2>2, <2>3
<1>3. CASE S!IssuingFor(l) # {}
  <2>1. PICK t \in S!IssuingFor(l) : TRUE
    BY <1>3
  <2>2. S!IssuingFor(l) = {t} /\ live[l] = {}
    BY <1>1, <2>1 DEF SessionInv, IssuerIsAlone
  <2>3. Cardinality(live[l]) = 0
    BY <2>2, FS_EmptySet
  <2>4. Cardinality(S!IssuingFor(l)) = 1
    BY <2>2, FS_Singleton
  <2> QED
    BY <2>3, <2>4
<1> QED
  BY <1>2, <1>3

LEMMA SessionsPart == CompanySpec => [](part = "sessions" => SessionInv)
<1> DEFINE Inv == part = "sessions" => SessionInv
<1>1. CompanyInit => Inv
  BY SessionsInitInv DEF CompanyInit
<1>2. Inv /\ [CompanyNext]_companyVars => Inv'
  <2> SUFFICES ASSUME Inv, [CompanyNext]_companyVars, part' = "sessions"
               PROVE  SessionInv'
    OBVIOUS
  <2>1. part = "sessions" /\ (S!Next \/ UNCHANGED sessionVars)
    BY DEF CompanyNext, SessionsNext, companyVars
  <2> QED
    BY <2>1, SessionsStepInv
<1> QED
  BY <1>1, <1>2, PTL DEF CompanySpec

-----------------------------------------------------------------------------
(* Users. *)

UserUpdate ==
  [stage : {"asked", "cleared"}, user : People, change : U!Change, locked : SUBSET People]

UsersTyped ==
  /\ role \in [People -> {"admin", "operator"}] /\ enabled \in [People -> BOOLEAN]
  /\ updating \in [Requests -> {U!Idle} \union UserUpdate]

\* What may cost an administrator the rights.
Losing(change) == change.active = "no" \/ change.role = "operator"

\* An update that is cleared to write without a lock takes no administrator
\* away; one that holds locks holds those of administrators, another one than
\* its user among them, and no other update holds them.
ClearedIsSafe ==
  /\ \A q \in Requests :
       updating[q] # U!Idle =>
         LET d == updating[q]
         IN  /\ d.locked \subseteq U!Admins
             /\ d.stage = "cleared" =>
                  \/ \E u \in d.locked : u # d.user
                  \/ d.user \notin U!Admins \/ ~ Losing(d.change)
  /\ \A p, q \in Requests :
       p # q /\ updating[p] # U!Idle /\ updating[q] # U!Idle =>
         updating[p].locked \intersect updating[q].locked = {}

UsersInv == UsersTyped /\ U!AdminRemains /\ ClearedIsSafe

LEMMA IdleIsNoUpdate == U!Idle \notin UserUpdate /\ U!Idle.stage = "idle"
  BY DEF U!Idle, UserUpdate

LEMMA UsersReadInv ==
  ASSUME UsersInv, NEW q \in Requests, NEW actor \in People, NEW u \in People,
         NEW change \in U!Change, U!Read(q, actor, u, change)
  PROVE  UsersInv'
<1> DEFINE stage == IF u \in U!Admins /\ (change.active = "no" \/ (role[u] = "admin" /\ change.role = "operator"))
                    THEN "asked" ELSE "cleared"
           d == [stage |-> stage, user |-> u, change |-> change, locked |-> {}]
<1>1. /\ role' = role /\ enabled' = enabled /\ updating[q] = U!Idle
      /\ updating' = [updating EXCEPT ![q] = d]
  BY DEF U!Read
<1>2. d \in UserUpdate /\ d.locked = {} /\ d.user = u /\ d.change = change
  BY DEF UserUpdate
<1>3. U!Admins' = U!Admins
  BY <1>1 DEF U!Admins
<1>4. d.stage = "cleared" => u \notin U!Admins \/ ~ Losing(change)
  BY DEF U!Admins, Losing
<1> HIDE DEF d, stage
<1>5. UsersTyped'
  BY <1>1, <1>2 DEF UsersInv, UsersTyped
<1>6. ClearedIsSafe'
  BY <1>1, <1>2, <1>3, <1>4 DEF UsersInv, UsersTyped, ClearedIsSafe
<1> QED
  BY <1>3, <1>5, <1>6 DEF UsersInv, U!AdminRemains

LEMMA UsersCountInv ==
  ASSUME UsersInv, NEW q \in Requests, U!CountAdmins(q)
  PROVE  UsersInv'
<1>1. role' = role /\ enabled' = enabled /\ U!Admins' = U!Admins
  BY DEF U!CountAdmins, U!Admins
<1>2. updating[q] \in UserUpdate /\ updating[q] # U!Idle
  BY IdleIsNoUpdate DEF U!CountAdmins, UsersInv, UsersTyped
<1>3. CASE U!Admins \ {updating[q].user} = {}
  <2>1. updating' = [updating EXCEPT ![q] = U!Idle]
    BY <1>3 DEF U!CountAdmins, UsersInv, UsersTyped
  <2>2. UsersTyped' /\ ClearedIsSafe'
    BY <1>1, <2>1 DEF UsersInv, UsersTyped, ClearedIsSafe
  <2> QED
    BY <1>1, <2>2 DEF UsersInv, U!AdminRemains
<1>4. CASE U!Admins \ {updating[q].user} # {}
  <2> DEFINE d == [updating[q] EXCEPT !.stage = "cleared", !.locked = U!Admins]
  <2>1. updating' = [updating EXCEPT ![q] = d]
    BY <1>4 DEF U!CountAdmins, U!LockedAdmins, UsersInv, UsersTyped
  <2>2. /\ d \in UserUpdate /\ d.locked = U!Admins /\ d.user = updating[q].user
        /\ \E u \in d.locked : u # d.user
    BY <1>2, <1>4 DEF UserUpdate, U!Admins
  <2>3. \A p \in Requests : updating[p] # U!Idle => updating[p].locked \intersect U!Admins = {}
    BY DEF U!CountAdmins, U!Lockable
  <2> HIDE DEF d
  <2>4. UsersTyped'
    BY <1>1, <2>1, <2>2 DEF UsersInv, UsersTyped
  <2>5. ClearedIsSafe'
    BY <1>1, <2>1, <2>2, <2>3 DEF UsersInv, UsersTyped, ClearedIsSafe
  <2> QED
    BY <1>1, <2>4, <2>5 DEF UsersInv, U!AdminRemains
<1> QED
  BY <1>3, <1>4

\* Nobody else writes a locked row, and if the write makes an administrator, no
\* other update is under way.
LEMMA UsersWriteInv ==
  ASSUME UsersInv, NEW q \in Requests, U!Write(q),
         U!Admins' \subseteq U!Admins \/ \A p \in Requests : updating'[p] = U!Idle
  PROVE  UsersInv'
<1> DEFINE d == updating[q]
<1>1. d \in UserUpdate /\ d # U!Idle /\ d.stage = "cleared"
  BY IdleIsNoUpdate DEF U!Write, UsersInv, UsersTyped
<1>2. d.user \in People /\ d.change \in U!Change
  BY <1>1 DEF UserUpdate
<1>3. updating' = [updating EXCEPT ![q] = U!Idle]
  BY DEF U!Write
<1>4. /\ role' = IF d.change.role = "kept" THEN role ELSE [role EXCEPT ![d.user] = d.change.role]
      /\ enabled' = IF d.change.active = "kept" THEN enabled
                    ELSE [enabled EXCEPT ![d.user] = (d.change.active = "yes")]
  BY DEF U!Write
<1>5. \A p \in Requests \ {q} : updating[p] # U!Idle => d.user \notin updating[p].locked
  BY DEF U!Write
<1>6. \/ \E u \in d.locked : u # d.user /\ u \in U!Admins
      \/ d.user \notin U!Admins \/ ~ Losing(d.change)
  BY <1>1 DEF UsersInv, ClearedIsSafe
<1> HIDE DEF d
<1>7. role' \in [People -> {"admin", "operator"}]
  <2>1. d.change.role \in {"admin", "operator", "kept"}
    BY <1>2 DEF U!Change
  <2> QED BY <1>4, <2>1 DEF UsersInv, UsersTyped
<1>8. enabled' \in [People -> BOOLEAN]
  BY <1>4 DEF UsersInv, UsersTyped
<1>9. UsersTyped'
  BY <1>3, <1>7, <1>8 DEF UsersInv, UsersTyped
<1>10. \A u \in People \ {d.user} : u \in U!Admins' <=> u \in U!Admins
  BY <1>4 DEF U!Admins, UsersInv, UsersTyped
<1>11. ~ Losing(d.change) /\ d.user \in U!Admins => d.user \in U!Admins'
  <2>1. d.change.role \in {"admin", "kept"} \/ Losing(d.change)
    BY <1>2 DEF U!Change, Losing
  <2>2. d.change.active \in {"yes", "kept"} \/ Losing(d.change)
    BY <1>2 DEF U!Change, Losing
  <2> QED
    BY <1>2, <1>4, <2>1, <2>2 DEF U!Admins, UsersInv, UsersTyped
<1>12. U!AdminRemains'
  <2>1. PICK u \in U!Admins : TRUE
    BY DEF UsersInv, U!AdminRemains
  <2>2. u \in People /\ U!Admins \subseteq People
    BY DEF U!Admins
  <2> QED
    BY <1>6, <1>10, <1>11, <2>1, <2>2 DEF U!AdminRemains
<1>13. ClearedIsSafe'
  <2>1. CASE \A p \in Requests : updating'[p] = U!Idle
    BY <2>1 DEF ClearedIsSafe
  <2>2. CASE U!Admins' \subseteq U!Admins
    <3>1. \A p \in Requests : updating'[p] # U!Idle => p # q /\ updating'[p] = updating[p]
      BY <1>3 DEF UsersInv, UsersTyped
    <3>2. \A p \in Requests : updating'[p] # U!Idle => updating[p].locked \subseteq U!Admins'
      <4> SUFFICES ASSUME NEW p \in Requests, updating'[p] # U!Idle, NEW u \in updating[p].locked
                   PROVE  u \in U!Admins'
        OBVIOUS
      <4>1. u \in U!Admins /\ u # d.user
        BY <1>5, <3>1 DEF UsersInv, ClearedIsSafe
      <4> QED
        BY <1>10, <4>1 DEF U!Admins
    <3> QED
      BY <2>2, <3>1, <3>2 DEF UsersInv, ClearedIsSafe
  <2> QED
    BY <2>1, <2>2
<1> QED
  BY <1>9, <1>12, <1>13 DEF UsersInv

LEMMA UsersPart == CompanySpec => [](part = "users" => UsersInv)
<1> DEFINE Inv == part = "users" => UsersInv
<1>1. CompanyInit => Inv
  BY DEF CompanyInit, UsersInit, U!Init, UsersInv, UsersTyped, U!AdminRemains, ClearedIsSafe
<1>2. Inv /\ [CompanyNext]_companyVars => Inv'
  <2> SUFFICES ASSUME Inv, [CompanyNext]_companyVars, part' = "users"
               PROVE  UsersInv'
    OBVIOUS
  <2>1. UsersInv /\ (U!AloneNext \/ UNCHANGED userVars)
    BY DEF CompanyNext, UsersNext, companyVars
  <2>2. CASE U!AloneNext
    <3>1. ASSUME NEW q \in Requests, NEW actor \in People, NEW u \in People,
                 NEW change \in U!Change, U!Read(q, actor, u, change)
          PROVE  UsersInv'
      BY <2>1, <3>1, UsersReadInv
    <3>2. ASSUME NEW q \in Requests, U!CountAdmins(q) \/ U!Write(q) PROVE UsersInv'
      BY <2>1, <2>2, <3>2, UsersCountInv, UsersWriteInv DEF U!AloneNext
    <3> QED
      BY <2>2, <3>1, <3>2 DEF U!AloneNext, U!Next
  <2>3. CASE UNCHANGED userVars
    BY <2>1, <2>3 DEF userVars, UsersInv, UsersTyped, U!AdminRemains, U!Admins, ClearedIsSafe
  <2> QED
    BY <2>1, <2>2, <2>3
<1> QED
  BY <1>1, <1>2, PTL DEF CompanySpec

-----------------------------------------------------------------------------
(* Invitations. *)

InvitationRow == [email : People, accepted : BOOLEAN, expired : BOOLEAN]

Joining == [stage : {"inviting", "replacing", "resending", "accepting", "joining", "creating"},
            email : People, invitation : Nat, expired : BOOLEAN]

InvitationsTyped ==
  /\ members \in [People -> {"none"} \union I!Standing] /\ cameBy \in [People -> Nat]
  /\ made \in Nat
  /\ invitations = [i \in DOMAIN invitations |-> invitations[i]]
  /\ \A i \in DOMAIN invitations : i \in 1..made /\ invitations[i] \in InvitationRow
  /\ inviting \in [Requests -> {I!Idle} \union Joining]

Accepts(d) == d # I!Idle /\ d.stage \in {"accepting", "joining"}

\* The invitation that a request accepts had not expired, and is one of its
\* person, or gone for good: its number is not given again.
AcceptsOwn ==
  \A q \in Requests : Accepts(inviting[q]) =>
    /\ inviting[q].invitation \in 1..made /\ ~ inviting[q].expired
    /\ inviting[q].invitation \in DOMAIN invitations =>
         invitations[inviting[q].invitation].email = inviting[q].email

\* Who came by an invitation is a user, the invitation was accepted, and it is
\* the only user that came by it; and each that was accepted has one.
CameByOwn ==
  /\ \A e \in People : members[e] = "none" => cameBy[e] = 0
  /\ \A e \in People : cameBy[e] # 0 => cameBy[e] \in DOMAIN invitations /\ invitations[cameBy[e]].accepted
  /\ \A i \in DOMAIN invitations : invitations[i].accepted => \E e \in People : cameBy[e] = i
  /\ \A d, e \in People : cameBy[d] = cameBy[e] /\ cameBy[d] # 0 => d = e

InvitationsInv == InvitationsTyped /\ AcceptsOwn /\ CameByOwn

LEMMA IdleIsNotJoining == I!Idle \notin Joining /\ I!Idle.stage = "idle"
  BY DEF I!Idle, Joining

\* A request in a stage of Joining is one.
LEMMA InvitingStage ==
  ASSUME InvitationsTyped, NEW q \in Requests, inviting[q].stage # "idle"
  PROVE  inviting[q] \in Joining /\ inviting[q] # I!Idle
  BY IdleIsNotJoining DEF InvitationsTyped

\* A request that goes on keeps its person and its invitation.
LEMMA Continued ==
  ASSUME InvitationsTyped, NEW q \in Requests, inviting[q].stage # "idle",
         NEW stage \in {"replacing", "joining"}, I!Continue(q, stage)
  PROVE  \E d \in Joining :
           /\ inviting' = [inviting EXCEPT ![q] = d] /\ d.stage = stage
           /\ d.email = inviting[q].email /\ d.invitation = inviting[q].invitation
           /\ d.expired = inviting[q].expired
<1> DEFINE d == [inviting[q] EXCEPT !.stage = stage]
<1>1. inviting[q] \in Joining
  BY InvitingStage
<1>2. /\ d \in Joining /\ d.stage = stage
      /\ d.email = inviting[q].email /\ d.invitation = inviting[q].invitation
      /\ d.expired = inviting[q].expired
  BY <1>1 DEF Joining
<1>3. inviting' = [inviting EXCEPT ![q] = d]
  BY DEF I!Continue
<1> HIDE DEF d
<1> QED
  BY <1>2, <1>3

\* A request that starts.
LEMMA Started ==
  ASSUME NEW q, NEW stage \in {"inviting", "resending", "accepting", "creating"}, NEW e \in People,
         NEW i \in Nat, NEW expired \in BOOLEAN, I!Start(q, stage, e, i, expired)
  PROVE  \E d \in Joining :
           /\ inviting' = [inviting EXCEPT ![q] = d] /\ d.stage = stage
           /\ d.email = e /\ d.invitation = i /\ d.expired = expired
<1> DEFINE d == [stage |-> stage, email |-> e, invitation |-> i, expired |-> expired]
<1>1. d \in Joining /\ d.stage = stage /\ d.email = e /\ d.invitation = i /\ d.expired = expired
  BY DEF Joining
<1>2. inviting' = [inviting EXCEPT ![q] = d]
  BY DEF I!Start
<1> HIDE DEF d
<1> QED
  BY <1>1, <1>2

\* What a step does to rows that accepts none: they keep their person and none
\* becomes accepted.
RowsKept ==
  /\ made' \in Nat /\ made <= made'
  /\ \A i \in DOMAIN invitations' :
       \/ /\ i \in DOMAIN invitations
          /\ invitations'[i].email = invitations[i].email
          /\ invitations'[i].accepted = invitations[i].accepted
       \/ i = made + 1 /\ i = made' /\ ~ invitations'[i].accepted
  /\ \A i \in DOMAIN invitations : invitations[i].accepted => i \in DOMAIN invitations'

\* And the requests that accept are those that did, or one that found its
\* invitation.
AcceptersKept ==
  \A q \in Requests : Accepts(inviting'[q]) =>
    LET d == inviting'[q]
    IN  \/ /\ Accepts(inviting[q]) /\ d.expired = inviting[q].expired
           /\ d.invitation = inviting[q].invitation /\ d.email = inviting[q].email
        \/ /\ d.invitation \in DOMAIN invitations /\ ~ d.expired
           /\ d.email = invitations[d.invitation].email

\* Users stay as they are.
UsersKept == members' = members /\ cameBy' = cameBy

LEMMA OwnStays ==
  ASSUME InvitationsInv, InvitationsTyped', RowsKept, AcceptersKept
  PROVE  AcceptsOwn' /\ I!KeepsAccepted
<1>1. AcceptsOwn'
  <2> SUFFICES ASSUME NEW q \in Requests, Accepts(inviting'[q])
               PROVE  /\ inviting'[q].invitation \in 1..made' /\ ~ inviting'[q].expired
                      /\ inviting'[q].invitation \in DOMAIN invitations' =>
                           invitations'[inviting'[q].invitation].email = inviting'[q].email
    BY DEF AcceptsOwn, Accepts
  <2> DEFINE i == inviting'[q].invitation
  <2>1. /\ i \in 1..made /\ ~ inviting'[q].expired
        /\ i \in DOMAIN invitations => invitations[i].email = inviting'[q].email
    BY DEF AcceptersKept, InvitationsInv, InvitationsTyped, AcceptsOwn
  <2>2. i # made + 1
    BY <2>1 DEF InvitationsInv, InvitationsTyped
  <2>3. i \in 1..made'
    BY <2>1 DEF RowsKept, InvitationsInv, InvitationsTyped
  <2> QED
    BY <2>1, <2>2, <2>3 DEF RowsKept
<1>2. I!KeepsAccepted
  <2> SUFFICES ASSUME NEW i \in DOMAIN invitations, invitations[i].accepted
               PROVE  /\ i \in DOMAIN invitations' /\ invitations'[i].accepted
                      /\ invitations'[i].email = invitations[i].email
    BY DEF I!KeepsAccepted, I!Existing, I!Pending
  <2>1. i \in DOMAIN invitations' /\ i \in 1..made /\ i # made + 1
    BY DEF RowsKept, InvitationsInv, InvitationsTyped
  <2> QED
    BY <2>1 DEF RowsKept
<1> QED
  BY <1>1, <1>2

LEMMA KeptInv ==
  ASSUME InvitationsInv, InvitationsTyped', RowsKept, AcceptersKept, UsersKept
  PROVE  InvitationsInv' /\ I!KeepsAccepted
<1>1. AcceptsOwn' /\ I!KeepsAccepted
  BY OwnStays
<1>2. \A i \in DOMAIN invitations : i # made + 1 /\ i # 0
  BY DEF InvitationsInv, InvitationsTyped
<1>3. CameByOwn'
  <2>1. ASSUME NEW e \in People, cameBy'[e] # 0
        PROVE  cameBy'[e] \in DOMAIN invitations' /\ invitations'[cameBy'[e]].accepted
    <3>1. cameBy[e] \in DOMAIN invitations /\ invitations[cameBy[e]].accepted /\ cameBy'[e] = cameBy[e]
      BY <2>1 DEF InvitationsInv, CameByOwn, UsersKept
    <3> QED
      BY <1>2, <3>1 DEF RowsKept
  <2>2. ASSUME NEW i \in DOMAIN invitations', invitations'[i].accepted
        PROVE  \E e \in People : cameBy'[e] = i
    <3>1. i \in DOMAIN invitations /\ invitations[i].accepted
      BY <2>2 DEF RowsKept
    <3> QED
      BY <3>1 DEF InvitationsInv, CameByOwn, UsersKept
  <2>3. /\ \A e \in People : members'[e] = "none" => cameBy'[e] = 0
        /\ \A d, e \in People : cameBy'[d] = cameBy'[e] /\ cameBy'[d] # 0 => d = e
    BY DEF InvitationsInv, CameByOwn, UsersKept
  <2> QED
    BY <2>1, <2>2, <2>3 DEF CameByOwn
<1> QED
  BY <1>1, <1>3 DEF InvitationsInv

\* A request starts, goes on or ends, and the rows stay.
LEMMA QuietInv ==
  ASSUME InvitationsInv, NEW q \in Requests, NEW d \in {I!Idle} \union Joining,
         inviting' = [inviting EXCEPT ![q] = d],
         UsersKept, invitations' = invitations, made' = made,
         Accepts(d) =>
           \/ /\ Accepts(inviting[q]) /\ d.expired = inviting[q].expired
              /\ d.invitation = inviting[q].invitation /\ d.email = inviting[q].email
           \/ /\ d.invitation \in DOMAIN invitations /\ ~ d.expired
              /\ d.email = invitations[d.invitation].email
  PROVE  InvitationsInv' /\ I!KeepsAccepted
<1>1. InvitationsTyped'
  BY DEF InvitationsInv, InvitationsTyped, UsersKept
<1>2. RowsKept
  BY DEF RowsKept, InvitationsInv, InvitationsTyped
<1>3. AcceptersKept
  BY DEF AcceptersKept, InvitationsInv, InvitationsTyped
<1> QED
  BY <1>1, <1>2, <1>3, KeptInv

LEMMA StartsInv ==
  ASSUME InvitationsInv, NEW q \in Requests,
         \/ \E e \in People : I!CheckInvite(q, e) \/ I!CheckCreate(q, e)
         \/ \E i \in I!Existing : I!CheckResend(q, i) \/ I!FindInvitation(q, i)
  PROVE  InvitationsInv' /\ I!KeepsAccepted
<1>1. UsersKept /\ invitations' = invitations /\ made' = made
  BY DEF I!CheckInvite, I!CheckCreate, I!CheckResend, I!FindInvitation, UsersKept
<1>2. ASSUME NEW e \in People, I!CheckInvite(q, e) \/ I!CheckCreate(q, e)
      PROVE  InvitationsInv' /\ I!KeepsAccepted
  <2>1. PICK stage \in {"inviting", "creating"} : I!Start(q, stage, e, 0, FALSE)
    BY <1>2 DEF I!CheckInvite, I!CheckCreate
  <2> DEFINE d == [stage |-> stage, email |-> e, invitation |-> 0, expired |-> FALSE]
  <2>2. inviting' = [inviting EXCEPT ![q] = d] /\ d \in Joining
    BY <2>1 DEF I!Start, Joining
  <2>3. ~ Accepts(d)
    BY DEF Accepts
  <2> HIDE DEF d
  <2> QED
    BY <1>1, <2>2, <2>3, QuietInv
<1>3. ASSUME NEW i \in I!Existing, I!CheckResend(q, i) \/ I!FindInvitation(q, i)
      PROVE  InvitationsInv' /\ I!KeepsAccepted
  <2>1. /\ i \in DOMAIN invitations /\ i \in Nat /\ invitations[i].email \in People
        /\ invitations[i].expired \in BOOLEAN
    BY DEF I!Existing, InvitationsInv, InvitationsTyped, InvitationRow
  <2>2. CASE I!CheckResend(q, i)
    <3> DEFINE d == [stage |-> "resending", email |-> invitations[i].email, invitation |-> i,
                     expired |-> FALSE]
    <3>1. inviting' = [inviting EXCEPT ![q] = d]
      BY <2>2 DEF I!CheckResend, I!Start
    <3>2. d \in Joining
      BY <2>1 DEF Joining
    <3>3. ~ Accepts(d)
      BY DEF Accepts
    <3> HIDE DEF d
    <3> QED
      BY <1>1, <3>1, <3>2, <3>3, QuietInv
  <2>3. CASE I!FindInvitation(q, i)
    <3>1. PICK d \in Joining : /\ inviting' = [inviting EXCEPT ![q] = d] /\ d.invitation = i
                               /\ d.email = invitations[i].email /\ d.expired = invitations[i].expired
      BY <2>1, <2>3, Started DEF I!FindInvitation
    <3>2. ~ d.expired
      BY <2>3, <3>1 DEF I!FindInvitation, I!Valid
    <3> QED
      BY <1>1, <2>1, <3>1, <3>2, QuietInv
  <2> QED
    BY <1>3, <2>2, <2>3
<1> QED
  BY <1>2, <1>3

LEMMA CheckAcceptInv ==
  ASSUME InvitationsInv, NEW q \in Requests, I!CheckAccept(q) \/ I!GiveUp(q)
  PROVE  InvitationsInv' /\ I!KeepsAccepted
<1>1. UsersKept /\ invitations' = invitations /\ made' = made
  BY DEF I!CheckAccept, I!GiveUp, UsersKept
<1>2. CASE I!CheckAccept(q)
  <2>1. inviting[q].stage = "accepting" /\ Accepts(inviting[q])
    BY <1>2, InvitingStage DEF I!CheckAccept, InvitationsInv, Accepts
  <2>2. PICK d \in Joining :
          /\ inviting' = [inviting EXCEPT ![q] = d] /\ d.expired = inviting[q].expired
          /\ d.email = inviting[q].email /\ d.invitation = inviting[q].invitation
    BY <1>2, <2>1, Continued DEF I!CheckAccept, InvitationsInv
  <2> QED
    BY <1>1, <2>1, <2>2, QuietInv
<1>3. CASE I!GiveUp(q)
  BY <1>1, <1>3, QuietInv DEF I!GiveUp, I!End, Accepts
<1> QED
  BY <1>2, <1>3

\* Rows go away.
LEMMA FewerRows ==
  ASSUME InvitationsInv, NEW gone \in SUBSET I!Pending,
         invitations' = [i \in DOMAIN invitations \ gone |-> invitations[i]],
         UsersKept, made' = made
  PROVE  /\ RowsKept
         /\ inviting' \in [Requests -> {I!Idle} \union Joining] => InvitationsTyped'
<1>1. \A i \in DOMAIN invitations : invitations[i].accepted => i \notin gone
  BY DEF I!Pending
<1>2. RowsKept
  BY <1>1 DEF RowsKept, InvitationsInv, InvitationsTyped
<1>3. inviting' \in [Requests -> {I!Idle} \union Joining] => InvitationsTyped'
  BY DEF InvitationsInv, InvitationsTyped, UsersKept
<1> QED
  BY <1>2, <1>3

\* A row changes whether it has expired.
LEMMA OtherExpiry ==
  ASSUME InvitationsInv, NEW i \in DOMAIN invitations, NEW expired \in BOOLEAN,
         invitations' = I!WithExpired(i, expired), UsersKept, made' = made
  PROVE  /\ RowsKept
         /\ inviting' \in [Requests -> {I!Idle} \union Joining] => InvitationsTyped'
<1> DEFINE row == [invitations[i] EXCEPT !.expired = expired]
<1>1. /\ row \in InvitationRow /\ row.email = invitations[i].email
      /\ row.accepted = invitations[i].accepted
  BY DEF InvitationRow, InvitationsInv, InvitationsTyped
<1>2. invitations' = [invitations EXCEPT ![i] = row]
  BY DEF I!WithExpired
<1> HIDE DEF row
<1>3. /\ DOMAIN invitations' = DOMAIN invitations /\ invitations'[i] = row
      /\ \A j \in DOMAIN invitations \ {i} : invitations'[j] = invitations[j]
      /\ invitations' = [j \in DOMAIN invitations' |-> invitations'[j]]
  BY <1>2
<1>4. RowsKept
  BY <1>1, <1>3 DEF RowsKept, InvitationsInv, InvitationsTyped
<1>5. inviting' \in [Requests -> {I!Idle} \union Joining] => InvitationsTyped'
  BY <1>1, <1>3 DEF InvitationsInv, InvitationsTyped, UsersKept
<1> QED
  BY <1>4, <1>5

LEMMA DropPendingInv ==
  ASSUME InvitationsInv, NEW q \in Requests, I!DropPending(q)
  PROVE  InvitationsInv' /\ I!KeepsAccepted
<1> DEFINE gone == I!Replaced(inviting[q].email)
<1>1. /\ invitations' = [i \in DOMAIN invitations \ gone |-> invitations[i]]
      /\ UsersKept /\ made' = made /\ gone \in SUBSET I!Pending
  BY DEF I!DropPending, I!Without, I!Existing, I!Replaced, I!PendingOf, UsersKept
<1> HIDE DEF gone
<1>2. PICK d \in Joining : inviting' = [inviting EXCEPT ![q] = d] /\ d.stage = "replacing"
  BY Continued DEF I!DropPending, InvitationsInv
<1>3. ~ Accepts(d)
  BY <1>2 DEF Accepts
<1>4. inviting' \in [Requests -> {I!Idle} \union Joining] /\ AcceptersKept
  BY <1>2, <1>3 DEF AcceptersKept, InvitationsInv, InvitationsTyped
<1>5. RowsKept /\ InvitationsTyped'
  BY <1>1, <1>4, FewerRows
<1> QED
  BY <1>1, <1>4, <1>5, KeptInv

\* The request ends.
LEMMA EndsKept ==
  ASSUME InvitationsInv, NEW q \in Requests, I!End(q)
  PROVE  inviting' \in [Requests -> {I!Idle} \union Joining] /\ AcceptersKept
  BY DEF I!End, AcceptersKept, Accepts, InvitationsInv, InvitationsTyped

LEMMA CreateInvitationInv ==
  ASSUME InvitationsInv, NEW q \in Requests, I!CreateInvitation(q)
  PROVE  InvitationsInv' /\ I!KeepsAccepted
<1> DEFINE row == [email |-> inviting[q].email, accepted |-> FALSE, expired |-> FALSE]
<1>1. inviting[q] \in Joining
  BY InvitingStage DEF I!CreateInvitation, InvitationsInv
<1>2. row \in InvitationRow /\ ~ row.accepted
  BY <1>1 DEF Joining, InvitationRow
<1>3. /\ I!End(q) /\ UsersKept /\ made' = made + 1
      /\ invitations' = [i \in DOMAIN invitations \union {made + 1} |->
                           IF i = made + 1 THEN row ELSE invitations[i]]
  BY DEF I!CreateInvitation, I!Existing, UsersKept
<1> HIDE DEF row
<1>4. made \in Nat /\ made + 1 \notin DOMAIN invitations
  BY DEF InvitationsInv, InvitationsTyped
<1>5. inviting' \in [Requests -> {I!Idle} \union Joining] /\ AcceptersKept
  BY <1>3, EndsKept
<1>6. InvitationsTyped'
  <2>1. \A i \in DOMAIN invitations' : i \in 1..made' /\ invitations'[i] \in InvitationRow
    BY <1>2, <1>3, <1>4 DEF InvitationsInv, InvitationsTyped
  <2>2. invitations' = [i \in DOMAIN invitations' |-> invitations'[i]]
    BY <1>3
  <2>3. members' \in [People -> {"none"} \union I!Standing] /\ cameBy' \in [People -> Nat]
    BY <1>3 DEF UsersKept, InvitationsInv, InvitationsTyped
  <2>4. made' \in Nat
    BY <1>3, <1>4
  <2> QED
    BY ONLY <1>5, <2>1, <2>2, <2>3, <2>4 DEF InvitationsTyped
<1>7. RowsKept
  BY <1>2, <1>3, <1>4 DEF RowsKept
<1> QED
  BY <1>3, <1>5, <1>6, <1>7, KeptInv

LEMMA WriteResendInv ==
  ASSUME InvitationsInv, NEW q \in Requests, I!WriteResend(q)
  PROVE  InvitationsInv' /\ I!KeepsAccepted
<1> DEFINE i == inviting[q].invitation
<1>1. /\ I!End(q) /\ UsersKept /\ made' = made
      /\ \/ i \in DOMAIN invitations /\ invitations' = I!WithExpired(i, FALSE)
         \/ invitations' = invitations
  BY DEF I!WriteResend, I!Existing, UsersKept
<1> HIDE DEF i
<1>2. inviting' \in [Requests -> {I!Idle} \union Joining] /\ AcceptersKept
  BY <1>1, EndsKept
<1>3. CASE i \in DOMAIN invitations /\ invitations' = I!WithExpired(i, FALSE)
  <2>1. RowsKept /\ InvitationsTyped'
    BY <1>1, <1>2, <1>3, OtherExpiry
  <2> QED
    BY <1>1, <1>2, <2>1, KeptInv
<1>4. CASE invitations' = invitations
  <2>1. RowsKept /\ InvitationsTyped'
    BY <1>1, <1>2, <1>4 DEF RowsKept, InvitationsInv, InvitationsTyped, UsersKept
  <2> QED
    BY <1>1, <1>2, <2>1, KeptInv
<1> QED
  BY <1>1, <1>3, <1>4

LEMMA RevokeOrExpireInv ==
  ASSUME InvitationsInv, NEW i \in I!Existing, I!Revoke(i) \/ I!Expire(i)
  PROVE  InvitationsInv' /\ I!KeepsAccepted
<1>1. UsersKept /\ made' = made /\ inviting' = inviting
  BY DEF I!Revoke, I!Expire, UsersKept
<1>2. AcceptersKept /\ inviting' \in [Requests -> {I!Idle} \union Joining]
  BY <1>1 DEF AcceptersKept, InvitationsInv, InvitationsTyped
<1>3. CASE I!Revoke(i)
  <2>1. /\ invitations' = [j \in DOMAIN invitations \ {i} |-> invitations[j]]
        /\ {i} \in SUBSET I!Pending
    BY <1>3 DEF I!Revoke, I!Without, I!Existing
  <2>2. RowsKept /\ InvitationsTyped'
    BY <1>1, <1>2, <2>1, FewerRows
  <2> QED
    BY <1>1, <1>2, <2>2, KeptInv
<1>4. CASE I!Expire(i)
  <2>1. i \in DOMAIN invitations /\ invitations' = I!WithExpired(i, TRUE)
    BY <1>4 DEF I!Expire, I!Existing
  <2>2. RowsKept /\ InvitationsTyped'
    BY <1>1, <1>2, <2>1, OtherExpiry
  <2> QED
    BY <1>1, <1>2, <2>2, KeptInv
<1> QED
  BY <1>3, <1>4

\* Only the users change.
LEMMA SameRowsInv ==
  ASSUME InvitationsInv, invitations' = invitations, made' = made, AcceptersKept,
         inviting' \in [Requests -> {I!Idle} \union Joining],
         members' \in [People -> {"none"} \union I!Standing], cameBy' \in [People -> Nat],
         CameByOwn'
  PROVE  InvitationsInv' /\ I!KeepsAccepted
<1>1. InvitationsTyped' /\ RowsKept
  BY DEF RowsKept, InvitationsInv, InvitationsTyped
<1> QED
  BY <1>1, OwnStays DEF InvitationsInv

LEMMA CreateUserInv ==
  ASSUME InvitationsInv, NEW q \in Requests, I!CreateUser(q)
  PROVE  InvitationsInv' /\ I!KeepsAccepted
<1> DEFINE e == inviting[q].email
<1>1. /\ I!End(q) /\ invitations' = invitations /\ made' = made /\ cameBy' = cameBy
      /\ members' = [members EXCEPT ![e] = "active"]
  BY DEF I!CreateUser
<1>2. AcceptersKept /\ inviting' \in [Requests -> {I!Idle} \union Joining]
  BY <1>1, EndsKept
<1>3. members' \in [People -> {"none"} \union I!Standing] /\ cameBy' \in [People -> Nat]
  BY <1>1 DEF InvitationsInv, InvitationsTyped, I!Standing
<1>4. CameByOwn'
  BY <1>1 DEF CameByOwn, InvitationsInv, InvitationsTyped
<1> QED
  BY <1>1, <1>2, <1>3, <1>4, SameRowsInv

\* A user whose address changes takes along how it came.
LEMMA UpdateInv ==
  ASSUME InvitationsInv, NEW e \in People, NEW f \in People, NEW standing \in I!Standing,
         I!Update(e, f, standing)
  PROVE  InvitationsInv' /\ I!KeepsAccepted
<1>1. /\ members[e] # "none" /\ (f = e \/ members[f] = "none")
      /\ members' = [d \in People |-> IF d = f THEN standing ELSE IF d = e THEN "none" ELSE members[d]]
      /\ cameBy' = [d \in People |-> IF d = f THEN cameBy[e] ELSE IF d = e THEN 0 ELSE cameBy[d]]
      /\ invitations' = invitations /\ made' = made /\ inviting' = inviting
  BY DEF I!Update, I!EmailFree
<1>2. AcceptersKept /\ inviting' \in [Requests -> {I!Idle} \union Joining]
  BY <1>1 DEF AcceptersKept, InvitationsInv, InvitationsTyped
<1>3. members' \in [People -> {"none"} \union I!Standing] /\ cameBy' \in [People -> Nat]
  BY <1>1 DEF InvitationsInv, InvitationsTyped
<1>4. CameByOwn'
  <2>1. standing # "none"
    BY DEF I!Standing
  <2>2. \A d \in People : members'[d] = "none" => cameBy'[d] = 0
    BY <1>1, <2>1 DEF InvitationsInv, CameByOwn
  <2>3. \A d \in People : cameBy'[d] # 0 => cameBy'[d] \in DOMAIN invitations' /\ invitations'[cameBy'[d]].accepted
    BY <1>1 DEF InvitationsInv, CameByOwn
  <2>4. ASSUME NEW i \in DOMAIN invitations', invitations'[i].accepted
        PROVE  \E d \in People : cameBy'[d] = i
    <3>1. PICK d \in People : cameBy[d] = i
      BY <1>1, <2>4 DEF InvitationsInv, CameByOwn
    <3>2. i # 0
      BY <1>1 DEF InvitationsInv, InvitationsTyped
    <3>3. d = f => d = e
      BY <1>1, <3>1, <3>2 DEF InvitationsInv, CameByOwn
    <3>4. CASE d = e
      BY <1>1, <3>1, <3>4
    <3>5. CASE d # e
      BY <1>1, <3>1, <3>3, <3>5
    <3> QED
      BY <3>4, <3>5
  <2>5. ASSUME NEW c \in People, NEW d \in People, cameBy'[c] = cameBy'[d], cameBy'[c] # 0
        PROVE  c = d
    <3>1. members[f] = "none" => cameBy[f] = 0
      BY DEF InvitationsInv, CameByOwn
    <3>2. \A a, b \in People : cameBy[a] = cameBy[b] /\ cameBy[a] # 0 => a = b
      BY DEF InvitationsInv, CameByOwn
    <3>3. cameBy'[c] = (IF c = f THEN cameBy[e] ELSE IF c = e THEN 0 ELSE cameBy[c])
      BY <1>1
    <3>4. cameBy'[d] = (IF d = f THEN cameBy[e] ELSE IF d = e THEN 0 ELSE cameBy[d])
      BY <1>1
    <3>5. CASE c = f
      BY <2>5, <3>2, <3>3, <3>4, <3>5
    <3>6. CASE c # f
      BY <2>5, <3>2, <3>3, <3>4, <3>6
    <3> QED
      BY <3>5, <3>6
  <2> QED
    BY <2>2, <2>3, <2>4, <2>5 DEF CameByOwn
<1> QED
  BY <1>1, <1>2, <1>3, <1>4, SameRowsInv

\* By an invitation that is pending nobody came.
LEMMA JoinInv ==
  ASSUME InvitationsInv, NEW q \in Requests, I!Join(q)
  PROVE  InvitationsInv' /\ I!KeepsAccepted
<1> DEFINE e == inviting[q].email
           i == inviting[q].invitation
           row == [invitations[i] EXCEPT !.accepted = TRUE]
<1>1. inviting[q] \in Joining /\ Accepts(inviting[q])
  BY InvitingStage DEF I!Join, InvitationsInv, Accepts
<1>2. e \in People
  BY <1>1 DEF Joining
<1>3. /\ I!End(q) /\ made' = made
      /\ members' = [members EXCEPT ![e] = "active"] /\ cameBy' = [cameBy EXCEPT ![e] = i]
      /\ i \in DOMAIN invitations /\ ~ invitations[i].accepted /\ members[e] = "none"
      /\ invitations' = [j \in DOMAIN invitations |-> IF j = i THEN row ELSE invitations[j]]
  BY DEF I!Join, I!StillPending, I!EmailFree, I!Pending, I!Existing
<1>4. row \in InvitationRow /\ row.email = invitations[i].email /\ row.accepted
  BY <1>3 DEF InvitationRow, InvitationsInv, InvitationsTyped
<1>5. i \in Nat /\ i # 0
  BY <1>3 DEF InvitationsInv, InvitationsTyped
<1>6. AcceptersKept /\ inviting' \in [Requests -> {I!Idle} \union Joining]
  BY <1>3, EndsKept
<1> HIDE DEF row, e, i
<1>7. /\ DOMAIN invitations' = DOMAIN invitations /\ invitations'[i] = row
      /\ \A j \in DOMAIN invitations \ {i} : invitations'[j] = invitations[j]
      /\ invitations' = [j \in DOMAIN invitations' |-> invitations'[j]]
  BY <1>3
<1>8. /\ members'[e] = "active" /\ \A f \in People \ {e} : members'[f] = members[f]
      /\ cameBy'[e] = i /\ \A f \in People \ {e} : cameBy'[f] = cameBy[f]
  BY <1>2, <1>3 DEF InvitationsInv, InvitationsTyped
<1>9. InvitationsTyped'
  <2>1. members' \in [People -> {"none"} \union I!Standing] /\ cameBy' \in [People -> Nat]
    BY <1>3, <1>5 DEF InvitationsInv, InvitationsTyped, I!Standing
  <2> QED
    BY <1>3, <1>4, <1>6, <1>7, <2>1 DEF InvitationsInv, InvitationsTyped
<1>10. \A j \in DOMAIN invitations : invitations'[j].email = invitations[j].email
  BY <1>4, <1>7
<1>11. AcceptsOwn'
  <2>1. \A p \in Requests : Accepts(inviting'[p]) => inviting'[p] = inviting[p]
    BY <1>3 DEF I!End, Accepts, InvitationsInv, InvitationsTyped
  <2> QED
    BY <1>3, <1>7, <1>10, <2>1 DEF AcceptsOwn, Accepts, InvitationsInv
<1>12. CameByOwn'
  <2>1. \A f \in People : cameBy[f] # i
    BY <1>3, <1>5 DEF InvitationsInv, CameByOwn
  <2>2. \A f \in People : members'[f] = "none" => cameBy'[f] = 0
    BY <1>8 DEF InvitationsInv, CameByOwn
  <2>3. \A f \in People : cameBy'[f] # 0 => cameBy'[f] \in DOMAIN invitations' /\ invitations'[cameBy'[f]].accepted
    BY <1>3, <1>4, <1>7, <1>8 DEF InvitationsInv, CameByOwn
  <2>4. ASSUME NEW j \in DOMAIN invitations', invitations'[j].accepted
        PROVE  \E f \in People : cameBy'[f] = j
    <3>1. CASE j = i
      BY <1>2, <1>8, <3>1
    <3>2. CASE j # i
      <4>1. j \in DOMAIN invitations /\ invitations[j].accepted
        BY <1>7, <2>4, <3>2
      <4>2. PICK f \in People : cameBy[f] = j
        BY <4>1 DEF InvitationsInv, CameByOwn
      <4>3. j # 0 /\ cameBy[e] = 0
        BY <1>2, <1>3, <4>1 DEF InvitationsInv, InvitationsTyped, CameByOwn
      <4> QED
        BY <1>8, <4>2, <4>3
    <3> QED
      BY <3>1, <3>2
  <2>5. \A c, d \in People : cameBy'[c] = cameBy'[d] /\ cameBy'[c] # 0 => c = d
    BY <1>8, <2>1 DEF InvitationsInv, CameByOwn
  <2> QED
    BY <2>2, <2>3, <2>4, <2>5 DEF CameByOwn
<1>13. I!KeepsAccepted
  BY <1>3, <1>7, <1>10 DEF I!KeepsAccepted, I!Existing, I!Pending
<1> QED
  BY <1>9, <1>11, <1>12, <1>13 DEF InvitationsInv

LEMMA InvitationsStep ==
  ASSUME InvitationsInv, [I!Next]_seatVars
  PROVE  InvitationsInv' /\ I!KeepsAccepted
<1>1. ASSUME NEW q \in Requests,
             \/ \E e \in People : I!CheckInvite(q, e) \/ I!CheckCreate(q, e)
             \/ \E i \in I!Existing : I!CheckResend(q, i) \/ I!FindInvitation(q, i)
             \/ I!DropPending(q) \/ I!CreateInvitation(q) \/ I!WriteResend(q)
             \/ I!CheckAccept(q) \/ I!Join(q) \/ I!CreateUser(q) \/ I!GiveUp(q)
      PROVE  InvitationsInv' /\ I!KeepsAccepted
  BY <1>1, StartsInv, DropPendingInv, CreateInvitationInv, WriteResendInv, CheckAcceptInv, JoinInv,
     CreateUserInv
<1>2. ASSUME NEW i \in I!Existing, I!Revoke(i) \/ I!Expire(i)
      PROVE  InvitationsInv' /\ I!KeepsAccepted
  BY <1>2, RevokeOrExpireInv
<1>3. ASSUME NEW e \in People, NEW f \in People, NEW standing \in I!Standing, I!Update(e, f, standing)
      PROVE  InvitationsInv' /\ I!KeepsAccepted
  BY <1>3, UpdateInv
<1>4. CASE UNCHANGED seatVars
  <2>1. InvitationsTyped' /\ RowsKept /\ AcceptersKept /\ UsersKept
    BY <1>4 DEF seatVars, RowsKept, AcceptersKept, UsersKept, InvitationsInv, InvitationsTyped
  <2> QED
    BY <2>1, KeptInv
<1> QED
  BY <1>1, <1>2, <1>3, <1>4 DEF I!Next, I!InviteOrCreate

LEMMA CameGivesOne ==
  ASSUME InvitationsInv
  PROVE  I!OneUserPerInvitation
<1>1. \A i \in DOMAIN invitations : i # 0
  BY DEF InvitationsInv, InvitationsTyped
<1>2. {cameBy[e] : e \in I!Member} \ {0} = I!Existing \ I!Pending
  BY <1>1 DEF I!Member, I!Existing, I!Pending, InvitationsInv, CameByOwn
<1>3. \A d, e \in I!Member : cameBy[d] = cameBy[e] /\ cameBy[d] # 0 => d = e
  BY DEF I!Member, InvitationsInv, CameByOwn
<1> QED
  BY <1>2, <1>3 DEF I!OneUserPerInvitation

\* Who becomes a user does it in the step of one request.
LEMMA JoinsStep ==
  ASSUME InvitationsInv, [I!Next]_seatVars
  PROVE  I!JoinsInvited
<1> SUFFICES ASSUME I!Member \subseteq I!Member', NEW e \in I!Member' \ I!Member
             PROVE  \E q \in Requests :
                      /\ inviting[q] # I!Idle /\ inviting[q].email = e
                      /\ \/ inviting[q].stage = "creating"
                         \/ /\ inviting[q].invitation \in I!Pending /\ ~ inviting[q].expired
                            /\ invitations[inviting[q].invitation].email = e
  BY DEF I!JoinsInvited
<1>1. e \in People /\ members[e] = "none" /\ members'[e] # "none"
  BY DEF I!Member
<1>2. ~ \E c, f \in People, standing \in I!Standing : I!Update(c, f, standing)
  <2> SUFFICES ASSUME NEW c \in People, NEW f \in People, NEW standing \in I!Standing,
                      I!Update(c, f, standing)
               PROVE  FALSE
    OBVIOUS
  <2>1. /\ members[c] # "none"
        /\ members' = [d \in People |-> IF d = f THEN standing ELSE IF d = c THEN "none" ELSE members[d]]
    BY DEF I!Update
  <2>2. c \in I!Member' /\ members'[c] # "none"
    BY <2>1 DEF I!Member
  <2> QED
    BY <1>1, <2>1, <2>2
<1>3. PICK q \in Requests : I!Join(q) \/ I!CreateUser(q)
  <2>1. members' # members /\ I!Next
    BY <1>1 DEF seatVars
  <2> QED
    BY <1>2, <2>1 DEF I!Next, I!InviteOrCreate, I!CheckInvite, I!CheckCreate, I!CheckResend,
         I!FindInvitation, I!DropPending, I!CreateInvitation, I!WriteResend, I!CheckAccept, I!GiveUp,
         I!Revoke, I!Expire
<1>4. members' = [members EXCEPT ![inviting[q].email] = "active"]
  BY <1>3 DEF I!Join, I!CreateUser
<1>5. inviting[q].email = e
  BY <1>1, <1>4 DEF InvitationsInv, InvitationsTyped
<1>6. inviting[q] # I!Idle
  BY <1>3, IdleIsNotJoining DEF I!Join, I!CreateUser
<1>7. CASE I!CreateUser(q)
  BY <1>5, <1>6, <1>7 DEF I!CreateUser
<1>8. CASE I!Join(q)
  <2>1. inviting[q].invitation \in I!Pending /\ Accepts(inviting[q])
    BY <1>6, <1>8 DEF I!Join, I!StillPending, Accepts
  <2>2. ~ inviting[q].expired /\ invitations[inviting[q].invitation].email = e
    BY <1>5, <2>1 DEF I!Pending, I!Existing, InvitationsInv, AcceptsOwn
  <2> QED
    BY <1>5, <1>6, <2>1, <2>2
<1> QED
  BY <1>3, <1>7, <1>8

LEMMA NoReactivationIsNext == I!NoReactivationNext => I!Next
  BY DEF I!NoReactivationNext, I!Next

\* What MembershipKept says of people.
MembersStep == part \in {"invitations", "seats"} => I!KeepsAccepted /\ I!JoinsInvited

LEMMA InvitationsPart ==
  CompanySpec => /\ [](part \in {"invitations", "seats"} => InvitationsInv)
                 /\ [][MembersStep]_companyVars
<1> DEFINE Inv == part \in {"invitations", "seats"} => InvitationsInv
<1>1. CompanyInit => Inv
  <2> SUFFICES ASSUME I!Init PROVE InvitationsInv
    BY DEF CompanyInit, SeatsInit
  <2>1. invitations = <<>> /\ DOMAIN invitations = {}
    BY DEF I!Init
  <2>2. invitations = [i \in DOMAIN invitations |-> invitations[i]]
    BY <2>1
  <2>3. InvitationsTyped
    BY <2>1, <2>2 DEF I!Init, InvitationsTyped, I!Standing
  <2> QED
    BY <2>1, <2>3 DEF I!Init, InvitationsInv, AcceptsOwn, Accepts, CameByOwn
<1>2. Inv /\ [CompanyNext]_companyVars => Inv' /\ MembersStep
  <2> SUFFICES ASSUME Inv, [CompanyNext]_companyVars,
                      part \in {"invitations", "seats"} \/ part' \in {"invitations", "seats"}
               PROVE  InvitationsInv' /\ I!KeepsAccepted /\ I!JoinsInvited
    BY DEF MembersStep
  <2>1. InvitationsInv /\ [I!Next]_seatVars
    BY NoReactivationIsNext DEF CompanyNext, SeatsNext, companyVars
  <2> QED
    BY <2>1, InvitationsStep, JoinsStep
<1> QED
  BY <1>1, <1>2, PTL DEF CompanySpec

-----------------------------------------------------------------------------
(* Seats. *)

\* Requests that found a seat free and will create a user.
Cleared == {q \in Requests : inviting[q].stage \in {"joining", "creating"}}

\* Each of them found one seat free, so that however many wait, they exceed the
\* limit by all but one.
SeatsInv ==
  Cardinality(I!Active) + Cardinality(Cleared) <= SeatLimit + Cardinality(Requests) - 1

LEMMA SeatsFinite ==
  /\ \A T : I!Cardinality(T) = Cardinality(T)
  /\ SeatLimit \in Nat \ {0} /\ Cardinality(Requests) \in Nat \ {0}
  /\ \A T \in SUBSET People : IsFiniteSet(T) /\ Cardinality(T) \in Nat
  /\ \A T \in SUBSET Requests :
       IsFiniteSet(T) /\ Cardinality(T) \in Nat /\ Cardinality(T) <= Cardinality(Requests)
<1>1. \A T : I!Cardinality(T) = Cardinality(T)
  BY DEF I!Cardinality, Cardinality
<1>2. SeatLimit \in Nat \ {0} /\ Cardinality(Requests) \in Nat \ {0}
  BY CompanyAssumption, SeatsAssumption, FS_EmptySet, FS_CardinalityType DEF I!SeatsAssumption
<1>3. \A T \in SUBSET People : IsFiniteSet(T) /\ Cardinality(T) \in Nat
  BY CompanyAssumption, FS_Subset, FS_CardinalityType
<1>4. \A T \in SUBSET Requests :
        IsFiniteSet(T) /\ Cardinality(T) \in Nat /\ Cardinality(T) <= Cardinality(Requests)
  BY CompanyAssumption, FS_Subset, FS_CardinalityType
<1> QED
  BY <1>1, <1>2, <1>3, <1>4

\* The four things that a step may do to the count.
LEMMA SeatsCount ==
  ASSUME SeatsInv,
         \/ I!Active' \subseteq I!Active /\ Cleared' \subseteq Cleared
         \/ I!Active' \subseteq I!Active /\ I!SeatFree
         \/ \E q \in Cleared : \E e : /\ I!Active' \subseteq I!Active \union {e}
                                      /\ Cleared' \subseteq Cleared \ {q}
         \/ \E e \in I!Active : \E f : /\ I!Active' \subseteq (I!Active \ {e}) \union {f}
                                       /\ Cleared' \subseteq Cleared
  PROVE  SeatsInv'
<1>1. /\ I!Active \in SUBSET People /\ I!Active' \in SUBSET People
      /\ Cleared \in SUBSET Requests /\ Cleared' \in SUBSET Requests
  BY DEF I!Active, Cleared
<1>2. /\ Cardinality(I!Active) \in Nat /\ Cardinality(I!Active') \in Nat
      /\ Cardinality(Cleared) \in Nat /\ Cardinality(Cleared') \in Nat
      /\ Cardinality(Cleared') <= Cardinality(Requests)
      /\ IsFiniteSet(I!Active) /\ IsFiniteSet(Cleared)
      /\ SeatLimit \in Nat /\ Cardinality(Requests) \in Nat
  BY <1>1, SeatsFinite
<1>3. I!Active' \subseteq I!Active => Cardinality(I!Active') <= Cardinality(I!Active)
  BY <1>2, FS_Subset
<1>4. Cleared' \subseteq Cleared => Cardinality(Cleared') <= Cardinality(Cleared)
  BY <1>2, FS_Subset
<1>5. CASE I!Active' \subseteq I!Active /\ Cleared' \subseteq Cleared
  BY <1>2, <1>3, <1>4, <1>5 DEF SeatsInv
<1>6. CASE I!Active' \subseteq I!Active /\ I!SeatFree
  <2>1. Cardinality(I!Active) < SeatLimit
    BY <1>6, SeatsFinite DEF I!SeatFree
  <2> QED
    BY <1>2, <1>3, <1>6, <2>1 DEF SeatsInv
<1>7. ASSUME NEW T \in SUBSET People, NEW e, I!Active' \subseteq T \union {e}
      PROVE  Cardinality(I!Active') <= Cardinality(T) + 1 /\ Cardinality(T) \in Nat
  <2>1. IsFiniteSet(T) /\ Cardinality(T) \in Nat
    BY SeatsFinite
  <2>2. /\ IsFiniteSet(T \union {e})
        /\ Cardinality(T \union {e}) = IF e \in T THEN Cardinality(T) ELSE Cardinality(T) + 1
    BY <2>1, FS_AddElement
  <2>3. Cardinality(I!Active') <= Cardinality(T \union {e})
    BY <1>7, <2>2, FS_Subset
  <2> QED
    BY <1>2, <2>1, <2>2, <2>3
<1>8. ASSUME NEW q \in Cleared, NEW e, I!Active' \subseteq I!Active \union {e},
             Cleared' \subseteq Cleared \ {q}
      PROVE  SeatsInv'
  <2>1. Cardinality(I!Active') <= Cardinality(I!Active) + 1
    BY <1>1, <1>7, <1>8
  <2>2. /\ IsFiniteSet(Cleared \ {q}) /\ Cardinality(Cleared \ {q}) = Cardinality(Cleared) - 1
    BY <1>2, <1>8, FS_RemoveElement
  <2>3. Cardinality(Cleared') <= Cardinality(Cleared \ {q})
    BY <1>8, <2>2, FS_Subset
  <2> QED
    BY <1>2, <2>1, <2>2, <2>3 DEF SeatsInv
<1>9. ASSUME NEW e \in I!Active, NEW f, I!Active' \subseteq (I!Active \ {e}) \union {f},
             Cleared' \subseteq Cleared
      PROVE  SeatsInv'
  <2>1. /\ Cardinality(I!Active \ {e}) = Cardinality(I!Active) - 1
    BY <1>2, FS_RemoveElement
  <2>2. Cardinality(I!Active') <= Cardinality(I!Active \ {e}) + 1
    BY <1>1, <1>7, <1>9
  <2> QED
    BY <1>2, <1>4, <1>9, <2>1, <2>2 DEF SeatsInv
<1> QED
  BY <1>5, <1>6, <1>8, <1>9

LEMMA SeatsStep ==
  ASSUME InvitationsTyped, SeatsInv, [I!NoReactivationNext]_seatVars
  PROVE  SeatsInv'
<1>1. members' = members => I!Active' = I!Active
  BY DEF I!Active
<1>2. ASSUME NEW q \in Requests, I!SeatFree, members' = members
      PROVE  SeatsInv'
  BY <1>1, <1>2, SeatsCount
<1>3. ASSUME NEW q \in Requests, NEW d, members' = members,
             inviting' = [inviting EXCEPT ![q] = d], d.stage \notin {"joining", "creating"}
      PROVE  SeatsInv'
  <2>1. Cleared' \subseteq Cleared
    BY <1>3 DEF Cleared, InvitationsTyped
  <2> QED
    BY <1>1, <1>3, <2>1, SeatsCount
<1>4. ASSUME NEW q \in Requests, I!Join(q) \/ I!CreateUser(q)
      PROVE  SeatsInv'
  <2> DEFINE e == inviting[q].email
  <2>1. /\ q \in Cleared /\ inviting' = [inviting EXCEPT ![q] = I!Idle]
        /\ members' = [members EXCEPT ![e] = "active"]
    BY <1>4 DEF I!Join, I!CreateUser, I!End, Cleared
  <2> HIDE DEF e
  <2>2. I!Active' \subseteq I!Active \union {e}
    BY <2>1 DEF I!Active, InvitationsTyped
  <2>3. Cleared' \subseteq Cleared \ {q}
    BY <2>1 DEF Cleared, I!Idle, InvitationsTyped
  <2> QED
    BY <2>1, <2>2, <2>3, SeatsCount
<1>5. ASSUME NEW q \in Requests,
             I!CreateInvitation(q) \/ I!WriteResend(q) \/ I!GiveUp(q)
      PROVE  SeatsInv'
  <2>1. members' = members /\ inviting' = [inviting EXCEPT ![q] = I!Idle]
    BY <1>5 DEF I!CreateInvitation, I!WriteResend, I!GiveUp, I!End
  <2> QED
    BY <1>3, <2>1, IdleIsNotJoining
<1>6. ASSUME NEW q \in Requests, I!DropPending(q)
      PROVE  SeatsInv'
  <2>1. PICK d \in Joining : inviting' = [inviting EXCEPT ![q] = d] /\ d.stage = "replacing"
    BY <1>6, Continued DEF I!DropPending
  <2> QED
    BY <1>3, <1>6, <2>1 DEF I!DropPending
<1>7. ASSUME NEW q \in Requests, NEW i \in I!Existing, I!CheckResend(q, i) \/ I!FindInvitation(q, i)
      PROVE  SeatsInv'
  <2>1. PICK d : inviting' = [inviting EXCEPT ![q] = d] /\ d.stage \in {"resending", "accepting"}
    <3>1. PICK stage \in {"resending", "accepting"}, expired \in {FALSE, invitations[i].expired} :
            I!Start(q, stage, invitations[i].email, i, expired)
      BY <1>7 DEF I!CheckResend, I!FindInvitation
    <3> DEFINE d == [stage |-> stage, email |-> invitations[i].email, invitation |-> i,
                     expired |-> expired]
    <3>2. inviting' = [inviting EXCEPT ![q] = d] /\ d.stage = stage
      BY <3>1 DEF I!Start
    <3> QED
      BY <3>2
  <2> QED
    BY <1>3, <1>7, <2>1 DEF I!CheckResend, I!FindInvitation
<1>8. ASSUME NEW e \in People, NEW f \in People, NEW standing \in I!Standing, I!Update(e, f, standing),
             members[e] = "inactive" => standing = "inactive"
      PROVE  SeatsInv'
  <2>1. /\ members[e] # "none" /\ inviting' = inviting
        /\ members' = [d \in People |-> IF d = f THEN standing ELSE IF d = e THEN "none" ELSE members[d]]
    BY <1>8 DEF I!Update
  <2>2. Cleared' = Cleared
    BY <2>1 DEF Cleared
  <2>3. CASE standing = "inactive"
    <3>1. I!Active' \subseteq I!Active
      BY <2>1, <2>3 DEF I!Active
    <3> QED
      BY <2>2, <3>1, SeatsCount
  <2>4. CASE standing = "active"
    <3>1. e \in I!Active
      BY <1>8, <2>1, <2>4 DEF I!Active, I!Standing, InvitationsTyped
    <3>2. I!Active' \subseteq (I!Active \ {e}) \union {f}
      BY <2>1 DEF I!Active
    <3> QED
      BY <2>2, <3>1, <3>2, SeatsCount
  <2> QED
    BY <2>3, <2>4 DEF I!Standing
<1>9. ASSUME members' = members, inviting' = inviting
      PROVE  SeatsInv'
  <2>1. Cleared' = Cleared
    BY <1>9 DEF Cleared
  <2> QED
    BY <1>1, <1>9, <2>1, SeatsCount
<1>10. ASSUME NEW q \in Requests, NEW e \in People,
              I!CheckInvite(q, e) \/ I!CheckCreate(q, e)
       PROVE  SeatsInv'
  BY <1>2, <1>10 DEF I!CheckInvite, I!CheckCreate
<1>11. ASSUME NEW q \in Requests, I!CheckAccept(q)
       PROVE  SeatsInv'
  BY <1>2, <1>11 DEF I!CheckAccept
<1>12. ASSUME NEW i \in I!Existing, I!Revoke(i) \/ I!Expire(i)
       PROVE  SeatsInv'
  BY <1>9, <1>12 DEF I!Revoke, I!Expire
<1>13. CASE UNCHANGED seatVars
  BY <1>9, <1>13 DEF seatVars
<1> QED
  BY <1>4, <1>5, <1>6, <1>7, <1>8, <1>10, <1>11, <1>12, <1>13 DEF I!NoReactivationNext, I!InviteOrCreate

LEMMA SeatsPart == CompanySpec => [](part = "seats" => SeatsInv)
<1> DEFINE Inv == part = "seats" => SeatsInv
           Typed == part \in {"invitations", "seats"} => InvitationsInv
<1>1. CompanyInit => Inv
  <2> SUFFICES ASSUME CompanyInit, part = "seats" PROVE SeatsInv
    OBVIOUS
  <2>1. I!Init
    BY DEF CompanyInit, SeatsInit
  <2>2. Cardinality(I!Active) = 1
    BY <2>1, SeatsFinite DEF I!Init
  <2>3. Cleared = {}
    BY <2>1 DEF I!Init, I!Idle, Cleared
  <2> QED
    BY <2>2, <2>3, SeatsFinite, FS_EmptySet DEF SeatsInv
<1>2. Inv /\ Typed /\ [CompanyNext]_companyVars => Inv'
  <2> SUFFICES ASSUME Inv, Typed, [CompanyNext]_companyVars, part' = "seats"
               PROVE  SeatsInv'
    OBVIOUS
  <2>1. InvitationsTyped /\ SeatsInv /\ [I!NoReactivationNext]_seatVars
    BY DEF CompanyNext, SeatsNext, companyVars, InvitationsInv
  <2> QED
    BY <2>1, SeatsStep
<1>3. CompanySpec => []Typed
  BY InvitationsPart, PTL
<1> QED
  BY <1>1, <1>2, <1>3, PTL DEF CompanySpec

\* "Soft limit: concurrent creations can exceed it by a few units"
LEMMA SeatsInvGivesLimit ==
  ASSUME SeatsInv
  PROVE  I!SeatsExceededSlightly
<1>1. /\ Cardinality(Cleared) \in Nat /\ Cardinality(I!Active) \in Nat
      /\ SeatLimit \in Nat /\ Cardinality(Requests) \in Nat
  BY SeatsFinite DEF Cleared, I!Active
<1>2. Cardinality(I!Active) <= SeatLimit + Cardinality(Requests) - 1
  BY <1>1 DEF SeatsInv
<1> QED
  BY <1>2, SeatsFinite DEF I!SeatsExceededSlightly

-----------------------------------------------------------------------------
(* Roles. *)

Giving == {"giving", "inviting", "accepting"}

RolesTyped ==
  /\ roles \in [CustomRoles -> {"new", "there", "deleted"}]
  /\ users \subseteq Staff /\ invited \subseteq Staff
  /\ roleOf \in [Staff -> Ro!There \union {None}]
  /\ offered \in [Staff -> Ro!There \union {None}]
  /\ assigning = [q \in Requests |-> assigning[q]]
  /\ \A q \in Requests : assigning[q].stage \in Giving => assigning[q].person \in Staff

\* One request at a time, so that a role that is being deleted stays unassigned.
RolesAlone ==
  /\ \A p, q \in Requests : assigning[p] # Ro!Idle /\ assigning[q] # Ro!Idle => p = q
  /\ \A q \in Requests : assigning[q].stage = "deleting" =>
       \A u \in users : roleOf[u] # assigning[q].role

\* A request that reads.
RolesRead(q, d) ==
  /\ roles' = roles /\ users' = users /\ invited' = invited
  /\ roleOf' = roleOf /\ offered' = offered
  /\ assigning[q] = Ro!Idle /\ assigning' = [assigning EXCEPT ![q] = d]
  /\ d.stage \in Giving => d.person \in Staff
  /\ d.stage = "deleting" => \A u \in users : roleOf[u] # d.role

\* A request that writes a user or an invitation.
LEMMA RolesWrites ==
  ASSUME RolesTyped, NEW q \in Requests,
         Ro!WriteUser(q) \/ Ro!WriteInvitation(q) \/ Ro!Accept(q)
  PROVE  /\ RolesTyped' /\ roles' = roles
         /\ assigning[q] # Ro!Idle /\ assigning' = [assigning EXCEPT ![q] = Ro!Idle]
<1> DEFINE d == assigning[q]
<1>1. roles' = roles /\ Ro!There' = Ro!There
  BY DEF Ro!WriteUser, Ro!WriteInvitation, Ro!Accept, Ro!There
<1>2. d.stage \in Giving /\ d.person \in Staff
  BY DEF Ro!WriteUser, Ro!WriteInvitation, Ro!Accept, Giving, RolesTyped
<1>3. assigning' = [assigning EXCEPT ![q] = Ro!Idle] /\ Ro!Idle.stage \notin Giving
  BY DEF Ro!WriteUser, Ro!WriteInvitation, Ro!Accept, Ro!End, Ro!Idle, Giving
<1>4. /\ users' = users \/ users' = users \union {d.person}
      /\ invited' = invited \/ invited' = invited \union {d.person} \/ invited' = invited \ {d.person}
      /\ \/ roleOf' = roleOf
         \/ Ro!Referable(d.role) /\ roleOf' = [roleOf EXCEPT ![d.person] = d.role]
      /\ \/ offered' = offered
         \/ Ro!Referable(d.role) /\ offered' = [offered EXCEPT ![d.person] = d.role]
  BY DEF Ro!WriteUser, Ro!WriteInvitation, Ro!Accept
<1> HIDE DEF d
<1>5. roleOf' \in [Staff -> Ro!There' \union {None}] /\ offered' \in [Staff -> Ro!There' \union {None}]
  BY <1>1, <1>2, <1>4 DEF RolesTyped, Ro!Referable
<1>6. /\ assigning' = [p \in Requests |-> assigning'[p]]
      /\ \A p \in Requests : assigning'[p].stage \in Giving => assigning'[p].person \in Staff
  BY <1>3 DEF RolesTyped
<1>7. assigning[q] # Ro!Idle
  BY <1>2, <1>3 DEF d
<1> QED
  BY <1>1, <1>2, <1>3, <1>4, <1>5, <1>6, <1>7 DEF RolesTyped

\* Who has the role that is deleted, or is offered it, has none.
LEMMA RolesDelete ==
  ASSUME RolesTyped, NEW q \in Requests, Ro!DeleteRole(q)
  PROVE  /\ RolesTyped'
         /\ assigning[q].stage = "deleting" /\ assigning[q] # Ro!Idle
         /\ assigning' = [assigning EXCEPT ![q] = Ro!Idle]
<1> DEFINE r == assigning[q].role
<1>1. /\ roles' = [roles EXCEPT ![r] = "deleted"]
      /\ roleOf' = [u \in Staff |-> IF roleOf[u] = r THEN None ELSE roleOf[u]]
      /\ offered' = [u \in Staff |-> IF offered[u] = r THEN None ELSE offered[u]]
      /\ users' = users /\ invited' = invited
      /\ assigning[q].stage = "deleting"
      /\ assigning' = [assigning EXCEPT ![q] = Ro!Idle]
  BY DEF Ro!DeleteRole, Ro!SetNull, Ro!End
<1>2. Ro!Idle.stage = "idle" /\ "idle" \notin Giving
  BY DEF Ro!Idle, Giving
<1> HIDE DEF r
<1>3. \A c \in Ro!There : c # r => c \in Ro!There'
  BY <1>1 DEF Ro!There, RolesTyped
<1>4. roleOf' \in [Staff -> Ro!There' \union {None}] /\ offered' \in [Staff -> Ro!There' \union {None}]
  BY <1>1, <1>3 DEF RolesTyped
<1> QED
  BY <1>1, <1>2, <1>4 DEF RolesTyped

LEMMA RolesCreate ==
  ASSUME RolesTyped, NEW r \in CustomRoles, Ro!CreateRole(r)
  PROVE  /\ RolesTyped' /\ users' = users /\ roleOf' = roleOf /\ assigning' = assigning
         /\ Ro!There \subseteq Ro!There'
<1>1. /\ roles' = [roles EXCEPT ![r] = "there"] /\ users' = users /\ invited' = invited
      /\ roleOf' = roleOf /\ offered' = offered /\ assigning' = assigning
  BY DEF Ro!CreateRole
<1>2. Ro!There \subseteq Ro!There'
  BY <1>1 DEF Ro!There, RolesTyped
<1> QED
  BY <1>1, <1>2 DEF RolesTyped

LEMMA RolesCases ==
  ASSUME Ro!Next
  PROVE  \/ \E r \in CustomRoles : Ro!CreateRole(r)
         \/ \E q \in Requests : \/ \E d : RolesRead(q, d)
                                \/ Ro!WriteUser(q) \/ Ro!WriteInvitation(q) \/ Ro!Accept(q)
                                \/ Ro!DeleteRole(q)
<1>1. ASSUME NEW q \in Requests, NEW u \in Staff, NEW r \in CustomRoles \union {None},
             NEW stage \in {"giving", "inviting"}, Ro!FindRole(q, stage, u, r)
      PROVE  RolesRead(q, [stage |-> stage, person |-> u, role |-> r])
  BY <1>1 DEF Ro!FindRole, RolesRead, Giving
<1>2. ASSUME NEW q \in Requests, NEW u \in Staff, Ro!FindInvitation(q, u)
      PROVE  RolesRead(q, [stage |-> "accepting", person |-> u, role |-> offered[u]])
  BY <1>2 DEF Ro!FindInvitation, RolesRead, Giving
<1>3. ASSUME NEW q \in Requests, NEW r \in CustomRoles, Ro!CheckDelete(q, r)
      PROVE  RolesRead(q, [stage |-> "deleting", role |-> r])
  BY <1>3 DEF Ro!CheckDelete, Ro!Unassigned, RolesRead, Giving
<1> QED
  BY <1>1, <1>2, <1>3 DEF Ro!Next

LEMMA RolesStepTyped ==
  ASSUME RolesTyped, [Ro!Next]_roleVars
  PROVE  RolesTyped'
<1>1. ASSUME NEW q \in Requests, NEW d, RolesRead(q, d)
      PROVE  RolesTyped'
  BY <1>1 DEF RolesRead, RolesTyped, Ro!There
<1>2. CASE UNCHANGED roleVars
  BY <1>2 DEF roleVars, RolesTyped, Ro!There
<1> QED
  BY <1>1, <1>2, RolesCases, RolesCreate, RolesWrites, RolesDelete

\* The requests that do something after a step alone are one at most, and a role
\* is deleted as long as no user has it.
LEMMA RolesStepAlone ==
  ASSUME RolesTyped, RolesAlone, [Ro!AloneNext]_roleVars
  PROVE  RolesAlone' /\ Ro!KeepsRoleInUse
<1>1. CASE UNCHANGED roleVars
  BY <1>1 DEF roleVars, RolesTyped, RolesAlone, Ro!KeepsRoleInUse, Ro!There
<1>2. CASE Ro!AloneNext
  <2> DEFINE DeletesUnassigned ==
               \A q \in Requests : assigning[q].stage = "deleting" =>
                 \A u \in users : roleOf[u] # assigning[q].role
  <2>1. \A p, q \in Requests : assigning'[p] # Ro!Idle /\ assigning'[q] # Ro!Idle => p = q
    <3> DEFINE T == {q \in Requests : assigning'[q] # Ro!Idle}
    <3>1. Cardinality(T) <= 1
      BY <1>2 DEF Ro!AloneNext, Ro!Cardinality, Cardinality
    <3> QED
      BY <3>1, AtMostOne, CompanyAssumption
  <2>2. Ro!Idle.stage # "deleting"
    BY DEF Ro!Idle
  <2>3. \A u \in users : roleOf[u] # None => roles[roleOf[u]] = "there"
    BY DEF RolesTyped, Ro!There
  <2>4. ASSUME NEW q \in Requests, NEW d, RolesRead(q, d)
        PROVE  DeletesUnassigned' /\ Ro!KeepsRoleInUse
    BY <2>3, <2>4 DEF RolesRead, RolesTyped, RolesAlone, Ro!KeepsRoleInUse
  <2>5. ASSUME NEW q \in Requests, assigning[q] # Ro!Idle,
               assigning' = [assigning EXCEPT ![q] = Ro!Idle]
        PROVE  DeletesUnassigned'
    <3>1. \A p \in Requests : p # q => assigning[p] = Ro!Idle
      BY <2>5 DEF RolesAlone
    <3>2. \A p \in Requests : assigning'[p] = Ro!Idle
      BY <2>5, <3>1 DEF RolesTyped
    <3> QED
      BY <3>2, <2>2
  <2>6. ASSUME NEW q \in Requests, Ro!WriteUser(q) \/ Ro!WriteInvitation(q) \/ Ro!Accept(q)
        PROVE  DeletesUnassigned' /\ Ro!KeepsRoleInUse
    <3>1. /\ roles' = roles /\ assigning[q] # Ro!Idle
          /\ assigning' = [assigning EXCEPT ![q] = Ro!Idle]
      BY <2>6, RolesWrites
    <3> QED
      BY <3>1, <2>3, <2>5 DEF Ro!KeepsRoleInUse
  <2>7. ASSUME NEW q \in Requests, Ro!DeleteRole(q)
        PROVE  DeletesUnassigned' /\ Ro!KeepsRoleInUse
    <3>1. /\ assigning[q].stage = "deleting" /\ assigning[q] # Ro!Idle
          /\ assigning' = [assigning EXCEPT ![q] = Ro!Idle]
      BY <2>7, RolesDelete
    <3>2. roles' = [roles EXCEPT ![assigning[q].role] = "deleted"]
      BY <2>7 DEF Ro!DeleteRole
    <3>3. \A u \in users : roleOf[u] # assigning[q].role
      BY <3>1 DEF RolesAlone
    <3>4. Ro!KeepsRoleInUse
      BY <3>2, <3>3, <2>3 DEF RolesTyped, Ro!KeepsRoleInUse, Ro!There
    <3> QED
      BY <3>1, <3>4, <2>5
  <2>8. ASSUME NEW r \in CustomRoles, Ro!CreateRole(r)
        PROVE  DeletesUnassigned' /\ Ro!KeepsRoleInUse
    <3>1. roles' = [roles EXCEPT ![r] = "there"]
      BY <2>8 DEF Ro!CreateRole
    <3> QED
      BY <2>8, <3>1, <2>3, RolesCreate DEF RolesTyped, RolesAlone, Ro!KeepsRoleInUse, Ro!There
  <2>9. DeletesUnassigned' /\ Ro!KeepsRoleInUse
    <3> HIDE DEF DeletesUnassigned
    <3> QED
      BY <1>2, <2>4, <2>6, <2>7, <2>8, RolesCases DEF Ro!AloneNext
  <2> QED
    BY <2>1, <2>9 DEF RolesAlone
<1> QED
  BY <1>1, <1>2

RolesInv ==
  /\ part \in {"roles", "roles alone"} => RolesTyped
  /\ part = "roles alone" => RolesAlone

LEMMA RolesPart ==
  CompanySpec => /\ []RolesInv
                 /\ [][part = "roles alone" => Ro!KeepsRoleInUse]_companyVars
<1>1. CompanyInit => RolesInv
  <2> SUFFICES ASSUME Ro!Init PROVE RolesTyped /\ RolesAlone
    BY DEF CompanyInit, RolesInv
  <2>1. \A q \in Requests : assigning[q] = Ro!Idle /\ assigning[q].stage = "idle"
    BY DEF Ro!Init, Ro!Idle
  <2>2. RolesTyped
    BY <2>1 DEF Ro!Init, RolesTyped, Giving
  <2>3. RolesAlone
    BY <2>1 DEF RolesAlone
  <2> QED
    BY <2>2, <2>3
<1>2. RolesInv /\ [CompanyNext]_companyVars =>
        RolesInv' /\ (part = "roles alone" => Ro!KeepsRoleInUse)
  <2> SUFFICES ASSUME RolesInv, [CompanyNext]_companyVars
               PROVE  RolesInv' /\ (part = "roles alone" => Ro!KeepsRoleInUse)
    OBVIOUS
  <2>1. part' = part
    BY DEF CompanyNext, companyVars
  <2>2. part = "roles" => [Ro!Next]_roleVars
    BY DEF CompanyNext, RolesNext, companyVars
  <2>3. part = "roles alone" => [Ro!AloneNext]_roleVars
    BY DEF CompanyNext, RolesNext, companyVars
  <2>4. [Ro!AloneNext]_roleVars => [Ro!Next]_roleVars
    BY DEF Ro!AloneNext
  <2> QED
    BY <2>1, <2>2, <2>3, <2>4, RolesStepTyped, RolesStepAlone DEF RolesInv
<1> QED
  BY <1>1, <1>2, PTL DEF CompanySpec

LEMMA RolesTypedGivesType == RolesTyped => Ro!RolesTypeOK
BY DEF RolesTyped, Ro!RolesTypeOK

-----------------------------------------------------------------------------
(* Access to warehouses. *)

\* Only who reaches every warehouse may ask for something in all of them.
LEMMA EverywhereNeedsAll ==
  \A route \in Ac!Routes : route.where = "everywhere" => "warehouses.all" \in route.needs
<1> DEFINE Needs(table) ==
             \A route \in Ac!Range(table) :
               route.where = "everywhere" => "warehouses.all" \in route.needs
<1>1. Needs(Ac!MovementRoutes) /\ Needs(Ac!StockRoutes) /\ Needs(Ac!LocationRoutes)
  BY DEF Ac!Range, Ac!Route, Ac!MovementRoutes, Ac!StockRoutes, Ac!LocationRoutes
<1>2. Needs(Ac!PickingReads) /\ Needs(Ac!PickingWrites)
      /\ Needs(Ac!PackingOrders) /\ Needs(Ac!PackingWork)
  BY DEF Ac!Range, Ac!Route, Ac!PickingReads, Ac!PickingWrites, Ac!PackingOrders, Ac!PackingWork
<1>3. Needs(Ac!ProductReads) /\ Needs(Ac!ProductWrites) /\ Needs(Ac!ReportRoutes)
  BY DEF Ac!Range, Ac!Route, Ac!ProductReads, Ac!ProductWrites, Ac!ReportRoutes
<1>4. Needs(Ac!WaveRoutes) /\ Needs(Ac!CountRoutes) /\ Needs(Ac!TransferRoutes)
  BY DEF Ac!Range, Ac!Route, Ac!WaveRoutes, Ac!CountRoutes, Ac!TransferRoutes
<1>5. Needs(Ac!ReceiptRoutes) /\ Needs(Ac!ShippingRoutes)
      /\ Needs(Ac!SalesOrderRoutes) /\ Needs(Ac!PurchaseOrderRoutes)
  BY DEF Ac!Range, Ac!Route, Ac!ReceiptRoutes, Ac!ShippingRoutes, Ac!SalesOrderRoutes,
         Ac!PurchaseOrderRoutes
<1>6. Needs(Ac!LotRoutes) /\ Needs(Ac!LabelRoutes) /\ Needs(Ac!ImportRoutes)
      /\ Needs(Ac!UserRoutes) /\ Needs(Ac!ActivityRoutes) /\ Needs(Ac!AuditRoutes)
  BY DEF Ac!Range, Ac!Route, Ac!LotRoutes, Ac!LabelRoutes, Ac!ImportRoutes, Ac!UserRoutes,
         Ac!ActivityRoutes, Ac!AuditRoutes
<1> HIDE DEF Needs
<1>7. \A route \in Ac!Routes : \E table \in
          {Ac!MovementRoutes, Ac!StockRoutes, Ac!PickingReads, Ac!PickingWrites, Ac!PackingOrders,
           Ac!PackingWork, Ac!ProductReads, Ac!ProductWrites, Ac!ReportRoutes, Ac!WaveRoutes,
           Ac!CountRoutes, Ac!TransferRoutes, Ac!ReceiptRoutes, Ac!ShippingRoutes,
           Ac!SalesOrderRoutes, Ac!PurchaseOrderRoutes, Ac!LocationRoutes, Ac!LotRoutes,
           Ac!LabelRoutes, Ac!ImportRoutes, Ac!UserRoutes, Ac!ActivityRoutes, Ac!AuditRoutes} :
        route \in Ac!Range(table) /\ Needs(table)
  BY <1>1, <1>2, <1>3, <1>4, <1>5, <1>6 DEF Ac!Routes
<1> QED
  BY <1>7 DEF Needs

\* What OwnWarehouseOnly says of a request that was served.
OwnWarehouse(request) ==
  LET own == request.by.warehouse
  IN  ~ Ac!All(request.by) =>
        /\ request.where \in {"sent", "either"} => own \in request.works
        /\ request.where = "role" /\ request.by.role = "operator" /\ own # None =>
             request.works = {own}
        /\ request.where \notin {"sent", "either", "role", "free"} =>
             request.works \subseteq {own} \ {None}

AccessInv ==
  /\ entering = [q \in Solo |-> entering[q]]
  /\ Ac!ChangesObeyed
  /\ \A q \in Solo : entering[q].stage = "served" => OwnWarehouse(entering[q])

LEMMA AccessServed ==
  ASSUME NEW q \in Solo, NEW route \in Ac!Routes,
         Ac!Permitted(q, route), Ac!Handle(q, route)
  PROVE  \E works :
           LET request == [stage |-> "served", by |-> entering[q].by,
                           where |-> route.where, works |-> works]
           IN  Ac!Serve(q, route, works) /\ OwnWarehouse(request)
<1> DEFINE by == entering[q].by
           Served(works) == [stage |-> "served", by |-> by, where |-> route.where, works |-> works]
<1>0. \A works : /\ Served(works).by = by /\ Served(works).where = route.where
                 /\ Served(works).works = works
  OBVIOUS
<1>1. \A w : Ac!Accessible(by, w) => Ac!All(by) \/ (by.warehouse = w /\ w # None)
  BY DEF Ac!Accessible
<1>2. None \notin Warehouses
  BY AccessAssumption DEF Ac!AccessAssumption
<1> HIDE DEF Served
<1>3. ASSUME NEW w \in Warehouses, Ac!WorkAsserted(q, route, w)
      PROVE  Ac!Serve(q, route, {w}) /\ OwnWarehouse(Served({w}))
  BY <1>0, <1>1, <1>3 DEF Ac!WorkAsserted, OwnWarehouse
<1>4. ASSUME NEW named \in Warehouses \union {None}, Ac!WorkResolved(q, route, named)
      PROVE  /\ Ac!Serve(q, route, {Ac!Resolved(by, named)})
             /\ OwnWarehouse(Served({Ac!Resolved(by, named)}))
  BY <1>0, <1>1, <1>4 DEF Ac!WorkResolved, OwnWarehouse
<1>5. ASSUME NEW named \in Warehouses \union {None}, Ac!List(q, route, named)
      PROVE  /\ Ac!Serve(q, route, Ac!Listed(by, named))
             /\ OwnWarehouse(Served(Ac!Listed(by, named)))
  BY <1>0, <1>1, <1>5 DEF Ac!List, Ac!Listed, Ac!Filtered, OwnWarehouse
<1>6. ASSUME NEW named \in Warehouses \union {None}, Ac!Show(q, route, named)
      PROVE  \E works : Ac!Serve(q, route, works) /\ OwnWarehouse(Served(works))
  <2>1. Ac!Serve(q, route, {Ac!Resolved(by, named)} \ {None})
    BY <1>6 DEF Ac!Show
  <2>2. OwnWarehouse(Served({Ac!Resolved(by, named)} \ {None}))
    BY <1>0, <1>1, <1>6 DEF Ac!Show, Ac!Resolved, OwnWarehouse
  <2> QED
    BY <2>1, <2>2
<1>7. ASSUME NEW from \in Warehouses, NEW to \in Warehouses,
             Ac!Send(q, route, from, to) \/ Ac!SeeTransfer(q, route, from, to)
      PROVE  Ac!Serve(q, route, {from, to}) /\ OwnWarehouse(Served({from, to}))
  BY <1>0, <1>1, <1>7 DEF Ac!Send, Ac!SeeTransfer, OwnWarehouse
<1>8. ASSUME Ac!WorkForCompany(q, route)
      PROVE  \E works : Ac!Serve(q, route, works) /\ OwnWarehouse(Served(works))
  <2>1. CASE route.where = "company" /\ Ac!Serve(q, route, {})
    <3>1. OwnWarehouse(Served({}))
      BY <1>0, <2>1 DEF OwnWarehouse
    <3> QED
      BY <2>1, <3>1
  <2>2. CASE route.where \in {"everywhere", "free"} /\ Ac!Serve(q, route, Warehouses)
    <3>1. route.where = "everywhere" => Ac!All(by)
      BY EverywhereNeedsAll DEF Ac!Permitted, Ac!All
    <3>2. OwnWarehouse(Served(Warehouses))
      BY <1>0, <2>2, <3>1 DEF OwnWarehouse
    <3> QED
      BY <2>2, <3>2
  <2> QED
    BY <1>8, <2>1, <2>2 DEF Ac!WorkForCompany
<1>9. ASSUME NEW works \in SUBSET Warehouses, Ac!WorkEach(q, route, works)
      PROVE  Ac!Serve(q, route, works) /\ OwnWarehouse(Served(works))
  BY <1>0, <1>1, <1>2, <1>9 DEF Ac!WorkEach, OwnWarehouse
<1>10. ASSUME Ac!SeeHistory(q, route)
       PROVE  Ac!Serve(q, route, Ac!History(by)) /\ OwnWarehouse(Served(Ac!History(by)))
  BY <1>0, <1>10 DEF Ac!SeeHistory, Ac!History, Ac!Filtered, OwnWarehouse
<1>11. \E works : Ac!Serve(q, route, works) /\ OwnWarehouse(Served(works))
  BY <1>3, <1>4, <1>5, <1>6, <1>7, <1>8, <1>9, <1>10 DEF Ac!Handle, Ac!OrNone
<1> QED
  BY <1>11 DEF Served

\* A request that was let in keeps what it was told of its user.
LEMMA AccessStep ==
  ASSUME AccessInv, [Ac!Next]_accessVars
  PROVE  AccessInv'
<1> DEFINE Rows == <<accounts, permits, open, operators>>
           Obeys(q) == LET by == entering[q].by
                       IN  /\ Ac!MayEnter(by.user, by.operator)
                           /\ by = Ac!Principal(by.user, by.operator)
<1>1. ASSUME NEW q \in Solo, NEW d, UNCHANGED Rows,
             entering' = [entering EXCEPT ![q] = d],
             late' \in {late, late \ {q}},
             d.stage = "served" => OwnWarehouse(d),
             \/ d = Ac!Idle
             \/ /\ Ac!MayEnter(d.by.user, d.by.operator)
                /\ d.by = Ac!Principal(d.by.user, d.by.operator)
             \/ late' = late /\ entering[q] # Ac!Idle /\ d.by = entering[q].by
      PROVE  AccessInv'
  <2>1. /\ entering' = [p \in Solo |-> entering'[p]] /\ entering'[q] = d
        /\ \A p \in Solo : p # q => entering'[p] = entering[p]
    BY <1>1 DEF AccessInv
  <2>2. \A u, o : Ac!MayEnter(u, o)' = Ac!MayEnter(u, o)
    BY <1>1 DEF Ac!MayEnter, Ac!OrNone
  <2>3. \A u, o : Ac!Principal(u, o)' = Ac!Principal(u, o)
    BY <1>1 DEF Ac!Principal, Ac!Effective
  <2>4. Ac!ChangesObeyed'
    <3> SUFFICES ASSUME NEW p \in Solo, entering'[p] # Ac!Idle, p \notin late'
                 PROVE  Obeys(p)'
      BY DEF Ac!ChangesObeyed
    <3>1. CASE p # q
      <4>1. Obeys(p)
        BY <1>1, <2>1, <3>1 DEF AccessInv, Ac!ChangesObeyed
      <4> QED
        BY <4>1, <2>1, <2>2, <2>3, <3>1
    <3>2. CASE p = q /\ d.by = entering[q].by /\ late' = late /\ entering[q] # Ac!Idle
      <4>1. Obeys(p)
        BY <3>2 DEF AccessInv, Ac!ChangesObeyed
      <4> QED
        BY <4>1, <2>1, <2>2, <2>3, <3>2
    <3>3. CASE p = q /\ Ac!MayEnter(d.by.user, d.by.operator)
                     /\ d.by = Ac!Principal(d.by.user, d.by.operator)
      BY <2>1, <2>2, <2>3, <3>3
    <3> QED
      BY <1>1, <2>1, <3>1, <3>2, <3>3
  <2>5. \A p \in Solo : entering'[p].stage = "served" => OwnWarehouse(entering'[p])
    BY <1>1, <2>1 DEF AccessInv
  <2>6. (\A p \in Solo : entering[p].stage = "served" => OwnWarehouse(entering[p]))'
    BY <2>5 DEF OwnWarehouse, Ac!All
  <2> QED
    BY <2>1, <2>4, <2>6 DEF AccessInv
<1>2. ASSUME NEW q \in Solo, NEW u \in Workers, NEW o \in Ac!OrNone(Operators), Ac!LetIn(q, u, o)
      PROVE  AccessInv'
  <2> DEFINE d == [stage |-> "let in", by |-> Ac!Principal(u, o)]
  <2>1. d.by = Ac!Principal(u, o) /\ d.by.user = u /\ d.by.operator = o /\ d.stage # "served"
    BY DEF Ac!Principal
  <2>2. /\ UNCHANGED Rows /\ entering' = [entering EXCEPT ![q] = d] /\ late' = late \ {q}
        /\ Ac!MayEnter(u, o)
    BY <1>2 DEF Ac!LetIn
  <2> HIDE DEF d
  <2> QED
    BY <1>1, <2>1, <2>2
<1>3. ASSUME NEW q \in Solo, NEW route \in Ac!Routes, Ac!Permitted(q, route), Ac!Handle(q, route)
      PROVE  AccessInv'
  <2>1. PICK works :
          LET request == [stage |-> "served", by |-> entering[q].by,
                          where |-> route.where, works |-> works]
          IN  Ac!Serve(q, route, works) /\ OwnWarehouse(request)
    BY <1>3, AccessServed
  <2> DEFINE d == [stage |-> "served", by |-> entering[q].by, where |-> route.where, works |-> works]
  <2>2. d.by = entering[q].by
    OBVIOUS
  <2>3. /\ UNCHANGED Rows /\ entering' = [entering EXCEPT ![q] = d] /\ late' = late
        /\ OwnWarehouse(d)
    BY <2>1 DEF Ac!Serve
  <2>4. entering[q] # Ac!Idle
    <3>1. entering[q].stage = "let in" /\ Ac!Idle.stage = "idle"
      BY <1>3 DEF Ac!Permitted, Ac!Idle
    <3> QED
      BY <3>1
  <2> HIDE DEF d
  <2> QED
    BY <1>1, <2>2, <2>3, <2>4
<1>4. ASSUME NEW q \in Solo, Ac!End(q)
      PROVE  AccessInv'
  <2>1. Ac!Idle.stage # "served"
    BY DEF Ac!Idle
  <2> QED
    BY <1>1, <1>4, <2>1 DEF Ac!End
<1>5. CASE Ac!Overtaken
  <2>1. entering' = entering /\ late' = late \union {q \in Solo : entering[q] # Ac!Idle}
    BY <1>5 DEF Ac!Overtaken
  <2>2. Ac!ChangesObeyed'
    BY <2>1 DEF Ac!ChangesObeyed
  <2>3. (\A p \in Solo : entering[p].stage = "served" => OwnWarehouse(entering[p]))'
    BY <2>1 DEF AccessInv, OwnWarehouse, Ac!All
  <2> QED
    BY <2>1, <2>2, <2>3 DEF AccessInv
<1>6. CASE UNCHANGED accessVars
  <2>1. entering' = entering /\ late' = late /\ UNCHANGED Rows
    BY <1>6 DEF accessVars
  <2>2. Ac!ChangesObeyed'
    BY <2>1 DEF AccessInv, Ac!ChangesObeyed, Ac!MayEnter, Ac!OrNone, Ac!Principal, Ac!Effective
  <2>3. (\A p \in Solo : entering[p].stage = "served" => OwnWarehouse(entering[p]))'
    BY <2>1 DEF AccessInv, OwnWarehouse, Ac!All
  <2> QED
    BY <2>1, <2>2, <2>3 DEF AccessInv
<1> QED
  BY <1>2, <1>3, <1>4, <1>5, <1>6
     DEF Ac!Next, Ac!UpdateUser, Ac!UpdateRole, Ac!SetStatus, Ac!SetOperators

LEMMA AccessInvGivesRules == AccessInv => Ac!ChangesObeyed /\ Ac!OwnWarehouseOnly
BY DEF AccessInv, OwnWarehouse, Ac!OwnWarehouseOnly

LEMMA AccessPart == CompanySpec => [](part = "access" => AccessInv)
<1> DEFINE Inv == part = "access" => AccessInv
<1>1. CompanyInit => Inv
  <2> SUFFICES ASSUME Ac!Init PROVE AccessInv
    BY DEF CompanyInit, AccessInit
  <2>1. \A q \in Solo : entering[q] = Ac!Idle /\ entering[q].stage = "idle"
    BY DEF Ac!Init, Ac!Idle
  <2> QED
    BY <2>1 DEF Ac!Init, AccessInv, Ac!ChangesObeyed
<1>2. Inv /\ [CompanyNext]_companyVars => Inv'
  <2> SUFFICES ASSUME Inv, [CompanyNext]_companyVars, part' = "access"
               PROVE  AccessInv'
    OBVIOUS
  <2>1. part = "access" /\ [Ac!Next]_accessVars
    BY DEF CompanyNext, AccessNext, companyVars
  <2> QED
    BY <2>1, AccessStep
<1> QED
  BY <1>1, <1>2, PTL DEF CompanySpec

-----------------------------------------------------------------------------
(* Settings of the company: side by side, the plan and the status; one      *)
(* request at a time, everything.                                           *)

Row(row) == row = [plan |-> row.plan, status |-> row.status, settings |-> row.settings]

PlanInv == Row(tenant) /\ Row(asked) /\ Pl!PlanAsAsked

LEMMA PlanPart == CompanySpec => [](part = "plan" => PlanInv)
<1> DEFINE Inv == part = "plan" => PlanInv
<1>1. CompanyInit => Inv
  BY DEF CompanyInit, SettingsInit, Pl!Init, PlanInv, Row, Pl!PlanAsAsked
<1>2. Inv /\ [CompanyNext]_companyVars => Inv'
  <2> SUFFICES ASSUME PlanInv, Pl!Next \/ UNCHANGED settingVars
               PROVE  PlanInv'
    BY DEF CompanyNext, SettingsNext, companyVars
  <2>1. ASSUME NEW q \in Requests, Pl!UpdateTenant(q)
        PROVE  PlanInv'
    BY <2>1 DEF PlanInv, Row, Pl!PlanAsAsked, Pl!UpdateTenant, Pl!NextPlan, Pl!Or
  <2>2. ASSUME NEW q \in Requests, Pl!UpdateSettings(q)
        PROVE  PlanInv'
    <3> DEFINE settings == [setting[q].row.settings EXCEPT !.strategy = Pl!Or(setting[q].strategy, @)]
               wanted_ == [asked.settings EXCEPT !.strategy = Pl!Or(setting[q].strategy, @)]
    <3>1. tenant' = [tenant EXCEPT !.settings = settings]
          /\ asked' = [asked EXCEPT !.settings = wanted_]
      BY <2>2 DEF Pl!UpdateSettings
    <3> HIDE DEF settings, wanted_
    <3> QED
      BY <3>1 DEF PlanInv, Row, Pl!PlanAsAsked
  <2>3. ASSUME UNCHANGED <<tenant, asked>>
        PROVE  PlanInv'
    BY <2>3 DEF PlanInv, Row, Pl!PlanAsAsked
  <2> QED
    BY <2>1, <2>2, <2>3 DEF Pl!Next, Pl!Read, settingVars
<1> QED
  BY <1>1, <1>2, PTL DEF CompanySpec

LimitsInv ==
  /\ tenant = asked
  /\ setting = [q \in Solo |-> setting[q]]
  /\ \A p, q \in Solo : setting[p] # Li!Idle /\ setting[q] # Li!Idle => p = q
  /\ \A q \in Solo : setting[q] # Li!Idle => setting[q].row = tenant

LEMMA LimitsStep ==
  ASSUME LimitsInv, [Li!AloneNext]_settingVars
  PROVE  LimitsInv'
<1>1. CASE UNCHANGED settingVars
  BY <1>1 DEF settingVars, LimitsInv
<1>2. CASE Li!AloneNext
  <2>1. \A p, q \in Solo : setting'[p] # Li!Idle /\ setting'[q] # Li!Idle => p = q
    <3> DEFINE T == {q \in Solo : setting'[q] # Li!Idle}
    <3>1. Cardinality(T) <= 1
      BY <1>2 DEF Li!AloneNext, Li!Cardinality, Cardinality
    <3> QED
      BY <3>1, AtMostOne, CompanyAssumption
  <2>2. ASSUME NEW q \in Solo, NEW kind, NEW plan, NEW status, NEW limits, NEW strategy,
               Li!Read(q, kind, plan, status, limits, strategy)
        PROVE  LimitsInv'
    BY <2>1, <2>2 DEF LimitsInv, Li!Read
  <2>3. ASSUME NEW q \in Solo, setting[q] # Li!Idle, tenant' = asked',
               setting' = [setting EXCEPT ![q] = Li!Idle]
        PROVE  LimitsInv'
    BY <2>1, <2>3 DEF LimitsInv
  <2>4. ASSUME NEW q \in Solo, Li!UpdateTenant(q)
        PROVE  LimitsInv'
    <3>1. setting[q].stage = "platform" /\ Li!Idle.stage = "idle"
      BY <2>4 DEF Li!UpdateTenant, Li!Idle
    <3>2. setting[q].row = tenant
      BY <3>1 DEF LimitsInv
    <3>3. tenant' = asked'
      BY <2>4, <3>2 DEF LimitsInv, Li!UpdateTenant, Li!NextPlan, Li!NextSettings, Li!NextLimits
    <3> QED
      BY <2>3, <2>4, <3>1, <3>3 DEF Li!UpdateTenant
  <2>5. ASSUME NEW q \in Solo, Li!UpdateSettings(q)
        PROVE  LimitsInv'
    <3>1. setting[q].stage = "company" /\ Li!Idle.stage = "idle"
      BY <2>5 DEF Li!UpdateSettings, Li!Idle
    <3>2. setting[q].row = tenant
      BY <3>1 DEF LimitsInv
    <3>3. tenant' = asked'
      BY <2>5, <3>2 DEF LimitsInv, Li!UpdateSettings
    <3> QED
      BY <2>3, <2>5, <3>1, <3>3 DEF Li!UpdateSettings
  <2> QED
    BY <1>2, <2>2, <2>4, <2>5 DEF Li!AloneNext, Li!Next
<1> QED
  BY <1>1, <1>2

LEMMA LimitsPart == CompanySpec => [](part = "limits" => LimitsInv)
<1> DEFINE Inv == part = "limits" => LimitsInv
<1>1. CompanyInit => Inv
  BY DEF CompanyInit, SettingsInit, Li!Init, LimitsInv
<1>2. Inv /\ [CompanyNext]_companyVars => Inv'
  BY LimitsStep DEF CompanyNext, SettingsNext, companyVars
<1> QED
  BY <1>1, <1>2, PTL DEF CompanySpec

LEMMA LimitsInvGivesAsked == LimitsInv => Li!SettingsAsAsked
BY DEF LimitsInv, Li!SettingsAsAsked

-----------------------------------------------------------------------------
(* Photos. *)

\* A photo stays where it was added, and one whose file is being deleted was
\* taken off the list.
PhotosInv ==
  /\ home \in [Pictures -> Records \union {None}]
  /\ wanted = [r \in Records |-> wanted[r]]
  /\ removing = [q \in Requests |-> removing[q]]
  /\ \A r \in Records : wanted[r] \subseteq {p \in files \intersect Pictures : home[p] = r}
  /\ \A q \in Requests :
       LET d == removing[q]
       IN  /\ d.stage \in {"writing", "deleting"} =>
                d.record \in Records /\ d.photo \in Pictures /\ home[d.photo] = d.record
           /\ d.stage = "deleting" => d.photo \notin wanted[d.record]

PhotosAlone ==
  /\ listed = wanted
  /\ \A p, q \in Requests : removing[p] # Ph!Idle /\ removing[q] # Ph!Idle => p = q
  /\ \A q \in Requests :
       removing[q].stage = "writing" => removing[q].read = listed[removing[q].record]

LEMMA PhotosStep ==
  ASSUME PhotosInv, [Ph!Next]_photoVars
  PROVE  PhotosInv'
<1>1. CASE UNCHANGED photoVars
  BY <1>1 DEF photoVars, PhotosInv
<1>2. ASSUME NEW p \in Pictures, Ph!Upload(p)
      PROVE  PhotosInv'
  BY <1>2 DEF PhotosInv, Ph!Upload
<1>3. ASSUME NEW p \in Pictures, NEW r \in Records, Ph!AddPhoto(r, p)
      PROVE  PhotosInv'
  <2>1. /\ p \in files /\ home[p] = None /\ home' = [home EXCEPT ![p] = r]
        /\ wanted' = [wanted EXCEPT ![r] = wanted[r] \union {p}]
        /\ files' = files /\ removing' = removing
    BY <1>3 DEF Ph!AddPhoto
  <2>2. None \notin Records
    BY PhotosAssumption DEF Ph!PhotosAssumption
  <2>3. \A s \in Records : wanted'[s] = IF s = r THEN wanted[r] \union {p} ELSE wanted[s]
    BY <2>1 DEF PhotosInv
  <2>4. \A s \in Records : wanted'[s] \subseteq {o \in files' \intersect Pictures : home'[o] = s}
    BY <2>1, <2>2, <2>3 DEF PhotosInv
  <2>5. ASSUME NEW q \in Requests
        PROVE  LET d == removing[q]
               IN  /\ d.stage \in {"writing", "deleting"} =>
                        d.record \in Records /\ d.photo \in Pictures /\ home'[d.photo] = d.record
                   /\ d.stage = "deleting" => d.photo \notin wanted'[d.record]
    <3> DEFINE d == removing[q]
    <3>1. CASE d.stage \in {"writing", "deleting"}
      <4>1. /\ d.record \in Records /\ d.photo \in Pictures /\ home[d.photo] = d.record
            /\ d.stage = "deleting" => d.photo \notin wanted[d.record]
        BY <3>1 DEF PhotosInv
      <4> HIDE DEF d
      <4>2. d.photo # p
        BY <2>1, <2>2, <4>1
      <4>3. home'[d.photo] = d.record
        BY <2>1, <4>1, <4>2 DEF PhotosInv
      <4> QED
        BY <2>3, <4>1, <4>2, <4>3 DEF d
    <3> QED
      BY <3>1
  <2> QED
    BY <2>1, <2>3, <2>4, <2>5 DEF PhotosInv
<1>4. ASSUME NEW q \in Requests, NEW p \in Pictures, NEW r \in Records, Ph!FindToRemove(q, r, p)
      PROVE  PhotosInv'
  BY <1>4 DEF PhotosInv, Ph!FindToRemove
<1>5. ASSUME NEW q \in Requests, Ph!WriteRest(q)
      PROVE  PhotosInv'
  <2> DEFINE d == removing[q]
             e == [removing[q] EXCEPT !.stage = "deleting"]
  <2>1. /\ d.stage = "writing" /\ wanted' = [wanted EXCEPT ![d.record] = wanted[d.record] \ {d.photo}]
        /\ removing' = [removing EXCEPT ![q] = e] /\ files' = files /\ home' = home
    BY <1>5 DEF Ph!WriteRest
  <2>2. e.record = d.record /\ e.photo = d.photo
    OBVIOUS
  <2>3. d.record \in Records /\ d.photo \in Pictures /\ home[d.photo] = d.record
    BY <2>1 DEF PhotosInv
  <2> HIDE DEF d, e
  <2>4. \A r \in Records : wanted'[r] = IF r = d.record THEN wanted[r] \ {d.photo} ELSE wanted[r]
    BY <2>1 DEF PhotosInv
  <2>5. \A p \in Requests : removing'[p] = IF p = q THEN e ELSE removing[p]
    BY <2>1 DEF PhotosInv
  <2>6. d.photo \notin wanted'[d.record]
    BY <2>3, <2>4
  <2>7. \A p \in Requests :
          /\ removing'[p].stage \in {"writing", "deleting"} =>
               /\ removing'[p].record \in Records /\ removing'[p].photo \in Pictures
               /\ home[removing'[p].photo] = removing'[p].record
          /\ removing'[p].stage = "deleting" => removing'[p].photo \notin wanted'[removing'[p].record]
    <3> SUFFICES ASSUME NEW p \in Requests
                 PROVE  /\ removing'[p].stage \in {"writing", "deleting"} =>
                             /\ removing'[p].record \in Records /\ removing'[p].photo \in Pictures
                             /\ home[removing'[p].photo] = removing'[p].record
                        /\ removing'[p].stage = "deleting" =>
                             removing'[p].photo \notin wanted'[removing'[p].record]
      OBVIOUS
    <3>1. CASE p = q
      BY <2>2, <2>3, <2>5, <2>6, <3>1
    <3>2. CASE p # q
      <4>1. removing'[p] = removing[p]
        BY <2>5, <3>2
      <4>2. CASE removing[p].stage \in {"writing", "deleting"}
        <5>1. /\ removing[p].record \in Records /\ removing[p].photo \in Pictures
              /\ home[removing[p].photo] = removing[p].record
              /\ removing[p].stage = "deleting" => removing[p].photo \notin wanted[removing[p].record]
          BY <4>2 DEF PhotosInv
        <5> QED
          BY <2>4, <4>1, <5>1
      <4> QED
        BY <4>1, <4>2
    <3> QED
      BY <3>1, <3>2
  <2> QED
    BY <2>1, <2>4, <2>7 DEF PhotosInv
<1>6. ASSUME NEW q \in Requests, Ph!DeleteFile(q)
      PROVE  PhotosInv'
  <2> DEFINE d == removing[q]
  <2>1. /\ d.stage = "deleting" /\ files' \in {files, files \ {d.photo}}
        /\ removing' = [removing EXCEPT ![q] = Ph!Idle]
        /\ home' = home /\ wanted' = wanted
    BY <1>6 DEF Ph!DeleteFile
  <2>2. /\ d.record \in Records /\ d.photo \in Pictures /\ home[d.photo] = d.record
        /\ d.photo \notin wanted[d.record]
    BY <2>1 DEF PhotosInv
  <2>3. \A r \in Records : wanted[r] \subseteq {p \in files' \intersect Pictures : home[p] = r}
    BY <2>1, <2>2 DEF PhotosInv
  <2>4. Ph!Idle.stage = "idle"
    BY DEF Ph!Idle
  <2> QED
    BY <2>1, <2>3, <2>4 DEF PhotosInv
<1> QED
  BY <1>1, <1>2, <1>3, <1>4, <1>5, <1>6 DEF Ph!Next

LEMMA PhotosStepAlone ==
  ASSUME PhotosInv, PhotosAlone, [Ph!AloneNext]_photoVars
  PROVE  PhotosAlone'
<1>1. CASE UNCHANGED photoVars
  BY <1>1 DEF photoVars, PhotosAlone
<1>2. CASE Ph!AloneNext
  <2>1. \A p, q \in Requests : removing'[p] # Ph!Idle /\ removing'[q] # Ph!Idle => p = q
    <3> DEFINE T == {q \in Requests : removing'[q] # Ph!Idle}
    <3>1. Cardinality(T) <= 1
      BY <1>2 DEF Ph!AloneNext, Ph!Cardinality, Cardinality
    <3> QED
      BY <3>1, AtMostOne, CompanyAssumption
  <2>2. Ph!Idle.stage = "idle"
    BY DEF Ph!Idle
  <2>3. ASSUME NEW p \in Pictures, Ph!Upload(p)
        PROVE  PhotosAlone'
    BY <2>1, <2>3 DEF PhotosAlone, Ph!Upload
  <2>4. ASSUME NEW p \in Pictures, NEW r \in Records, Ph!AddPhoto(r, p)
        PROVE  PhotosAlone'
    <3>1. home[p] # home'[p]
      BY <2>4, PhotosAssumption DEF PhotosInv, Ph!AddPhoto, Ph!PhotosAssumption
    <3>2. \A q \in Requests : removing[q] = Ph!Idle
      BY <1>2, <3>1 DEF Ph!AloneNext
    <3> QED
      BY <2>1, <2>2, <2>4, <3>2 DEF PhotosAlone, Ph!AddPhoto
  <2>5. ASSUME NEW q \in Requests, NEW p \in Pictures, NEW r \in Records, Ph!FindToRemove(q, r, p)
        PROVE  PhotosAlone'
    BY <2>1, <2>5 DEF PhotosInv, PhotosAlone, Ph!FindToRemove
  <2>6. ASSUME NEW q \in Requests, Ph!WriteRest(q)
        PROVE  PhotosAlone'
    <3> DEFINE d == removing[q]
               e == [removing[q] EXCEPT !.stage = "deleting"]
    <3>1. /\ d.stage = "writing"
          /\ wanted' = [wanted EXCEPT ![d.record] = wanted[d.record] \ {d.photo}]
          /\ listed' = [listed EXCEPT ![d.record] = d.read \ {d.photo}]
          /\ removing' = [removing EXCEPT ![q] = e]
      BY <2>6 DEF Ph!WriteRest, Ph!Rest
    <3>2. d.read = listed[d.record]
      BY <3>1 DEF PhotosAlone
    <3>3. listed' = wanted'
      BY <3>1, <3>2 DEF PhotosAlone
    <3>4. e.stage # "writing" 
      BY <3>1, <2>2 DEF PhotosInv
    <3>5. \A p \in Requests : p # q => removing'[p] = Ph!Idle
      BY <2>2, <3>1 DEF PhotosAlone, PhotosInv
    <3> QED
      BY <2>1, <2>2, <3>1, <3>3, <3>4, <3>5 DEF PhotosInv, PhotosAlone
  <2>7. ASSUME NEW q \in Requests, Ph!DeleteFile(q)
        PROVE  PhotosAlone'
    BY <2>1, <2>2, <2>7 DEF PhotosInv, PhotosAlone, Ph!DeleteFile
  <2> QED
    BY <1>2, <2>3, <2>4, <2>5, <2>6, <2>7 DEF Ph!AloneNext, Ph!Next
<1> QED
  BY <1>1, <1>2

LEMMA PhotosPart ==
  CompanySpec => []( /\ part \in {"photos", "photos alone"} => PhotosInv
                     /\ part = "photos alone" => PhotosAlone )
<1> DEFINE Inv == /\ part \in {"photos", "photos alone"} => PhotosInv
                  /\ part = "photos alone" => PhotosAlone
<1>1. CompanyInit => Inv
  <2> SUFFICES ASSUME Ph!Init PROVE PhotosInv /\ PhotosAlone
    BY DEF CompanyInit
  <2>1. \A q \in Requests : removing[q] = Ph!Idle /\ removing[q].stage = "idle"
    BY DEF Ph!Init, Ph!Idle
  <2> QED
    BY <2>1 DEF Ph!Init, PhotosInv, PhotosAlone
<1>2. Inv /\ [CompanyNext]_companyVars => Inv'
  <2> SUFFICES ASSUME Inv, [CompanyNext]_companyVars PROVE Inv'
    OBVIOUS
  <2>1. /\ part' = part
        /\ part = "photos" => [Ph!Next]_photoVars
        /\ part = "photos alone" => [Ph!AloneNext]_photoVars
    BY DEF CompanyNext, PhotosNext, companyVars
  <2>2. [Ph!AloneNext]_photoVars => [Ph!Next]_photoVars
    BY DEF Ph!AloneNext
  <2> QED
    BY <2>1, <2>2, PhotosStep, PhotosStepAlone
<1> QED
  BY <1>1, <1>2, PTL DEF CompanySpec

LEMMA PhotosInvGivesAsked ==
  /\ PhotosInv => Ph!OnlyRemovedDeleted
  /\ PhotosInv /\ PhotosAlone => Ph!PhotosAsAsked /\ Ph!PhotosHaveFiles
BY DEF PhotosInv, PhotosAlone, Ph!OnlyRemovedDeleted, Ph!PhotosAsAsked, Ph!PhotosHaveFiles

-----------------------------------------------------------------------------
(* Partners, one request at a time. *)

PartnersInv ==
  /\ kinds = [p \in Companies |-> kinds[p]] /\ created \subseteq Companies
  /\ changing = [q \in Requests |-> changing[q]]
  /\ Pa!PartnerHasKind
  /\ \A p, q \in Requests : changing[p] # Pa!Idle /\ changing[q] # Pa!Idle => p = q
  /\ \A q \in Requests :
       LET d == changing[q]
       IN  d.stage = "writing" =>
             d.partner \in created /\ Pa!KeepsKind(kinds[d.partner], d.on, d.off)

LEMMA PartnersStep ==
  ASSUME PartnersInv, [Pa!AloneNext]_partnerVars
  PROVE  PartnersInv'
<1>1. CASE UNCHANGED partnerVars
  BY <1>1 DEF partnerVars, PartnersInv, Pa!PartnerHasKind, Pa!KeepsKind
<1>2. CASE Pa!AloneNext
  <2>1. \A p, q \in Requests : changing'[p] # Pa!Idle /\ changing'[q] # Pa!Idle => p = q
    <3> DEFINE T == {q \in Requests : changing'[q] # Pa!Idle}
    <3>1. Cardinality(T) <= 1
      BY <1>2 DEF Pa!AloneNext, Pa!Cardinality, Cardinality
    <3> QED
      BY <3>1, AtMostOne, CompanyAssumption
  <2>2. Pa!Idle.stage = "idle"
    BY DEF Pa!Idle
  <2>3. ASSUME NEW p \in Companies, NEW ks, Pa!Create(p, ks)
        PROVE  PartnersInv'
    BY <2>1, <2>3 DEF PartnersInv, Pa!PartnerHasKind, Pa!KeepsKind, Pa!Create
  <2>4. ASSUME NEW q \in Requests, NEW p \in Companies, NEW on, NEW off, Pa!CheckUpdate(q, p, on, off)
        PROVE  PartnersInv'
    BY <2>1, <2>4 DEF PartnersInv, Pa!PartnerHasKind, Pa!KeepsKind, Pa!CheckUpdate
  <2>5. ASSUME NEW q \in Requests, Pa!WriteUpdate(q)
        PROVE  PartnersInv'
    <3> DEFINE d == changing[q]
    <3>1. /\ d.stage = "writing" /\ kinds' = [kinds EXCEPT ![d.partner] = (kinds[d.partner] \ d.off) \union d.on]
          /\ created' = created /\ changing' = [changing EXCEPT ![q] = Pa!Idle]
      BY <2>5 DEF Pa!WriteUpdate
    <3>2. d.partner \in created /\ (kinds[d.partner] \ d.off) \union d.on # {}
      BY <3>1 DEF PartnersInv, Pa!KeepsKind
    <3>3. \A p \in Requests : changing'[p] = Pa!Idle
      BY <2>2, <3>1 DEF PartnersInv
    <3>4. Pa!PartnerHasKind'
      BY <3>1, <3>2 DEF PartnersInv, Pa!PartnerHasKind
    <3> QED
      BY <2>1, <2>2, <3>1, <3>3, <3>4 DEF PartnersInv
  <2> QED
    BY <1>2, <2>3, <2>4, <2>5 DEF Pa!AloneNext, Pa!Next
<1> QED
  BY <1>1, <1>2

LEMMA PartnersPart == CompanySpec => [](part = "partners" => PartnersInv)
<1> DEFINE Inv == part = "partners" => PartnersInv
<1>1. CompanyInit => Inv
  <2> SUFFICES ASSUME Pa!Init PROVE PartnersInv
    BY DEF CompanyInit
  <2>1. \A q \in Requests : changing[q] = Pa!Idle /\ changing[q].stage = "idle"
    BY DEF Pa!Init, Pa!Idle
  <2> QED
    BY <2>1 DEF Pa!Init, PartnersInv, Pa!PartnerHasKind
<1>2. Inv /\ [CompanyNext]_companyVars => Inv'
  BY PartnersStep DEF CompanyNext, PartnersNext, companyVars
<1> QED
  BY <1>1, <1>2, PTL DEF CompanySpec

-----------------------------------------------------------------------------
(* Fields of a company and the values of a record, with the words that W are. *)

\* Values that are of the types of their fields.
Means(values, W) ==
  \A k \in DOMAIN values :
    k \in DOMAIN fields /\ values[k] \in IF fields[k].type = "number" THEN Numbers ELSE W

\* They are so from the time a request reads them until it writes them.
FieldsInv(W) ==
  /\ fields = [k \in DOMAIN fields |-> fields[k]]
  /\ \A k \in DOMAIN fields :
       fields[k].type \in {"text", "number", "select"} /\ fields[k].options \subseteq W
  /\ Means(record.values, W)
  /\ filling = [q \in Requests |-> filling[q]]
  /\ \A q \in Requests :
       /\ filling[q].stage = "read" => Means(filling[q].current, W)
       /\ filling[q].stage = "resolved" => Means(filling[q].values, W)

LEMMA FieldsStart == \A W : F!Init => FieldsInv(W)
<1> SUFFICES ASSUME NEW W, F!Init PROVE FieldsInv(W)
  OBVIOUS
<1>1. \A q \in Requests : filling[q].stage = "idle"
  BY DEF F!Init, F!Idle
<1>2. DOMAIN fields = {} /\ DOMAIN record.values = {}
  BY DEF F!Init, F!NoRecord
<1> QED
  BY <1>1, <1>2 DEF F!Init, FieldsInv, Means

\* A change of definitions keeps the types there are.
LEMMA MeansStays ==
  ASSUME DOMAIN fields \subseteq DOMAIN fields',
         \A k \in DOMAIN fields : fields'[k].type = fields[k].type
  PROVE  \A W, values : Means(values, W) => Means(values, W)'
  BY DEF Means

LEMMA FMerges ==
  ASSUME FieldsInv(Words), NEW mode, NEW current, NEW input, Means(current, Words),
         F!Valid(mode, current, input)
  PROVE  Means(F!Merge(current, input), Words)
<1>1. ASSUME NEW k \in DOMAIN input, input[k] # None
      PROVE  k \in DOMAIN fields
             /\ input[k] \in IF fields[k].type = "number" THEN Numbers ELSE Words
  <2>1. k \in F!Definitions /\ F!CheckType(fields[k], input[k])
    BY <1>1 DEF F!Valid, F!Accepts
  <2> QED
    BY <2>1 DEF F!Definitions, F!CheckType, FieldsInv
<1> QED
  BY <1>1 DEF Means, F!Merge

LEMMA FStep ==
  ASSUME FieldsInv(Words), [F!Next]_fieldVars
  PROVE  FieldsInv(Words)'
<1>1. CASE UNCHANGED fieldVars
  BY <1>1 DEF fieldVars, FieldsInv, Means
<1>2. ASSUME NEW k, NEW type \in F!Type, NEW options \in SUBSET Words, NEW required,
             F!CreateField(k, type, options, required)
      PROVE  FieldsInv(Words)'
  <2>1. \A v, X : Means(v, X) => Means(v, X)'
    BY <1>2, MeansStays DEF F!CreateField
  <2> QED
    BY <1>2, <2>1 DEF F!CreateField, F!Type, FieldsInv
<1>3. ASSUME NEW k \in DOMAIN fields, NEW options \in SUBSET Words, NEW required, NEW active,
             F!UpdateField(k, options, required, active)
      PROVE  FieldsInv(Words)'
  <2>1. fields' = [fields EXCEPT ![k] =
          [type |-> fields[k].type, options |-> options, required |-> required, active |-> active]]
        /\ record' = record /\ filling' = filling
    BY <1>3 DEF F!UpdateField, F!TypeAfter
  <2>2. DOMAIN fields' = DOMAIN fields /\ \A j \in DOMAIN fields : fields'[j].type = fields[j].type
    BY <2>1 DEF FieldsInv
  <2>3. \A v, X : Means(v, X) => Means(v, X)'
    BY <2>2, MeansStays
  <2>4. \A j \in DOMAIN fields' : fields'[j].options \subseteq Words
    BY <2>1 DEF FieldsInv
  <2>5. fields' = [j \in DOMAIN fields' |-> fields'[j]]
    BY <2>1
  <2> QED
    BY <2>1, <2>2, <2>3, <2>4, <2>5 DEF FieldsInv
<1>4. ASSUME NEW q \in Requests, NEW input, F!Read(q, input)
      PROVE  FieldsInv(Words)'
  BY <1>4 DEF F!Read, FieldsInv, Means
<1>5. ASSUME NEW q \in Requests, F!Resolve(q)
      PROVE  FieldsInv(Words)'
  <2> DEFINE d == filling[q]
  <2>1. CASE F!Valid(d.mode, d.current, d.input)
    <3> DEFINE values == F!Merge(d.current, d.input)
    <3>1. Means(values, Words)
      BY <1>5, <2>1, FMerges DEF F!Resolve, FieldsInv
    <3> HIDE DEF values
    <3>2. /\ filling' = [filling EXCEPT ![q] =
                         [stage |-> "resolved", mode |-> d.mode, values |-> values]]
          /\ fields' = fields /\ record' = record
      BY <1>5, <2>1 DEF F!Resolve, values
    <3>3. \A p \in Requests : /\ filling'[p].stage = "read" => Means(filling'[p].current, Words)
                              /\ filling'[p].stage = "resolved" => Means(filling'[p].values, Words)
      BY <3>1, <3>2 DEF FieldsInv
    <3> QED
      BY <3>2, <3>3 DEF FieldsInv, Means
  <2>2. CASE ~F!Valid(d.mode, d.current, d.input)
    <3>1. filling' = [filling EXCEPT ![q] = F!Idle] /\ fields' = fields /\ record' = record
      BY <1>5, <2>2 DEF F!Resolve
    <3> QED
      BY <3>1 DEF FieldsInv, Means, F!Idle
  <2> QED
    BY <2>1, <2>2
<1>6. ASSUME NEW q \in Requests, F!Write(q)
      PROVE  FieldsInv(Words)'
  <2>1. /\ fields' = fields /\ filling' = [filling EXCEPT ![q] = F!Idle]
        /\ filling[q].stage = "resolved" /\ F!Idle.stage = "idle"
        /\ record'.values = record.values \/ record'.values = filling[q].values
    BY <1>6 DEF F!Write, F!Idle
  <2> QED
    BY <2>1 DEF FieldsInv, Means
<1>7. CASE F!MakeBare
  BY <1>7 DEF F!MakeBare, FieldsInv, Means
<1> QED
  BY <1>1, <1>2, <1>3, <1>4, <1>5, <1>6, <1>7 DEF F!Next

LEMMA FGives == FieldsInv(Words) => F!MeaningKept
  BY DEF FieldsInv, Means, F!MeaningKept, F!MeaningOf, F!Type

LEMMA FsMerges ==
  ASSUME FieldsInv(FewWords), NEW mode, NEW current, NEW input, Means(current, FewWords),
         Fs!Valid(mode, current, input)
  PROVE  Means(Fs!Merge(current, input), FewWords)
<1>1. ASSUME NEW k \in DOMAIN input, input[k] # None
      PROVE  k \in DOMAIN fields
             /\ input[k] \in IF fields[k].type = "number" THEN Numbers ELSE FewWords
  <2>1. k \in Fs!Definitions /\ Fs!CheckType(fields[k], input[k])
    BY <1>1 DEF Fs!Valid, Fs!Accepts
  <2> QED
    BY <2>1 DEF Fs!Definitions, Fs!CheckType, FieldsInv
<1> QED
  BY <1>1 DEF Means, Fs!Merge

LEMMA FsStep ==
  ASSUME FieldsInv(FewWords), [Fs!Next]_fieldVars
  PROVE  FieldsInv(FewWords)'
<1>1. CASE UNCHANGED fieldVars
  BY <1>1 DEF fieldVars, FieldsInv, Means
<1>2. ASSUME NEW k, NEW type \in Fs!Type, NEW options \in SUBSET FewWords, NEW required,
             Fs!CreateField(k, type, options, required)
      PROVE  FieldsInv(FewWords)'
  <2>1. \A v, X : Means(v, X) => Means(v, X)'
    BY <1>2, MeansStays DEF Fs!CreateField
  <2> QED
    BY <1>2, <2>1 DEF Fs!CreateField, Fs!Type, FieldsInv
<1>3. ASSUME NEW k \in DOMAIN fields, NEW options \in SUBSET FewWords, NEW required, NEW active,
             Fs!UpdateField(k, options, required, active)
      PROVE  FieldsInv(FewWords)'
  <2>1. fields' = [fields EXCEPT ![k] =
          [type |-> fields[k].type, options |-> options, required |-> required, active |-> active]]
        /\ record' = record /\ filling' = filling
    BY <1>3 DEF Fs!UpdateField, Fs!TypeAfter
  <2>2. DOMAIN fields' = DOMAIN fields /\ \A j \in DOMAIN fields : fields'[j].type = fields[j].type
    BY <2>1 DEF FieldsInv
  <2>3. \A v, X : Means(v, X) => Means(v, X)'
    BY <2>2, MeansStays
  <2>4. \A j \in DOMAIN fields' : fields'[j].options \subseteq FewWords
    BY <2>1 DEF FieldsInv
  <2>5. fields' = [j \in DOMAIN fields' |-> fields'[j]]
    BY <2>1
  <2> QED
    BY <2>1, <2>2, <2>3, <2>4, <2>5 DEF FieldsInv
<1>4. ASSUME NEW q \in Requests, NEW input, Fs!Read(q, input)
      PROVE  FieldsInv(FewWords)'
  BY <1>4 DEF Fs!Read, FieldsInv, Means
<1>5. ASSUME NEW q \in Requests, Fs!Resolve(q)
      PROVE  FieldsInv(FewWords)'
  <2> DEFINE d == filling[q]
  <2>1. CASE Fs!Valid(d.mode, d.current, d.input)
    <3> DEFINE values == Fs!Merge(d.current, d.input)
    <3>1. Means(values, FewWords)
      BY <1>5, <2>1, FsMerges DEF Fs!Resolve, FieldsInv
    <3> HIDE DEF values
    <3>2. /\ filling' = [filling EXCEPT ![q] =
                         [stage |-> "resolved", mode |-> d.mode, values |-> values]]
          /\ fields' = fields /\ record' = record
      BY <1>5, <2>1 DEF Fs!Resolve, values
    <3>3. \A p \in Requests : /\ filling'[p].stage = "read" => Means(filling'[p].current, FewWords)
                              /\ filling'[p].stage = "resolved" => Means(filling'[p].values, FewWords)
      BY <3>1, <3>2 DEF FieldsInv
    <3> QED
      BY <3>2, <3>3 DEF FieldsInv, Means
  <2>2. CASE ~Fs!Valid(d.mode, d.current, d.input)
    <3>1. filling' = [filling EXCEPT ![q] = Fs!Idle] /\ fields' = fields /\ record' = record
      BY <1>5, <2>2 DEF Fs!Resolve
    <3> QED
      BY <3>1 DEF FieldsInv, Means, Fs!Idle
  <2> QED
    BY <2>1, <2>2
<1>6. ASSUME NEW q \in Requests, Fs!Write(q)
      PROVE  FieldsInv(FewWords)'
  <2>1. /\ fields' = fields /\ filling' = [filling EXCEPT ![q] = Fs!Idle]
        /\ filling[q].stage = "resolved" /\ Fs!Idle.stage = "idle"
        /\ record'.values = record.values \/ record'.values = filling[q].values
    BY <1>6 DEF Fs!Write, Fs!Idle
  <2> QED
    BY <2>1 DEF FieldsInv, Means
<1>7. CASE Fs!MakeBare
  BY <1>7 DEF Fs!MakeBare, FieldsInv, Means
<1> QED
  BY <1>1, <1>2, <1>3, <1>4, <1>5, <1>6, <1>7 DEF Fs!Next

LEMMA FsGives == FieldsInv(FewWords) => Fs!MeaningKept
  BY DEF FieldsInv, Means, Fs!MeaningKept, Fs!MeaningOf, Fs!Type

-----------------------------------------------------------------------------
(* One request at a time: a required field stays with the record. *)

\* A required field that the record has not lost is among values.
HasRequired(values) ==
  \A k \in Fs!Definitions :
    fields[k].required /\ (record.exists => k \in DOMAIN record.values) => k \in DOMAIN values

RequiredInv ==
  /\ FieldsInv(FewWords)
  /\ \A p, q \in Requests : filling[p] # Fs!Idle /\ filling[q] # Fs!Idle => p = q
  /\ \A q \in Requests :
       LET d == filling[q]
       IN  /\ d.stage = "read" =>
                d.current = record.values /\ d.mode = IF record.exists THEN "update" ELSE "create"
           /\ d.stage = "resolved" => HasRequired(d.values)

\* What a request that finds no error writes has them.
LEMMA ResolvedHasRequired ==
  ASSUME NEW mode, mode = IF record.exists THEN "update" ELSE "create", NEW input,
         Fs!Valid(mode, record.values, input)
  PROVE  HasRequired(Fs!Merge(record.values, input))
<1> SUFFICES ASSUME NEW k \in Fs!Definitions, fields[k].required,
                    record.exists => k \in DOMAIN record.values
             PROVE  k \in DOMAIN Fs!Merge(record.values, input)
  BY DEF HasRequired
<1>1. CASE record.exists
  <2>1. k \in DOMAIN input => input[k] # None
    BY DEF Fs!Valid, Fs!Accepts
  <2> QED
    BY <1>1, <2>1 DEF Fs!Merge
<1>2. CASE ~record.exists
  BY <1>2 DEF Fs!Valid
<1> QED
  BY <1>1, <1>2

LEMMA RequiredStep ==
  ASSUME RequiredInv, [Fs!AloneNext]_fieldVars
  PROVE  RequiredInv' /\ Fs!KeepsRequired
<1>1. CASE UNCHANGED fieldVars
  BY <1>1 DEF fieldVars, RequiredInv, FieldsInv, Means, HasRequired, Fs!KeepsRequired, Fs!Definitions
<1>2. CASE Fs!AloneNext
  <2>1. FieldsInv(FewWords)'
    BY <1>2, FsStep DEF RequiredInv, Fs!AloneNext
  <2>2. \A p, q \in Requests : filling'[p] # Fs!Idle /\ filling'[q] # Fs!Idle => p = q
    <3> DEFINE T == {q \in Requests : filling'[q] # Fs!Idle}
    <3>1. Cardinality(T) <= 1
      BY <1>2 DEF Fs!AloneNext, Fs!Cardinality, Cardinality
    <3> QED
      BY <3>1, AtMostOne, CompanyAssumption
  <2>3. Fs!Idle.stage = "idle"
    BY DEF Fs!Idle
  <2>4. ASSUME filling' = filling
        PROVE  RequiredInv'
    <3>1. \A q \in Requests : filling[q] = Fs!Idle
      BY <1>2, <2>4 DEF Fs!AloneNext, Fs!Settled
    <3> QED
      BY <2>1, <2>2, <2>3, <2>4, <3>1 DEF RequiredInv
  <2>5. CASE Fs!MakeBare
    BY <2>4, <2>5 DEF Fs!MakeBare, Fs!KeepsRequired
  <2>6. ASSUME NEW q \in Requests, NEW input, Fs!Read(q, input)
        PROVE  RequiredInv' /\ Fs!KeepsRequired
    <3> DEFINE d == [stage |-> "read", mode |-> IF record.exists THEN "update" ELSE "create",
                     current |-> record.values, input |-> input]
    <3>1. filling' = [filling EXCEPT ![q] = d] /\ fields' = fields /\ record' = record
      BY <2>6 DEF Fs!Read
    <3>2. /\ d.stage = "read" /\ d.mode = IF record.exists THEN "update" ELSE "create"
          /\ d.current = record.values
      OBVIOUS
    <3> HIDE DEF d
    <3>3. \A p \in Requests : filling'[p] = IF p = q THEN d ELSE filling[p]
      BY <3>1 DEF RequiredInv, FieldsInv
    <3> QED
      BY <2>1, <2>2, <3>1, <3>2, <3>3 DEF RequiredInv, Fs!KeepsRequired, HasRequired, Fs!Definitions
  <2>7. ASSUME NEW q \in Requests, Fs!Resolve(q)
        PROVE  RequiredInv' /\ Fs!KeepsRequired
    <3> DEFINE d == filling[q]
               values == Fs!Merge(d.current, d.input)
    <3>1. /\ fields' = fields /\ record' = record /\ d.stage = "read"
          /\ filling' = [filling EXCEPT ![q] =
               IF Fs!Valid(d.mode, d.current, d.input)
               THEN [stage |-> "resolved", mode |-> d.mode, values |-> values] ELSE Fs!Idle]
      BY <2>7 DEF Fs!Resolve
    <3>2. Fs!Valid(d.mode, d.current, d.input) => HasRequired(values)
      BY <3>1, ResolvedHasRequired DEF RequiredInv
    <3> HIDE DEF values
    <3>3. \A p \in Requests : p # q => filling'[p] = filling[p]
      BY <3>1 DEF RequiredInv, FieldsInv
    <3>4. \/ filling'[q] = Fs!Idle
          \/ /\ HasRequired(values)
             /\ filling'[q] = [stage |-> "resolved", mode |-> d.mode, values |-> values]
      BY <3>1, <3>2 DEF RequiredInv, FieldsInv
    <3>5. \A v : HasRequired(v) => HasRequired(v)'
      BY <3>1 DEF HasRequired, Fs!Definitions
    <3>6. \A p \in Requests : filling'[p].stage = "resolved" => HasRequired(filling'[p].values)
      BY <2>3, <3>3, <3>4 DEF RequiredInv
    <3>7. \A p \in Requests : filling'[p].stage = "resolved" => HasRequired(filling[p].values)'
      BY <3>1, <3>6 DEF HasRequired, Fs!Definitions
    <3>8. \A p \in Requests : filling'[p].stage = "read" => filling'[p] = filling[p]
      BY <2>3, <3>3, <3>4
    <3>9. RequiredInv'
      BY <2>1, <2>2, <3>1, <3>7, <3>8 DEF RequiredInv
    <3> QED
      BY <3>1, <3>9 DEF Fs!KeepsRequired
  <2>8. ASSUME NEW q \in Requests, Fs!Write(q)
        PROVE  RequiredInv' /\ Fs!KeepsRequired
    <3>1. /\ fields' = fields
          /\ record' = record \/ record' = [exists |-> TRUE, values |-> filling[q].values]
          /\ filling' = [filling EXCEPT ![q] = Fs!Idle] /\ filling[q].stage = "resolved"
      BY <2>8 DEF Fs!Write
    <3>2. \A p \in Requests : filling'[p] = Fs!Idle
      BY <2>3, <3>1 DEF RequiredInv, FieldsInv
    <3>3. RequiredInv'
      BY <2>1, <2>2, <2>3, <3>2 DEF RequiredInv
    <3>4. HasRequired(filling[q].values)
      BY <3>1 DEF RequiredInv
    <3> QED
      BY <3>1, <3>3, <3>4 DEF HasRequired, Fs!KeepsRequired
  <2>9. CASE \E k, type, options, required, active :
               Fs!CreateField(k, type, options, required) \/ Fs!UpdateField(k, options, required, active)
    <3>1. record' = record /\ filling' = filling
      BY <2>9 DEF Fs!CreateField, Fs!UpdateField
    <3>2. Fs!KeepsRequired
      BY <3>1 DEF Fs!KeepsRequired
    <3> QED
      BY <2>4, <3>1, <3>2
  <2> QED
    BY <1>2, <2>5, <2>6, <2>7, <2>8, <2>9 DEF Fs!AloneNext, Fs!Next
<1> QED
  BY <1>1, <1>2

LEMMA FieldsPart ==
  CompanySpec => /\ [](part = "fields" => FieldsInv(Words))
                 /\ [](part = "fields alone" => RequiredInv)
                 /\ [][part = "fields alone" => Fs!KeepsRequired]_companyVars
<1> DEFINE Inv == /\ part = "fields" => FieldsInv(Words)
                  /\ part = "fields alone" => RequiredInv
<1>1. CompanyInit => Inv
  <2> SUFFICES ASSUME F!Init PROVE FieldsInv(Words) /\ RequiredInv
    BY DEF CompanyInit
  <2>1. \A q \in Requests : filling[q] = Fs!Idle /\ filling[q].stage = "idle"
    BY DEF F!Init, F!Idle, Fs!Idle
  <2> QED
    BY <2>1, FieldsStart DEF RequiredInv
<1>2. Inv /\ [CompanyNext]_companyVars => Inv' /\ (part = "fields alone" => Fs!KeepsRequired)
  <2> SUFFICES ASSUME Inv, [CompanyNext]_companyVars
               PROVE  Inv' /\ (part = "fields alone" => Fs!KeepsRequired)
    OBVIOUS
  <2>1. part' = part
    BY DEF CompanyNext, companyVars
  <2>2. CASE part = "fields"
    <3>1. [F!Next]_fieldVars
      BY <2>2 DEF CompanyNext, FieldsNext, companyVars
    <3>2. FieldsInv(Words)'
      BY <2>2, <3>1, FStep
    <3> QED
      BY <2>1, <2>2, <3>2
  <2>3. CASE part = "fields alone"
    <3>1. [Fs!AloneNext]_fieldVars
      BY <2>3 DEF CompanyNext, FieldsNext, companyVars
    <3>2. RequiredInv' /\ Fs!KeepsRequired
      BY <2>3, <3>1, RequiredStep
    <3> QED
      BY <2>1, <2>3, <3>2
  <2> QED
    BY <2>1, <2>2, <2>3
<1> QED
  BY <1>1, <1>2, PTL DEF CompanySpec

LEMMA FieldsStayEditable == Fs!StaysEditable
<1> SUFFICES ASSUME NEW k \in Fs!Definitions, NEW v \in Fs!Value, Fs!Accepts(k, v)
             PROVE  Fs!Valid("update", record.values, [j \in {k} |-> v])
  BY DEF Fs!StaysEditable
<1> QED
  BY DEF Fs!Valid

-----------------------------------------------------------------------------
(* Types of the rows of people: invitations that replace each other. *)

\* Each request makes one invitation of a person more at most: it has dropped
\* those there were.
InvitesOnce ==
  \A e \in People :
    Cardinality(I!PendingOf(e)) + Cardinality(I!Replacing(e)) <= Cardinality(Requests)

LEMMA InvitesFinite ==
  ASSUME InvitationsTyped, NEW e \in People
  PROVE  /\ IsFiniteSet(I!PendingOf(e)) /\ Cardinality(I!PendingOf(e)) \in Nat
         /\ IsFiniteSet(I!Replacing(e)) /\ Cardinality(I!Replacing(e)) \in Nat
         /\ Cardinality(Requests) \in Nat
<1>1. I!PendingOf(e) \subseteq 1..made /\ made \in Nat
  BY DEF InvitationsTyped, I!PendingOf, I!Pending, I!Existing
<1>2. I!Replacing(e) \subseteq Requests
  BY DEF I!Replacing
<1>3. IsFiniteSet(1..made)
  BY <1>1, FS_Interval
<1>4. IsFiniteSet(I!PendingOf(e)) /\ IsFiniteSet(I!Replacing(e)) /\ IsFiniteSet(Requests)
  BY <1>1, <1>2, <1>3, CompanyAssumption, FS_Subset
<1> QED
  BY <1>4, FS_CardinalityType

\* Fewer invitations and no new request about to make one keep the bound.
LEMMA FewerInvites ==
  ASSUME InvitationsTyped, InvitesOnce, NEW e \in People,
         I!PendingOf(e)' \subseteq I!PendingOf(e), I!Replacing(e)' \subseteq I!Replacing(e)
  PROVE  Cardinality(I!PendingOf(e)') + Cardinality(I!Replacing(e)') <= Cardinality(Requests)
<1>1. /\ Cardinality(I!PendingOf(e)') \in Nat
      /\ Cardinality(I!PendingOf(e)') <= Cardinality(I!PendingOf(e))
      /\ Cardinality(I!Replacing(e)') \in Nat
      /\ Cardinality(I!Replacing(e)') <= Cardinality(I!Replacing(e))
  BY InvitesFinite, FS_Subset, FS_CardinalityType
<1>2. Cardinality(I!PendingOf(e)) + Cardinality(I!Replacing(e)) <= Cardinality(Requests)
  BY DEF InvitesOnce
<1> QED
  BY <1>1, <1>2, InvitesFinite

\* A step that makes no invitation and after which no other request is about to
\* make one.
LEMMA FewerRowsOnce ==
  ASSUME InvitationsTyped, InvitesOnce,
         \A i \in DOMAIN invitations' :
           /\ i \in DOMAIN invitations /\ invitations'[i].email = invitations[i].email
           /\ invitations[i].accepted => invitations'[i].accepted,
         \A q \in Requests : inviting'[q] = inviting[q] \/ inviting'[q].stage # "replacing"
  PROVE  InvitesOnce'
<1>1. ASSUME NEW e \in People
      PROVE  I!PendingOf(e)' \subseteq I!PendingOf(e) /\ I!Replacing(e)' \subseteq I!Replacing(e)
  <2>1. I!PendingOf(e)' \subseteq I!PendingOf(e)
    BY DEF I!PendingOf, I!Pending, I!Existing
  <2>2. I!Replacing(e)' \subseteq I!Replacing(e)
    BY DEF I!Replacing
  <2> QED
    BY <2>1, <2>2
<1> QED
  BY <1>1, FewerInvites DEF InvitesOnce

LEMMA DropOnce ==
  ASSUME InvitationsTyped, InvitesOnce, NEW q \in Requests, I!DropPending(q)
  PROVE  InvitesOnce'
<1> DEFINE e0 == inviting[q].email
<1>1. PICK d \in Joining :
        inviting' = [inviting EXCEPT ![q] = d] /\ d.stage = "replacing" /\ d.email = e0
  BY Continued DEF I!DropPending
<1>2. invitations' = [i \in DOMAIN invitations \ I!PendingOf(e0) |-> invitations[i]]
  BY DEF I!DropPending, I!Without, I!Existing, I!Replaced
<1> HIDE DEF e0
<1>3. ASSUME NEW e \in People
      PROVE  Cardinality(I!PendingOf(e)') + Cardinality(I!Replacing(e)') <= Cardinality(Requests)
  <2>1. CASE e = e0
    <3>1. I!PendingOf(e)' = {}
      BY <1>2, <2>1 DEF I!PendingOf, I!Pending, I!Existing
    <3>2. I!Replacing(e)' \subseteq Requests
      BY DEF I!Replacing
    <3>3. /\ Cardinality(I!PendingOf(e)') = 0
          /\ Cardinality(I!Replacing(e)') \in Nat /\ Cardinality(I!Replacing(e)') <= Cardinality(Requests)
      BY <3>1, <3>2, CompanyAssumption, FS_EmptySet, FS_Subset, FS_CardinalityType
    <3> QED
      BY <3>3, InvitesFinite
  <2>2. CASE e # e0
    <3>1. I!PendingOf(e)' \subseteq I!PendingOf(e)
      BY <1>2 DEF I!PendingOf, I!Pending, I!Existing
    <3>2. I!Replacing(e)' \subseteq I!Replacing(e)
      <4> SUFFICES ASSUME NEW p \in I!Replacing(e)' PROVE p \in I!Replacing(e)
        OBVIOUS
      <4>1. p # q
        BY <1>1, <2>2 DEF I!Replacing, InvitationsTyped
      <4> QED
        BY <1>1, <4>1 DEF I!Replacing, InvitationsTyped
    <3> QED
      BY <3>1, <3>2, FewerInvites
  <2> QED
    BY <2>1, <2>2
<1> QED
  BY <1>3 DEF InvitesOnce

LEMMA MakeOnce ==
  ASSUME InvitationsTyped, InvitesOnce, NEW q \in Requests, I!CreateInvitation(q)
  PROVE  InvitesOnce'
<1> DEFINE e0 == inviting[q].email
           row == [email |-> e0, accepted |-> FALSE, expired |-> FALSE]
<1>1. /\ inviting[q].stage = "replacing" /\ inviting' = [inviting EXCEPT ![q] = I!Idle]
      /\ invitations' = [i \in DOMAIN invitations \union {made + 1} |->
           IF i = made + 1 THEN row ELSE invitations[i]]
  BY DEF I!CreateInvitation, I!End, I!Existing
<1>2. row.email = e0 /\ ~ row.accepted
  OBVIOUS
<1> HIDE DEF row
<1>3. /\ made + 1 \notin DOMAIN invitations
      /\ DOMAIN invitations' = DOMAIN invitations \union {made + 1}
      /\ invitations'[made + 1] = row
      /\ \A i \in DOMAIN invitations : invitations'[i] = invitations[i]
  BY <1>1 DEF InvitationsTyped
<1>4. I!Idle.stage # "replacing"
  BY DEF I!Idle
<1>5. ASSUME NEW e \in People
      PROVE  Cardinality(I!PendingOf(e)') + Cardinality(I!Replacing(e)') <= Cardinality(Requests)
  <2>1. CASE e = e0
    <3>1. I!PendingOf(e)' = I!PendingOf(e) \union {made + 1} /\ made + 1 \notin I!PendingOf(e)
      BY <1>2, <1>3, <2>1 DEF I!PendingOf, I!Pending, I!Existing
    <3>2. I!Replacing(e)' = I!Replacing(e) \ {q} /\ q \in I!Replacing(e)
      BY <1>1, <1>4, <2>1 DEF I!Replacing, InvitationsTyped
    <3>3. Cardinality(I!PendingOf(e)') = Cardinality(I!PendingOf(e)) + 1
      BY <3>1, InvitesFinite, FS_AddElement
    <3>4. Cardinality(I!Replacing(e)') = Cardinality(I!Replacing(e)) - 1
      BY <3>2, InvitesFinite, FS_RemoveElement
    <3>5. Cardinality(I!PendingOf(e)) + Cardinality(I!Replacing(e)) <= Cardinality(Requests)
      BY DEF InvitesOnce
    <3> QED
      BY <3>3, <3>4, <3>5, InvitesFinite
  <2>2. CASE e # e0
    <3>1. I!PendingOf(e)' \subseteq I!PendingOf(e)
      BY <1>2, <1>3, <2>2 DEF I!PendingOf, I!Pending, I!Existing
    <3>2. I!Replacing(e)' \subseteq I!Replacing(e)
      BY <1>1, <1>4 DEF I!Replacing, InvitationsTyped
    <3> QED
      BY <3>1, <3>2, FewerInvites
  <2> QED
    BY <2>1, <2>2
<1> QED
  BY <1>5 DEF InvitesOnce

LEMMA OnceStep ==
  ASSUME InvitationsTyped, InvitesOnce, [I!Next]_seatVars
  PROVE  InvitesOnce'
<1> DEFINE Stay == \A i \in DOMAIN invitations' :
              /\ i \in DOMAIN invitations /\ invitations'[i].email = invitations[i].email
              /\ invitations[i].accepted => invitations'[i].accepted
           Go == \A q \in Requests : inviting'[q] = inviting[q] \/ inviting'[q].stage # "replacing"
<1>1. ASSUME NEW i \in DOMAIN invitations, NEW expired \in BOOLEAN,
             invitations' = I!WithExpired(i, expired)
      PROVE  Stay
  <2>1. ASSUME NEW j \in DOMAIN invitations
        PROVE  /\ [invitations[j] EXCEPT !.expired = expired].email = invitations[j].email
               /\ [invitations[j] EXCEPT !.expired = expired].accepted = invitations[j].accepted
    BY DEF InvitationsTyped, InvitationRow
  <2>2. /\ DOMAIN invitations' = DOMAIN invitations
        /\ \A j \in DOMAIN invitations :
             invitations'[j] = IF j = i THEN [invitations[j] EXCEPT !.expired = expired] ELSE invitations[j]
    BY <1>1 DEF I!WithExpired
  <2> QED
    BY <2>1, <2>2
<1>2. invitations' = invitations => Stay
  OBVIOUS
<1>3. ASSUME NEW q \in Requests, I!End(q) PROVE Go
  BY <1>3, IdleIsNotJoining DEF I!End, InvitationsTyped
<1>4. ASSUME NEW q \in Requests, NEW d, d.stage # "replacing", inviting' = [inviting EXCEPT ![q] = d]
      PROVE  Go
  BY <1>4 DEF InvitationsTyped
<1>5. ASSUME NEW q \in Requests, NEW stage, NEW e, NEW i, NEW expired,
             I!Start(q, stage, e, i, expired), stage # "replacing"
      PROVE  Go
  <2> DEFINE d == [stage |-> stage, email |-> e, invitation |-> i, expired |-> expired]
  <2>1. d.stage # "replacing" /\ inviting' = [inviting EXCEPT ![q] = d]
    BY <1>5 DEF I!Start
  <2> HIDE DEF d
  <2> QED
    BY <1>4, <2>1
<1>6. inviting' = inviting => Go
  OBVIOUS
<1> HIDE DEF Stay, Go
<1>7. ASSUME NEW q \in Requests, NEW e \in People, I!CheckInvite(q, e) \/ I!CheckCreate(q, e)
      PROVE  Stay /\ Go
  BY <1>2, <1>5, <1>7 DEF I!CheckInvite, I!CheckCreate
<1>8. ASSUME NEW q \in Requests, NEW i \in I!Existing, I!CheckResend(q, i) \/ I!FindInvitation(q, i)
      PROVE  Stay /\ Go
  BY <1>2, <1>5, <1>8 DEF I!CheckResend, I!FindInvitation
<1>9. ASSUME NEW q \in Requests, I!CheckAccept(q)
      PROVE  Stay /\ Go
  <2>1. PICK d \in Joining : inviting' = [inviting EXCEPT ![q] = d] /\ d.stage = "joining"
    BY <1>9, Continued DEF I!CheckAccept
  <2>2. Go
    BY <1>4, <2>1
  <2> QED
    BY <1>2, <1>9, <2>2 DEF I!CheckAccept
<1>10. ASSUME NEW q \in Requests, I!CreateUser(q) \/ I!GiveUp(q)
       PROVE  Stay /\ Go
  BY <1>2, <1>3, <1>10 DEF I!CreateUser, I!GiveUp
<1>11. ASSUME NEW q \in Requests, I!WriteResend(q)
       PROVE  Stay /\ Go
  BY <1>1, <1>2, <1>3, <1>11 DEF I!WriteResend, I!Existing
<1>12. ASSUME NEW q \in Requests, I!Join(q)
       PROVE  Stay /\ Go
  <2> DEFINE i == inviting[q].invitation
  <2>1. invitations' = [j \in DOMAIN invitations |->
          IF j = i THEN [invitations[j] EXCEPT !.accepted = TRUE] ELSE invitations[j]]
    BY <1>12 DEF I!Join, I!Existing
  <2>2. ASSUME NEW j \in DOMAIN invitations
        PROVE  /\ [invitations[j] EXCEPT !.accepted = TRUE].email = invitations[j].email
               /\ [invitations[j] EXCEPT !.accepted = TRUE].accepted
    BY DEF InvitationsTyped, InvitationRow
  <2> HIDE DEF i
  <2>3. Stay
    BY <2>1, <2>2 DEF Stay
  <2> QED
    BY <1>3, <1>12, <2>3 DEF I!Join
<1>13. ASSUME NEW i \in I!Existing, I!Revoke(i) \/ I!Expire(i)
       PROVE  Stay /\ Go
  <2>1. CASE I!Revoke(i)
    BY <1>6, <2>1 DEF I!Revoke, I!Without, I!Existing, Stay
  <2>2. CASE I!Expire(i)
    BY <1>1, <1>6, <2>2 DEF I!Expire, I!Existing
  <2> QED
    BY <1>13, <2>1, <2>2
<1>14. ASSUME NEW e \in People, NEW f \in People, NEW standing \in I!Standing, I!Update(e, f, standing)
       PROVE  Stay /\ Go
  BY <1>2, <1>6, <1>14 DEF I!Update
<1>15. ASSUME UNCHANGED seatVars
       PROVE  Stay /\ Go
  <2>1. invitations' = invitations /\ inviting' = inviting
    BY <1>15 DEF seatVars
  <2> QED
    BY <1>2, <1>6, <2>1
<1>16. Stay /\ Go => InvitesOnce'
  BY FewerRowsOnce DEF Stay, Go
<1> QED
  BY <1>7, <1>8, <1>9, <1>10, <1>11, <1>12, <1>13, <1>14, <1>15, <1>16, DropOnce, MakeOnce
     DEF I!Next, I!InviteOrCreate

LEMMA SeatRowsPart ==
  CompanySpec => [](part \in {"invitations", "seats"} => InvitationsInv /\ InvitesOnce)
<1> DEFINE Inv == part \in {"invitations", "seats"} => InvitesOnce
           Typed == part \in {"invitations", "seats"} => InvitationsInv
<1>1. CompanyInit => Inv
  <2> SUFFICES ASSUME I!Init PROVE InvitesOnce
    BY DEF CompanyInit, SeatsInit
  <2>1. invitations = <<>> /\ inviting = [q \in Requests |-> I!Idle]
    BY DEF I!Init
  <2>2. ASSUME NEW e \in People
        PROVE  I!PendingOf(e) = {} /\ I!Replacing(e) = {}
    BY <2>1, IdleIsNotJoining DEF I!PendingOf, I!Pending, I!Existing, I!Replacing
  <2>3. Cardinality(Requests) \in Nat
    BY CompanyAssumption, FS_CardinalityType
  <2>4. ASSUME NEW e \in People
        PROVE  Cardinality(I!PendingOf(e)) + Cardinality(I!Replacing(e)) <= Cardinality(Requests)
    <3>1. Cardinality(I!PendingOf(e)) = 0 /\ Cardinality(I!Replacing(e)) = 0
      BY <2>2, FS_EmptySet
    <3> QED
      BY <2>3, <3>1, CompanyAssumption, FS_CardinalityType
  <2> QED
    BY <2>4 DEF InvitesOnce
<1>2. Inv /\ Typed /\ [CompanyNext]_companyVars => Inv'
  <2> SUFFICES ASSUME InvitationsTyped, InvitesOnce, [I!Next]_seatVars PROVE InvitesOnce'
    BY NoReactivationIsNext DEF CompanyNext, SeatsNext, companyVars, InvitationsInv
  <2> QED
    BY OnceStep
<1>3. CompanySpec => []Typed
  BY InvitationsPart, PTL
<1> QED
  BY <1>1, <1>2, <1>3, PTL DEF CompanySpec

LEMMA SeatRowsGive == InvitationsInv /\ InvitesOnce => I!SeatsTypeOK
<1> SUFFICES ASSUME InvitationsInv, InvitesOnce PROVE I!SeatsTypeOK
  OBVIOUS
<1>1. \A T : I!Cardinality(T) = Cardinality(T)
  BY DEF I!Cardinality, Cardinality
<1> QED
  BY <1>1 DEF InvitesOnce, InvitationsInv, InvitationsTyped, I!SeatsTypeOK, I!Existing

-----------------------------------------------------------------------------
(* Types of the settings. *)

\* A row of the table, with limits of some of the resources; and what a request
\* read and sends.
Strategies == {"fefo", "fifo", "lifo"}

SettingsRow(some) ==
  [plan : {"trial", "enterprise"}, status : {"active", "suspended"},
   settings : [limits : some, strategy : Strategies]]

SettingsRequest(some) ==
  [stage : {"platform", "company"}, row : SettingsRow(some),
   plan : {"trial", "enterprise", "kept"}, status : {"active", "suspended", "kept"},
   limits : some, strategy : Strategies \union {"kept"}]

SettingsTyped(some, Q) ==
  /\ tenant \in SettingsRow(some)
  /\ setting \in [Q -> {[stage |-> "idle"]} \union SettingsRequest(some)]

\* Limits that are merged are limits.
LEMMA LiMerges ==
  ASSUME NEW current \in Li!SomeLimits, NEW sent \in Li!SomeLimits
  PROVE  Li!Merged(current, sent) \in Li!SomeLimits
<1> DEFINE values == {7, 0 - 1}
           resources == {"users", "warehouses"}
<1>1. \A f : f \in Li!SomeLimits <=> \E some \in SUBSET resources : f \in [some -> values]
  BY DEF Li!SomeLimits
<1> HIDE DEF values, resources
<1>2. PICK D \in SUBSET resources : current \in [D -> values]
  BY <1>1
<1>3. PICK E \in SUBSET resources : sent \in [E -> values]
  BY <1>1
<1>4. Li!Merged(current, sent) \in [D \union E -> values]
  BY <1>2, <1>3 DEF Li!Merged
<1> QED
  BY <1>1, <1>4

LEMMA LiNames ==
  Li!Strategy = Strategies /\ Li!Idle = [stage |-> "idle"] /\ Li!Kept = "kept"
BY DEF Li!Strategy, Strategies, Li!Idle, Li!Kept

\* No limits are limits.
LEMMA LiNone == Li!NoSettings.limits \in Li!SomeLimits
<1> DEFINE values == {7, 0 - 1}
           resources == {"users", "warehouses"}
<1>1. [r \in {} |-> Li!Unlimited] \in [{} -> values] /\ {} \in SUBSET resources
  OBVIOUS
<1>2. Li!NoSettings.limits = [r \in {} |-> Li!Unlimited]
  BY DEF Li!NoSettings
<1> HIDE DEF values, resources
<1>3. Li!SomeLimits = UNION {[some -> values] : some \in SUBSET resources}
  BY DEF Li!SomeLimits, values, resources
<1> QED
  BY <1>1, <1>2, <1>3

LEMMA LiStarts ==
  ASSUME Li!Init
  PROVE  SettingsTyped(Li!SomeLimits, Solo)
<1>1. Li!NoSettings.limits \in Li!SomeLimits
  BY LiNone
<1>2. Li!NoSettings \in [limits : Li!SomeLimits, strategy : Strategies]
  BY <1>1 DEF Li!NoSettings, Strategies
<1> QED
  BY <1>2, LiNames DEF Li!Init, SettingsTyped, SettingsRow

LEMMA LiTyped ==
  ASSUME SettingsTyped(Li!SomeLimits, Solo), Li!Next \/ UNCHANGED settingVars
  PROVE  SettingsTyped(Li!SomeLimits, Solo)'
<1> DEFINE some == Li!SomeLimits
<1>1. some' = some
  BY DEF Li!SomeLimits
<1>2. Li!NoSettings.limits \in some
  BY LiNone
<1>3. \A current, sent \in some : Li!Merged(current, sent) \in some
  BY LiMerges
<1> HIDE DEF some
<1>4. Li!Idle.stage = "idle" /\ Li!Idle \notin SettingsRequest(some)
  BY LiNames DEF SettingsRequest
<1>5. CASE UNCHANGED settingVars
  BY <1>1, <1>5 DEF settingVars, SettingsTyped, some
<1>6. ASSUME NEW q \in Solo, NEW kind \in {"platform", "company"},
             NEW plan \in {"trial", "enterprise", "kept"}, NEW status \in {"active", "suspended", "kept"},
             NEW limits \in some, NEW strategy \in Strategies \union {"kept"},
             Li!Read(q, kind, plan, status, limits, strategy)
      PROVE  SettingsTyped(some, Solo)'
  <2> DEFINE d == [stage |-> kind, row |-> tenant, plan |-> plan, status |-> status,
                   limits |-> limits, strategy |-> strategy]
  <2>1. d \in SettingsRequest(some)
    BY DEF SettingsTyped, SettingsRequest, some
  <2>2. setting' = [setting EXCEPT ![q] = d] /\ tenant' = tenant
    BY <1>6 DEF Li!Read
  <2> HIDE DEF d
  <2> QED
    BY <1>1, <2>1, <2>2 DEF SettingsTyped, some
<1>7. ASSUME NEW q \in Solo, setting[q].stage \in {"platform", "company"},
             NEW row \in SettingsRow(some), tenant' = row, setting' = [setting EXCEPT ![q] = Li!Idle]
      PROVE  SettingsTyped(some, Solo)'
  BY <1>1, <1>7, LiNames DEF SettingsTyped, some
<1>8. ASSUME NEW q \in Solo, setting[q].stage \in {"platform", "company"}
      PROVE  /\ setting[q].row \in SettingsRow(some)
             /\ setting[q].plan \in {"trial", "enterprise", "kept"}
             /\ setting[q].status \in {"active", "suspended", "kept"}
             /\ setting[q].limits \in some /\ setting[q].strategy \in Strategies \union {"kept"}
  <2>1. setting[q] \in SettingsRequest(some)
    BY <1>4, <1>8, LiNames DEF SettingsTyped, some
  <2> QED
    BY <2>1 DEF SettingsRequest
<1>9. ASSUME NEW q \in Solo, Li!UpdateTenant(q)
      PROVE  SettingsTyped(some, Solo)'
  <2> DEFINE d == setting[q]
             row == [plan |-> Li!NextPlan(d), status |-> Li!Or(d.status, tenant.status),
                     settings |-> Li!NextSettings(d)]
  <2>1. d.stage = "platform" /\ tenant' = row /\ setting' = [setting EXCEPT ![q] = Li!Idle]
    BY <1>9 DEF Li!UpdateTenant
  <2>2. /\ d.row.settings \in [limits : some, strategy : Strategies]
        /\ d.plan \in {"trial", "enterprise", "kept"} /\ d.status \in {"active", "suspended", "kept"}
        /\ d.limits \in some
    BY <1>8, <2>1 DEF SettingsRow
  <2>3. Li!NextSettings(d) \in [limits : some, strategy : Strategies]
    BY <1>3, <2>2 DEF Li!NextSettings, Li!NextLimits
  <2>4. Li!NextPlan(d) \in {"trial", "enterprise"} /\ Li!Or(d.status, tenant.status) \in {"active", "suspended"}
    BY <2>2, LiNames DEF Li!NextPlan, Li!Or, SettingsTyped, SettingsRow
  <2>5. row \in SettingsRow(some)
    BY <2>3, <2>4 DEF SettingsRow
  <2> HIDE DEF row
  <2> QED
    BY <1>7, <2>1, <2>5
<1>10. ASSUME NEW q \in Solo, Li!UpdateSettings(q)
       PROVE  SettingsTyped(some, Solo)'
  <2> DEFINE d == setting[q]
             settings == [d.row.settings EXCEPT !.strategy = Li!Or(d.strategy, @)]
             row == [tenant EXCEPT !.settings = settings]
  <2>1. d.stage = "company" /\ tenant' = row /\ setting' = [setting EXCEPT ![q] = Li!Idle]
    BY <1>10 DEF Li!UpdateSettings
  <2>2. d.row.settings \in [limits : some, strategy : Strategies] /\ d.strategy \in Strategies \union {"kept"}
    BY <1>8, <2>1 DEF SettingsRow
  <2>3. settings \in [limits : some, strategy : Strategies]
    BY <2>2, LiNames DEF Li!Or
  <2> HIDE DEF settings
  <2>4. row \in SettingsRow(some)
    BY <2>3 DEF SettingsRow, SettingsTyped, some
  <2> HIDE DEF row
  <2> QED
    BY <1>7, <2>1, <2>4
<1> QED
  BY <1>2, <1>5, <1>6, <1>9, <1>10, LiNames DEF Li!Next, some

LEMMA LiGives ==
  ASSUME SettingsTyped(Li!SomeLimits, Solo)
  PROVE  Li!SettingsTypeOK
<1>1. /\ tenant.plan \in {"trial", "enterprise"} /\ tenant.status \in {"active", "suspended"}
      /\ tenant.settings.limits \in Li!SomeLimits /\ tenant.settings.strategy \in Strategies
  BY DEF SettingsTyped, SettingsRow
<1> DEFINE limits == tenant.settings.limits
<1>2. ASSUME NEW r \in {"users", "warehouses"}
      PROVE  Li!LimitInForce(tenant, r) \in Nat \union {Li!Unlimited}
  <2>1. r \in DOMAIN limits => limits[r] \in {7, 0 - 1}
    BY <1>1 DEF Li!SomeLimits
  <2>2. PlanLimitsOf({"users", "warehouses"})[tenant.plan][r] \in Nat \union {Li!Unlimited}
    BY <1>1 DEF PlanLimitsOf, Li!Unlimited
  <2>3. {7, 0 - 1} \subseteq Nat \union {Li!Unlimited}
    BY DEF Li!Unlimited
  <2> QED
    BY <2>1, <2>2, <2>3 DEF Li!LimitInForce
<1> QED
  BY <1>1, <1>2, LiNames DEF Li!SettingsTypeOK

\* The same, of requests side by side.
LEMMA PlMerges ==
  ASSUME NEW current \in Pl!SomeLimits, NEW sent \in Pl!SomeLimits
  PROVE  Pl!Merged(current, sent) \in Pl!SomeLimits
<1> DEFINE values == {}
           resources == {}
<1>1. \A f : f \in Pl!SomeLimits <=> \E some \in SUBSET resources : f \in [some -> values]
  BY DEF Pl!SomeLimits
<1> HIDE DEF values, resources
<1>2. PICK D \in SUBSET resources : current \in [D -> values]
  BY <1>1
<1>3. PICK E \in SUBSET resources : sent \in [E -> values]
  BY <1>1
<1>4. Pl!Merged(current, sent) \in [D \union E -> values]
  BY <1>2, <1>3 DEF Pl!Merged
<1> QED
  BY <1>1, <1>4

LEMMA PlNames ==
  Pl!Strategy = Strategies /\ Pl!Idle = [stage |-> "idle"] /\ Pl!Kept = "kept"
BY DEF Pl!Strategy, Strategies, Pl!Idle, Pl!Kept

\* No limits are limits.
LEMMA PlNone == Pl!NoSettings.limits \in Pl!SomeLimits
<1> DEFINE values == {}
           resources == {}
<1>1. [r \in {} |-> Pl!Unlimited] \in [{} -> values] /\ {} \in SUBSET resources
  OBVIOUS
<1>2. Pl!NoSettings.limits = [r \in {} |-> Pl!Unlimited]
  BY DEF Pl!NoSettings
<1> HIDE DEF values, resources
<1>3. Pl!SomeLimits = UNION {[some -> values] : some \in SUBSET resources}
  BY DEF Pl!SomeLimits, values, resources
<1> QED
  BY <1>1, <1>2, <1>3

LEMMA PlStarts ==
  ASSUME Pl!Init
  PROVE  SettingsTyped(Pl!SomeLimits, Requests)
<1>1. Pl!NoSettings.limits \in Pl!SomeLimits
  BY PlNone
<1>2. Pl!NoSettings \in [limits : Pl!SomeLimits, strategy : Strategies]
  BY <1>1 DEF Pl!NoSettings, Strategies
<1> QED
  BY <1>2, PlNames DEF Pl!Init, SettingsTyped, SettingsRow

LEMMA PlTyped ==
  ASSUME SettingsTyped(Pl!SomeLimits, Requests), Pl!Next \/ UNCHANGED settingVars
  PROVE  SettingsTyped(Pl!SomeLimits, Requests)'
<1> DEFINE some == Pl!SomeLimits
<1>1. some' = some
  BY DEF Pl!SomeLimits
<1>2. Pl!NoSettings.limits \in some
  BY PlNone
<1>3. \A current, sent \in some : Pl!Merged(current, sent) \in some
  BY PlMerges
<1> HIDE DEF some
<1>4. Pl!Idle.stage = "idle" /\ Pl!Idle \notin SettingsRequest(some)
  BY PlNames DEF SettingsRequest
<1>5. CASE UNCHANGED settingVars
  BY <1>1, <1>5 DEF settingVars, SettingsTyped, some
<1>6. ASSUME NEW q \in Requests, NEW kind \in {"platform", "company"},
             NEW plan \in {"trial", "enterprise", "kept"}, NEW status \in {"active", "suspended", "kept"},
             NEW limits \in some, NEW strategy \in Strategies \union {"kept"},
             Pl!Read(q, kind, plan, status, limits, strategy)
      PROVE  SettingsTyped(some, Requests)'
  <2> DEFINE d == [stage |-> kind, row |-> tenant, plan |-> plan, status |-> status,
                   limits |-> limits, strategy |-> strategy]
  <2>1. d \in SettingsRequest(some)
    BY DEF SettingsTyped, SettingsRequest, some
  <2>2. setting' = [setting EXCEPT ![q] = d] /\ tenant' = tenant
    BY <1>6 DEF Pl!Read
  <2> HIDE DEF d
  <2> QED
    BY <1>1, <2>1, <2>2 DEF SettingsTyped, some
<1>7. ASSUME NEW q \in Requests, setting[q].stage \in {"platform", "company"},
             NEW row \in SettingsRow(some), tenant' = row, setting' = [setting EXCEPT ![q] = Pl!Idle]
      PROVE  SettingsTyped(some, Requests)'
  BY <1>1, <1>7, PlNames DEF SettingsTyped, some
<1>8. ASSUME NEW q \in Requests, setting[q].stage \in {"platform", "company"}
      PROVE  /\ setting[q].row \in SettingsRow(some)
             /\ setting[q].plan \in {"trial", "enterprise", "kept"}
             /\ setting[q].status \in {"active", "suspended", "kept"}
             /\ setting[q].limits \in some /\ setting[q].strategy \in Strategies \union {"kept"}
  <2>1. setting[q] \in SettingsRequest(some)
    BY <1>4, <1>8, PlNames DEF SettingsTyped, some
  <2> QED
    BY <2>1 DEF SettingsRequest
<1>9. ASSUME NEW q \in Requests, Pl!UpdateTenant(q)
      PROVE  SettingsTyped(some, Requests)'
  <2> DEFINE d == setting[q]
             row == [plan |-> Pl!NextPlan(d), status |-> Pl!Or(d.status, tenant.status),
                     settings |-> Pl!NextSettings(d)]
  <2>1. d.stage = "platform" /\ tenant' = row /\ setting' = [setting EXCEPT ![q] = Pl!Idle]
    BY <1>9 DEF Pl!UpdateTenant
  <2>2. /\ d.row.settings \in [limits : some, strategy : Strategies]
        /\ d.plan \in {"trial", "enterprise", "kept"} /\ d.status \in {"active", "suspended", "kept"}
        /\ d.limits \in some
    BY <1>8, <2>1 DEF SettingsRow
  <2>3. Pl!NextSettings(d) \in [limits : some, strategy : Strategies]
    BY <1>3, <2>2 DEF Pl!NextSettings, Pl!NextLimits
  <2>4. Pl!NextPlan(d) \in {"trial", "enterprise"} /\ Pl!Or(d.status, tenant.status) \in {"active", "suspended"}
    BY <2>2, PlNames DEF Pl!NextPlan, Pl!Or, SettingsTyped, SettingsRow
  <2>5. row \in SettingsRow(some)
    BY <2>3, <2>4 DEF SettingsRow
  <2> HIDE DEF row
  <2> QED
    BY <1>7, <2>1, <2>5
<1>10. ASSUME NEW q \in Requests, Pl!UpdateSettings(q)
       PROVE  SettingsTyped(some, Requests)'
  <2> DEFINE d == setting[q]
             settings == [d.row.settings EXCEPT !.strategy = Pl!Or(d.strategy, @)]
             row == [tenant EXCEPT !.settings = settings]
  <2>1. d.stage = "company" /\ tenant' = row /\ setting' = [setting EXCEPT ![q] = Pl!Idle]
    BY <1>10 DEF Pl!UpdateSettings
  <2>2. d.row.settings \in [limits : some, strategy : Strategies] /\ d.strategy \in Strategies \union {"kept"}
    BY <1>8, <2>1 DEF SettingsRow
  <2>3. settings \in [limits : some, strategy : Strategies]
    BY <2>2, PlNames DEF Pl!Or
  <2> HIDE DEF settings
  <2>4. row \in SettingsRow(some)
    BY <2>3 DEF SettingsRow, SettingsTyped, some
  <2> HIDE DEF row
  <2> QED
    BY <1>7, <2>1, <2>4
<1> QED
  BY <1>2, <1>5, <1>6, <1>9, <1>10, PlNames DEF Pl!Next, some

LEMMA PlGives ==
  ASSUME SettingsTyped(Pl!SomeLimits, Requests)
  PROVE  Pl!SettingsTypeOK
<1>1. /\ tenant.plan \in {"trial", "enterprise"} /\ tenant.status \in {"active", "suspended"}
      /\ tenant.settings.limits \in Pl!SomeLimits /\ tenant.settings.strategy \in Strategies
  BY DEF SettingsTyped, SettingsRow
<1> DEFINE limits == tenant.settings.limits
<1>2. ASSUME NEW r \in {}
      PROVE  Pl!LimitInForce(tenant, r) \in Nat \union {Pl!Unlimited}
  <2>1. r \in DOMAIN limits => limits[r] \in {}
    BY <1>1 DEF Pl!SomeLimits
  <2>2. PlanLimitsOf({})[tenant.plan][r] \in Nat \union {Pl!Unlimited}
    BY <1>1 DEF PlanLimitsOf, Pl!Unlimited
  <2>3. {} \subseteq Nat \union {Pl!Unlimited}
    BY DEF Pl!Unlimited
  <2> QED
    BY <2>1, <2>2, <2>3 DEF Pl!LimitInForce
<1> QED
  BY <1>1, <1>2, PlNames DEF Pl!SettingsTypeOK

LEMMA SettingsPart ==
  CompanySpec => []( /\ part = "limits" => Li!SettingsTypeOK
                     /\ part = "plan" => Pl!SettingsTypeOK )
<1> DEFINE Inv == /\ part = "limits" => SettingsTyped(Li!SomeLimits, Solo)
                  /\ part = "plan" => SettingsTyped(Pl!SomeLimits, Requests)
<1>1. CompanyInit => Inv
  BY LiStarts, PlStarts DEF CompanyInit, SettingsInit
<1>2. Inv /\ [CompanyNext]_companyVars => Inv'
  <2> SUFFICES ASSUME Inv, [CompanyNext]_companyVars PROVE Inv'
    OBVIOUS
  <2>1. part' = part /\ (part = "limits" => Li!Next \/ UNCHANGED settingVars)
        /\ (part = "plan" => Pl!Next \/ UNCHANGED settingVars)
    BY DEF CompanyNext, SettingsNext, companyVars, Li!AloneNext
  <2>2. part = "limits" => SettingsTyped(Li!SomeLimits, Solo)'
    BY <2>1, LiTyped
  <2>3. part = "plan" => SettingsTyped(Pl!SomeLimits, Requests)'
    BY <2>1, PlTyped
  <2> QED
    BY <2>1, <2>2, <2>3
<1>3. Inv => /\ part = "limits" => Li!SettingsTypeOK
             /\ part = "plan" => Pl!SettingsTypeOK
  BY LiGives, PlGives
<1> QED
  BY <1>1, <1>2, <1>3, PTL DEF CompanySpec

-----------------------------------------------------------------------------
(* Lists of photos, also of requests side by side. *)

\* A list, and what a request read of one, holds photos of that record.
ListsOwn ==
  /\ files \subseteq Pictures /\ listed = [r \in Records |-> listed[r]]
  /\ \A r \in Records : listed[r] \subseteq {p \in Pictures : home[p] = r}
  /\ \A q \in Requests :
       LET d == removing[q]
       IN  d.stage = "writing" => d.read \subseteq {p \in Pictures : home[p] = d.record}

LEMMA ListsStep ==
  ASSUME PhotosInv, ListsOwn, [Ph!Next]_photoVars
  PROVE  ListsOwn'
<1> USE DEF ListsOwn
<1>1. CASE UNCHANGED photoVars
  BY <1>1 DEF photoVars
<1>2. ASSUME NEW p \in Pictures, Ph!Upload(p)
      PROVE  ListsOwn'
  BY <1>2 DEF Ph!Upload
<1>3. ASSUME NEW p \in Pictures, NEW r \in Records, Ph!AddPhoto(r, p)
      PROVE  ListsOwn'
  <2>1. /\ files' = files /\ removing' = removing /\ home[p] = None
        /\ home' = [home EXCEPT ![p] = r] /\ listed' = [listed EXCEPT ![r] = listed[r] \union {p}]
    BY <1>3 DEF Ph!AddPhoto
  <2>2. home'[p] = r /\ \A o \in Pictures : o # p => home'[o] = home[o]
    BY <2>1 DEF PhotosInv
  <2>3. \A s \in Records : {o \in Pictures : home[o] = s} \subseteq {o \in Pictures : home'[o] = s}
    BY <2>1, <2>2, PhotosAssumption DEF Ph!PhotosAssumption
  <2>4. \A s \in Records : listed'[s] \subseteq {o \in Pictures : home'[o] = s}
    BY <2>1, <2>2, <2>3
  <2>5. ASSUME NEW q \in Requests, removing'[q].stage = "writing"
        PROVE  removing'[q].read \subseteq {o \in Pictures : home'[o] = removing'[q].record}
    BY <2>1, <2>3, <2>5 DEF PhotosInv
  <2> QED
    BY <2>1, <2>4, <2>5
<1>4. ASSUME NEW q \in Requests, NEW p \in Pictures, NEW r \in Records, Ph!FindToRemove(q, r, p)
      PROVE  ListsOwn'
  <2> DEFINE d == [stage |-> "writing", record |-> r, photo |-> p, read |-> listed[r]]
  <2>1. /\ files' = files /\ home' = home /\ listed' = listed
        /\ removing' = [removing EXCEPT ![q] = d]
    BY <1>4 DEF Ph!FindToRemove
  <2>2. d.record = r /\ d.read = listed[r]
    OBVIOUS
  <2> HIDE DEF d
  <2> QED
    BY <2>1, <2>2 DEF PhotosInv
<1>5. ASSUME NEW q \in Requests, Ph!WriteRest(q)
      PROVE  ListsOwn'
  <2> DEFINE d == removing[q]
  <2>1. /\ files' = files /\ home' = home /\ d.stage = "writing"
        /\ listed' = [listed EXCEPT ![d.record] = d.read \ {d.photo}]
        /\ removing' = [removing EXCEPT ![q] = [d EXCEPT !.stage = "deleting"]]
    BY <1>5 DEF Ph!WriteRest, Ph!Rest
  <2>2. d.read \subseteq {p \in Pictures : home[p] = d.record}
    BY <2>1
  <2>3. \A r \in Records : listed'[r] \subseteq {p \in Pictures : home'[p] = r}
    BY <2>1, <2>2
  <2>4. \A o \in Requests : removing'[o].stage = "writing" => removing'[o] = removing[o]
    BY <2>1 DEF PhotosInv
  <2> HIDE DEF d
  <2>5. listed' = [r \in Records |-> listed'[r]]
    BY <2>1
  <2> QED
    BY <2>1, <2>3, <2>4, <2>5
<1>6. ASSUME NEW q \in Requests, Ph!DeleteFile(q)
      PROVE  ListsOwn'
  <2>1. /\ files' \subseteq files /\ home' = home /\ listed' = listed
        /\ removing' = [removing EXCEPT ![q] = Ph!Idle] /\ Ph!Idle.stage = "idle"
    BY <1>6 DEF Ph!DeleteFile, Ph!Idle
  <2> QED
    BY <2>1 DEF PhotosInv
<1> QED
  BY <1>1, <1>2, <1>3, <1>4, <1>5, <1>6 DEF Ph!Next

LEMMA ListsPart == CompanySpec => [](part \in {"photos", "photos alone"} => ListsOwn)
<1> DEFINE Inv == part \in {"photos", "photos alone"} => ListsOwn
<1>1. CompanyInit => Inv
  <2> SUFFICES ASSUME Ph!Init PROVE ListsOwn
    BY DEF CompanyInit
  <2>1. \A q \in Requests : removing[q] = Ph!Idle /\ removing[q].stage = "idle"
    BY DEF Ph!Init, Ph!Idle
  <2> QED
    BY <2>1 DEF Ph!Init, ListsOwn
<1>2. Inv /\ (part \in {"photos", "photos alone"} => PhotosInv) /\ [CompanyNext]_companyVars => Inv'
  BY ListsStep DEF CompanyNext, PhotosNext, companyVars, Ph!AloneNext
<1> QED
  BY <1>1, <1>2, PhotosPart, PTL DEF CompanySpec

LEMMA ListsGive == PhotosInv /\ ListsOwn => Ph!PhotosTypeOK
BY DEF PhotosInv, ListsOwn, Ph!PhotosTypeOK

-----------------------------------------------------------------------------
(* Types of what requests are told of their users, and of where they work. *)

AccessTyped == entering = [q \in Solo |-> entering[q]] /\ Ac!AccessTypeOK

LEMMA WorksSomewhere ==
  ASSUME NEW q \in Solo, NEW route \in Ac!Routes, entering[q].by \in Ac!By, Ac!Handle(q, route)
  PROVE  \E works \in SUBSET Warehouses : Ac!Serve(q, route, works)
<1> DEFINE by == entering[q].by
<1>1. by.warehouse \in Warehouses \union {None}
  BY DEF Ac!By, Ac!OrNone
<1>2. ASSUME NEW w \in Warehouses, Ac!WorkAsserted(q, route, w)
      PROVE  \E works \in SUBSET Warehouses : Ac!Serve(q, route, works)
  BY <1>2 DEF Ac!WorkAsserted
<1>3. ASSUME NEW named \in Ac!OrNone(Warehouses), Ac!WorkResolved(q, route, named)
      PROVE  \E works \in SUBSET Warehouses : Ac!Serve(q, route, works)
  BY <1>1, <1>3 DEF Ac!WorkResolved, Ac!Resolved, Ac!OrNone
<1>4. ASSUME NEW named \in Ac!OrNone(Warehouses), Ac!List(q, route, named)
      PROVE  \E works \in SUBSET Warehouses : Ac!Serve(q, route, works)
  BY <1>1, <1>4 DEF Ac!List, Ac!Listed, Ac!Filtered, Ac!Resolved, Ac!OrNone
<1>5. ASSUME NEW named \in Ac!OrNone(Warehouses), Ac!Show(q, route, named)
      PROVE  \E works \in SUBSET Warehouses : Ac!Serve(q, route, works)
  BY <1>1, <1>5 DEF Ac!Show, Ac!Resolved, Ac!OrNone
<1>6. ASSUME NEW from \in Warehouses, NEW to \in Warehouses,
             Ac!Send(q, route, from, to) \/ Ac!SeeTransfer(q, route, from, to)
      PROVE  \E works \in SUBSET Warehouses : Ac!Serve(q, route, works)
  BY <1>6 DEF Ac!Send, Ac!SeeTransfer
<1>7. ASSUME Ac!WorkForCompany(q, route)
      PROVE  \E works \in SUBSET Warehouses : Ac!Serve(q, route, works)
  BY <1>7 DEF Ac!WorkForCompany
<1>8. ASSUME NEW works \in SUBSET Warehouses, Ac!WorkEach(q, route, works)
      PROVE  Ac!Serve(q, route, works)
  BY <1>8 DEF Ac!WorkEach
<1>9. ASSUME Ac!SeeHistory(q, route)
      PROVE  \E works \in SUBSET Warehouses : Ac!Serve(q, route, works)
  BY <1>1, <1>9 DEF Ac!SeeHistory, Ac!History, Ac!Filtered
<1> QED
  BY <1>2, <1>3, <1>4, <1>5, <1>6, <1>7, <1>8, <1>9 DEF Ac!Handle

LEMMA EffectiveIsPermission ==
  ASSUME AccessTyped, NEW u \in Workers
  PROVE  /\ accounts[u].role \in Ac!Role
         /\ Ac!Effective(accounts[u].role, accounts[u].custom) \subseteq Ac!Permission
<1>1. accounts[u] \in Ac!UserRow
  BY DEF AccessTyped, Ac!AccessTypeOK
<1>2. accounts[u].role \in Ac!Role
  BY <1>1 DEF Ac!UserRow
<1>3. Ac!Default(accounts[u].role) \subseteq Ac!Permission
  BY <1>2 DEF Ac!Default, Ac!Role, Ac!Permission
<1> QED
  BY <1>2, <1>3 DEF Ac!Effective

LEMMA AccessTypedStep ==
  ASSUME AccessTyped, [Ac!Next]_accessVars
  PROVE  AccessTyped'
<1> DEFINE Rows == accounts \in [Workers -> Ac!UserRow] /\ permits \in [CustomRoles -> Granted]
                   /\ open \in BOOLEAN /\ operators \subseteq Operators /\ late \subseteq Solo
           Told(d) == d # Ac!Idle =>
             /\ d.stage \in {"let in", "served"} /\ d.by \in Ac!By
             /\ d.stage = "served" => d.works \subseteq Warehouses
<1>1. AccessTyped <=> entering = [q \in Solo |-> entering[q]] /\ Rows /\ \A q \in Solo : Told(entering[q])
  BY DEF AccessTyped, Ac!AccessTypeOK
<1>2. AccessTyped' <=> entering' = [q \in Solo |-> entering'[q]] /\ Rows' /\ \A q \in Solo : Told(entering'[q])
  BY DEF AccessTyped, Ac!AccessTypeOK, Ac!By, Ac!OrNone, Ac!Permission, Ac!UserRow, Ac!Role
<1>3. ASSUME NEW q \in Solo, NEW d, Told(d), entering' = [entering EXCEPT ![q] = d],
             UNCHANGED <<accounts, permits, open, operators>>, late' \in {late, late \ {q}}
      PROVE  AccessTyped'
  <2>1. entering' = [p \in Solo |-> entering'[p]] /\ entering'[q] = d
        /\ \A p \in Solo : p # q => entering'[p] = entering[p]
    BY <1>1, <1>3
  <2>2. Rows'
    <3>1. Rows
      BY <1>1
    <3>2. late' \subseteq Solo
      BY <1>3, <3>1
    <3>3. Ac!UserRow' = Ac!UserRow
      BY DEF Ac!UserRow, Ac!OrNone, Ac!Role
    <3> QED
      BY <1>3, <3>1, <3>2, <3>3
  <2>3. \A p \in Solo : Told(entering'[p])
    <3>1. \A p \in Solo : Told(entering[p])
      BY <1>1
    <3> HIDE DEF Told
    <3> QED
      BY <1>3, <2>1, <3>1
  <2> HIDE DEF Told, Rows
  <2> QED
    BY <1>2, <2>1, <2>2, <2>3
<1>4. ASSUME Rows', Ac!Overtaken
      PROVE  AccessTyped'
  BY <1>1, <1>2, <1>4 DEF Ac!Overtaken
<1>5. ASSUME Ac!Overtaken
      PROVE  late' \subseteq Solo
  BY <1>1, <1>5 DEF Ac!Overtaken
<1>6. ASSUME NEW q \in Solo, NEW u \in Workers, NEW o \in Ac!OrNone(Operators), Ac!LetIn(q, u, o)
      PROVE  AccessTyped'
  <2> DEFINE d == [stage |-> "let in", by |-> Ac!Principal(u, o)]
  <2>1. accounts[u].warehouse \in Ac!OrNone(Warehouses)
    BY <1>1 DEF Ac!UserRow
  <2>2. Ac!Principal(u, o) \in Ac!By
    BY <2>1, EffectiveIsPermission DEF Ac!Principal, Ac!By
  <2>3. Told(d)
    BY <2>2
  <2>4. /\ entering' = [entering EXCEPT ![q] = d] /\ late' = late \ {q}
        /\ UNCHANGED <<accounts, permits, open, operators>>
    BY <1>6 DEF Ac!LetIn
  <2> HIDE DEF d, Told
  <2> QED
    BY <1>3, <2>3, <2>4
<1>7. ASSUME NEW q \in Solo, NEW route \in Ac!Routes, Ac!Permitted(q, route), Ac!Handle(q, route)
      PROVE  AccessTyped'
  <2>1. entering[q] # Ac!Idle /\ entering[q].by \in Ac!By
    <3>1. entering[q].stage = "let in" /\ Ac!Idle.stage = "idle"
      BY <1>7 DEF Ac!Permitted, Ac!Idle
    <3>2. entering[q] # Ac!Idle
      BY <3>1
    <3> QED
      BY <1>1, <3>2
  <2>2. PICK works \in SUBSET Warehouses : Ac!Serve(q, route, works)
    BY <1>7, <2>1, WorksSomewhere
  <2> DEFINE d == [stage |-> "served", by |-> entering[q].by, where |-> route.where, works |-> works]
  <2>3. Told(d)
    BY <2>1
  <2>4. /\ entering' = [entering EXCEPT ![q] = d] /\ late' = late
        /\ UNCHANGED <<accounts, permits, open, operators>>
    BY <2>2 DEF Ac!Serve
  <2> HIDE DEF d, Told
  <2> QED
    BY <1>3, <2>3, <2>4
<1>8. ASSUME NEW q \in Solo, Ac!End(q)
      PROVE  AccessTyped'
  BY <1>3, <1>8 DEF Ac!End
<1>9. ASSUME NEW u \in Workers, NEW row \in Ac!UserRow, Ac!UpdateUser(u, row)
      PROVE  AccessTyped'
  <2>1. Ac!Overtaken /\ accounts' = [accounts EXCEPT ![u] = row] /\ UNCHANGED <<permits, open, operators>>
    BY <1>9 DEF Ac!UpdateUser
  <2>2. Rows'
    <3>1. accounts' \in [Workers -> Ac!UserRow]
      BY <1>1, <2>1
    <3>2. Ac!UserRow' = Ac!UserRow
      BY DEF Ac!UserRow, Ac!OrNone, Ac!Role
    <3> QED
      BY <1>1, <1>5, <2>1, <3>1, <3>2
  <2> QED
    BY <1>4, <2>1, <2>2
<1>10. ASSUME \/ \E c \in CustomRoles, granted \in Granted : Ac!UpdateRole(c, granted)
              \/ \E active \in BOOLEAN : Ac!SetStatus(active)
              \/ \E active \in SUBSET Operators : Ac!SetOperators(active)
       PROVE  AccessTyped'
  <2>1. Ac!Overtaken /\ accounts' = accounts
    BY <1>10 DEF Ac!UpdateRole, Ac!SetStatus, Ac!SetOperators
  <2>2. permits' \in [CustomRoles -> Granted] /\ open' \in BOOLEAN /\ operators' \subseteq Operators
    BY <1>1, <1>10 DEF Ac!UpdateRole, Ac!SetStatus, Ac!SetOperators
  <2>3. Rows'
    <3>1. Ac!UserRow' = Ac!UserRow
      BY DEF Ac!UserRow, Ac!OrNone, Ac!Role
    <3> QED
      BY <1>1, <1>5, <2>1, <2>2, <3>1
  <2> QED
    BY <1>4, <2>1, <2>3
<1>11. CASE UNCHANGED accessVars
  <2>1. Ac!UserRow' = Ac!UserRow
    BY DEF Ac!UserRow, Ac!OrNone, Ac!Role
  <2> QED
    BY <1>1, <1>2, <1>11, <2>1 DEF accessVars
<1> HIDE DEF Rows, Told
<1> QED
  BY <1>6, <1>7, <1>8, <1>9, <1>10, <1>11 DEF Ac!Next

LEMMA AccessTypedPart == CompanySpec => [](part = "access" => AccessTyped)
<1> DEFINE Inv == part = "access" => AccessTyped
<1>1. CompanyInit => Inv
  BY DEF CompanyInit, AccessInit, Ac!Init, AccessTyped, Ac!AccessTypeOK
<1>2. Inv /\ [CompanyNext]_companyVars => Inv'
  BY AccessTypedStep DEF CompanyNext, AccessNext, companyVars, accessVars
<1> QED
  BY <1>1, <1>2, PTL DEF CompanySpec

LEMMA SessionsGive == SessionInv => S!SessionsTypeOK
BY DEF SessionInv, SessionsTyped, LastIsLive, S!SessionsTypeOK, SessionRequest, SessionStage

LEMMA UsersGive == UsersInv => U!UsersTypeOK
BY DEF UsersInv, UsersTyped, ClearedIsSafe, U!UsersTypeOK

-----------------------------------------------------------------------------
(* What the run checks. *)

\* auth.service.ts (refresh): however logins, refreshes and revocations
\* interleave, a login has one token that is live or about to be.
THEOREM LoginsHaveOneToken == CompanySpec => []OneTokenPerLogin
<1>1. (part = "sessions" => SessionInv) => OneTokenPerLogin
  BY InvGivesOneToken DEF OneTokenPerLogin
<1> QED
  BY <1>1, SessionsPart, PTL

\* users.service.ts, invitations.service.ts, plan-limits.service.ts,
\* jwt.strategy.ts and warehouse-scope.ts: an administrator is left, an
\* invitation makes one user, whatever address the user has later, users exceed
\* the plan by one for each other request at most, and a request does what its
\* user may in the warehouse they have, but for the routes that are free and
\* what OwnWarehouseOnly says of the activity.
THEOREM RulesOfMembers == CompanySpec => []MembersWithinRules
<1>1. /\ part = "users" => UsersInv
      /\ part \in {"invitations", "seats"} => InvitationsInv
      /\ part = "seats" => SeatsInv
      /\ part = "access" => AccessInv
      => MembersWithinRules
  BY CameGivesOne, SeatsInvGivesLimit, AccessInvGivesRules DEF MembersWithinRules, UsersInv
<1> QED
  BY <1>1, UsersPart, InvitationsPart, SeatsPart, AccessPart, PTL

\* invitations.service.ts and roles.service.ts: no step takes an acceptance
\* back, adds a user whose invitation was revoked or had expired when it was
\* found, or deletes a role that a user has.
THEOREM MembershipStays == CompanySpec => MembershipKept
<1>1. CompanySpec => [][MembersStep]_companyVars
  BY InvitationsPart
<1>2. CompanySpec => [][part = "roles alone" => Ro!KeepsRoleInUse]_companyVars
  BY RolesPart
<1> QED
  BY <1>1, <1>2, PTL DEF MembershipKept, MembersStep

\* platform.service.ts, tenant.controller.ts, custom-values.ts, photos and
\* partners.service.ts: limits, plan and strategy are what was asked for last,
\* a field of a record can be set on its own, a removal deletes the file of that
\* photo only, and a partner is a customer or a supplier.
THEOREM RecordsStayAsAsked == CompanySpec => []RecordsAsAsked
<1>1. /\ part = "limits" => LimitsInv
      /\ part = "plan" => PlanInv
      /\ part \in {"photos", "photos alone"} => PhotosInv
      /\ part = "photos alone" => PhotosAlone
      /\ part = "partners" => PartnersInv
      => RecordsAsAsked
  BY LimitsInvGivesAsked, FieldsStayEditable, PhotosInvGivesAsked
     DEF RecordsAsAsked, PlanInv, PartnersInv
<1> QED
  BY <1>1, LimitsPart, PlanPart, PhotosPart, PartnersPart, PTL

\* sequences.service.ts, products-import.ts, location-generator.ts and
\* custom-values.ts: no step passes over a free number, takes a main barcode
\* from a product it does not name, places a generated location before one that
\* was there, or drops a required field that a record had or a request gives it
\* when it creates it.
THEOREM WritesStayApart == CompanySpec => WritesKeepTheRest
<1>1. CompanySpec => /\ [][part = "sequence" => N!SkipsOnlyTaken]_companyVars
                     /\ [][part = "set sequence" => Set!SkipsOnlyTaken]_companyVars
                     /\ [][part = "generator" => G!PlacesAfter]_companyVars
                     /\ [][part = "fields alone" => Fs!KeepsRequired]_companyVars
  BY SequencePart, SetSequencePart, GeneratorPart, FieldsPart
<1>2. CompanySpec => [][(part \in {"products", "products alone"}) => P!TakesNothing]_companyVars
  BY CataloguePart DEF ProductParts
<1> QED
  BY <1>1, <1>2, PTL DEF WritesKeepTheRest

\* schema.prisma and the services: the rows of every part have their types, the
\* foreign keys and unique indexes of their tables hold, the locks of updates of
\* users are disjoint, an address has as many pending invitations as requests
\* run at the same time at most, and nobody deletes a photo before it is removed.
THEOREM CompanyTypes == CompanySpec => []CompanyTypeOK
<1>1. CompanySpec => []TenancyTypeOK
  <2>1. CompanyInit => Init
    BY DEF CompanyInit, TenantsInit
  <2>2. [CompanyNext]_companyVars => [Next]_vars
    BY DEF CompanyNext, TenantsNext, companyVars, vars
  <2>3. CompanySpec => Spec
    BY <2>1, <2>2, PTL DEF CompanySpec, Spec
  <2> QED
    BY <2>3, TenancyTyping
<1> DEFINE People_ == /\ part = "sessions" => SessionInv
                      /\ part = "users" => UsersInv
                      /\ part \in {"invitations", "seats"} => InvitationsInv /\ InvitesOnce
                      /\ RolesInv
                      /\ part = "access" => AccessTyped
           Numbers_ == /\ part = "sequence" => SequenceInv
                       /\ part = "set sequence" => SetSequenceInv
                       /\ part \in ProductParts => CatalogueInv
                       /\ part = "generator" => GeneratorInv
           Records_ == /\ part = "limits" => Li!SettingsTypeOK
                       /\ part = "plan" => Pl!SettingsTypeOK
                       /\ part = "fields" => FieldsInv(Words)
                       /\ part = "fields alone" => RequiredInv
                       /\ part \in {"photos", "photos alone"} => PhotosInv
                       /\ part \in {"photos", "photos alone"} => ListsOwn
<1>2. TenancyTypeOK /\ People_ /\ Numbers_ /\ Records_ => CompanyTypeOK
  <2> SUFFICES ASSUME TenancyTypeOK, People_, Numbers_, Records_ PROVE CompanyTypeOK
    OBVIOUS
  <2>1. /\ part = "sessions" => S!SessionsTypeOK
        /\ part = "users" => U!UsersTypeOK
        /\ part \in {"invitations", "seats"} => I!SeatsTypeOK
        /\ part \in {"roles", "roles alone"} => Ro!RolesTypeOK
        /\ part = "access" => Ac!AccessTypeOK
    BY SessionsGive, UsersGive, SeatRowsGive, RolesTypedGivesType DEF RolesInv, AccessTyped
  <2>2. /\ part = "sequence" => N!NumberingTypeOK
        /\ part = "set sequence" => Set!NumberingTypeOK
        /\ part \in {"products", "products alone"} => P!CatalogueTypeOK
        /\ part = "generator" => G!GeneratorTypeOK
    BY NGives, SetGives, CatalogueGives DEF SequenceInv, SetSequenceInv, ProductParts, GeneratorInv
  <2>3. /\ part = "limits" => Li!SettingsTypeOK
        /\ part = "plan" => Pl!SettingsTypeOK
        /\ part = "fields" => F!MeaningKept
        /\ part = "fields alone" => Fs!MeaningKept
        /\ part \in {"photos", "photos alone"} => Ph!PhotosTypeOK
    BY FGives, FsGives, ListsGive DEF RequiredInv
  <2> HIDE DEF People_, Numbers_, Records_
  <2> QED
    BY <2>1, <2>2, <2>3 DEF CompanyTypeOK
<1>3. CompanySpec => []People_
  BY SessionsPart, UsersPart, SeatRowsPart, RolesPart, AccessTypedPart, PTL
<1>4. CompanySpec => []Numbers_
  BY SequencePart, SetSequencePart, CataloguePart, GeneratorPart, PTL
<1>5. CompanySpec => []Records_
  BY SettingsPart, FieldsPart, PhotosPart, ListsPart, PTL
<1> HIDE DEF People_, Numbers_, Records_
<1> QED
  BY <1>1, <1>2, <1>3, <1>4, <1>5, PTL

=============================================================================
