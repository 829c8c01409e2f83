--------------------------- MODULE TenantIsolation ---------------------------
(***************************************************************************)
(* How the companies that share a database are kept apart                  *)
(* (tenancy/tenant-isolation.ts): the database client adds the company of  *)
(* the running code to the arguments of every query on a table of          *)
(* companies.  A query is built by a call and runs when it is awaited,     *)
(* which may be later, in the code of somebody else (tenant-context.ts     *)
(* keeps the company per chain of calls).                                  *)
(*                                                                         *)
(* Abstracted: the tables, and every condition but the company and the     *)
(* rows somebody asks for.  Rows read through relations, and raw SQL, are  *)
(* not scoped by this code.                                                *)
(***************************************************************************)
CONSTANTS Tenant,
          NoTenant,   \* no company: outside of requests, or not specified
          Id,         \* rows of the scoped tables, by id
          Query       \* queries that are built at the same time

ASSUME TenantAssumption == NoTenant \notin Tenant

VARIABLES rows,      \* of each id, the company of the row and that of who wrote it
          running,   \* currentTenantId(): the company of the code that runs
          queries    \* of each query, how it was built or what it returned

vars == <<rows, running, queries>>

SomeTenant == Tenant \union {NoTenant}

NoRow == [tenant |-> NoTenant, writer |-> NoTenant]
Fresh == [stage |-> "none"]

Init ==
  /\ rows \in [Id -> {NoRow} \union {[tenant |-> t, writer |-> t] : t \in Tenant}]
  /\ running = NoTenant
  /\ queries = [q \in Query |-> Fresh]

\* Mutated form: reading is not filtered.
WritesOnly == {"update", "delete"}

\* FILTERED_OPERATIONS; "find" stands for those that read.
Filtered == {"find", "update", "delete"}

\* Mutated form: a row that an upsert creates has the company it is given.
WhereOnly(operation, args, t) ==
  IF operation \in Filtered \union {"upsert"} THEN [args EXCEPT !.where = t]
  ELSE [args EXCEPT !.data = t]

\* scopeArgs
ScopeArgs(operation, args, t) ==
  CASE operation \in Filtered -> [args EXCEPT !.where = t]
    [] operation = "create" -> [args EXCEPT !.data = t]
    [] operation = "upsert" -> [args EXCEPT !.where = t, !.data = t]
    [] OTHER -> args

\* The arguments of a query: rows asked for, the company required of them, and
\* the one given to new rows.
Args == [ids : SUBSET Id \ {{}}, where : SomeTenant, data : SomeTenant]

Operation == {"find", "update", "delete", "create", "upsert"}

\* Only what the operation takes: data to create, a where to filter, and one
\* row to upsert.
Takes(operation, args) ==
  /\ operation \in Filtered => args.data = NoTenant
  /\ operation = "create" => args.where = NoTenant
  /\ operation = "upsert" => \E i \in Id : args.ids = {i}

\* TenantInterceptor and runInTenant: the event loop goes on with the code of a
\* request of a company, or with none.
SwitchTo(t) == running' = t /\ UNCHANGED <<rows, queries>>

\* scopeDelegate
Build(q, operation, args) ==
  /\ queries[q].stage # "built" /\ Takes(operation, args)
  /\ queries' = [queries EXCEPT ![q] =
       [stage |-> "built", operation |-> operation, by |-> running,
        args |-> IF running = NoTenant THEN args ELSE ScopeArgs(operation, args, running)]]
  /\ UNCHANGED <<rows, running>>

\* Mutated form: the company is that of the code that awaits the query.
ArgsWhenRun(query) ==
  IF running = NoTenant THEN query.args ELSE ScopeArgs(query.operation, query.args, running)

\* The arguments are those the query was built with.
ArgsOf(query) == query.args

Matches(args) ==
  {i \in args.ids : rows[i] # NoRow /\ args.where \in {NoTenant, rows[i].tenant}}

\* A row needs a company and an id of its own.
Creates(args) == args.data # NoTenant /\ \A i \in args.ids : rows[i] = NoRow

Done(q, returned) ==
  /\ queries' = [queries EXCEPT ![q] =
       [stage |-> "done", by |-> queries[q].by, returned |-> returned]]
  /\ UNCHANGED running

Written(ids, query) ==
  rows' = [i \in Id |-> IF i \in ids THEN [rows[i] EXCEPT !.writer = query.by] ELSE rows[i]]

Created(args, query) ==
  rows' = [i \in Id |-> IF i \in args.ids THEN [tenant |-> args.data, writer |-> query.by] ELSE rows[i]]

Find(q) ==
  /\ queries[q].stage = "built" /\ queries[q].operation = "find"
  /\ Done(q, {rows[i].tenant : i \in Matches(ArgsOf(queries[q]))})
  /\ UNCHANGED rows

Update(q) ==
  /\ queries[q].stage = "built" /\ queries[q].operation = "update"
  /\ Written(Matches(ArgsOf(queries[q])), queries[q])
  /\ Done(q, {})

Delete(q) ==
  /\ queries[q].stage = "built" /\ queries[q].operation = "delete"
  /\ LET gone == Matches(ArgsOf(queries[q]))
     IN  rows' = [i \in Id |-> IF i \in gone THEN NoRow ELSE rows[i]]
  /\ Done(q, {})

\* create and createMany: all rows or none.
Create(q) ==
  LET args == ArgsOf(queries[q])
  IN  /\ queries[q].stage = "built" /\ queries[q].operation = "create"
      /\ IF Creates(args) THEN Created(args, queries[q]) ELSE UNCHANGED rows
      /\ Done(q, {})

\* A row of another company has its id and is not found: the creation is refused.
Upsert(q) ==
  LET args == ArgsOf(queries[q])
  IN  /\ queries[q].stage = "built" /\ queries[q].operation = "upsert"
      /\ \/ Matches(args) # {} /\ Written(Matches(args), queries[q])
         \/ Matches(args) = {} /\ Creates(args) /\ Created(args, queries[q])
         \/ Matches(args) = {} /\ ~Creates(args) /\ UNCHANGED rows
      /\ Done(q, {})

Next ==
  \/ \E t \in SomeTenant : SwitchTo(t)
  \/ \E q \in Query :
       \/ \E operation \in Operation, args \in Args : Build(q, operation, args)
       \/ Find(q) \/ Update(q) \/ Delete(q) \/ Create(q) \/ Upsert(q)

Spec == Init /\ [][Next]_vars

-----------------------------------------------------------------------------
(* Correctness *)

\* Type invariant: a row that nobody has has no writer.
TenancyTypeOK ==
  /\ rows \in [Id -> [tenant : SomeTenant, writer : SomeTenant]]
  /\ \A i \in Id : rows[i].tenant = NoTenant => rows[i] = NoRow
  /\ running \in SomeTenant
  /\ \A q \in Query :
       \/ queries[q] = Fresh
       \/ queries[q].stage = "built" /\ queries[q].operation \in Operation
            /\ queries[q].by \in SomeTenant /\ queries[q].args \in Args
       \/ queries[q].stage = "done" /\ queries[q].by \in SomeTenant

\* "does not find ... records of another tenant": whatever a query of a company
\* asks for, and wherever it is awaited, it returns rows of that company.
FindsOnlyOwn ==
  \A q \in Query :
    queries[q].stage = "done" /\ queries[q].by # NoTenant => queries[q].returned \subseteq {queries[q].by}

\* "... or modify", "stamps records created inside interactive transactions with
\* the current tenant": a query of a company changes, deletes and creates rows of
\* that company.
ChangesOnlyOwn ==
  [][\A q \in Query :
       queries[q].stage = "built" /\ queries'[q].stage = "done" /\ queries[q].by # NoTenant =>
         \A i \in Id : rows'[i] # rows[i] =>
           {rows[i].tenant, rows'[i].tenant} \subseteq {queries[q].by, NoTenant}]_vars

=============================================================================
