--------------------------- MODULE TenantSettings ---------------------------
(***************************************************************************)
(* What a company may use, and how it works: the columns plan and status   *)
(* and the JSON column settings of its row.  The platform's administrators *)
(* write all of them (platform/platform.service.ts), the company its       *)
(* picking strategy (tenancy/tenant.controller.ts); both read the settings *)
(* and write them back whole.  The limits in force come from the plan and  *)
(* the settings (tenancy/plans.ts).                                        *)
(*                                                                         *)
(* Abstracted: the resources that are limited are alike, numbers are those *)
(* that are compared, and the name of the company.                         *)
(***************************************************************************)
EXTENDS Integers, FiniteSets

CONSTANTS Request,       \* requests that run at the same time
          Resource,      \* LimitedResource
          Plan,
          PlanLimits,    \* PLAN_LIMITS, of each plan and resource
          Limits         \* bound: the limits that are negotiated

Unlimited == -1    \* null
Kept == "kept"     \* a field that is not sent

Strategy == {"fefo", "fifo", "lifo"}

\* What an instance has to give its constants.
SettingsAssumption ==
  PlanLimits \in [Plan -> [Resource -> Nat \union {Unlimited}]] /\ Limits \subseteq Nat \union {Unlimited}

VARIABLES tenant,   \* the row: plan, status, and settings
          doing,    \* what each request does
          asked     \* what was last asked for, of each thing that can be set

vars == <<tenant, doing, asked>>

Idle == [stage |-> "idle"]

\* Settings that are not there yet, and DEFAULT_PICKING_STRATEGY.
NoSettings == [limits |-> [r \in {} |-> Unlimited], strategy |-> "fefo"]

Init ==
  /\ \E p \in Plan : tenant = [plan |-> p, status |-> "active", settings |-> NoSettings]
  /\ doing = [q \in Request |-> Idle]
  /\ asked = tenant

\* { ...current, ...sent }
Merged(current, sent) ==
  [r \in DOMAIN current \union DOMAIN sent |->
     IF r \in DOMAIN sent THEN sent[r] ELSE current[r]]

\* Mutated form: the limits that are sent are the only ones.
Replaced(current, sent) == IF DOMAIN sent = {} THEN current ELSE sent

\* updateTenant: limits are merged one by one.
NextLimits(current, sent) == Merged(current, sent)

\* Mutated form: a field that is not sent is written too.
Sent(sent, current) == sent

\* A field that is not sent is left as it is.
Or(sent, current) == IF sent = Kept THEN current ELSE sent

\* Some of the resources, with a limit each.
SomeLimits == UNION {[some -> Limits] : some \in SUBSET Resource}

\* updateTenant and updateSettings (findTenant, findUniqueOrThrow)
Read(q, kind, plan, status, limits, strategy) ==
  /\ doing[q] = Idle
  /\ doing' = [doing EXCEPT ![q] =
       [stage |-> kind, row |-> tenant, plan |-> plan, status |-> status,
        limits |-> limits, strategy |-> strategy]]
  /\ UNCHANGED <<tenant, asked>>

\* nextSettings
NextSettings(d) == [d.row.settings EXCEPT !.limits = NextLimits(@, d.limits)]

\* Mutated form: the row is saved whole, as it was read.
PlanAsRead(d) == Or(d.plan, d.row.plan)

\* The plan that is written: Prisma leaves a column alone that is undefined.
NextPlan(d) == Or(d.plan, tenant.plan)

\* updateTenant (update)
UpdateTenant(q) ==
  LET d == doing[q]
  IN  /\ d.stage = "platform"
      /\ tenant' = [plan |-> NextPlan(d), status |-> Or(d.status, tenant.status),
                    settings |-> NextSettings(d)]
      /\ asked' = [plan |-> Or(d.plan, asked.plan), status |-> Or(d.status, asked.status),
                   settings |-> [asked.settings EXCEPT !.limits = Merged(@, d.limits)]]
      /\ doing' = [doing EXCEPT ![q] = Idle]

\* updateSettings (update)
UpdateSettings(q) ==
  LET d == doing[q]
  IN  /\ d.stage = "company"
      /\ tenant' = [tenant EXCEPT !.settings = [d.row.settings EXCEPT !.strategy = Or(d.strategy, @)]]
      /\ asked' = [asked EXCEPT !.settings.strategy = Or(d.strategy, @)]
      /\ doing' = [doing EXCEPT ![q] = Idle]

Next ==
  \E q \in Request :
    \/ \E plan \in Plan \union {Kept}, status \in {"active", "suspended", Kept}, limits \in SomeLimits :
         Read(q, "platform", plan, status, limits, Kept)
    \/ \E strategy \in Strategy \union {Kept} : Read(q, "company", Kept, Kept, NoSettings.limits, strategy)
    \/ UpdateTenant(q) \/ UpdateSettings(q)

Spec == Init /\ [][Next]_vars

\* One request at a time.
AloneNext == Next /\ Cardinality({q \in Request : doing'[q] # Idle}) <= 1

-----------------------------------------------------------------------------
(* Correctness *)

\* resolveLimits: "Plan defaults, overridden per tenant by settings.limits".
LimitInForce(row, r) ==
  IF r \in DOMAIN row.settings.limits THEN row.settings.limits[r] ELSE PlanLimits[row.plan][r]

\* The limits in force and the strategy are those that were last asked for, by
\* the platform and by the company, whatever else was changed before and since.
SettingsAsAsked ==
  /\ \A r \in Resource : LimitInForce(tenant, r) = LimitInForce(asked, r)
  /\ tenant.settings.strategy = asked.settings.strategy

\* The plan and the status are, also when requests run side by side.
PlanAsAsked == tenant.plan = asked.plan /\ tenant.status = asked.status

\* Type invariant
SettingsTypeOK ==
  /\ tenant.plan \in Plan /\ tenant.status \in {"active", "suspended"}
  /\ tenant.settings.limits \in SomeLimits
  /\ tenant.settings.strategy \in Strategy
  /\ \A r \in Resource : LimitInForce(tenant, r) \in Nat \union {Unlimited}

=============================================================================
