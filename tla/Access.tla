------------------------------- MODULE Access -------------------------------
(***************************************************************************)
(* Who may work in which warehouse: the guards (auth/guards,               *)
(* auth/strategies/jwt.strategy.ts), common/utils/warehouse-scope.ts and   *)
(* the routes that work in warehouses.  A request reads the rights of its  *)
(* user once, when it is let in; they decide until it is served, whatever  *)
(* is changed meanwhile.                                                   *)
(*                                                                         *)
(* Abstracted: tokens (see Sessions) but for whom they name; permissions   *)
(* that no route below requires; everything a request does but the         *)
(* warehouses whose orders and stock it works in.  Letting in is one step: *)
(* what changes between its reads changes while the request is in flight.  *)
(* The routes are those that work in warehouses or tell what is there.     *)
(* Those of the company's own rows are left out: the warehouses            *)
(* themselves, partners, roles, users but for the list by warehouse,       *)
(* custom fields, sequences, uploads, settings, jobs.  So is what an       *)
(* import does in the background: a job, not a request.                    *)
(***************************************************************************)
EXTENDS Functions

CONSTANTS User, Operator,     \* of the company; of the platform
          CustomRole,         \* roles that the company defines
          Warehouse,
          None,               \* null: no custom role, warehouse or operator
          Request,            \* requests that run at the same time
          Grants              \* bound: what custom roles are made to permit

\* What an instance has to give its constants.
AccessAssumption == None \notin Operator \union CustomRole \union Warehouse

VARIABLES users,        \* role, custom role, warehouse and whether active
          permits,      \* the permissions of each custom role, as stored
          open,         \* whether the company is active
          operators,    \* operators that are active
          doing,        \* what each request does
          late          \* history: requests that were let in before a change

vars == <<users, permits, open, operators, doing, late>>

-----------------------------------------------------------------------------
(* Permissions *)

\* PERMISSIONS, those that a route below requires.
Permission ==
  {"products.write", "products.delete", "stock.adjust", "stock.settings", "stock.transfer",
   "counts.manage", "orders.delete", "waves.manage", "shipping.manage", "reports.read",
   "locations.manage", "sales.manage", "purchases.manage", "receiving.execute",
   "warehouses.all", "audit.read"}

Role == {"operator", "supervisor", "admin"}

\* DEFAULT_ROLE_PERMISSIONS
Default(role) ==
  CASE role = "operator" -> {"receiving.execute"}
    [] role = "supervisor" -> Permission \ {"products.delete", "warehouses.all", "audit.read"}
    [] role = "admin" -> Permission

\* effectivePermissions
Effective(role, custom) ==
  IF role = "admin" \/ custom = None THEN Default(role) ELSE permits[custom] \intersect Permission

-----------------------------------------------------------------------------
(* Routes: the permissions that the guard requires, and how the warehouse  *)
(* is settled: asserted, one that is named or that of the order it is      *)
(* about; each, those of all the rows it is about; resolved, one that is   *)
(* named or else the user's; listed, the same as a filter; shown, one that *)
(* is named or perhaps the user's; sent, from an asserted one to another;  *)
(* either, that of one end of a transfer; role, the user's if they are an  *)
(* operator; company, none; everywhere and free, all.                      *)

Route(needs, where) == [needs |-> needs, where |-> where]

MovementRoutes ==
  [checkIntegrity |-> Route({"stock.adjust", "warehouses.all"}, "everywhere"),
   findAll |-> Route({}, "listed"),
   findByProduct |-> Route({}, "listed"),
   registerMovement |-> Route({"stock.adjust"}, "resolved")]

StockRoutes ==
  [findLocationStock |-> Route({}, "asserted"),
   productLocations |-> Route({}, "asserted"),
   relocate |-> Route({"stock.adjust"}, "asserted"),
   updateStockSettings |-> Route({"stock.settings"}, "asserted"),
   transfer |-> Route({"stock.transfer"}, "sent")]

PickingReads == [findAll |-> Route({}, "listed"), findById |-> Route({}, "asserted")]

PickingWrites ==
  [create |-> Route({}, "resolved"),
   addPhoto |-> Route({}, "asserted"), removePhoto |-> Route({}, "asserted"),
   update |-> Route({}, "asserted"), delete |-> Route({"orders.delete"}, "asserted"),
   updateStatus |-> Route({}, "asserted"), updateItem |-> Route({}, "asserted")]

PackingOrders ==
  [findAll |-> Route({}, "listed"), findById |-> Route({}, "asserted"),
   create |-> Route({}, "asserted"), update |-> Route({}, "asserted"),
   delete |-> Route({"orders.delete"}, "asserted")]

PackingWork ==
  [updateStatus |-> Route({}, "asserted"), updateItem |-> Route({}, "asserted"),
   addBox |-> Route({}, "asserted"), sealBox |-> Route({}, "asserted"),
   addPhoto |-> Route({}, "asserted"), removePhoto |-> Route({}, "asserted")]

\* The page of a product tells its stock in every warehouse.
ProductReads ==
  [findAll |-> Route({}, "shown"), findCategories |-> Route({}, "company"),
   findByBarcode |-> Route({}, "shown"), getStock |-> Route({}, "free"),
   findById |-> Route({}, "free")]

ProductWrites ==
  [create |-> Route({"products.write"}, "company"), update |-> Route({"products.write"}, "company"),
   softDelete |-> Route({"products.delete"}, "company"),
   addBarcode |-> Route({"products.write"}, "company"),
   removeBarcode |-> Route({"products.write"}, "company"),
   addPhoto |-> Route({"products.write"}, "company"),
   removePhoto |-> Route({"products.write"}, "company")]

ReportRoutes ==
  [report \in {"getDashboard", "getStockStatus", "getPickingStats", "getPackingStats",
               "getStockMovementsSummary"} |-> Route({"reports.read"}, "listed")]

WaveRoutes ==
  [findAll |-> Route({}, "listed"), findById |-> Route({}, "asserted"),
   pickList |-> Route({}, "asserted"), create |-> Route({"waves.manage"}, "asserted"),
   pick |-> Route({}, "asserted"), complete |-> Route({}, "asserted"),
   cancel |-> Route({"waves.manage"}, "asserted")]

CountRoutes ==
  [findAll |-> Route({}, "listed"), findById |-> Route({}, "asserted"),
   create |-> Route({"counts.manage"}, "asserted"), recordCount |-> Route({}, "asserted"),
   addLine |-> Route({}, "asserted"), submit |-> Route({}, "asserted"),
   reopen |-> Route({"counts.manage"}, "asserted"),
   approve |-> Route({"counts.manage"}, "asserted"),
   cancel |-> Route({"counts.manage"}, "asserted")]

TransferRoutes ==
  [findAll |-> Route({"stock.transfer"}, "listed"), findById |-> Route({"stock.transfer"}, "either"),
   send |-> Route({"stock.transfer"}, "asserted"), receive |-> Route({"stock.transfer"}, "asserted")]

ReceiptRoutes ==
  [handler \in {"findAll", "findById", "create", "addLine", "updateLine", "removeLine",
                "complete", "cancel"} |->
     Route({"receiving.execute"}, IF handler = "findAll" THEN "listed" ELSE "asserted")]

ShippingRoutes ==
  [carriers |-> Route({}, "company"), createCarrier |-> Route({"shipping.manage"}, "company"),
   updateCarrier |-> Route({"shipping.manage"}, "company"),
   findAll |-> Route({}, "listed"), findById |-> Route({}, "asserted"),
   ship |-> Route({"shipping.manage"}, "asserted"),
   deliver |-> Route({"shipping.manage"}, "asserted")]

SalesOrderRoutes ==
  [findAll |-> Route({}, "listed"), findById |-> Route({}, "asserted"),
   create |-> Route({"sales.manage"}, "asserted"), release |-> Route({"sales.manage"}, "asserted"),
   cancel |-> Route({"sales.manage"}, "asserted")]

PurchaseOrderRoutes ==
  [findAll |-> Route({}, "listed"), findById |-> Route({}, "asserted"),
   create |-> Route({"purchases.manage"}, "asserted"),
   update |-> Route({"purchases.manage"}, "asserted"),
   cancel |-> Route({"purchases.manage"}, "asserted"),
   close |-> Route({"purchases.manage"}, "asserted")]

LocationRoutes ==
  [handler \in {"findAll", "findById", "create", "generate", "update", "delete"} |->
     Route(IF handler \in {"findAll", "findById"} THEN {} ELSE {"locations.manage"}, "asserted")]

LotRoutes == [findAll |-> Route({}, "listed"), trace |-> Route({}, "listed")]

LabelRoutes ==
  [products |-> Route({}, "company"), locations |-> Route({}, "each"),
   packing |-> Route({}, "asserted")]

\* run and enqueue, by kind.  The report is one of the user's own imports or,
\* with jobs.manage, of anyone's.
ImportRoutes ==
  [template |-> Route({}, "company"), errorReport |-> Route({}, "free"),
   runProducts |-> Route({"products.write"}, "company"),
   runLocations |-> Route({"locations.manage"}, "each"),
   runStock |-> Route({"stock.adjust"}, "each"),
   enqueueProducts |-> Route({"products.write"}, "company"),
   enqueueLocations |-> Route({"locations.manage"}, "company"),
   enqueueStock |-> Route({"stock.adjust"}, "company")]

UserRoutes == [findByWarehouse |-> Route({}, "asserted")]

\* The history of all orders, and of one.
ActivityRoutes == [findAll |-> Route({}, "role"), findByOrder |-> Route({}, "free")]

AuditRoutes == [findAll |-> Route({"audit.read"}, "free")]

Routes ==
  UNION {Range(MovementRoutes), Range(StockRoutes), Range(PickingReads), Range(PickingWrites),
         Range(PackingOrders), Range(PackingWork), Range(ProductReads), Range(ProductWrites),
         Range(ReportRoutes), Range(WaveRoutes), Range(CountRoutes), Range(TransferRoutes),
         Range(ReceiptRoutes), Range(ShippingRoutes), Range(SalesOrderRoutes),
         Range(PurchaseOrderRoutes), Range(LocationRoutes), Range(LotRoutes), Range(LabelRoutes),
         Range(ImportRoutes), Range(UserRoutes), Range(ActivityRoutes), Range(AuditRoutes)}

-----------------------------------------------------------------------------
(* The life of a request *)

Idle == [stage |-> "idle"]

OrNone(set) == set \union {None}

UserRow == [role : Role, custom : OrNone(CustomRole), warehouse : OrNone(Warehouse), active : BOOLEAN]

Init ==
  /\ users \in [User -> UserRow]
  /\ permits \in [CustomRole -> Grants]
  /\ open = TRUE /\ operators = Operator
  /\ doing = [q \in Request |-> Idle] /\ late = {}

\* What JwtStrategy makes of the rows.
Principal(u, o) ==
  [user |-> u, operator |-> o, role |-> users[u].role, warehouse |-> users[u].warehouse,
   permissions |-> Effective(users[u].role, users[u].custom)]

\* validate and activeImpersonator
MayEnter(u, o) == users[u].active /\ open /\ o \in OrNone(operators)

\* JwtAuthGuard
LetIn(q, u, o) ==
  /\ doing[q] = Idle /\ MayEnter(u, o)
  /\ doing' = [doing EXCEPT ![q] = [stage |-> "let in", by |-> Principal(u, o)]]
  /\ late' = late \ {q}
  /\ UNCHANGED <<users, permits, open, operators>>

\* PermissionsGuard
Permitted(q, route) == doing[q].stage = "let in" /\ route.needs \subseteq doing[q].by.permissions

Serve(q, route, works) ==
  /\ doing' = [doing EXCEPT ![q] =
       [stage |-> "served", by |-> doing[q].by, where |-> route.where, works |-> works]]
  /\ UNCHANGED <<users, permits, open, operators, late>>

\* canAccessAllWarehouses
All(by) == "warehouses.all" \in by.permissions

\* assertWarehouseAccess
Accessible(by, w) == All(by) \/ (by.warehouse # None /\ by.warehouse = w)

\* resolveWarehouseId
Resolved(by, named) == IF named = None THEN by.warehouse ELSE named

\* Mutated form: a list without a filter is of every warehouse.
AsNamed(by, named) == IF named = None THEN Warehouse ELSE {named}

\* No filter lists every warehouse.
Filtered(filter) == IF filter = None THEN Warehouse ELSE {filter}

\* scopeWarehouseFilter
Listed(by, named) == Filtered(IF All(by) THEN named ELSE Resolved(by, named))

\* activity.findAll: an operator without a warehouse has no filter either.
History(by) == Filtered(IF by.role = "operator" THEN by.warehouse ELSE None)

WorkAsserted(q, route, w) ==
  /\ route.where = "asserted" /\ Accessible(doing[q].by, w)
  /\ Serve(q, route, {w})

WorkEach(q, route, works) ==
  /\ route.where = "each" /\ \A w \in works : Accessible(doing[q].by, w)
  /\ Serve(q, route, works)

WorkResolved(q, route, named) ==
  LET w == Resolved(doing[q].by, named)
  IN  /\ route.where = "resolved" /\ w # None /\ Accessible(doing[q].by, w)
      /\ Serve(q, route, {w})

List(q, route, named) ==
  /\ route.where = "listed"
  /\ All(doing[q].by) \/ Accessible(doing[q].by, Resolved(doing[q].by, named))
  /\ Serve(q, route, Listed(doing[q].by, named))

\* stockWarehouseFor
Show(q, route, named) ==
  /\ route.where = "shown"
  /\ named # None => Accessible(doing[q].by, named)
  /\ Serve(q, route, {Resolved(doing[q].by, named)} \ {None})

Send(q, route, from, to) ==
  /\ route.where = "sent" /\ Accessible(doing[q].by, from) /\ to # from
  /\ Serve(q, route, {from, to})

\* canSee
SeeTransfer(q, route, from, to) ==
  /\ route.where = "either" /\ to # from
  /\ \E end \in {from, to} : Accessible(doing[q].by, end)
  /\ Serve(q, route, {from, to})

WorkForCompany(q, route) ==
  \/ route.where = "company" /\ Serve(q, route, {})
  \/ route.where \in {"everywhere", "free"} /\ Serve(q, route, Warehouse)

SeeHistory(q, route) == route.where = "role" /\ Serve(q, route, History(doing[q].by))

\* Served, or refused.
End(q) ==
  /\ doing[q] # Idle
  /\ doing' = [doing EXCEPT ![q] = Idle]
  /\ UNCHANGED <<users, permits, open, operators, late>>

-----------------------------------------------------------------------------
(* What others change meanwhile; how they may is in Users and Roles.       *)

\* Bound: what changes after a request was served changes after it ended.
Overtaken ==
  /\ \A q \in Request : doing[q].stage # "served"
  /\ late' = late \union {q \in Request : doing[q] # Idle}
  /\ UNCHANGED doing

\* users.update
UpdateUser(u, row) ==
  /\ users' = [users EXCEPT ![u] = row]
  /\ Overtaken /\ UNCHANGED <<permits, open, operators>>

\* roles.update
UpdateRole(c, granted) ==
  /\ permits' = [permits EXCEPT ![c] = granted]
  /\ Overtaken /\ UNCHANGED <<users, open, operators>>

\* updateTenant
SetStatus(active) ==
  /\ open' = active
  /\ Overtaken /\ UNCHANGED <<users, permits, operators>>

\* By hand, in the database.
SetOperators(active) ==
  /\ operators' = active
  /\ Overtaken /\ UNCHANGED <<users, permits, open>>

\* The handlers of the controllers.
Handle(q, route) ==
  \/ \E w \in Warehouse : WorkAsserted(q, route, w)
  \/ \E works \in SUBSET Warehouse \ {{}} : WorkEach(q, route, works)
  \/ \E named \in OrNone(Warehouse) :
       WorkResolved(q, route, named) \/ List(q, route, named) \/ Show(q, route, named)
  \/ \E from, to \in Warehouse : Send(q, route, from, to) \/ SeeTransfer(q, route, from, to)
  \/ WorkForCompany(q, route) \/ SeeHistory(q, route)

Next ==
  \/ \E q \in Request :
       \/ \E u \in User, o \in OrNone(Operator) : LetIn(q, u, o)
       \/ \E route \in Routes : Permitted(q, route) /\ Handle(q, route)
       \/ End(q)
  \/ \E u \in User, row \in UserRow : UpdateUser(u, row)
  \/ \E c \in CustomRole, granted \in Grants : UpdateRole(c, granted)
  \/ \E active \in BOOLEAN : SetStatus(active)
  \/ \E active \in SUBSET Operator : SetOperators(active)

Spec == Init /\ [][Next]_vars

-----------------------------------------------------------------------------
(* Correctness *)

By == [user : User, operator : OrNone(Operator), role : Role, warehouse : OrNone(Warehouse),
       permissions : SUBSET Permission]

\* Type invariant.
AccessTypeOK ==
  /\ users \in [User -> UserRow] /\ permits \in [CustomRole -> Grants]
  /\ open \in BOOLEAN /\ operators \subseteq Operator /\ late \subseteq Request
  /\ \A q \in Request :
       doing[q] # Idle =>
         /\ doing[q].stage \in {"let in", "served"} /\ doing[q].by \in By
         /\ doing[q].stage = "served" => doing[q].works \subseteq Warehouse

\* "Deactivating a platform admin ends their support sessions immediately": a
\* user who loses a permission, the warehouse or the account, a role that
\* changes, a company that is suspended and an operator who is deactivated are
\* obeyed by every request but those that were already let in.
ChangesObeyed ==
  \A q \in Request :
    doing[q] # Idle /\ q \notin late =>
      LET by == doing[q].by
      IN  MayEnter(by.user, by.operator) /\ by = Principal(by.user, by.operator)

\* "Users with warehouses.all reach every warehouse; the rest only their
\* assigned one (none if unassigned)": others list and change the orders and
\* the stock of their own warehouse, and put units into another only from
\* theirs.  The free routes are not held to it: the page of a product, the
\* history of an order, the audit and the report of an import tell of every
\* warehouse.  Of the list of activity it says less: an operator who has a
\* warehouse reads that of their own only; a supervisor, and an operator
\* without one, all.
OwnWarehouseOnly ==
  \A q \in Request :
    LET request == doing[q]
        own == request.by.warehouse
    IN  request # Idle /\ request.stage = "served" /\ ~ All(request.by) =>
          /\ request.where \in {"sent", "either"} => own \in request.works
          /\ request.where = "role" /\ request.by.role = "operator" /\ own # None =>
               request.works = {own}
          /\ request.where \notin {"sent", "either", "role", "free"} =>
               request.works \subseteq {own} \ {None}

=============================================================================
