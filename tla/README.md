# Verification of WMS Pro (backend)

TLA+ models, TLC runs and TLAPS proofs for the warehouse management backend in
`src/` (NestJS, Prisma, PostgreSQL).  The question behind all of it: whatever
requests arrive and in whatever order their statements commit, do the stock
counters, the orders, the physical units and the company's own rules keep
telling the same story?

Contents: [the system](#the-system) · [modules](#modules) ·
[how the model corresponds to the code](#how-the-model-corresponds-to-the-code) ·
[runs](#runs) · [proofs](#proofs) · [findings](#findings) ·
[limits](#what-is-not-modelled-and-why) · [plan](#plan)

## The system

A multi-tenant HTTP service.  Each request is a controller method calling a
service, and a service keeps all its state in PostgreSQL; there is no state in
the process besides the job worker's loop.  Concurrency is therefore between
transactions: READ COMMITTED (Prisma's default), with `SELECT ... FOR UPDATE`
on the rows a handler decides on, in most handlers but not in all.  A handler
that checks in one statement and writes in a later one is split into those
steps wherever what it read can become stale; that is where most of what the
runs find comes from.  The tenant is added to every query, which
`TenantIsolation` models and proves, so the other models work inside one
tenant.

### How the parts interact

```
 sales orders --release--> picking orders --complete--> packing orders --> shipments
      ^                      |  ^    ^                      |
      |    progress          |  |    +---- waves            | consume
      +----------------------+--+---------------------------+
                             v                              v
                 warehouse_stock (onHand, reserved, picked)
                 location_stock, lot_stock, stock_movements
                             ^
 purchases -> receipts/returns   transfers   cycle counts   adjustments   imports (jobs)
```

Everything meets in the rows of `warehouse_stock`: `onHand` units of a product
in a warehouse, `reserved` of them for orders, `picked` of them off the shelves.
`available = onHand - reserved`; units neither picked nor in a location are
"unlocated", and that figure is never stored.

### Inventory

| Component (src/src/...) | State | Operations | What is hard | What makes it correct |
|---|---|---|---|---|
| stock (`stock`) | `warehouse_stock`, `location_stock`, movements | increase, decrease, relocate, transfer | competes with every order for the same units; unlocated is derived | counters are sums of what orders hold; integrity report empty |
| lots (`stock/lot-stock`, `lots`) | `lot_stock`, `picking_item_lots` | receive, take first-expiring-first, return | three tables to keep in step | lots = units on shelves for a tracked product |
| picking | `picking_orders`, `picking_items` | create, start, record, complete, cancel, delete | reserve at creation, settle at the end | item reservation follows the order; reserved can always be picked |
| packing | `packing_orders`, `packing_items` | create, start, record, complete, cancel, delete | ships and releases; unlocked deletion | ships only what was picked, once |
| sales | `sales_orders`, items | create, release, cancel, progress | partial releases, shortfalls returned by three paths | released = shipped + outstanding; closed stays closed |
| waves | `picking_waves` | create, pick, complete, cancel | one pick over many orders; unlocked claims; several transactions | an order in one wave; nothing picked twice |
| shipping | `shipments`, carriers | ship, deliver | check-then-act | one shipment per packing, one delivery |
| receipts, returns | `receipts`, lines | open, add lines, complete, cancel | order items replaced under a receipt; parallel returns | returned never exceeds shipped |
| purchases | `purchase_orders`, items | create, update, cancel, close | received counts against edits | received never lost |
| transfers | `stock_transfers`, items | send, receive; direct transfer (`stock`) | units in transit; partial receipt | nothing created or lost between warehouses |
| cycle counts | `cycle_counts`, lines | open, record, add line, submit, reopen, approve, cancel | expected is a snapshot | a count adjusts what was really missing |
| sequences | `sequences` | next reference | typed references collide | references unique; a bounded search suffices |
| jobs | `jobs` | enqueue, claim, progress, finish, retry | worker crash, lock expiry, no fencing | every job ends; not twice at once |
| imports | job payload, catalogue and stock rows | enqueue, plan, apply | crash between apply and finish | applied once |
| auth, users, invitations | refresh tokens, users, invitations | login, refresh, logout; invite, resend, revoke, accept; update | rotation races; reuse detection; addresses that change beside invitations | one use per token and invitation |
| access to warehouses (`auth/guards`, `auth/strategies`, `common/utils/warehouse-scope`) | who a request is of and what it may, read once when it is let in | assert, resolve or filter the warehouse, route by route | rights that change while requests are under way; a hundred routes that each have to ask, and some that do not | a change is obeyed by every later request; others work in their own warehouse only, on the routes that ask |
| plan limits (`tenancy`) | counts per tenant | assertCanCreate | counted outside the transaction | the limit is exceeded by no more than the requests in flight |
| tenant isolation (`tenancy`) | the context of a call chain | every query | lazily run queries | a query touches rows of the company it was built for |
| platform | plan, status, limits and settings of a company | create, update, impersonate | one JSON column, two writers | nobody's change is undone by another's |
| locations | the tree, capacities | create, move, delete, generate, put away | unlocked checks against moves and against transactions of many put-aways | a tree; no stock lost by a deletion; a bound on what a location holds |
| products | catalogue rows, barcodes in two tables | create, update, deactivate, import | unlocked uniqueness across tables | one product per barcode |
| custom fields | definitions, JSON values | define, edit, write values; imports and generations create records without | definitions change under the values | values keep their meaning; required ones stay |
| uploads, photos | files, lists of their URLs | upload, add, remove | list read and written back; store outside the database | the list is what was asked for; its files are there |
| roles | `tenant_roles`, who has them | create, delete, assign | counted, then deleted | nobody loses a role unasked |
| partners | customers and suppliers | create, update | checked, then written | a partner is one or the other |
| warehouses | plain rows | create, update | nothing but the plan limit | - |
| audit, activity | append-only logs | append, list | no decision reads them; who may read which warehouse's | - |
| reports, labels, mail, notifications, health, config, common | none | reads, formatting, I/O | - | - |

`PROJECT.json` lists every component with its status, and under `hazards` the
places in the code that are hard to test, with the properties that watch them.

## Modules

| Module | What it is |
|---|---|
| `Totals` | sums over numbered rows (`sumByProduct`, `_sum`), as a recursive function |
| `Shelves` | the units of one product in the locations of a warehouse: put away, take, take in pick sequence (`location-stock.ts`) |
| `ShelfTheorems` | what `Total` computes (bounds, sums of changed rows, all-zero and dominated sums); the operations of `Shelves` keep quantities non-negative and move exactly the units they say; what is computed step by step exists and is one |
| `Fulfilment` | the core: stock rows, picking, packing and sales orders, 20 actions, and their properties |
| `ReservationLedger` | the abstract specification: orders hold claims on units |
| `MCFulfilment` | instances of `Fulfilment` for TLC, with their symmetry |
| `FulfilmentProofs` | types, the inductive invariant of fulfilment and the safety theorems that follow; the invariant of sales orders; the constraints of the database refuse nothing; fulfilment implements `ReservationLedger` |
| `Jobs` | the background queue: the `jobs` table, its users, its workers, crashes and expiring locks, with an abstract handler |
| `ImportJobs` | the queue with the import handler step by step: upload, validation, commit, deletion of the upload |
| `JobProofs` | types, bounded handler calls, one worker per job, finished jobs stay finished; how often the rows of an import are applied |
| `Lots`, `LotStock` | how units are spread over lots; a product's lots through receiving, picking, returning, shipping and switches of lot tracking |
| `Transfers` | `LotStock` in two warehouses with units that move between them, at once or in transit |
| `Receiving` | purchase orders, receipts and customer returns, line by line |
| `Waves` | picking waves over orders that are also picked one by one |
| `SalesProgress` | the status of a sales order, statement by statement |
| `LockOrder` | every stock transaction as the sequence of rows it locks |
| `CycleCounts` | counts of places whose books and whose real contents differ |
| `Locations` | the tree of locations, deletions, and the transactions that put units away and take them |
| `LocationGenerator` | the generation of locations from nested levels |
| `ImportTree` | `Locations` beside an import of locations |
| `Catalogue` | products, barcodes and the import of products |
| `Numbering` | references of documents, automatic and typed |
| `Shipping` | despatch and delivery of packings |
| `Photos`, `CustomFields`, `Partners` | photos and their files; custom fields and values; kinds of partners |
| `Sessions`, `Users`, `Seats`, `Roles` | refresh tokens; the last administrator; invitations and the plan's limit; custom roles |
| `Access` | who may work in which warehouse: guards, the routes that work in warehouses or tell of them, and the scope of each |
| `TenantIsolation`, `TenantSettings` | scoping of queries by company; a company's plan, limits and settings |
| `MCWarehouse` | instances for TLC of `Receiving`, `Waves`, `Transfers` (with `LotStock`, `Lots`), `CycleCounts`, `Locations`, `ImportTree`, `LockOrder`, `SalesProgress` and `Shipping`, and what is checked of them |
| `MCCompany` | the same of `TenantIsolation`, `Sessions`, `Users`, `Seats`, `Roles`, `Access`, `TenantSettings`, `Numbering`, `Catalogue`, `LocationGenerator`, `CustomFields`, `Photos` and `Partners` |
| `DocumentProofs` | invariants of receipts and returns, and of waves, in any instance of those modules |
| `LotProofs` | what an allocation of lots takes, and the invariant of lots, orders and transfers, in any instance of `Transfers` |
| `CodesProofs` | the numbering of documents, barcodes and generated locations: codes and numbers are unique and none is skipped |
| `WarehouseProofs`, `CompanyProofs` | the properties of `MCWarehouse` and `MCCompany`, part by part, for every value of their constants |

`Fulfilment` composes the four components directly (EXTENDS `Shelves`) instead
of instantiating one module each: a single handler such as
`packing.updateStatus(completed)` writes the stock row, the packing, the
picking's items and the sales order in one transaction.  `ImportJobs` extends
`Jobs`: its handler's steps are conjoined to the queue's actions, and the queue
by itself is the abstract specification it implements.  `Transfers` extends
`LotStock` (a transfer moves lots), and `ImportTree` extends `Locations` (an
import runs beside its requests).  The remaining modules each
take one table or two out of the whole, with the requests that decide on it;
what they leave to another module is named in their first comment.

`MCWarehouse` and `MCCompany` put many of these modules beside each other.
They share no state in the model (the stock rows that each of them moves are
its own), so a behaviour of the composition would only be an interleaving of
unrelated ones.  A variable `part`, chosen initially and never changed, names
the one that runs, often one of several instances of a module with different
bounds or a different next-state relation; the others stay where they start.
All interleavings within a part are explored.  The variables of the modules
are renamed where two modules use the same name.

## How the model corresponds to the code

**State.** `onHand`, `reserved`, `picked` are the columns of `warehouse_stock`
by product; `located` is `location_stock` by product and location; `pickings`,
`packings` and `sales` are the order tables with their item tables folded in,
one quantity per product; a row that does not exist has status `"none"`.  A
packing is indexed by its picking (`pickingOrderId` is unique).  `dispatched`
sums the `order_shipment` movements of each picking, and `deleting` holds the
packing deletions that have read the status and not yet deleted the row.

**Actions.**

| Action | Code |
|---|---|
| `IncreaseStock`, `DecreaseStock` | `StockService.registerMovement` |
| `Relocate` | `StockService.relocate` |
| `CreatePicking` (`CreateInTransaction`) | `PickingService.create` |
| `StartPicking`, `CompletePicking`, `CancelPicking` | `PickingService.updateStatus` |
| `PickUnits`, `UnpickUnits` | `PickingService.updateItem` with a larger or smaller quantity (`movePickedUnits`) |
| `DeletePicking` | `PickingService.delete` |
| `CreatePacking` | `PackingService.create` |
| `StartPacking`, `CompletePacking`, `CancelPacking` (`ConsumeReservations`) | `PackingService.updateStatus` |
| `PackUnits` | `PackingService.updateItem` |
| `CheckPackingDeletion`, `DeletePackingRow` | `PackingService.delete`, its two statements |
| `CreateSale`, `ReleaseSale`, `CancelSale` | `SalesOrdersService` |

Completing a pending order starts it first (`startIfPending`), so the guards of
`CompletePicking` and `CompletePacking` accept both editable statuses, while an
explicit transition follows `ALLOWED_TRANSITIONS`.

**Atomicity.** A handler locks its order row, then the stock rows in product
order, reads what it decides on in later statements (each sees everything
committed by then), and holds the locks to the commit.  Two handlers that touch
the same order or the same product are therefore serialised from their first
common lock, and one handler is one action.  `PackingService.delete` has no
transaction: it is two actions with any request in between.

**`OverlapDelete`.** With `FALSE`, a packing whose deletion is under way gets no
other request until the row is gone: what the program would be with the check
and the delete in one locked transaction.  The passing runs and all theorems
about fulfilment but `TypeCorrect` and `ReservationsAddUp` need that; with `TRUE`, the code as it is, TLC finds what
goes wrong (see findings).

**CHECK constraints.** The migrations forbid negative or inconsistent columns,
and a commit that would break them is rolled back.  `CheckedSpec` conjoins them
(`DbChecks`, that is `StockChecks` and `SalesChecks`) to each step; `Spec` is the
handlers alone.  `DbChecks` is proved an invariant of `Spec`
(`ChecksNeverRefuse`), and so `Spec => CheckedSpec` (`ConstraintsAddNothing`):
without overlapping deletions the constraints never have to refuse anything.
The runs that look for a violation with `OverlapDelete = TRUE` use
`CheckedSpec`, so that they show only what the database really lets through.

**Abstractions.** Lines of one order for the same product are merged (the code
sums them by product, or treats each within its own quantity).  Products are
not lot-tracked (`LotStock` has the lots).  Locations are numbered in pick
sequence; a location that is full, inactive or not storable only adds refusals,
which no safety property checked here depends on (`Locations` has the
capacity).  The status of a sales order is written together with the progress
that changes it (`SalesProgress` takes the two apart).  References, names,
notes, boxes and timestamps are left out.

### Jobs and imports

**State.** `jobs` is the table; `runAt` and `lockedUntil` become `due` and
`lock` (absent, held, expired), which is what the claim compares with the
clock.  `slots` are the places for concurrent runs of all worker processes: an
idle slot, or the row as `RETURNING` gave it with the stage it is in.  A worker
decides on that copy (`slots[s].attempt`), never on the row as it is now, and
writes its outcome by id.  `starts`, `retries`, `crashes` and `late` are
history variables for the properties and bounds.

| Action | Code |
|---|---|
| `Enqueue`, `Retry`, `Cancel` | `JobsService`, the guarded `updateMany` of `transition` included |
| `BecomeDue`, `LockExpires` | the clock passing `runAt` or `lockedUntil` |
| `Claim` | one row of `JobWorker.claim` |
| `GiveUp`, `Start`, `Complete`, `Throw`, `ThrowPermanent` | `JobWorker.process` and `finish` |
| `Progress` | `JobContext.progress`, which renews the lock whatever the row says |
| `Crash` | a worker process that dies; also a failing write in `catch` or before `try`, whose rejection nobody handles |
| `EnqueueImport`, `ReadFile`, `Validate`, `RejectRows`, `Apply`, `Clean`, `CompleteImport` | `ImportJobsService.enqueue` and `process`, a step per write to the database or the storage |
| `RefuseImport`, `FileGone`, `FailImport` | its permanent and its other errors |

A claim of several rows is several claims, which `SKIP LOCKED` makes
independent; a process with several slots that dies is several crashes.  The
order by `runAt` is left out: any due job may be taken.  The rows of a file are
abstracted to `applied`, how often they were committed; product and location
files are upserts, but a stock file adds its quantities each time.  The error
report is left out.

**`LocksHold`.** With `TRUE` a lock expires only once nobody works on the job:
what the comment in job-worker.ts:68 takes for granted.  With `FALSE` it may
expire under a live worker, as the code allows.

### The other modules

All of them follow the same two conventions.  A request that checks before it
writes is a value of `doing[q]` (or a member of `requests`) from its check to
its write, with what it read; the action that checks has the code's refusals as
its guard, and the action that writes has only the conditions that the
statement itself carries (a `where`, a unique index, a foreign key, a lock).
And a second next-state relation, `AloneNext` or `Undisturbed...Next`, lets one
request run at a time: it says what the code guarantees when nothing
interleaves, so that what fails under `Next` and holds under it fails for the
interleaving alone.

| Module | State | Actions |
|---|---|---|
| `LotStock`, `Lots` | `stock[w]`: the counters and `lot_stock` of a warehouse; `orders`: a picking item with its `picking_item_lots`; `expires`; `product`: its tracking and a switch that was checked; `lotUnits`, `moved`: history | `IncreaseStock`, `DecreaseStock` (`receiveIntoLot`, `takeFromLots`), `Reserve`, `Pick`, `Unpick`, `Ship`, `Release`, `CheckSwitch`, `WriteSwitch` (`products.update`) |
| `Transfers` | the same and `transfers`, with the lots each took | `TransferDirect` (`stock.transfer`), `Send`, `Receive` |
| `Receiving` | purchase orders and receipts with their items and lines; lines that are checked and not yet written; `stock` | `CreateOrder`, `ReplaceItems`, `CancelOrder`, `CloseOrder`, `OpenReceipt`, `CheckLine`, `CheckCorrection`, `WriteLine`, `RemoveLine`, `CancelReceipt`, `CompleteReceipt` |
| `Waves` | orders with the quantity of one product, waves, what a creation, a pick or a completion has read | create, pick and complete in the steps between which nothing is locked; the pickers' own requests |
| `SalesProgress` | the items and the status of one order; what each transaction has added and not committed | a progress report: item, read, status; release and cancel, which lock the order first |
| `LockOrder` | per process, its transaction and how many of its rows it has locked | `Begin`, `Lock`, `Commit`, `Refuse` |
| `CycleCounts` | the books and the truth of each place; counts with their lines | create (by location or product), count, add, review, reopen, approve, cancel; movements, booked; losses and finds, not booked |
| `Locations` | the tree, what is stored where by product, checked requests, open transactions with what they have locked and moved | create, move, delete; a line that puts away or takes (`PutAway`, `TakeFromLocation`), `Commit`, `Rollback` of a transaction: a receipt, an import of balances, a pick, a count |
| `LocationGenerator` | locations in pick sequence, with the code they have and the path they were made for | `generate`, and locations made by hand |
| `ImportTree` | `Locations` and the planned file | plan and apply |
| `Catalogue` | products with their main barcode, extra barcodes, checked requests and planned imports | create, update, deactivate, add and remove a barcode, import |
| `Numbering` | the row of the sequence, the documents, the transaction that holds the row | begin automatic or typed, try, commit, abort; prefix and next number set by hand |
| `Shipping` | completed packings, active carriers, shipments | `CheckShip`, `FindCarrier`, `CreateShipment`, `CheckDeliver`, `WriteDelivery` |
| `Photos` | files, lists, what the users asked for | `Upload`, `AddPhoto`, `FindToRemove`, `WriteRest`, `DeleteFile` |
| `CustomFields` | definitions, the values of one record | definitions created and updated; read, resolve, write; `MakeBare` (a row of an import or of a generation) |
| `Partners` | kinds, activity | `Create`, `CheckUpdate`, `WriteUpdate` |
| `Sessions` | tokens per login, issued and live; whether the user is active | login, refresh (find, rotate, issue, or end all sessions), logout, deactivation |
| `Users` | role and activity of each user | an update: read, lock the administrators, count and write |
| `Seats` | users by address, invitations; the invitation each came by (history) | invite (check, drop, create), resend (find, write), revoke, expire, accept (find, check, join), create, `Update` (activate, deactivate, change the address), `GiveUp` |
| `Roles` | roles, who has them, who is offered them | `CreateRole`, `FindRole`, `WriteUser`, `WriteInvitation`, `FindInvitation`, `Accept`, `CheckDelete`, `DeleteRole` |
| `Access` | users, what custom roles permit, whether the company is open, active operators; who each request is of and what it was let in with; `late`: history | `LetIn` (guards), a handler per kind of route (`WorkAsserted`, `WorkEach`, `WorkResolved`, `List`, `Show`, `Send`, `SeeTransfer`, `WorkForCompany`, `SeeHistory`), `End`; `UpdateUser`, `UpdateRole`, `SetStatus`, `SetOperators` |
| `TenantIsolation` | rows with their company, queries built and not run, the company of the running code | `SwitchTo`, `Build`, and the Prisma operations a query may be |
| `TenantSettings` | plan, status, limits and strategy; what was last asked for | `Read`, `UpdateTenant`, `UpdateSettings` |

Where the code leans on PostgreSQL, the model has what PostgreSQL guarantees
under READ COMMITTED: a statement sees what was committed when it began; an
update of a row waits for the transaction that changed it and then applies to
the new row; `FOR UPDATE` waits likewise; a unique index or a foreign key
refuses a row; `ON DELETE CASCADE` and `SET NULL` act on what is there at the
deletion.  The operations of the Prisma client in `TenantIsolation` are the only
definitions of code outside `src/`, modelled from how the service calls them.

`LockOrder` writes each transaction down as a sequence of rows and nothing
else: what it reads decides only whether it is refused, and it may be refused
anywhere.  `CycleCounts` is the one module that models the world: the books
cannot tell whether a count was right.

## Runs

Bounds are constants with their meaning where they are declared.  Deadlock is
checked where the system can always go on; where documents end for good, jobs
are all done or a bound is used up, the cfg says `CHECK_DEADLOCK FALSE`.

| Run | Constants | States | Result |
|---|---|---|---|
| `fulfilment_units` | 1 product, 2 locations, 2 pickings, 1 sales order, up to 2 units per request, 3 on hand | 151 116 | passes |
| `fulfilment_sales` | 2 products, 1 location, 2 pickings, 1 sales order, 1 unit per request, 2 on hand, symmetric products | 470 498 | passes |
| `packing_deleted_in_progress` | as `CheckedSpec`, `OverlapDelete = TRUE` | | violation expected |
| `packing_shipped_twice` | as `CheckedSpec`, `OverlapDelete = TRUE` | | violation expected |
| `readme_picking_reserves` | 1 product, 1 unit | | violation expected |
| `jobs_locked` | 2 jobs, 2 slots, 2 attempts, 1 retry, 2 crashes, `LocksHold` | 24 826 | passes |
| `jobs_ending` | the same with one job of unknown type and `LocksHold = FALSE`; `FairSpec` | 144 151 | passes |
| `jobs_lock_outlived` | `LocksHold = FALSE` | | violation expected |
| `imports` | 1 job, 2 slots, 2 attempts, 2 retries, 2 crashes; `ImportFairSpec` | 5 834 | passes |
| `import_asked_again` | no retries by the user | | violation expected |
| `warehouse` | 15 parts, see below | 628 479 | passes |
| `company` | 20 parts, see below | 853 887 | passes |

*fulfilment_units* asks where units are.  Three units on hand and two orders of
up to two make shortages, partial picks, a pick that empties one location and
takes the rest elsewhere, short packings and repeated packings all happen; two
locations are the least with a pick sequence.  It checks

- `ReservedIsSum`, `PickedIsSum`: the counters equal what the orders hold;
- `ReservationFollowsOrder`: each item holds exactly what its order's stage
  calls for (all while picking, what was picked until the packing ends, nothing after);
- `OrdersAgree`: picking, packing, dispatch and deletion of an order fit
  together; over all its packings it sends out at most what was picked;
- `IntegrityReportEmpty`: `checkStockIntegrity` would report nothing;
- `PickNeverRefused`, `DispatchNeverRefused`: what is reserved can be picked and
  what is packed can be dispatched: those `INSUFFICIENT_STOCK` answers never come;
- `LedgerSpec`: fulfilment implements `ReservationLedger` (refinement mapping:
  `stock <- onHand`, an order's claim is the reservation of its items).

*fulfilment_sales* asks about sales orders.  Two products are needed for an
order that is short in one and complete in the other, and two pickings for a
second release while the first is outstanding.  It checks `SaleAccounts`
(released = shipped + outstanding, shipped = dispatched), `NeverOverReleased`
and the action property `ClosedSaleStaysClosed`.

*jobs_locked* asks whether workers and users can get in each other's way: two
slots for two jobs let one job be claimed twice and leave the other to interfere,
two crashes exceed the attempts of one round, and a retry opens a second round.
`OneRunPerJob`, `WorkedJobsRun` and the action property `FinishedStays` need
`LocksHold`; *jobs_ending* drops it and asks what is left: `StartsBounded`, and
the liveness property `EveryJobEnds`.

*imports* asks about the gap between the commit and the rest.  Two imports share
nothing but slots, so one job is enough; two slots let two workers compete for
it, and three rounds of two attempts with two crashes put a fault at every step
and after it.  `AppliedOnce` counts the faults that hit the gap: without one the
rows are applied once, whatever is retried; `CompletedImports`: a completed one
wrote its rows and left no upload.  `RunsAsJob` is the fair
specification of `Jobs`: the handler ends every run it starts.

*warehouse* asks, of each part of the warehouse beside fulfilment, what stays
true whatever is requested side by side.  Its properties are grouped by what
they are about, and each is a conjunction over the parts:

| Property | Parts | Says |
|---|---|---|
| `ReceiptsAccounted` | purchases, returns, one return | the stock is what completed receipts brought; the items of an order count it, though they may have been replaced; an excess was confirmed; the status of an order follows; one return takes back no more than was shipped |
| `UnitsTraceable` | lots, transfers | what is sent arrives or is known to be missing; the units of each lot are known; while the tracking is settled lots add up to the shelves and orders hold the lots they give back |
| `CapacityBounded` | locations | a location holds at most its capacity once for each product |
| `NeverInsideItself` | deep locations, import of locations | no location is inside itself, nothing interleaving |
| `OrderedNeverDeadlock` | row locks | a circle of waiting transactions contains a release, a wave pick or an import of balances |
| `FinishedWhole` | waves, wave alone, sales progress, shipping | orders that stay in a completed wave have ended; a shipped sales order shipped everything; a packing leaves once |
| `EndedIsFinal` (steps) | purchases, returns, waves, sales progress, shipping alone | no late step changes what has ended |
| `WritesAsAsked` (steps) | wave alone, lots, counts, deep locations, import of locations | a shared pick spreads all its units or none; lots leave and come back in the order of the strategy; an approval makes right the books of what did not move; only empty locations are deleted; an import writes the tree of its file |
| `WarehouseTypeOK` | all | types, CHECK constraints and foreign keys; no count takes a reserved unit |

| Part | Instance | Why it is enough | States |
|---|---|---|---|
| purchases | 1 order of 2 products, 2 receipts of 1 line, 1 unit | a receipt completes what another began, and outlives or exceeds its order; 2 products for an order complete in one | 11 727 |
| returns | 1 order and 1 dispatched order of a product, 2 receipts of 1 line, 2 units | two returns, or a return beside a receipt, corrected and in excess | 20 263 |
| one return | 1 dispatched order of 2 units, 1 return of 2 lines | two lines together, a line that grows | 361 |
| waves | 2 waves, 2 orders of 1 unit, picks of up to 2 | both waves and the pickers at the same order, completions that stop half way | 144 356 |
| wave alone | 1 wave, 3 orders, the first of 2 units, nobody else picks | every spread of a pick | 878 |
| lots | 2 lots with or without expiry, FEFO, 1 warehouse, 3 units, tracking switched | two lots decide every order of leaving | 16 024 |
| transfers | 2 lots, 2 warehouses, 2 units, lots named by callers, tracking settled | a transfer that arrives in part, with one lot and without the other | 13 695 |
| counts | 1 location and the unlocated units, 2 units, 1 unit lost or found | a movement before, between and after line, counting and approval | 81 380 |
| locations | 2 locations, 2 products, capacity 2, lines of 1 or 2 units, 2 requests or transactions at a time | two transactions of any number of lines see the same room, or one beside a move or a deletion; two products let two transactions fill a location, and each may lock both | 260 315 |
| deep locations | 3 locations, depth 3, nothing interleaves | every tree of three within the depth that is read | 2 524 |
| import of locations | the same and files of 3 rows | every file of three rows over every tree | 4 163 |
| row locks | 3 transactions out of 13, of 2 products, 2 pickings, a sales order and a wave | a circle through a row of each kind | 66 649 |
| sales progress | 3 transactions, 2 products of 1 and 2 units | two reports that miss each other beside a release or a cancellation | 4 544 |
| shipping, shipping alone | 1 packing, 2 carriers, 2 receivers, 2 requests | two despatches or deliveries of one packing | 1 376, 224 |

*company* asks the same of what a company keeps besides stock.

| Property | Parts | Says |
|---|---|---|
| `FindsOnlyOwn`, `ChangesOnlyOwn` (steps) | tenants | a query finds and changes rows of the company it was built for, whoever is running when it runs |
| `OneTokenPerLogin` | sessions | a login has one token that is live or about to be |
| `MembersWithinRules` | users, invitations, seats, access | an administrator is left; the accepted invitations are those that users came by, one each; the plan is exceeded by one for each other request; a change of rights is obeyed by every request that is let in after it, and who may not work everywhere works in his own warehouse, on the routes that ask (`OwnWarehouseOnly` names those that do not) |
| `MembershipKept` (steps) | invitations, seats, roles alone | an acceptance is not taken back and keeps its address; who joins was created by hand or has an invitation that is pending still and had not expired when it was found; a role in use is kept |
| `CodesSound` | sequence, set sequence, products alone, generator | no number is given twice, tried twice or refused without need; a scan finds the owner; a generation leaves a location for each path |
| `RecordsAsAsked` | limits, plan, fields alone, photos, photos alone, partners | settings, plan, photos and partners are what was asked for; each field of a record can be set on its own |
| `WritesKeepTheRest` (steps) | sequence, set sequence, products, generator, fields alone | a write leaves what it does not name: numbers that are free, barcodes of others, the order of picking, required values a record has; a record that a request creates has them |
| `CompanyTypeOK` | all | types, unique indexes and foreign keys; custom values keep the meaning of their field |

| Part | Instance | Why it is enough | States |
|---|---|---|---|
| tenants | 2 companies, 2 rows, 1 query | built in one company, run in another | 6 618 |
| sessions | 2 logins, 2 requests, 3 tokens | two refreshes of one token, a rotation in between | 5 786 |
| users | 3 users, 2 updates; promotions on their own | two administrators demote each other | 12 070 |
| invitations | 3 addresses, 1 seat, 2 requests, 2 invitations | accepted, revoked, replaced and resent at once; an accepted user who takes another address while the old one is invited again | 250 663 |
| seats | 3 addresses, 1 seat, 2 requests, 2 invitations, nobody reactivated | two requests see the last seat | 90 840 |
| roles, roles alone | 1 role, 2 people, 2 requests | given, offered and deleted at once | 19 880, 2 003 |
| access | 1 user, 1 operator, 1 custom role, 2 warehouses, 1 request | every route of the module with every right, and a change of each right under the request | 150 630 |
| limits | 2 resources, 2 plans, 1 request | every override of a limit with and without the other | 9 288 |
| plan | 2 plans, 2 requests | plan and status while two updates are under way | 116 256 |
| sequence | 4 documents, 3 attempts, 2 typed in a row | what matters is which of attempts and typed references is larger | 2 181 |
| set sequence | 3 documents, 2 prefixes, next number set by hand | moved back under a creation | 6 852 |
| products, products alone | 2 products, 2 barcodes, files of 2 rows, 2 requests | a barcode that moves in the file while it is given elsewhere | 116 868, 2 275 |
| generator | levels of 2 to 3 codes that grow a digit or pass the last letter, 6 locations | codes over some that exist | 308 |
| fields, fields alone | 1 field and 2 requests; 2 fields, one request at a time | definitions that change under a write, a record that an import makes under it; two fields for a partial update | 24 478, 29 026 |
| photos, photos alone | 2 photos, 2 records, 2 requests | two removals, an addition beside a removal | 6 136, 448 |
| partners | 2 partners, one request at a time | each kind is taken from one of them | 1 281 |

A property that fails beside other requests is asked of a part "alone", in which
nothing happens between the check of a request and its write: it then says that
the checks are right and the interleaving is what they miss.  What fails is
described under [other disagreements](#other-disagreements).

Every conjunct of these properties has a mutated form in its module (the
operators commented "Mutated form"), and TLC refutes the property with it.

Every property of the passing runs has a mutant in `PROJECT.json`: a small
plausible bug in a modelled definition, one of those mutated forms, that TLC
catches with that property.

**Fairness.** None in `Fulfilment`: every action is a user's request, and
nothing obliges a user to make one, so no liveness is claimed of it.  In `Jobs`
it is weak and only on what runs by itself: the clock, the claim of a due job
(`tick` polls again whatever happened, job-worker.ts:53-66), and a run that
was started comes to an end.  Users, progress reports and crashes get none, and a
lock is only sure to expire when no worker is left to renew it.  Two things
are assumed with it: the number of crashes is finite (a job whose worker dies in
`GiveUp` each time never ends), and a handler does not hang (the code sets no
timeout on it).  The claim of one job needs a slot that stays free; with finitely
many jobs and rounds, one does.  All other
modules claim no liveness: their actions are requests, and PostgreSQL's choice
of a victim is what ends a deadlock.

## Proofs

Checked by `tlapm`, for every set of products, orders, people, requests and the
like, every number of orders and locations and every bound.  "-" assumes
only what the modules assume of their constants (the definitions and ASSUMEs
named `...Assumption`, which TLC evaluates in the runs).

| Theorem | Says | Assumes |
|---|---|---|
| `FulfilmentProofs!TypeCorrect` | `Spec => []TypeOK` | - |
| `ReservationsAddUp` | `Spec => []ReservedIsSum` | - |
| `StockInvariant` | `Spec => []StockInv` | `OverlapDelete = FALSE` |
| `PickedAddsUp` | `Spec => []PickedIsSum` | `OverlapDelete = FALSE` |
| `OrderHoldsReservation`, `OrdersConsistent` | `ReservationFollowsOrder`, `OrdersAgree` | `OverlapDelete = FALSE` |
| `StockIntegrity` | `IntegrityReportEmpty`, `StockChecks` | `OverlapDelete = FALSE` |
| `ReservedCanBePicked`, `PackedCanBeDispatched` | `PickNeverRefused`, `DispatchNeverRefused` | `OverlapDelete = FALSE` |
| `FulfilmentProofs!SalesInvariant` | `Spec => []SalesInv` | `OverlapDelete = FALSE` |
| `SalesAddUp`, `ReleasedWithinOrder` | `SaleAccounts`, `NeverOverReleased` | `OverlapDelete = FALSE` |
| `ClosedStaysClosed` | the action property `ClosedSaleStaysClosed` | `OverlapDelete = FALSE` |
| `ChecksNeverRefuse`, `ConstraintsAddNothing` | `Spec => []DbChecks`, `Spec => CheckedSpec` | `OverlapDelete = FALSE` |
| `ImplementsLedger` | `Spec => LedgerSpec`: fulfilment implements `ReservationLedger` | `OverlapDelete = FALSE` |
| `JobProofs!JobTypeCorrect` | `Spec => []JobTypeOK` | - |
| `HandlerCallsBounded` | `Spec => []StartsBounded` | - |
| `OneWorkerPerJob`, `WorkersRunTheirJobs` | `OneRunPerJob`, `WorkedJobsRun` | `LocksHold` |
| `FinishedForGood` | `FinishedStays` | `LocksHold` |
| `ImportSpecIsSpec`, `ImportTypeCorrect` | `ImportSpec => Spec`, `[]ImportTypeOK` | - |
| `ImportsAppliedOnce`, `CompletedImportsDone`, `NothingToApplyAgain` | `AppliedOnce`, `CompletedImports`, `NoUploadAfterApply` | `LocksHold` |
| `DocumentProofs!ReceiptsCounted` | `StockWasReceived`, `ItemsCountReceipts`, `ExcessConfirmed`, `OrderStatusFollows` | - |
| `ReturnsWithin` | `OneReturnWithinShipped` | - |
| `DocumentProofs!CompletedSettled`, `EndedOrdersStay` | `CompletedWaveSettled` with the types of waves, `EndedOrderKept` | - |
| `LotProofs!LotsStayTraceable` | types, `UnitsConserved` and `LotsTraceableAcross` of any lots, orders and transfers | - |
| `WarehouseProofs!ReceiptsAreAccounted` | `Spec => []ReceiptsAccounted` | - |
| `UnitsAreTraceable` | `Spec => []UnitsTraceable` | - |
| `CapacityIsBounded` | `Spec => []CapacityBounded` | - |
| `NothingInsideItself` | `Spec => []NeverInsideItself` | a warehouse has at most `Depth` (`MAX_DEPTH`) locations |
| `LocksNeverDeadlock` | `Spec => []OrderedNeverDeadlock` | - |
| `FinishedIsWhole`, `EndedStaysEnded` | `[]FinishedWhole`, `EndedIsFinal` | - |
| `RowsAreTyped` | `Spec => []WarehouseTypeOK` | - |
| `WritesDoAsAsked` | `Spec => WritesAsAsked` | - |
| `CompanyProofs!TenancyInvariant`, `TenancyTyping` | `TenancyInv`, `TenancyTypeOK` | - |
| `FindsOwn`, `ChangesOwn`, `CompanyKeepsApart` | `FindsOnlyOwn`, `ChangesOnlyOwn`, of the queries and of the run's specification | - |
| `LoginsHaveOneToken` | `CompanySpec => []OneTokenPerLogin` | - |
| `RulesOfMembers` | `CompanySpec => []MembersWithinRules` | - |
| `MembershipStays` | `CompanySpec => MembershipKept` | - |
| `RecordsStayAsAsked` | `CompanySpec => []RecordsAsAsked` | - |
| `CodesProofs!CodesAreSound` | `CompanySpec => []CodesSound` | in `sequence`, fewer references typed in a row than attempts (`FewTypedInARow`) |
| `WritesStayApart` | `CompanySpec => WritesKeepTheRest` | - |
| `CompanyTypes` | `CompanySpec => []CompanyTypeOK` | - |

### Sums and fulfilment

1. *Sums.* `ShelfTheorems` shows, by the least counterexample (a non-empty set
   of naturals has a least element), what `Total` does when one row changes,
   when all rows are zero, when one column dominates another, and that a row of
   a non-negative column is at most the total.  It applies this to the
   locations: taking `q` units in pick sequence leaves every location
   non-negative and exactly `q` fewer units.
2. *Types.* One lemma per request.
3. *`ReservedIsSum`.* Every handler moves the counter and the items of one
   order by the same amount.  It needs only that a row that does not exist
   holds nothing, so it holds with overlapping deletions too.
4. *`StockInv`.* None of the other properties is inductive.  That an order can
   be picked depends on the units being there, which depends on the counters
   being sums, on no order holding more or less than its stage calls for, and
   on picked units being among the reserved ones.  `StockInv` conjoins
   `PickedIsSum`, for each order `RowInv` (its reservation is the one due and
   its rows agree), and `Covered`: reserved units are on hand, and so are picked
   and located units together.  Each request is one lemma: what it does to the
   rows of its order, to the sums, and to the cover.
5. The named properties follow from `StockInv`, `TypeOK` and `ReservedIsSum`.
6. *Sales orders.* `SaleAccounts` says that what a sales order counts as
   released is what its pickings dispatched and what the outstanding ones hold.
   Three reports change both sides (a short pick, a short packing, a
   cancellation), and that each changes them alike needs `StockInv` for what a
   picking still holds, `PickingsAsk` (a picking asks for something, so a
   progress report reaches the order) and `SaleStatusAgrees`, which ties the
   status to the quantities: a closed order has nothing outstanding, hence no
   picking or packing is left that would report to it.  `SalesInv` is those with
   `NeverOverReleased`.
7. *The ledger.* The claim of an order is the reservation of its items.  A grant
   must come from unclaimed units: `ReservedIsSum` makes `onHand - reserved`,
   which the code compares, the units nobody claims.  Shrinking and dispatch
   follow from `RowInv`, one lemma per request; every other request is a
   stutter of the ledger.

### Jobs and imports

`StartsBounded` is not inductive, because a claim that has not
called its handler yet will.  `StartsInv` counts those claims with the calls and
charges both to the attempts of the present round (at most `MaxAttempts`) and
the rounds that retries closed; a claim spends an attempt, a call turns one into
the other, a crash only loses one.  `OneRunPerJob` is inductive with `LockInv`:
who is busy holds the lock of a running row, so a row that can be claimed,
retried or cancelled is nobody's.  For imports, `ImportInv` adds what a handler
knows at each step (past reading its file is there, past applying its rows are
in): with one worker per job nobody else can change it.  That every step of
the import is one of the queue carries the queue's invariants over.
`ImportTypeCorrect` does without the locks: whoever runs an import, a step adds
one to a count or deletes a file, and both keep the columns well formed.

### The warehouse

A behaviour of `MCWarehouse` is one of a single part, so each part has its own
invariant, and the theorems put them together.

- *Receipts.* `StockWasReceived` and `ItemsCountReceipts` equate a column with
  the sum over the completed receipts.  A completion moves a receipt into that
  sum with the lines it has, so `Rows` has to say that a checked line is written
  to an open receipt only.  One return stays within what was shipped also with
  the line that it is about to write (`ReturnsFit`), whatever other returns do;
  that two of them together do not is the disagreement below.
- *Waves.* A completion reads the orders of its wave, then deals with them one
  by one.  `CompletedWaveSettled` needs that none comes to the wave after it was
  read (`LivesInOrder`: a wave that is being created has no completion yet)
  and that what it has dealt with stays so (`DealtWith`).
- *Lots.* `UnitsTraceable` is a balance: what was received of a lot is on the
  shelves, in open orders, on the road, gone or missing.  The sums are over
  warehouses, orders and transfers, and each request changes one row (or two) of
  each, and what they change are the lots of an allocation.  `AllocationTakes`
  shows what the loop over the lots, in the order of the strategy, takes: from
  each in turn what it has or what is still asked (`IsAllocation`), so all that
  was asked if there is enough (`AllocationSum`).  `LotInv` adds what the balance needs to
  be kept: the counters of a warehouse are what its open orders hold
  (`Counters`), a transfer has received nothing before it is received (`Roads`).
  While the tracking is settled, `HoldsLots` shows that lots add up to the
  shelves, the orders and the road (`RoadHoldsItsLots`, which neither property
  mentions).  TLC checked both as invariants first, with two orders and two
  transfers.
- *Capacity.* A transaction checks the capacity against what it sees: what is
  committed and what it has put away itself, in any number of lines.  So what it
  put into a location is at most the capacity, but what all have put there
  together is not, and the code adds nowhere.  The locks bound it: each open
  transaction has locked the product of its first line, so there are at most as
  many as products.  `CapacityInv` charges what a transaction adds to a location
  to that product (`Weights`), and what is stored and what is charged stay
  within the capacity once for each product: a line of the only transaction sees
  all that counts, any other is charged to a product of its own.
- *No location inside itself.* The code looks for a cycle by walking up from
  the new parent, at most `MAX_DEPTH` steps.  `IsTree` gives every location a
  height that falls on the way up, so the walk from a location never returns to
  it.  The walks of the code are functions (`Walk`), and one of as many steps as
  there are locations has visited everything above (`ClimbRepeats`, the
  pigeonhole principle); so the check finds a cycle if there is one, and a move
  or a file that passes it leaves heights again (`MoveKeepsTree`,
  `FileKeepsTree`).  This is where the bound on the locations comes from: a chain
  that is longer than the walk is not seen to its end.
- *Rows of locations.* A deletion removes only what is empty, what a request
  still refers to is refused by its foreign key, and what is not committed keeps
  its location (`LocationRows`, `RequestRows`).  Transactions move units of
  different products and take no more than there are (`Apart`).
- *Counts.* A line remembers what was booked when it was made and whether
  anything moved since.  `CountsInv` says what that is worth: as long as nothing
  moved, what is booked is what the line expects, and if nothing moved or was
  lost after the units were counted either, what is booked and the difference
  that was found make what is there (`LineAgrees`).  A movement
  spoils the memory of its own places only.  An approval applies the differences
  one after another, in an order the code does not fix: `AppliedExists` and
  `ApprovedBooks` follow the fold through the lines for any order.
- *A shared pick.* `SplitPick` spreads units over the orders of a wave and
  `CommitPick` writes them later.  `GainsAll` ties the two: what the orders of
  the pick under way will gain adds up to all its units.  It holds while one wave
  picks and nobody else does, which is what the property claims.
- *Order of lots.* An allocation takes from the lots in the order of the
  strategy and touches one only when those before it are used up
  (`TakenInOrder`); a return goes the other way.
- *Types.* Most are part of an invariant above.  `HeldOfOwn` and `ShippingRows`
  say what a transaction or a request may hold while it runs.
- *Locks.* `Rank` orders all rows that transactions lock.  Every transaction
  in order asks for rows of growing rank, so of some that wait for each other,
  the one that asks for the row of the greatest rank waits for nobody: who has
  that row asks for a greater one.  `HeldOfOwn` is all that is needed of states.
- *Sales progress.* That a shipped order shipped everything rests on a
  transaction having seen it (`SawShipped`) and on nobody taking it back:
  quantities under way fit into what is released (`Fits`), and the row locks keep
  two transactions off one item (`RowsLocked`).  A cancellation waits for all.
- *Despatch.* One shipment per packing holds side by side (`ShippingInv`); that
  a delivery keeps its receiver needs one request at a time (`ShippingAlone`).

### The company

- *Tenants.* What a query finds depends on its arguments when it runs, and
  those were made when it was built.  `ScopedToBuilder` says what they are: a
  query that is built requires its builder's company of the rows it filters and
  gives it to the rows it creates.  Building makes it so, whoever is running in
  between leaves it so, and one lemma per operation shows that such a query
  finds and changes that company's rows only.
- *Sessions.* That a login has one token is not inductive, because a refresh
  revokes one and issues the next later.  `LastIsLive` (only the last token of a
  login can be live) and `IssuerIsAlone` (while a request is about to issue the
  next, none is live and no other request is about to) carry it: the guarded
  `updateMany` lets one request alone rotate the live token.
- *Users.* An administrator remains because an update that may write holds the
  row of another administrator, which no other update then holds
  (`ClearedIsSafe`); that nobody becomes an administrator beside other requests
  is part of `AloneNext`.
- *Invitations and seats.* `AcceptsOwn`: the invitation a request is accepting
  had not expired and is one of its address or gone for good, so that two
  acceptances meet in one row.  `CameByOwn` follows who came by an invitation
  through changes of the address: an invitation that was accepted has one user,
  wherever that user is found now.  `SeatsInv` counts active users and requests
  that found a seat free: all but one of those may be too many.
- *Roles, access, settings, fields, photos, partners.* One request at a time, a
  request acts on what it read (`RolesAlone`, `LimitsInv`, `PhotosAlone`);
  side by side, what one column is asked for last is what it has (`PlanInv`)
  and a photo is deleted where it was added (`PhotosInv`).  `AccessInv` follows
  each kind of route from the rights read at the door to the warehouses it
  works in.  A record keeps its required values because an update checks every
  key it clears; one that a request creates has them because a creation checks
  all.
- *Numbers.* A creation takes the next number, may find it taken, and tries the
  one after.  `NumbersInv`: one document at a time is being numbered (it locks
  the row of the sequence), no other has its reference, and all that it passed
  over are taken.  Hence no number is given or tried twice, and a creation gives up only after as
  many typed numbers in a row as there are attempts.
- *Barcodes.* `CatalogueInv` types products, barcodes and requests; alone,
  `ScanInv` says that the checks of the request hold until it is written
  (`StillFree`).  An import applies its rows one by one: after each, the table
  is that of the rows so far (`AfterRows`).
- *Generated locations.* The paths of the levels are counted before they
  are made.  Both are computed level by level, so one lemma (`ExpandedNext`) takes
  a level to the next: a node for each parent and each value of the level, in
  order, all different, as many as the product of the counts.
- *Types.* Most follow from the invariants above.  That an address has no more
  pending invitations than requests run at a time needs the requests that are
  about to create one to be counted with them (`Replacing`).

### What stays with TLC

Every invariant and every action property that a passing run checks has a
theorem in the table.  What has none is out of the prover's reach:

- *Liveness and ENABLED*: `EveryJobEnds`, and the fairness in `RunsAsJob`, whose
  safety part is `ImportSpecIsSpec`.
- *Induction over data* as a proof rule.  Sums, walks and folds are therefore
  recursive functions (not RECURSIVE operators), and what they compute is shown
  through the least counterexample, for any length.

The hypotheses are what the code does not enforce.  With `OverlapDelete = TRUE`
or `LocksHold = FALSE` the properties fail, which the runs that expect a
violation show.  `FewTypedInARow`: as many typed references in a row as there
are attempts, and a creation is refused a number.  More locations than
`MAX_DEPTH` and a cycle is longer than the walk that looks for it: no run has so
many, and the theorem says nothing about them.

## Findings

1. **A packing that is not pending can be deleted**
   (`packing_deleted_in_progress`).  `PackingService.delete` reads the status
   with no lock (packing.service.ts:283) and deletes the row later (290),
   whatever its status is by then, while its message (287) and the API table
   (src/README.md:231) say only pending packings are.
2. **Its units can then be shipped twice** (`packing_shipped_twice`).  If the
   packing was completed in between, its picking is left completed with no
   packing; a new one can be created and completed, and `onHand` falls for
   units that left long ago.  No CHECK constraint notices when other units are
   on hand; the rule in stock-integrity.ts:17 is broken.
3. **The README's stock flow is not the code's** (`readme_picking_reserves`).
   "RECOGER ÍTEM → reserved += delta" (src/README.md:287); the code reserves
   everything at creation and picking changes `picked` and the shelves only.
4. **A live worker can lose its job to another** (`jobs_lock_outlived`).  "A
   running job whose lock expired belongs to a worker that died"
   (job-worker.ts:68), but an import renews nothing while it applies its rows, for
   up to 10 minutes (imports.service.ts:44) against a lock of 5 (config/env.ts:50),
   and outcomes are written without checking the lock.
5. **A committed import can end as "import it again"** (`import_asked_again`).
   The rows are committed, then the upload deleted, then the job finished
   (import-jobs.service.ts:114-116).  After a crash in between, or when storage
   cannot be read by the next attempt, that attempt fails for good with "vuelve a
   importarlo" (89).  Following it doubles a stock file, as does any fault
   between 114 and 115, which `AppliedOnce` counts.

### Other disagreements

The code also says things that it does not keep beside other requests.  No run
checks them; what the passing runs do check is weaker, in the way named here.
Where the stronger property is defined in its module, its comment says so, and
TLC refutes it there.

- *Returns* together can exceed what was shipped: lines of two returns are
  checked before either is written (receipts.service.ts:427,
  `ReturnsWithinShipped`).  One return does not.
- *A receipt's units are counted by no order* if its items are replaced
  meanwhile (receipts.service.ts:278, `OrderCountsPosted`).  Items that stay
  count all of theirs.
- *A shared pick undoes a picker's*: the wave writes absolute quantities that it
  computed before it locked the order (waves.service.ts:145).  Alone it is
  right.  Two creations may group the same order (60, `NeverTakenFromWave`), and
  a completion may end a wave that was cancelled (175, `DissolvedForGood`).
- *Stock without lots on a tracked product*: units received between the check of
  a switch and its write, or in transit during it (products.service.ts:155).
  `UnitsTraceable` asks for `LotsOnShelves` while the tracking is settled only.
- *A count expects a quantity that never was*, even below zero: two reads without
  a snapshot (cycle-counts.service.ts:132-152, `ExpectedIsAQuantity`).
- *A location inside itself*, by two moves side by side (locations.service.ts:73)
  or in a tree deeper than is read (13); *a location deleted with its units* (90,
  `NoUnitsDeleted`).  Undisturbed and in the depth that is read, neither happens.
- *The capacity of a location is exceeded by more than slightly*
  (location-stock.ts:54: "concurrent put-aways may exceed it slightly"): two
  receipts, each of several lines, fill the location up side by side, once per
  product at most (`CapacityBounded`).
- *An import creates a location outside the parent of its file* if that is
  deleted after the validation (imports.service.ts:298).
- *An invitation that was accepted is resent*: the lookup of `resend`
  (invitations.service.ts:83) and its update by id (85) are two statements, so a
  row that was accepted in between gets a new token and a new expiry.  Neither
  lets anybody in; that it was accepted, and by which address, stays
  (`KeepsAccepted`).
- *Activity is shown of every warehouse.*  "Users with warehouses.all reach every
  warehouse; the rest only their assigned one (none if unassigned)"
  (warehouse-scope.ts:4), and the description of the route says operators see only
  their own (activity.controller.ts:43).  The list asks for the role instead
  (71): a supervisor, and an operator with no warehouse, see that of all; the
  history of an order (99) asks nothing.  `OwnWarehouseOnly` leaves them out,
  with the page of a product, the audit and the report of an import.
- *Records without their required custom values.*  "Required fields are enforced
  when creating" (custom-field-values.ts:46), but an import of products or
  locations (imports.service.ts:210, 283) and the generation of locations
  (locations.service.ts:125) create records with none.  `KeepsRequired` says it of
  the records that a request creates, and that none loses one it has.
- *A barcode of two products*: two tables, two unique indexes, nothing between
  them (products.service.ts:134, `OneProductPerBarcode`).
- *A sequence that is stuck*: with as many typed references in a row as attempts
  no document can be created without typing one, since the rollback takes the
  counter back (sequences/sequence.ts:36).
- *Deadlocks*: a release of a sales order (sales-orders.service.ts:98), a wave
  pick (waves.service.ts:150) and an import of balances (imports.service.ts:356)
  take rows against the order of stock-lock.ts:16, which is why
  `OrderedNeverDeadlock` excepts them.
- *A stale status of a sales order* until the next report
  (sales-order-progress.ts:35, `StatusMatchesItems`).
- *The last administrator is demoted* if he was promoted or activated between the
  read and the transaction of an update (users.service.ts:116), *more users than
  the plan allows* by reactivation (131), *a session survives the reuse of its
  token* (auth.service.ts:65, `ReuseEndsLogin`), *a role is deleted while it is
  given* (roles.service.ts:39).
- *A delivery is registered twice* (shipping.service.ts:116), *a partner is left
  without a kind* by two updates (partners.service.ts:53), and *what is written
  back whole loses updates*: the settings of a company (platform.service.ts:82),
  custom values (products.service.ts:183), photos (picking.service.ts:334).

## What is not modelled, and why

Components marked `not_modelled` in `PROJECT.json` have no behaviour a model
would add to: reads, formatting, append-only logs nobody decides on, I/O, and
plain rows.  Within the modelled components:

- the deadlock victim PostgreSQL chooses: in every module but `LockOrder` an
  action is a whole transaction or a statement, and an aborted transaction is
  one that did not happen;
- what deleting a location does to the lines of open receipts and counts that
  name it (`ON DELETE SET NULL`): a line of a count becomes one of the unlocated
  units.  `Locations` and `CycleCounts` are not composed;
- `removePhoto` deletes the file of whatever URL of the company it is given; in
  `Photos` clients name photos of the record, as the documentation describes;
- a role that only pending invitations offer can be deleted, and who accepts
  joins without it.  `Roles` models it; nothing in the code says what should
  happen, so no property does;
- rows read through relations and raw SQL in `TenantIsolation`: the code scopes
  neither, and says so;
- cycles of more than `MAX_PARENT_DEPTH` = 100 imported locations, which the
  check of an import would not notice; the run has a bound above its trees;
- the routes of a company's own rows in `Access` (warehouses, partners, roles,
  users but for the list by warehouse, custom fields, sequences, uploads,
  settings, jobs), and the warehouses an import may work in when it runs in the
  background, with the rights its user has by then;
- a user name that is taken, and anything else that makes a creation or an
  acceptance fail, is `GiveUp` in `Seats`;
- the creation of companies, password checks, the signing of access tokens,
  boxes of a packing, minimum stocks: single statements or stateless.

## Plan

*Done:* the modules above, the runs, and the proofs in the table.

*Left:*

1. `Locations` composed with `CycleCounts` and `Receiving` for the deletion of a
   location that an open line names.
2. `NothingInsideItself` with more locations than `MAX_DEPTH`: what the check
   promises then is a bound on the depth, which the code does not state.
3. What the notes of the components marked `partly` in `PROJECT.json` leave out.
