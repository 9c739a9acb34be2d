# A verification development for the DataFriday API

TLA+ modules, TLC configurations and TLAPS proofs about the server in `src/`
(a NestJS program on Node: TypeScript, Prisma on PostgreSQL, Redis, BullMQ),
whose task is to import the sales of stadium tills from Weezevent, aggregate
them into revenue per space, and serve them to the users of many tenants.

The development follows the code, not its documents. Each module names the
handlers it models, `PROJECT.json` maps each definition to the lines it stands
for, and the comment above each property says which behaviour it is about.

* Sections 1 and 2: the system and what is hard in it.
* Section 3: the modules, how their state and actions correspond to the code.
* Section 4: the runs, their bounds, what they show; the fairness assumed.
* Section 5: what is proved, from what, and how.
* Section 6: what the code does although a comment, or a user, expects otherwise.
* Section 7: what is not modelled, and the plan.

## 1. Inventory

Everything runs in Node processes ("pods"), each with one event loop: between
two `await`s a handler runs alone, at each `await` any other may run. State
that outlives a process is in PostgreSQL; Redis holds caches, locks, queues and
a Pub/Sub channel. Almost no sequence of database calls is in a transaction.

| Component | Code | State | Operations | Interacts with |
|---|---|---|---|---|
| Asynchronous import (sync jobs) | `weezevent.controller.ts` 1386-1619, `weezevent-collect-worker`, `weezevent-insert-worker` | `weezeventSyncJob` (status, collectDone, two pairs of counters), `weezeventSyncChunk` | start, status, delete; collect by bisection; watch; insert a chunk | Weezevent API; writers of transactions |
| Incremental sync | `weezevent-incremental-sync` | `weezeventSyncState.lastSyncedAt` per integration and kind | run (cron, queue, manual), reset | Weezevent API; writers; cron; BullMQ |
| Writers of transactions | `weezevent-incremental-sync.processBatchTransactions`, `sync/transaction-sync` | `weezeventTransaction`, `...Item`, `...Payment` | batch create with backfill of items; upsert with replacement of items | both syncs, the webhooks |
| Events, products and orders of Weezevent | `weezevent-incremental-sync.syncEventsIncremental`, `sync/catalog-sync`, `sync/queued-entity-sync` | events, products with a fingerprint, variants, components | incremental and full runs, per entity | Weezevent client, cron, webhooks |
| Webhook inbox | `webhook.controller`, `webhook-event.handler` | `weezeventWebhookEvent` | receive, verify, store, process later, mark | upsert of transactions, events, products |
| Cron scheduling, sync tracker | `weezevent-cron`, `sync-tracker` | a map of running syncs in memory | ten-minute, nightly and weekly runs, clean-up | incremental sync |
| Weezevent instances and access | `integrations`, `weezevent-auth`, `-api`, `-client` | instances, their mirror in the Tenant row, a token per tenant, one circuit breaker | create, change, disable, delete and test instances; request with token and retries | every sync |
| Queues and processors | `core/queue` | BullMQ jobs in Redis | enqueue by job id, process, retry | incremental sync, aggregation |
| Revenue aggregation | `features/aggregation` | minute and daily aggregates, job log | process events, synchronise, rebuild, skip | BullMQ, transactions, events |
| Floor plans | `spaces.service`, `mappings.service` (locations, merchants) | `Config` with a JSON document, `Floor`, `Forecourt`, `ExternalMerch`, `SpaceElement`, mappings | load and save (3D builder); create, move, unmap, delete elements (integration page) | mappings |
| Recipe costs | `menu-components`, `ingredients`, `menu-items` | lines, sub-components, stored costs | replace recipes, change a price, refresh costs, repair | menu items |
| Selling prices | `menu-items`, `mappings.service` (products), `shared/pricing` | `basePrice`, `spacePrices`, price history, product mappings | apply one, in bulk, backfill; edit, remove; map products | sales, mappings |
| People and organisations | `users`, `onboarding`, `tenants`, `organizations`, `roles` | Supabase accounts, `User`, `UserTenant`, `Tenant`, `Role` | create, invite, reinvite, join, open an organisation, change role, remove, delete | Supabase, authentication cache |
| Authentication cache | `core/auth/strategies/jwt-db-lookup`, `core/redis` | map per pod, one Redis key per user, a lock, shared promises | validate, invalidate a user, invalidate a tenant | users, roles, me, tenants, organizations |
| Generic cache | `core/cache`, `redis.service` getOrSet | Redis keys with tags | getOrSet, invalidate by tag | reading endpoints |
| Outgoing webhooks | `core/webhooks` | a log table | fire and forget | sync services |
| Space menus, inventory, packaging, brands, market prices, suppliers, events, reports | `features/*` | their tables | create, read, update, delete | the caches they invalidate |
| Infrastructure | `core/database`, `encryption`, `supabase`, `health`, `audit`, ... | configuration | I/O | all |
| Frontend, scripts, SQL | `frontend`, `scripts`, `sql`, ... | - | - | outside the server program |

What makes each of them correct:

* **Import**: a job shown as COMPLETED has delivered every chunk it stored; its
  counters count each chunk once; FAILED is final as far as COMPLETED goes; a
  job ends.
* **Bisection**: the sub-ranges tile the requested range; no transaction is in
  two chunks; none that existed at the start is lost unless its window could
  not be cut; the recursion ends.
* **Incremental sync**: no sale falls behind the cursor without being stored, but
  in four ways that can be named.
* **Writers**: the items below a transaction are those of its stored version,
  once; they are not lost; an upsert repairs earlier faults; an older version
  does not replace a newer one.
* **Authentication cache**: rights that have been taken away are not served
  longer than a known time, whatever races or fails; each pod looks a user up
  once at a time; one pod holds the lock.
* **Events and products**: after a run that nothing disturbed the rows are as at
  Weezevent; a row is only older for a reason that can be named (a batch of
  transactions touched it, its details were cut off, older data were written
  over it).
* **Inbox**: a webhook that was answered is processed or marked as failed,
  unless the process was restarted or its row could not be read or written.
* **Weezevent access**: the Tenant row, which every sync reads, has the
  credentials of the active instance; credentials are tested before they are
  stored; no token of old credentials outlives them by more than its own life.
* **Aggregation**: the aggregates of an event are those of one state of its
  transactions; the timeline calls an event aggregated only when it is; jobs
  in the queue end.
* **Floor plans**: the document of a plan agrees with its rows, element by
  element, but where a request was broken off or crossed another; saving a plan
  twice does no more than once; no mapping is lost to a save of an old copy.
* **Recipe costs**: a stored cost that no client gave is the cost of the recipe
  as it is.
* **Selling prices**: every price an item has is in its history; prices change
  only where asked; what is mapped is shown, unless it slipped through in a way
  that can be named.
* **People**: rows, accounts and memberships of a person agree; an account that
  an administrator made is not left without a row; owners stay owners.

## 2. What is hard here

Every hazard is in `PROJECT.json` with its line and the properties that
watch it. The main ones:

* **Interleaving at every await.** The watcher compares counters that the
  collector and up to `PARALLEL_CHUNKS` workers move in separate updates; two
  writers each look for items and then insert them; two requests each look for
  a running job and then create one.
* **Two copies of one thing.** A plan is rows and a JSON document; the active
  Weezevent instance is a row and columns of the tenant; a role is in the
  `User` row and in the membership; a person is an account at Supabase and rows
  here. Each pair is written in separate calls.
* **Values carried across an await.** A user row read before a change is cached
  after the invalidation; a transaction fetched before a change is written
  after it; the cursor of a sync is the time it ended; a recipe is read, computed
  and written back; a column with the prices of all spaces is written whole.
* **Partial failure.** No database transaction spans the calls of a worker, an
  upsert or a batch, nor the row of an element and its entry in the document of
  the plan; Redis errors are swallowed by some calls (`get`, `setex`,
  `del`) and thrown by others (`acquireLock`, `releaseLock`).
* **Restarts.** Collectors, watchers, workers and webhooks being processed exist
  in memory only; the jobs of the aggregation queue are run again from the start
  by another pod.
* **Boundaries.** Exactly 500 answers may be a full or a truncated answer; the
  middle of an odd span; windows under one second; an incremental run reads one
  answer, and the rest of a longer one is never asked for.
* **Lost messages.** Redis Pub/Sub keeps nothing for a pod that reconnects.

## 3. Modules

| Module | Models | Composes |
|---|---|---|
| `SyncImport` | the abstract promise of an import | - |
| `SyncJob` | handlers, collector, watcher, chunk workers | implements `SyncImport` through `Import == INSTANCE SyncImport WITH ...` |
| `Bisection` | `fetchChunk` | the fetching that `SyncJob.CollectSave` leaves open |
| `IncrementalSync` | `syncTransactionsIncremental`, its cursor, reset | its `InsertPage` is a batch of `TransactionWrite`; its answers are those of `Bisection` |
| `TransactionWrite` | the four writers of one transaction | `Insert` of `SyncJob` and `InsertPage` of `IncrementalSync`, seen inside |
| `ImportProofs` | theorems about the four modules of an import | EXTENDS `IncrementalSync`, `TransactionWrite`, `SyncJob` and `Bisection` |
| `Catalogue` | events and products of one integration, the inbox of its webhooks | runs of events beside those of `IncrementalSync`; its webhooks start the upserts of `TransactionWrite` |
| `CatalogueProofs` | theorems about `Catalogue` | EXTENDS `Catalogue` |
| `WeezeventAccess` | instances, their mirror, token, retries and breaker | the calls that every sync makes, seen inside |
| `WeezeventAccessProofs` | theorems about `WeezeventAccess` | EXTENDS `WeezeventAccess` |
| `Aggregation` | job log, queue, processors, aggregates of one space | reads what the writers wrote |
| `AggregationProofs` | theorems about `Aggregation` | EXTENDS `Aggregation` |
| `FloorPlan` | the plans of one space, mappings of locations | - |
| `FloorPlanProofs` | theorems about `FloorPlan` | EXTENDS `FloorPlan` |
| `RecipeCosts` | ingredients, components, items and `refreshCosts` | - |
| `MenuPrices` | prices and history of items, product mappings | - |
| `MenuPricesProofs` | theorems about `MenuPrices` | EXTENDS `MenuPrices` |
| `Accounts` | users, memberships and accounts of organisations | its changes are those that `AuthCache` invalidates |
| `AccountsProofs` | theorems about `Accounts` | EXTENDS `Accounts` |
| `AuthCache` | `JwtDatabaseStrategy` and its invalidations | - |
| `CacheProofs` | theorems about `AuthCache` and `RecipeCosts` | EXTENDS both |
| `MC*` | constants for TLC | EXTENDS the module it is named after |

Throughout, one action is one call that is awaited, together with the
synchronous code up to the next one. A definition commented `MUTANT of X` is a
plausible mistake in `X`; no specification uses it. Replacing `X` by it makes
the property it is listed with fail, which shows that the property depends on
that line of the code. Variables whose comment begins with `history:` have no
counterpart in the code: they record what the properties except by name.

### SyncJob

| State | Code |
|---|---|
| `job`, `chunk` | the two tables; a deleted or absent row is `"absent"` |
| `delivered` | chunks whose transactions have been inserted |
| `request`, `deletion` | how far `startSyncJob` and `deleteSyncJob` are |
| `collector`, `saved` | `WeezeventCollectWorkerService.start`, chunks it stored |
| `watcher`, `worker` | `WeezeventInsertWorkerService.watch`, `processChunk` |
| `old` | jobs that `deleteSyncJob` finds older than two minutes |
| `org` | integrations with an `organizationId`, which `start` requires |

`CollectSave` and `CollectTally` are the two calls of `saveChunk`: a chunk can
be picked, inserted and counted before `totalChunks` knows of it. `WatchPoll`
takes the oldest PENDING chunks and starts their workers, `WatchJoin` is the
`Promise.all`. `Claim` is the conditional `updateMany`. Each actor has a
`...Throws` action for a failing call and a `...Gone` action for a row deleted
under it; their catch blocks are `CollectFail`, `WatchFail` and `Abort`, whose
own failing updates are `...FailThrows` and `AbortThrows`. `Restart` forgets
every promise and keeps the tables. A call that throws has changed no table: the
case of an update that commits and whose answer is lost is not modelled.

`SyncImport` knows nothing of this: a job is open, closed, completed or dropped,
pages are collected while it is open and delivered in any order, and it is
completed when all are delivered. FAILED has no counterpart there, because
`CollectBegin` may overwrite a FAILED that the watcher wrote.

### Bisection

`todo` is the call stack of `fetchChunk`, the leftmost range first. The answer
of Weezevent (`Answers`) is every matching transaction when they are fewer than
the cap, and any `Cap` of them otherwise. `SaleMade` adds a transaction between two
calls, with any `created_at` of the instance: a till that was offline delivers
old sales late. The specification is `FetchSpec` and its type invariant
`FetchTypeOK`: the modules that `ImportProofs` extends share no name.

### IncrementalSync

| State | Code |
|---|---|
| `created`, `returned`, `validAt` | sales at Weezevent: made, returned by the API, with status V; -1 is "not yet" |
| `stored` | rows of `weezeventTransaction` |
| `cursor` | `weezeventSyncState.lastSyncedAt` |
| `run` | the local variables of each run: its range and its batch |
| `cut`, `outside`, `slowest` | history: what full answers left out, what the dates of requests excluded, the longest time from an answer to the end of its run |

There is no paging: an answer is an array of at most `AnswerCap` (500)
transactions, the client reports `total_pages: 1` for it
(`weezevent-client:71-82`; `weezevent-collect-worker:6-8` says that Weezevent
never gives more), so the loop of a run ends after its first answer
(`FetchPage`) and `maxItems` stops nothing. An answer (`Answered`) is all that
matches when that is less than the cap, and any `AnswerCap` of it otherwise, as in
`Bisection`. A sale is made (`Sale`), returned some time after (`Appear`: a till
may be offline) and becomes valid some time after that (`Validate`); only valid
ones are inserted. `Unreadable` are the transactions whose row the batch cannot
make, which it counts and leaves out. The clock runs freely: a run takes as long
as it takes. `RunThrows` is any failing call and a restart alike: the cursor stays
where it was. `Reset` is `resetSyncState`; `purgeData` is not modelled (section
7). The specification is `SyncSpec` and its type invariant `SyncTypeOK`.

### TransactionWrite

One transaction, as a version number that grows at Weezevent. `step[w]` is the
next call of writer `w`; `got`, `known` and `target` are its local variables.
`createMany` writes all or nothing, so the rows of one version are one item and
the payments of one row one payment. `Valid` are the versions with status V,
the only ones that a batch inserts; the upsert takes all. The specification is
`WriteSpec` and its type invariant `WriteTypeOK`.

### AuthCache

One user. `version` numbers the changes of the row and `since[v]` says how long
ago version `v` was replaced. `redis`, `local`, `lock` and `pending` are the
Redis key, the map of each pod, the Redis lock and `pendingLookups`; an entry
carries the seconds it has left. A request chooses a pod and goes through the
steps of `validate`. Changes come in three kinds, as in the code: `ChangeUser`
(users, roles, me) is followed by the whole of `invalidateUserCache`,
`ChangeTenant` (suspend, reactivate) deletes Redis keys only, and
`ChangeSilently` (`deleteOrganization`) invalidates nothing.

### Catalogue

| State | Code |
|---|---|
| `event`, `product` | versions at Weezevent; the changes of the event are the clock |
| `eventRow`, `productRow`, `parts` | the rows; `eventRow` has its `syncedAt`, `parts` are variants and components |
| `cursor` | `lastSyncedAt` of the sync state of events |
| `inbox` | `weezeventWebhookEvent` |
| `at`, `kind`, `full`, `list`, `known`, `stamp`, `fetched`, `part` | the local variables of a run or of a webhook being processed |

A run of events asks for the state, the rows and the list, leaves out rows whose
`syncedAt` is later than the event's `updated_at`, and upserts the rest. A run of
products compares fingerprints, upserts what has changed and then fetches and
replaces variants and components, whose failures are caught per part.
`BatchUpsertEvent` and `BatchUpsertProduct` are the stubs that a batch of
transactions writes in between. A webhook is stored, answered, and handled by a
promise of its own; `Restart` forgets runs and webhooks alike.

### WeezeventAccess

| State | Code |
|---|---|
| `inst`, `made` | `WeezeventIntegration` by `createdAt` |
| `tenant` | `weezevent*` columns of the Tenant row: usable credentials or none |
| `at`, `req` | a request of `IntegrationsController` and what it has read |
| `cache` | `tokenCache` of the organisation, with the ticks it has left |
| `call` | a call of `WeezeventApiService`: its token, attempt and age |
| `breaker` | the state of opossum, which is external |

`FindActive` and `WriteColumns` are the two calls of
`mirrorActiveInstanceToTenant`, which follows every change. The older interface
for one instance (`UpdateConfig`) and the tenants' own (`UpdateTenant`, which
writes the columns and no instance) are there too. `stale` says for how long the
credentials of a token have not been in the Tenant row.

### Aggregation

| State | Code |
|---|---|
| `sold` | the state of the transaction tables, as a number; `Sold` says which groups an event has in each |
| `rows`, `daily` | the two tables; a row has its group, the state it was computed from and the job that wrote it |
| `job`, `logged` | `aggregationJobLog` |
| `queue`, `held`, `stalled` | the BullMQ queue, the job each pod holds, jobs whose pod died |
| `at`, `todo`, `current`, `success` | the local variables of `executeProcessEvents` or `executeSynchronize` |

The delete, the insert and the daily insert of an event are three calls, and the
two jobs, or one job handed to a second pod, may interleave them. A row of
`NullKeys` has no location, so that `ON CONFLICT` never finds it.

### FloorPlan

| State | Code |
|---|---|
| `where`, `floors`, `used` | `SpaceElement` with its parent, `Floor`, ids given |
| `json`, `version` | `Config.data` and `Config.version` |
| `mapping` | `WeezeventLocationShopMapping` |
| `lock` | the row lock of the transaction of `saveConfiguration` |
| `at`, `op`, `seen`, `tries`, `draft` | a request of the integration page in `updateConfigDataOptimistic` |
| `copy`, `look` | the plan in the 3D builder, and what its transaction has read |

A request of the page looks for the row of its floor (`Target`), makes it if
there is none (`MakeFloor`), makes or moves the element (`MakeElement`,
`MoveElement`), reads the document and its version (`ReadData`), and writes it where
the version is the same (`WriteData`); after the last retry it writes in any case.
These are calls of their own and nothing undoes one when a later one fails: any
may be the last (`BreakOff`). `apart` are the elements whose row and document may
differ, with the step that set them apart; a move or a save of an element puts it
right again. A save runs in one database transaction: what it reads (`look`) and what
it writes are two steps, since the isolation level lets others in between. A
save is `Look`, what it reads, and `Saved`, what it leaves, made of the parts
that `saveConfiguration` numbers: the ids of the payload (`Placed`), the prune of
elements and floors (`Pruned`, `Cut`) and the document kept (`Stored`). The
specification is `PlanSpec` and its type invariant `PlanTypeOK`.

Simpler than the code: a request moves one element, where the endpoints take a
list; the functions that change the document read the rows of their elements
before `updateConfigDataOptimistic` reads the document, which `ReadData` joins;
two floors of one level are one (`getConfiguration` merges them), and one that is
deleted and drawn again is the same; the rows of the zones themselves are there
with their plan.

### RecipeCosts

| State | Code |
|---|---|
| `life`, `price`, `lines`, `children`, `parts` | the tables of ingredients, components and items |
| `cost` | the stored `unitCost` and `totalCost` |
| `at`, `kind`, `todo`, `result` | a refresh: what is left, and what it has computed for the first |
| `replaced` | lines that somebody replaced since the refresh read them; writing to them throws |
| `stale`, `unseen`, `blind` | history: costs that a client gave or whose inputs changed, since stored or since read; costs written although the recipe had changed |

A refresh reads the recipe, computes in further queries, and writes the lines by
the ids it has read and then the cost. A client may give a cost as well:
`CreateComponent`, `SetUnitCost`, `BulkCreate` (and `create` of an item without
lines) and `SetTotalCost` store it and refresh nothing; `SaveComponent` and
`SaveItem`, which have lines, store it and then refresh. `ReviveItem` is what a
product mapping does to a deleted item. `RefreshComponents` of all components
does so one by one; `Throws` is the unit-cost recursion meeting a cycle.
`UnitOf` is that recursion on the rows of a component and of what lies below it
(`Below`, `Row`), as a function of the stack and the component. The
specification is `RecipeSpec` and its type invariant `RecipeTypeOK`.

### MenuPrices

| State | Code |
|---|---|
| `life`, `base`, `spaceIds`, `prices` | `MenuItem` |
| `history` | `MenuItemPriceHistory` |
| `mapping`, `place` | product mappings and location mappings |
| `sales` | prices observed in transactions |
| `at`, `req` | a request and what it has read: the items, and what they are to become |

The three ways of applying a price share their resolution (`Observed`, `Latest`,
`Inherited`) and differ in what they write and in which
transactions. Removing an item hides it and purges its mappings in a second
call; `bulkProductMappings` (`MapProducts`) revives it in a first one, and
`POST products/:productId/map` (`MapProduct`) maps it whether it is deleted or not.
`crossed` are the pairs of a product and an item that may map a deleted one:
about to be written when the item was removed, left by a purge that failed, or
asked for through the second interface. Reviving the item ends all three.

### Accounts

| State | Code |
|---|---|
| `account`, `live`, `signedIn` | Supabase accounts and tokens |
| `row`, `member` | `User` and `UserTenant` |
| `org`, `custom` | `Tenant` and its own `Role` |
| `at`, `job` | a request and what it has read |

Ids are given in order and never again, as Supabase does. An action is one call
to Supabase or one database call (a `$transaction` is one); those that throw are
`...Fails`, those that a unique key or a foreign key refuses are `...Refused`.
Deleting a row cascades as the schema says (`DropUsers`, `Without`).

## 4. Runs

| Run | Module, configuration | Instance | States | Shows |
|---|---|---|---|---|
| `sync_job` | `MCSyncJob` | 1 job, 3 chunks, 2 in parallel, 2 faults, 1 restart | 148,110 | implements `SyncImport` (a completed job has delivered all); FAILED stays; undisturbed jobs end |
| `bisection` | `MCBisection` | 5 transactions in 0..7, cap 2, smallest window 2 | 6,646 | tiling, nothing lost, termination |
| `incremental_sync` | `MCIncrementalSync` | 2 sales, one unreadable, 2 runs, 3 requests, cap 1, overlap 1, clock to 2 | 5.5 M | what the cursor leaves behind was passed over in one of four ways |
| `transaction_write` | `MCTransactionWrite` | chunk worker, incremental run, 2 upserts, 3 versions, 1 fault | 1.0 M | items match, are repaired; rows do not go back |
| `catalogue` | `MCCatalogue` | 2 runs, 1 webhook, 1 change of each kind, 2 starts, 1 fault or restart | 1.0 M | when events and products are as at Weezevent; webhooks end |
| `weezevent_access` | `MCWeezeventAccess` | 2 requests on 2 instances, 5 bodies, 1 call with 2 attempts | 1.1 M | the mirror follows; credentials are tested; tokens expire |
| `aggregation` | `MCAggregation` | 2 jobs, 2 pods, 1 event, 2 groups (one without location), 2 states, 1 fault | 0.6 M | one snapshot per event; what is shown as aggregated is; queued jobs end |
| `floor_plan` | `MCFloorPlan` | 1 plan, 2 levels, 2 elements, 1 location, 2 page requests and 1 builder, 1 retry | 1.7 M | where rows and document may differ; a save settles; mappings are kept |
| `recipe_costs` | `MCRecipeCosts` | 1 ingredient, 2 components, 1 item, 2 costs, 2 clients, 3 requests | 0.9 M | stored costs are current, but those a client gave |
| `menu_prices` | `MCMenuPrices` | 1 item, 2 products, 2 spaces, 1 location, 2 clients, 3 requests, 1 sale, failing calls | 1.9 M | prices are archived; mapped items are shown; other prices stay |
| `accounts` | `MCAccounts` | 2 requests at a time, 4 in all, 4 accounts, 2 organisations, 2 addresses, 1 fault | 1.6 M | records of a person agree; no orphans; owners stay |
| `auth_cache` | `MCAuthCache` | 2 pods, 2 requests, 1 change, 1 fault | 2.3 M | bounds on staleness, and what an invalidation does |

Where a type invariant or another invariant is proved (section 5) the run does
not check it again: `FetchTypeOK` of `Bisection`; `SyncTypeOK` of
`IncrementalSync`; `WriteTypeOK` of `TransactionWrite`; `TypeOK` of `SyncJob`,
`Catalogue`, `Accounts` and `AuthCache`;
`CompletedMeansDelivered` and `CountersSound` of `SyncJob`; `NoTransactionTwice`
of `Bisection`; `ItemsNotLost` of `TransactionWrite`; `OneLookupPerPod` and
`OneLockHolder` of `AuthCache`.

### Bounds, and why they are enough

* `sync_job`: three chunks with two workers give a batch in which one worker is
  late and a further chunk that waits for the next batch. Two faults allow one
  in a body and one in its catch block, or in two actors. Jobs do not interact
  except through `Running`, which only decides whether a request is accepted,
  so one job is enough; the proofs lift these bounds altogether.
* `bisection`: a range of eight instants is cut through spans of 7, 3, 2 and
  1, odd and even; three sales in two neighbouring instants exceed the cap of
  two in a window that cannot be cut.
* `incremental_sync`: one place in an answer for two sales, so that one is cut;
  one of them cannot be read, so that it fills the place and is never stored. With
  an overlap of 1 and a clock that goes to 2 a sale is behind a cursor of 2, and the
  time it takes to become valid and the time the run takes are each within the
  overlap while their sum is not. Two runs overlap in every way, with a request of
  the crons, a forced one with a first date and a manual one with a last date.
* `transaction_write`: versions 1 and 2 are valid and 3 is not, so that a
  transaction is modified and cancelled while it is written. Four writers, one
  of each kind that may meet another and two upserts, each run once.
* `auth_cache`: the lifetimes keep the order of the code's (local 15 s < Redis
  300 s; a lookup shorter than the lock's 5 s). One change at a time, one change
  in all: older versions are equally stale. `MaxCall` bounds how long a request
  or an invalidation takes, which the code does not; with lookups longer than
  `LockTTL` two requests may hold the lock, and `OneLockHolder` says so.
  `MaxFaults` counts failing Redis calls, lost broadcasts and changes that
  invalidate nothing.
* `catalogue`: two runs of the same kind overlap in every way, or one with a
  webhook or a reset; one change of the event, of the fields of the product and
  of its details each falls between any two calls of them. The tables are empty
  at first, or as a nightly run leaves them.
* `weezevent_access`: two instances so that another becomes the active one; the
  five bodies name both credentials, either half, or only `enabled`; of the four
  pairs of credentials Weezevent knows three, so that a wrong pair can be put
  together from two halves. Two attempts instead of three: what an attempt does
  depends on whether it is the last. A call lasts one tick and a token two, so
  that a token is fetched, grows old and is used on its last tick; `MaxCall` is
  finite because each attempt has a timeout (15 s), there are three, and the
  request for a token is bounded by the HTTP client's timeout of 10 s.
* `aggregation`: two jobs, each of which may be a rebuild, two pods of which one
  may die holding a job, and a table that changes once. One event: jobs treat
  events one after the other, and the order of two adds no interleaving on one.
* `floor_plan`: two page requests race for the document and the builder for
  both, and either may be broken off at each of its calls; with one retry the
  last, unconditional, attempt is reached. Two levels let an element move, two
  elements let one be new. One location: mappings of different locations do not
  meet but by their element.
* `recipe_costs`: a chain of item, component, sub-component and ingredient, the
  shortest in which a cost passes through two refreshes; the components can form
  a cycle. One of them has the older JSON price.
* `menu_prices`: two products with different prices compete for one item, two
  spaces show whether a price leaks; `Chunk` is 1, so that the backfill breaks
  off between two writes.
* `accounts`: two of the four requests run at once, the others before or after
  them; four accounts are enough for a founder, an invited person, her second
  account, and one more.

`CHECK_DEADLOCK` is FALSE in every configuration: once every job has ended and
the bounded counters have been spent nothing is left to do, in the models as in
the program.

### Fairness

`SyncJob`, `Bisection` and `Aggregation` have liveness properties. A promise
that has been started goes on as long as its process lives, because the event
loop starves none and every call it awaits returns or throws: weak fairness of
each collector, watcher and worker, and of `Collect` in `Bisection`. A processor
of BullMQ takes the next job of its queue as soon as it has none, and a stalled
job is put back: weak fairness of each processor's `Process`. Nothing obliges a
request to come, a fault to happen or stop, a server to restart or an
administrator to act. `UndisturbedJobsEnd`, `CollectionEnds` and `QueuedJobsEnd`
assume no more.

## 5. Proofs

Eight modules hold proofs. Each theorem is about every value of the constants
that satisfies the named assumption of its component's module, and nothing else
is assumed.

### ImportProofs: IncrementalSync

For any sales, unreadable ones, runs, requests, overlap, cap and end of the clock
(`IncrementalSyncAssumption`):

| Theorem | Says |
|---|---|
| `IncrementalTypeCorrect` | `SyncSpec => []SyncTypeOK` |
| `CursorForgetsNothing` | `SyncSpec => []NothingForgotten` |

`SyncTypeOK` (the cursor is no later than the clock, rows are of valid sales)
needs `BatchesValid`, the same of the batch a run is holding.

`NothingForgotten` is about the cursor, which is the end of some run, so the
invariant `LeftBehind` says what each run knows of the sales it is about to leave
behind. `Asking`: before Weezevent has answered, every sale earlier than the range
is stored or passed over already, or excluded by the request's own dates; and the
range begins no later than now, unless the request says so. `Answering`: afterwards
every sale is `Accounted` for: stored, passed over, left out by the answer or by the
dates, in the batch, or valid only after the answer. At the commit the third and
fourth become `cut` and `outside`, the fifth has been stored, unless unreadable, and
the last is a matter of dates: a sale that became valid after the answer and is
before the cursor less the overlap took, together with the time from answer to
commit, longer than the overlap. `Onward` is what no step undoes: a sale that was
stored or passed over stays so, and delays only grow (`DelayGrows`). No assumption
is made about how long a run takes or what a request asks for.

### ImportProofs: TransactionWrite

For any number of writers of any kinds, any versions, any set of valid ones,
any rounds and faults (`TransactionWriteAssumption`):

| Theorem | Says |
|---|---|
| `WriteTypeCorrect` | `WriteSpec => []WriteTypeOK` |
| `WriteKeepsItems` | `WriteSpec => []ItemsNotLost` |
| `WriteItemsMatch` | `WriteSpec => []ItemsMatchRow` |
| `WriteRepairs` | `WriteSpec => UpsertRepairs` |
| `WriteNeverOlder` | `WriteSpec => RowNeverOlder` |

The invariant `WInv` has `Fetched` (a writer holds a version that Weezevent has
returned), `RowFromRemote`, `Alone` (as long as no two have overlapped one
writer at most is at work, and the row is not newer than what it is about to
write) and `ItemsOnTheWay` (if nothing threw, a row without items has a writer
between deleting or missing them and inserting them).

For the items of writers that take turns, `Turns` says what each leaves of its
two tables between two calls, in two parts: `Repairing` of an upsert, which holds
whatever it found and is why an upsert repairs what faults have left, and
`Importing` of a batch, which relies on the tables being in order, so only while
nothing has thrown. `Rows` adds that items are below a row.

### ImportProofs: SyncJob

For any sets of jobs and integrations and any number of chunks, parallelism,
faults and restarts (`SyncJobAssumption`: every request has an integration, the
bounds are naturals, the parallelism is positive):

| Theorem | Says |
|---|---|
| `TypeCorrect` | `Spec => []TypeOK` |
| `CompletedIsDelivered` | `Spec => []CompletedMeansDelivered` |
| `CountersAreSound` | `Spec => []CountersSound` |
| `SyncJobImplementsImport` | `Spec => ImplementsImport`: the workers implement `SyncImport` |
| `FailedStaysFailed` | `Spec => FailedNeverCompletes` |

`CompletedMeansDelivered` is not inductive: the watcher writes COMPLETED after
comparing two counters, and nothing in the property says what a counter counts.
The inductive invariant `IInv` adds it, in named parts:

* `ChunkRows`: the chunk rows are those the collector stored;
* `CollectorCounts`: `totalChunks` is `saved`, less one between the two calls
  of `saveChunk`, and exact once `collectDone` is set;
* `WorkerKnows`: a worker lives in a batch and knows its chunk's status, and a
  chunk that is DONE has been delivered;
* `ProcessedCount`: `processedChunks` is at most the number of DONE chunks
  whose worker has nothing left to count, `Settled`: the set, not the counter,
  is what each step is compared with, and a step that counts moves one chunk
  into it;
* `Completion`: the comparison the watcher made is still true when it writes.

From these: `processed >= total = saved` and `processed <=
Cardinality(Settled)` with `Settled` a subset of `1..saved` force `Settled =
1..saved` (lemma `AllCountedMeansDelivered`, with the cardinality theorems of
the library). There is one lemma per action for the invariant, and one per
actor for the refinement.

`FailedStaysFailed` relates two moments, and FAILED itself is not stable: the
collector may overwrite it. What is stable is `Doomed`: the job is not
COMPLETED and either its watcher is gone, or its collector is gone without
having set `collectDone`, without which the watcher never completes. A job is
Doomed whenever it is FAILED, and no step ends that.

### ImportProofs: Bisection

For any finite set of transactions, any range (also one that ends before it
begins), any cap and any smallest window of at least two
(`BisectionAssumption`):

| Theorem | Says |
|---|---|
| `BisectionTypeCorrect` | `FetchSpec => []FetchTypeOK` |
| `BisectionTiles` | `FetchSpec => []Tiling` |
| `BisectionWithoutDuplicates` | `FetchSpec => []NoTransactionTwice` |
| `BisectionLosesNothing` | `FetchSpec => []NothingEarlyLost` |

`Tiling` is nearly inductive: only an empty range has to be set apart
(`EmptyRange`), and the arithmetic is that of the cut, `Mid`: for a
span of at least two the middle leaves two ranges that are not empty. The
other two need more than neighbouring ranges: `Apart` (any two chunks, and the
frontier after them), `InRange` (a chunk holds transactions of its own range)
and `PastKept` (a transaction that existed at the start and lies before the
frontier is in a chunk, or in the window of a truncated one).

### FloorPlanProofs

For any plans, elements, locations, requests, builders, retries and edits, with
finitely many levels, one of them the ground floor, none of them a zone
(`FloorPlanAssumption`):

| Theorem | Says |
|---|---|
| `PlanTypeCorrect` | `PlanSpec => []PlanTypeOK` |
| `MappingsAreKept` | `PlanSpec => MappingsKept` |
| `JsonIsFollowed` | `PlanSpec => []JsonFollowsRows` |
| `SavesDoSettle` | `PlanSpec => []SaveSettles` |

`PlanTypeOK` says more than types: an element on a level has the row of its
floor, a mapping leads to a row (the foreign key), and the row lock of a plan is
held by the one builder that is saving it. Its invariant `TypeInv` adds what a
builder's copy may be (`WellFormed`: an element on a level is on a level of the
copy, one without an id is not in the merch zone), what a request knows at each
step (`AskedWith`) and that one save of a plan runs at a time (`Alone`).

For mappings, `Spared` says what a save or a removal has found out and still
relies on when it deletes: an element that is mapped and has neither been mapped
nor moved since (`late`) is protected, or on a floor that is kept.

For the two copies of a plan, `DocInv` has a part for each kind of client. `InStep`
is the property while requests are under way: an element that is not `apart` is
shown where its row is and on no second floor (`Whole`), or some request `Wants` it
there. Of such a request (`ForRequest`): the row is still where it has put it
(`OwnsBy`), and an element it has made is on no other floor (`SingleBy`); what it is
about to write shows its element at that place (`DraftBy`), and all others as the
document does now, if it has seen the latest version, but for those that a save or a
deletion changed since (`OthersBy`): this is where the optimistic lock is used, and
the last, unconditional, attempt excepted. `RemovedBy`: a removal takes the row
before the document. `ReadsBy`: a save has read every row on a level of its plan,
and will reconcile or delete it, unless a request has come since. A row is written
in one place of the proof (`DocRow`, for `MakeElement` and `MoveElement`), a document
in another, and a save in a third; a request that is broken off sets its element
apart, which each part exempts.

`SaveSettles` is about one state, and the proof about the operators: for a plan
as loaded nothing is orphaned or cut (`RelookIs`), the first save gives ids to
none that the second does not find (`SavedOnce`), so the second changes nothing
(`SavedTwice`).

### AggregationProofs

For any events, groups, jobs, processors, states of the sales and faults
(`AggregationAssumption`):

| Theorem | Says |
|---|---|
| `AggregationTypeCorrect` | `Spec => []TypeOK` |
| `EventsHaveOneSnapshot` | `Spec => []OneSnapshotPerEvent` |
| `RebuildsLeaveNothingOld` | `Spec => []RebuildLeavesNothingOld` |
| `TimelineIsTrue` | `Spec => []ShownAsAggregated` |

The invariants come in layers, each relying on those before. `Alone`: unless two
have overlapped, whoever has deleted the rows of an event is the only one, and
they are still gone, so that an insertion writes all there is of the event.
`Known`: a job that waits or is held has been asked for, and no job was asked for
in a state of the sales still to come. `Rebuilds`: a rebuild past its deletion,
completed or not, has nothing older than its request in either table, for
whatever is written later is newer. `Apart`: a job is in the queue once or held
once, also after a pod has died. `Work`: what a processor has in hand is of its
job, and it ends with nothing left to do.

`Undisturbed` is what holds as long as no call has thrown. When a job has been
past an event (`Treated`), its rows are those of a state no older than the
request of the job (`Current`), or have just been deleted by somebody who is
about to write them again (`Cleared`), or another job that is not completed has
still to come to it (`Awaited`). A rebuild that starts, which deletes the rows
of all events, and a pod that dies between deletion and insertion both turn the
first two into the third; the end of a job turns none of them into the claim
that nothing is left. When no job is under way only the first is possible.

### CatalogueProofs

| Theorem | Says |
|---|---|
| `CatalogueTypeCorrect` | `Spec => []TypeOK` |
| `WebhooksAreEnded` | `Spec => []WebhooksEnd` |
| `EventsAreFollowed` | `Spec => []EventsFollow` |
| `ProductsAreFollowed` | `Spec => []ProductsFollow` |

`WebhooksEnd` is inductive with `TypeInv`, the types of the variables that a
webhook touches: a webhook leaves `at` only by a call that has marked its row or
by one of the failures the property names. `TypeOK` also needs `Answered`: what
a run inserts for a part is what `GetDetails` has stored in `fetched`.

For events, `EventInv` says that a row is never ahead of Weezevent, and looks as
new as the event only if it shows it or if older data got its `syncedAt`; a run
that was not disturbed holds the event as it is, and where it skips the row, the
row said so (`Listed`). For products, `ListedProduct` says the same of the
fingerprint and `PartsFollow` what comes after it: as long as nothing was
disturbed, each part of a current row is as at Weezevent or some run is about to
replace it, with the right answer (`Replacing`).

### MenuPricesProofs

For any items, products, spaces, prices and clients, with finite sets of items
and of spaces (`MenuPricesAssumption`):

| Theorem | Says |
|---|---|
| `PricesTypeCorrect` | `Spec => []TypeOK` |
| `MappedAreShown` | `Spec => []MappedItemsAreShown` |
| `PricesKeptArchived` | `Spec => []PricesAreArchived` |
| `OnlyAskedMove` | `Spec => OnlyAskedPricesMove` |

For mappings the invariant is `TypeInv` (the types of items, mappings and steps),
`InFlight` (the item that a request is about to map a product to is not hidden,
unless that pair is `crossed`: the item was removed amid the request, or was
deleted when the second interface was asked) and `LeftBehind`, which says the
property of each pair.

For prices, `PricesInv` follows a price from what a request has read to the list
of its writes: `Asked` (a request holds what it was asked and what it computed),
`Backed` (a price that was read is archived, and one that is to be written has
its history row before it in the list, or in the same transaction) and `Fitting`
(what is to be written differs from the table only as asked, unless somebody else
has written the item since it was read). A list of writes is executed in chunks;
which write of a list decides a column is that of the greatest index, so that no
induction along the list is needed.

### CacheProofs, part one: AuthCache

| Theorem | Says |
|---|---|
| `CacheTypeCorrect` | `Spec => []TypeOK` |
| `LookupsAreShared` | `Spec => []OneLookupPerPod` |
| `LockIsExclusive` | `Spec => []OneLockHolder` |
| `StalenessIsBounded` | `Spec => []StalenessBounded` |
| `StalenessAfterInvalidation` | `Spec => []UndisturbedStaleness` |
| `InvalidationLeavesNothing` | `Spec => []InvalidationWorks` |

`Carried` (who is about to store a value has read one; the idle are on no pod),
`Led` (`pendingLookups` of a pod is the promise of the one request that looks up,
and whoever shares it finds it) and `Locked` (if lookups are shorter than the
lock, who has acquired it is the one the key names, and the life the key has left
covers the rest of the lookup) make the first three inductive. `Aged` adds the
arithmetic of the bound: whatever the
place of a copy, its age plus what is left of its lifetime does not exceed what
that place allows, so that a step from request to Redis, to a map, to an answer
adds at most one term.

The other two are about invalidations that worked. `Undisturbed` says where an
old version may still be: in Redis, or with a request that reads, only while the
row has been changed and the key not yet deleted (`Exposed`), and in the map of a
pod only as long as its entry lives or until it handles the broadcast. `Reads` and
`NotAhead` say that what a lookup hands on is no older than its request and never
newer than the row.

### CacheProofs, part two: RecipeCosts

| Theorem | Says |
|---|---|
| `RecipeTypeCorrect` | `RecipeSpec => []RecipeTypeOK` |
| `CostsAreCurrent` | `RecipeSpec => []StoredCostIsCurrent` |

`RecipeInv` adds to the types what a request holds at each step (`Shape`) and
that lines are only of things that exist or did (`Known`): that is why creating
an ingredient or a component moves no cost. `Current` is what makes
`StoredCostIsCurrent` inductive, and it does not wait for quiet: every stored cost
is that of the recipe unless it is stale (a client gave it, or an input changed) or
was written blindly; what a request
is about to write (`ResultCurrent`) and the totals it has read (`TodoCurrent`)
are those of the recipe unless an input has changed since (`unseen`) or lines
were replaced (`Touched`). When a write finds all its lines, none of a kind it
knows was replaced; so it either writes the current cost or is blind.

The cost of a component is a function of the rows of the components below it and
of nothing else (`UnitKept`), that of an item one of what it counts (`TotalKept`);
every change then only has to show that it marks all above what it touched
(`Marked`). That costs are naturals (`UnitOfIsCost`, `SumIsNatural`) is an
induction on the components not yet on the stack and on the terms of a sum; it is
done by taking a least counterexample (`LeastNatural`), and needs that the
recursive functions exist at all, which is shown the same way (`UnitsHigh`,
`SumsSmall`). Finitely many ingredients and components are assumed, and the
assumption on `Catalogues` says that what exists at first refers to what exists.

### AccountsProofs

| Theorem | Says |
|---|---|
| `AccountsTypeCorrect` | `Spec => []TypeOK` |
| `NoOrphansRemain` | `Spec => []NoOrphans` |
| `RowsKeepAccounts` | `Spec => []RowsHaveAccounts` |
| `MembershipsFollowRows` | `Spec => []MembershipFollowsRow` |
| `OwnersAreKept` | `Spec => OwnersStay` |

`Typed` is `TypeOK` with `Fitting` (what a request has read fits what it does)
and `Rows` (ids not given yet have no rows). For `NoOrphans`, `Watched` says
that an account without a row has a request that is going to make the row or take
the account back, and `TornDown` that a reinvitation drops rows only after it has
deleted the account, or failed to. For `OwnersStay`, `OwnersKnown` says that an
owner has signed in and is an ADMIN, `Signed` that whoever opens an organisation
has signed in, and `Warned` that a request which is about to take something from
an owner has either found that out (and then stops, or was told to go on) or
gives the role ADMIN.

The other two are about two records of one person, so about what a request has
read of her and then relies on. A person whom no two requests were handled for at
once is left alone meanwhile (`Noticed`): the account that is about to get a row
is there (`Alive`), and one that is about to be deleted has no row (`Rowless`).
For the role, `InPlace` says that the row is still in the organisation that the
request has found it in, and `OneWritten` that between the two writes of a change
only the membership is behind.

### WeezeventAccessProofs

For any client ids and secrets, any bodies, and any number of requests,
instances, calls and attempts (`WeezeventAccessAssumption`: no client id or
secret is one of the two marks of the model, and the bounds are naturals, all
but two of them positive):

| Theorem | Says |
|---|---|
| `AccessTypeCorrect` | `Spec => []TypeOK` |
| `MirrorIsFollowed` | `Spec => []MirrorFollows` |
| `CredentialsAreTested` | `Spec => []CredentialsTested` |
| `TokensDoExpire` | `Spec => []TokensExpire` |

The requests that change instances and the calls of the API meet in the Tenant
row only, and the invariant has a part for each. `AdminInv` says of a request
which steps its kind comes to (`Fits`), that what it has tested is what it is
going to store, unless the row from which it takes the other half has changed
(`Checks`), and that the active instance it has found is still the active one,
unless another request has changed one since (`Mirrors`). `Mirrored` is what
`MirrorFollows` needs: as long as the row is behind, somebody is about to write
it. `CallInv` adds up ages: what a call has read is no older than the call while
it fetches a token (`Calling`), a token in the cache has spent of its life what
it has aged beyond that (`Caching`), and a call that fires has its own age on
top.

### Only model-checked

For the instances of section 4, because they are out of the prover's reach:
`UndisturbedJobsEnd`, `CollectionEnds` and `QueuedJobsEnd` (liveness). What a
cost adds up to for every tree of components is induction over data and is not
stated as a theorem: `CostsAreCurrent` says that what is stored is what
`UnitCost` and `Total` give, not what these give.

## 6. What the code does, although one might expect otherwise

The models follow the code in all of these, and the properties name them as
exceptions; they are collected here for whoever changes the code. Lines are of
the file named last.

Imports and transactions

* A chunk that fails is never counted (`weezevent-insert-worker:46`, `:108`), so
  the watcher polls for ever and the job stays COLLECTING until it is deleted;
  `weezevent.controller:1607` expects that only of restarts.
* Two requests for an import both pass the check for a running one
  (`weezevent.controller:1409`), and a PENDING job is not seen at all.
* Looking for items and creating them are two calls on a table without a unique
  key: two writers double the items (`weezevent-incremental-sync:831`).
* An incremental run drops the transactions it knows (`:292`) before the code
  that would backfill their items (`:759`).
* A run reads one answer of at most 500 transactions (`weezevent-client:79`,
  `weezevent-collect-worker:6`), stores it and moves the cursor to now (`:336`):
  of a longer list the rest is asked for by no later run, although the comment on
  the first run says "fetch ALL transactions" (`:255`). `hasMore` is never true,
  so that `weezevent-cron:65`, "More transactions available, will continue next
  run", is never logged, and `maxItems` stops nothing.
* A run with an end date moves the cursor to now all the same, and a run moves it
  whatever errors it counted (`:806`). The cursor is the moment a run ends, not the
  one it asked: a run longer than the overlap leaves a gap. A reset during a run is
  undone by it (`:906`).
* The jobs for orders, prices and attendees that the REST interface queues name
  no integration, without which `data-sync.processor` throws (56-58).
* A deletion that a webhook reports only touches `syncedAt`
  (`webhook-event.handler:157`). Nothing processes a stored webhook again.

Events, products, orders

* `updated_since` is never sent (`weezevent-client:210`), and one page of events
  or products is read.
* Every batch of transactions renews the `syncedAt` of its event
  (`weezevent-incremental-sync:689`), so that incremental runs skip the event
  although it has changed (`:524`).
* The fingerprint of a product is stored before its variants and components, and
  does not cover them (`catalog-sync:305`): a change of these alone is never
  fetched.
* An order is stored under Weezevent's id of its event where the foreign key
  wants the row's; the error is swallowed (`queued-entity-sync:155`).

Access to Weezevent

* There is one token per tenant, of its first enabled instance: syncs of every
  other instance use it, with their own organization id.
* The older interface stores one half of the credentials untested
  (`integrations.controller:106`); the tenants' interface writes the columns
  without the instances, and a secret unencrypted.
* A 401 that arrives late clears a newer token; a retry keeps the old one. The
  rejected requests of one tenant open the circuit breaker for all.

Aggregation

* A job is `completed` although events failed (`aggregation.service:336`);
  inserting rows without a location twice doubles them.
* `weezevent-cron:302` passes the type of sync where the integration is expected,
  and the attendees jobs pass the id of a row to Weezevent.

Floor plans, recipes, prices

* The page changes the row of an element and then the document, and nothing
  catches a failure in between (`spaces.service:2216`, `:2353`): the row stays
  without its entry, or with an entry elsewhere, until the element is moved or
  saved again. Moving an element to a floor leaves its entry in the forecourt or
  the merch zone (`:2380`), and the next save moves the row back there.
* A save of a plan neither compares nor bumps the version, and the last retry of
  the page writes without comparing (`spaces.service:2174`); a builder that saves
  an unedited old copy moves elements back (`:2380`). A mapping made during a
  save may be deleted with its element.
* A cycle of components is stored before the refresh notices it; refreshing all
  components throws from then on. A `unitCost` once set by hand stays.
* `create`, `bulkCreate` and `update` of an item store the `totalCost` of the
  request, and refresh it only when they were given lines (`menu-items.service:165`,
  `:261`, `:534`), while the DTO calls it "Coût total calculé" and
  `docs/brief-backend-eventpredict.md:113` the sum of the lines.
* Two applications of prices to one item write the whole column and may lose
  each other's spaces (`menu-items.service:720`). A mapping that crosses the
  removal of its item leaves what `:1182` says must never be ("JAMAIS"), which
  `weezevent-cron:184` counts every night. No crossing is needed for `POST
  products/:productId/map`: it finds a deleted item
  (`weezevent.controller:1123`) and maps it without reviving it, as
  `bulkProductMappings` would. When a space has no sale, a price of any other is
  used, although the comment near `:935` excludes it.

People

* A reinvitation takes the account and its rows down before it invites; when the
  invitation fails the person is gone (`users.service:632` says "preserving their
  access"). An error of Supabase reads as "never signed in" and lets the check
  for that pass.
* Removing somebody from one organisation deletes her `User` row and with it her
  memberships in all others (`:454`), which the lines around it mean to keep.
  Undoing a creation deletes an account that a concurrent invitation attached.
* `update` with a role changes the `User` row alone. A role may be assigned
  between the count and the deletion of that role and is then taken away.
* `createOrganization` looks and then writes: two requests leave one person with
  two organisations. Deleting a tenant leaves its accounts at Supabase, and tokens
  outlive accounts.

Authentication cache

* A lookup that read the row before a change stores it after the key was deleted
  (`jwt-db-lookup:268`): it is served for the lifetime of the key in Redis.
  `UndisturbedStaleness` says when 15 s are true, `StalenessBounded` what holds
  always.

## 7. Not modelled, and the plan

The map covers about a sixth of the implementation's lines. The rest is: the
controllers' decorators, DTOs and API descriptions; the frontend, the scripts and
the SQL; the endpoints that only read (dashboards, analytics, breakdowns,
listings), which change no state; and features that keep single rows (market
prices, suppliers, brands, packaging, inventory, space menus), where a handler is
one query. Parsing, formatting and logging are abstracted where they occur, and
the infrastructure is I/O.

Components with state that are still left out, with the reason:

* `queue.service` other than the aggregation queue: a job id is tenant, kind and
  minute, so that a second request in one minute is dropped. A small module; the
  processors behind it mostly throw for want of an integration.
* `cache.service`: `getOrSet` against an invalidation is the race that
  `AuthCache` has, without its lock.
* `core/webhooks`: one attempt, one log row, nothing that depends on either.
* `sync-tracker`: `startSync` has no caller.
* `purgeData` (`weezevent.controller:385`), which deletes all rows of Weezevent of a
  tenant and its cursors in one database transaction: neither `IncrementalSync` nor
  `MenuPrices` has it. A run under way when it comes would move the cursor behind
  the sales that were deleted.
* The spaces a user may see, pinned spaces, permissions: rows without a second
  copy.
* `syncLocationsFromApi`, started after a run of events and not awaited.

Simplifications inside the modules, each of them a case less than the code has:

* `SyncJob.Insert` inserts a chunk or throws, while the batch counts the errors of
  single transactions and goes on (`weezevent-incremental-sync:806`): "delivered"
  means handed to the batch. `IncrementalSync` has these as `Unreadable`.
* The two reads of `startSyncJob`, of the integration and of a running job, are one
  step of `SyncJob`; only the second reads what another request changes.
* `Aggregation.Finish` writes the `completed` log and completes the BullMQ job in
  one step: a pod that dies in between would run the finished job again.
* `Accounts` has no rows of before roles were kept in rows, and no call that
  succeeds but whose answer is lost.

Next, most important first:

1. The queues with their job identity, composed with `Aggregation` and
   `IncrementalSync`.
2. `cache.service`, as an abstract cache that `AuthCache` refines.
