----------------------------- MODULE Catalogue -----------------------------
(***************************************************************************)
(* Events and products of one integration, and the inbox of its webhooks:  *)
(* syncEventsIncremental, WeezeventCatalogSyncService.syncProducts, the    *)
(* inline upserts of a batch of transactions, WebhookController and        *)
(* WebhookEventHandler.  One event and one product stand for all of them.  *)
(* A webhook about a transaction is a writer of TransactionWrite and ends  *)
(* like those of type "other" here, which have nothing to do; orders have  *)
(* calls but no rows (see UpsertOrder).                                    *)
(*                                                                         *)
(* A run is a promise in the memory of one process.  Each action is one    *)
(* awaited call with the code up to the next.  The changes of the event at *)
(* Weezevent are the clock: its version is also its updated_at, and a row  *)
(* written after n changes has a syncedAt of n.  Both clocks are taken to  *)
(* agree, and no change to be in the same instant as a write.              *)
(*                                                                         *)
(* consecutiveErrors and the figures of the last run are left out, and so  *)
(* is the refresh of locations that is started and not awaited.            *)
(***************************************************************************)
EXTENDS Integers, FiniteSets

CONSTANTS
    Syncs,        \* runs of the cron or of a request
    Webhooks,     \* webhooks that Weezevent sends
    MaxChanges,   \* bound: changes of the event, the product, its details
    MaxRuns,      \* bound: runs that are started, webhooks, and resets
    MaxFaults     \* bound: calls that throw and restarts of the process

ASSUME CatalogueAssumption ==
    /\ Syncs \cap Webhooks = {}
    /\ {MaxChanges, MaxRuns, MaxFaults} \subseteq Nat

VARIABLES
    event,      \* version of the event at Weezevent
    product,    \* of the product, [base : fingerprinted fields, more : details]
    eventRow,   \* WeezeventEvent, [v, at]: version shown, syncedAt
    cursor,     \* the sync state of "events" has a lastSyncedAt
    productRow, \* WeezeventProduct: version of its rawData
    parts,      \* WeezeventProductVariant and ...Component
    inbox,      \* WeezeventWebhookEvent
    at,         \* next call of each run
    kind,       \* what a run of events is for, or the eventType of the webhook
    full,       \* forceFullSync
    list,       \* version in the answer of Weezevent
    known,      \* what the run read from the row
    stamp,      \* syncedAt the run is about to write
    fetched,    \* answers for variants and components
    part,       \* which of them is being replaced
    runs,       \* runs started, webhooks received, and resets
    faults,     \* calls that have thrown
    restarts,
    clean,      \* history: nothing changed under the run since its answer
    synced,     \* history: strongest clean run since the last change of the event
    touched,    \* history: a syncedAt since then belongs to older data
    stale,      \* history: older data were written since then
    matched,    \* history: a clean run since the last change of the product
    outdated,   \* history: a run that is not clean wrote since then
    cut,        \* history: details were not fetched or not replaced since then
    alone,      \* history: the details changed since then
    unrecorded  \* history: webhooks not found, or whose error was not stored

weezevent == <<event, product>>
eventTable == <<eventRow, cursor>>
productTables == <<productRow, parts>>
local == <<kind, full, list, known, stamp, fetched, part>>
bounds == <<runs, faults, restarts>>
eventHistory == <<synced, touched, stale>>
productHistory == <<matched, outdated, cut, alone>>
vars == <<weezevent, eventTable, productTables, inbox, at, local,
          bounds, clean, eventHistory, productHistory, unrecorded>>

Processes == Syncs \cup Webhooks
Parts == {"variants", "components"}
Missing == -1   \* no row
Stub == 0       \* a row made from a transaction
Pending == -2   \* not asked for
Lost == -3      \* a call that was rejected
Versions == 1..MaxChanges + 1
NoRow == [v |-> Missing, at |-> Missing]

EventSteps == {"state", "existing", "events", "prepare", "writeEvent", "cursor"}
ListedEvent == {"prepare", "writeEvent", "cursor"}
DetailSteps == {"details", "delete", "insert"}
ProductSteps == {"products", "stored", "writeProduct", "tally"} \cup DetailSteps
InboxSteps == {"find", "orders", "order", "mark", "error"}

TypeOK ==
    /\ event \in Versions
    /\ product \in [base : Versions, more : Versions]
    /\ eventRow \in [v : {Missing, Stub} \cup Versions, at : {Missing} \cup Versions]
    /\ cursor \in BOOLEAN
    /\ productRow \in {Missing, Stub} \cup Versions
    /\ parts \in [Parts -> {Missing} \cup Versions]
    /\ inbox \in [Webhooks -> {"none", "stored", "processed", "failed"}]
    /\ at \in [Processes -> {"idle"} \cup EventSteps \cup ProductSteps \cup InboxSteps]
    /\ kind \in [Processes -> {"none", "events", "reference",
                               "product", "order", "other"}]
    /\ full \in [Processes -> BOOLEAN]
    /\ list \in [Processes -> {Missing} \cup Versions]
    /\ known \in [Processes -> {Missing, Stub} \cup Versions]
    /\ stamp \in [Processes -> {Missing} \cup Versions]
    /\ fetched \in [Processes -> [Parts -> {Pending, Lost} \cup Versions]]
    /\ part \in [Processes -> Parts]
    /\ runs \in 0..MaxRuns /\ faults \in 0..MaxFaults /\ restarts \in 0..MaxFaults
    /\ clean \in [Processes -> BOOLEAN]
    /\ synced \in {"no", "incremental", "full"}
    /\ {touched, stale, matched, outdated, cut, alone} \subseteq BOOLEAN
    /\ unrecorded \subseteq Webhooks

\* Nothing was synchronised yet, or a nightly run has been.
Init ==
    /\ event = 1 /\ product = [base |-> 1, more |-> 1]
    /\ \/ /\ eventRow = NoRow /\ cursor = FALSE
          /\ productRow = Missing /\ parts = [x \in Parts |-> Missing]
       \/ /\ eventRow = [v |-> 1, at |-> 1] /\ cursor = TRUE
          /\ productRow = 1 /\ parts = [x \in Parts |-> 1]
    /\ inbox = [w \in Webhooks |-> "none"]
    /\ at = [p \in Processes |-> "idle"]
    /\ kind = [p \in Processes |-> "none"]
    /\ full = [p \in Processes |-> FALSE]
    /\ list = [p \in Processes |-> Missing]
    /\ known = [p \in Processes |-> Missing]
    /\ stamp = [p \in Processes |-> Missing]
    /\ fetched = [p \in Processes |-> [x \in Parts |-> Pending]]
    /\ part = [p \in Processes |-> "variants"]
    /\ runs = 0 /\ faults = 0 /\ restarts = 0
    /\ clean = [p \in Processes |-> FALSE]
    /\ synced = "no" /\ touched = FALSE /\ stale = FALSE
    /\ matched = FALSE /\ outdated = FALSE /\ cut = FALSE /\ alone = FALSE
    /\ unrecorded = {}

-----------------------------------------------------------------------------
(* Weezevent, and the transactions that mention its events and products.   *)

MoreChanges == event + product.base + product.more < MaxChanges + 3

ChangeEvent ==
    /\ MoreChanges
    /\ event' = event + 1
    /\ synced' = "no" /\ touched' = FALSE /\ stale' = FALSE
    /\ clean' = [p \in Processes |-> clean[p] /\ at[p] \notin ListedEvent]
    /\ UNCHANGED <<product, eventTable, productTables, inbox, at, local,
                   bounds, productHistory, unrecorded>>

\* The name, the price, the image... change, and the details perhaps with them.
ChangeProduct ==
    /\ MoreChanges
    /\ \E more \in {product.more, product.more + 1} \cap Versions :
           product' = [base |-> product.base + 1, more |-> more]
    /\ matched' = FALSE /\ outdated' = FALSE /\ cut' = FALSE /\ alone' = FALSE
    /\ clean' = [p \in Processes |-> clean[p] /\ at[p] \notin ProductSteps]
    /\ UNCHANGED <<event, eventTable, productTables, inbox, at, local,
                   bounds, eventHistory, unrecorded>>

\* Only the variants or the components change, which no fingerprint shows.
ChangeDetails ==
    /\ MoreChanges
    /\ product' = [product EXCEPT !.more = @ + 1]
    /\ alone' = TRUE
    /\ UNCHANGED <<event, eventTable, productTables, inbox, at, local,
                   bounds, clean, eventHistory, matched, outdated, cut, unrecorded>>

\* A batch of transactions creates a stub, or only moves the syncedAt.
BatchUpsertEvent ==
    /\ eventRow' = IF eventRow = NoRow THEN [v |-> Stub, at |-> event]
                                       ELSE [eventRow EXCEPT !.at = event]
    /\ touched' = (touched \/ eventRow.v # event)
    /\ UNCHANGED <<weezevent, cursor, productTables, inbox, at, local,
                   bounds, clean, synced, stale, productHistory, unrecorded>>

BatchUpsertProduct ==
    /\ productRow = Missing
    /\ productRow' = Stub
    /\ UNCHANGED <<weezevent, eventTable, parts, inbox, at, local,
                   bounds, clean, eventHistory, productHistory, unrecorded>>

-----------------------------------------------------------------------------
(* Starting a run: the cron of every night, the weekly one, a request.      *)

Start(s, k, force, step) ==
    /\ at[s] = "idle" /\ runs < MaxRuns
    /\ at' = [at EXCEPT ![s] = step]
    /\ kind' = [kind EXCEPT ![s] = k]
    /\ full' = [full EXCEPT ![s] = force]
    /\ runs' = runs + 1
    /\ UNCHANGED <<weezevent, productTables, inbox, list, known, stamp,
                   fetched, part, faults, restarts, clean, eventHistory, productHistory, unrecorded>>

SyncReferenceData(s) == Start(s, "reference", FALSE, "state") /\ UNCHANGED eventTable

FullHistoricalSync(s) == Start(s, "events", TRUE, "state") /\ UNCHANGED eventTable

\* A request for the events that counts none is made a full one, and the sync
\* state is deleted (two calls before the run, taken as one).
SyncEventsNow(s) ==
    \E asked \in BOOLEAN :
        LET empty == eventRow = NoRow
        IN  /\ Start(s, "events", asked \/ empty, "state")
            /\ cursor' = (cursor /\ (asked \/ ~empty))
            /\ UNCHANGED eventRow

SyncProductsNow(s) == Start(s, "none", FALSE, "products") /\ UNCHANGED eventTable

ResetSyncState ==
    /\ cursor
    /\ cursor' = FALSE
    /\ runs < MaxRuns /\ runs' = runs + 1
    /\ UNCHANGED <<weezevent, eventRow, productTables, inbox, at, local,
                   faults, restarts, clean, eventHistory, productHistory, unrecorded>>

\* The promise of p goes on with step, or is over and forgets its variables.
Goto(p, step) == at' = [at EXCEPT ![p] = step]

End(p) == Goto(p, IF p \in Webhooks THEN "mark" ELSE "idle")

-----------------------------------------------------------------------------
(* syncEventsIncremental                                                   *)

eventsOnly == <<weezevent, productTables, inbox, fetched, part, bounds,
                productHistory, unrecorded>>

GetSyncState(p) ==
    /\ at[p] = "state"
    /\ Goto(p, "existing")
    /\ full' = [full EXCEPT ![p] = @ \/ ~cursor]
    /\ UNCHANGED <<eventsOnly, kind, eventTable, list, known, stamp, clean, eventHistory>>

GetExistingEvents(p) ==
    /\ at[p] = "existing"
    /\ Goto(p, "events")
    /\ known' = [known EXCEPT ![p] = eventRow.at]
    /\ UNCHANGED <<eventsOnly, kind, eventTable, full, list, stamp, clean, eventHistory>>

\* Weezevent computes its answer: all events, as updated_since is not sent.
GetEvents(p) ==
    /\ at[p] = "events"
    /\ Goto(p, "prepare")
    /\ list' = [list EXCEPT ![p] = event]
    /\ clean' = [clean EXCEPT ![p] = TRUE]
    /\ UNCHANGED <<eventsOnly, kind, eventTable, full, known, stamp, eventHistory>>

\* MUTANT of SyncedRecently: whatever is known is skipped.
SyncedEver(p) == ~full[p] /\ known[p] # Missing

\* An incremental run skips an event whose syncedAt is not before its updated_at.
SyncedRecently(p) == ~full[p] /\ known[p] # Missing /\ known[p] >= list[p]

PrepareEvents(p) ==
    /\ at[p] = "prepare"
    /\ Goto(p, IF SyncedRecently(p) THEN "cursor" ELSE "writeEvent")
    /\ stamp' = [stamp EXCEPT ![p] = event]
    /\ UNCHANGED <<eventsOnly, kind, eventTable, full, list, known, clean, eventHistory>>

\* An event the run does not know is created unless it exists by now
\* (skipDuplicates), one that it knows is updated.
WriteEvent(p) ==
    LET skipped == known[p] = Missing /\ eventRow # NoRow
    IN  /\ at[p] = "writeEvent"
        /\ Goto(p, "cursor")
        /\ clean' = [clean EXCEPT ![p] = @ /\ ~skipped]
        /\ IF skipped
           THEN UNCHANGED <<eventRow, touched, stale>>
           ELSE /\ eventRow' = [v |-> list[p], at |-> stamp[p]]
                /\ touched' = (touched \/ (list[p] # event /\ stamp[p] = event))
                /\ stale' = (stale \/ list[p] # event)
        /\ UNCHANGED <<eventsOnly, kind, cursor, full, list, known, stamp, synced>>

\* The nightly run goes on with the products.
UpdateSyncState(p) ==
    /\ at[p] = "cursor"
    /\ cursor' = TRUE
    /\ IF kind[p] = "reference" THEN Goto(p, "products") ELSE End(p)
    /\ synced' = CASE ~clean[p] -> synced
                   [] clean[p] /\ full[p] -> "full"
                   [] OTHER -> IF synced = "no" THEN "incremental" ELSE synced
    /\ kind' = [kind EXCEPT ![p] = "none"]
    /\ full' = [full EXCEPT ![p] = FALSE]
    /\ list' = [list EXCEPT ![p] = Missing]
    /\ known' = [known EXCEPT ![p] = Missing]
    /\ stamp' = [stamp EXCEPT ![p] = Missing]
    /\ clean' = [clean EXCEPT ![p] = FALSE]
    /\ UNCHANGED <<eventsOnly, eventRow, touched, stale>>

-----------------------------------------------------------------------------
(* syncProducts and syncProductDetails                                     *)

productsOnly == <<weezevent, eventTable, inbox, kind, full, stamp, runs,
                  restarts, eventHistory, unrecorded>>

GetProducts(p) ==
    /\ at[p] = "products"
    /\ Goto(p, "stored")
    /\ list' = [list EXCEPT ![p] = product.base]
    /\ clean' = [clean EXCEPT ![p] = TRUE]
    /\ UNCHANGED <<productsOnly, productTables, known, fetched, part, faults, productHistory>>

\* MUTANT of HasChanged: a product that is known is not looked at again.
IsNew(p) == productRow = Missing

\* productFingerprint: the rawData of a stub is like that of no product.
HasChanged(p) == productRow # list[p]

FindProducts(p) ==
    /\ at[p] = "stored"
    /\ Goto(p, IF HasChanged(p) THEN "writeProduct" ELSE "tally")
    /\ known' = [known EXCEPT ![p] = productRow]
    /\ UNCHANGED <<productsOnly, productTables, list, fetched, part, clean, faults,
                   productHistory>>

WriteProduct(p) ==
    LET skipped == known[p] = Missing /\ productRow # Missing
    IN  /\ at[p] = "writeProduct"
        /\ Goto(p, "details")
        /\ clean' = [clean EXCEPT ![p] = @ /\ ~skipped]
        /\ productRow' = IF skipped THEN productRow ELSE list[p]
        /\ outdated' = (outdated \/ (~skipped /\ list[p] # product.base))
        /\ UNCHANGED <<productsOnly, parts, list, known, fetched, part, faults,
                       matched, cut, alone>>

\* Where the run goes once it is done with the parts before x: to the first of
\* the rest that Weezevent has answered, or to the end.
Replace(p, answers, x) ==
    LET next == {y \in {x, "components"} : answers[y] # Lost}
        first == CHOOSE y \in next : x \in next => y = x
    IN  IF next = {}
        THEN Goto(p, "tally") /\ UNCHANGED part
        ELSE Goto(p, "delete") /\ part' = [part EXCEPT ![p] = first]

AfterPart(p) == IF part[p] = "variants" THEN Replace(p, fetched[p], "components")
                                        ELSE Goto(p, "tally") /\ UNCHANGED part

\* Variants and components are asked for together; either may be refused.
GetDetails(p) ==
    \E lost \in SUBSET Parts :
        LET answers == [x \in Parts |-> IF x \in lost THEN Lost ELSE product.more]
        IN  /\ at[p] = "details"
            /\ Replace(p, answers, "variants")
            /\ fetched' = [fetched EXCEPT ![p] = answers]
            /\ faults + restarts + Cardinality(lost) <= MaxFaults
            /\ faults' = faults + Cardinality(lost)
            /\ cut' = (cut \/ lost # {})
            /\ UNCHANGED <<productsOnly, productTables, list, known, clean,
                           matched, outdated, alone>>

DeletePart(p) ==
    /\ at[p] = "delete"
    /\ Goto(p, "insert")
    /\ parts' = [parts EXCEPT ![part[p]] = Missing]
    /\ outdated' = (outdated \/ ~clean[p])
    /\ UNCHANGED <<productsOnly, productRow, list, known, fetched, part, clean, faults,
                   matched, cut, alone>>

\* createMany with skipDuplicates.
InsertPart(p) ==
    /\ at[p] = "insert"
    /\ AfterPart(p)
    /\ parts' = [parts EXCEPT ![part[p]] = IF @ = Missing THEN fetched[p][part[p]] ELSE @]
    /\ outdated' = (outdated \/ ~clean[p])
    /\ UNCHANGED <<productsOnly, productRow, list, known, fetched, clean, faults,
                   matched, cut, alone>>

\* The catch blocks of syncProductDetails: the other part is still tried; a
\* product that is not found again has no details at all.
ReplaceThrows(p) ==
    /\ \/ at[p] \in {"delete", "insert"} /\ AfterPart(p)
       \/ at[p] = "details" /\ Goto(p, "tally") /\ UNCHANGED part
    /\ cut' = TRUE
    /\ faults + restarts < MaxFaults /\ faults' = faults + 1
    /\ UNCHANGED <<productsOnly, productTables, list, known, fetched, clean,
                   matched, outdated, alone>>

StoreSyncState(p) ==
    /\ at[p] = "tally"
    /\ End(p)
    /\ matched' = (matched \/ clean[p])
    /\ list' = [list EXCEPT ![p] = Missing]
    /\ known' = [known EXCEPT ![p] = Missing]
    /\ fetched' = [fetched EXCEPT ![p] = [x \in Parts |-> Pending]]
    /\ part' = [part EXCEPT ![p] = "variants"]
    /\ clean' = [clean EXCEPT ![p] = FALSE]
    /\ UNCHANGED <<productsOnly, productTables, faults, outdated, cut, alone>>

-----------------------------------------------------------------------------
(* The inbox                                                               *)

inboxOnly == <<weezevent, eventTable, productTables, full, list, known, stamp,
               fetched, part, restarts, clean, eventHistory, productHistory,
               unrecorded>>

\* A webhook with a valid signature is stored and answered; setImmediate goes
\* on with it.
ReceiveWebhook(w) ==
    /\ inbox[w] = "none"
    /\ inbox' = [inbox EXCEPT ![w] = "stored"]
    /\ Goto(w, "find")
    /\ runs < MaxRuns /\ runs' = runs + 1
    /\ \E type \in {"product", "order", "other"} : kind' = [kind EXCEPT ![w] = type]
    /\ UNCHANGED <<inboxOnly, faults>>

ProcessEvent(w) ==
    /\ at[w] = "find"
    /\ Goto(w, CASE kind[w] = "product" -> "products"
                 [] kind[w] = "order" -> "orders"
                 [] OTHER -> "mark")
    /\ UNCHANGED <<inboxOnly, inbox, kind, runs, faults>>

\* The orders of the event of the webhook, which is named as at Weezevent.
GetOrders(w) ==
    /\ at[w] = "orders"
    /\ Goto(w, "order")
    /\ UNCHANGED <<inboxOnly, inbox, kind, runs, faults>>

\* The eventId of an order refers to the id of a WeezeventEvent, which no id of
\* Weezevent is: the upsert is rejected, and that is caught, logged and counted.
UpsertOrder(w) ==
    /\ at[w] = "order"
    /\ End(w)
    /\ UNCHANGED <<inboxOnly, inbox, kind, runs, faults>>

MarkProcessed(w) ==
    /\ at[w] = "mark"
    /\ Goto(w, "idle")
    /\ inbox' = [inbox EXCEPT ![w] = "processed"]
    /\ UNCHANGED <<inboxOnly, kind, runs, faults>>

\* MUTANT of RecordError: the error is only logged.
LogError(w) ==
    /\ at[w] = "error"
    /\ Goto(w, "idle")
    /\ UNCHANGED <<inboxOnly, inbox, kind, runs, faults>>

RecordError(w) ==
    /\ at[w] = "error"
    /\ Goto(w, "idle")
    /\ inbox' = [inbox EXCEPT ![w] = "failed"]
    /\ UNCHANGED <<inboxOnly, kind, runs, faults>>

-----------------------------------------------------------------------------
(* A call of a run throws.  A webhook records its error, unless it was not  *)
(* even found or the error cannot be stored; other runs just end.          *)

ThrowingSteps == {"existing", "events", "writeEvent", "cursor", "state", "products",
                  "stored", "writeProduct", "tally"} \cup InboxSteps

Throw(p) ==
    /\ at[p] \in ThrowingSteps \ {"order"}
    /\ faults + restarts < MaxFaults /\ faults' = faults + 1
    /\ Goto(p, IF p \in Syncs \/ at[p] \in {"find", "error"} THEN "idle" ELSE "error")
    /\ unrecorded' = unrecorded \cup ({p} \cap {w \in Webhooks : at[w] \in {"find", "error"}})
    /\ full' = [full EXCEPT ![p] = FALSE]
    /\ list' = [list EXCEPT ![p] = Missing]
    /\ known' = [known EXCEPT ![p] = Missing]
    /\ stamp' = [stamp EXCEPT ![p] = Missing]
    /\ fetched' = [fetched EXCEPT ![p] = [x \in Parts |-> Pending]]
    /\ part' = [part EXCEPT ![p] = "variants"]
    /\ clean' = [clean EXCEPT ![p] = FALSE]
    /\ kind' = [kind EXCEPT ![p] = IF p \in Syncs THEN "none" ELSE @]
    /\ UNCHANGED <<weezevent, eventTable, productTables, inbox, runs,
                   restarts, eventHistory, productHistory>>

\* Every promise is forgotten; nothing looks for webhooks that are stored.
Restart ==
    /\ faults + restarts < MaxFaults
    /\ restarts' = restarts + 1
    /\ at' = [p \in Processes |-> "idle"]
    /\ full' = [p \in Processes |-> FALSE]
    /\ list' = [p \in Processes |-> Missing]
    /\ known' = [p \in Processes |-> Missing]
    /\ stamp' = [p \in Processes |-> Missing]
    /\ fetched' = [p \in Processes |-> [x \in Parts |-> Pending]]
    /\ part' = [p \in Processes |-> "variants"]
    /\ clean' = [p \in Processes |-> FALSE]
    /\ cut' = (cut \/ \E p \in Processes : at[p] \in DetailSteps)
    /\ kind' = [p \in Processes |-> IF p \in Syncs THEN "none" ELSE kind[p]]
    /\ UNCHANGED <<weezevent, eventTable, productTables, inbox, runs,
                   faults, eventHistory, matched, outdated, alone, unrecorded>>

-----------------------------------------------------------------------------
\* What a promise does as long as its process lives.
Proceed(p) ==
    \/ GetSyncState(p) \/ GetExistingEvents(p) \/ GetEvents(p) \/ PrepareEvents(p)
    \/ WriteEvent(p) \/ UpdateSyncState(p)
    \/ GetProducts(p) \/ FindProducts(p) \/ WriteProduct(p) \/ GetDetails(p)
    \/ DeletePart(p) \/ InsertPart(p) \/ StoreSyncState(p)

Handle(w) ==
    \/ ProcessEvent(w) \/ GetOrders(w) \/ UpsertOrder(w) \/ MarkProcessed(w)
    \/ RecordError(w) \/ Proceed(w)

Next ==
    \/ ChangeEvent \/ ChangeProduct \/ ChangeDetails
    \/ BatchUpsertEvent \/ BatchUpsertProduct \/ ResetSyncState \/ Restart
    \/ \E s \in Syncs : \/ SyncReferenceData(s) \/ FullHistoricalSync(s)
                        \/ SyncEventsNow(s) \/ SyncProductsNow(s) \/ Proceed(s)
    \/ \E w \in Webhooks : ReceiveWebhook(w) \/ Handle(w)
    \/ \E p \in Processes : ReplaceThrows(p) \/ Throw(p)

Spec == Init /\ [][Next]_vars

-----------------------------------------------------------------------------
(* A full run that began after the last change of an event, under which    *)
(* nothing created the row, and after which no run brought older data,     *)
(* leaves the row as the event is (forceFullSync).  An incremental one     *)
(* does too, unless since the change somebody gave a new syncedAt to older *)
(* data, as each batch of transactions does: the run then skips the event. *)
EventsFollow ==
    /\ synced = "full" /\ ~stale => eventRow.v = event
    /\ synced = "incremental" /\ ~stale /\ ~touched => eventRow.v = event

(* When no run is at the products, and one that was not disturbed listed    *)
(* them after the last change, the product is as listed (syncProducts).    *)
(* Its variants and components are too (syncProductDetails), unless they   *)
(* changed alone, or a failure or a restart kept them from being replaced: *)
(* no later run looks at them then.                                        *)
ProductsFollow ==
    /\ \A p \in Processes : at[p] \notin ProductSteps
    /\ matched /\ ~outdated
    => /\ productRow = product.base
       /\ ~cut /\ ~alone => \A x \in Parts : parts[x] = product.more

(* A webhook that was stored and answered is being processed, or is marked  *)
(* processed or failed, unless the process was restarted, or reading the    *)
(* webhook or storing its error failed: nothing looks for it then.          *)
WebhooksEnd ==
    \A w \in Webhooks :
        inbox[w] = "stored" /\ at[w] = "idle" => restarts > 0 \/ w \in unrecorded
=============================================================================
