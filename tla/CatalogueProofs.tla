-------------------------- MODULE CatalogueProofs --------------------------
(***************************************************************************)
(* Proofs about Catalogue, for any number of runs and webhooks and any      *)
(* bounds.  Four invariants:                                               *)
(*   IInv        no webhook is left stored but for a restart, or a read or *)
(*               a write of its own row that failed;                       *)
(*   Typed       the types, and that a run only inserts what Weezevent has *)
(*               answered (Answered);                                      *)
(*   EventInv    how new the row of the event says it is, and what a run   *)
(*               read of it, against what it shows;                        *)
(*   ProductInv  what the runs at the products will still replace, against *)
(*               what the tables hold.                                     *)
(* A step is of one process, and leaves the variables of the others alone  *)
(* (StepsAreOwn); each invariant has a lemma for what that keeps of it.    *)
(***************************************************************************)
EXTENDS Catalogue, FiniteSetTheorems, TLAPS

(***************************************************************************)
(* The inbox.  A process that goes on either is a run or does not become   *)
(* idle, except in the three actions that say what becomes of the webhook. *)
(***************************************************************************)
TypeInv ==
    /\ at = [p \in Processes |-> at[p]]
    /\ inbox = [w \in Webhooks |-> inbox[w]]
    /\ restarts \in Nat

IInv == TypeInv /\ WebhooksEnd

LEMMA Initially == Init => IInv
<1> SUFFICES ASSUME Init
             PROVE  TypeInv /\ WebhooksEnd
  BY DEF IInv
<1>1. /\ at = [p \in Processes |-> "idle"]
      /\ inbox = [w \in Webhooks |-> "none"]
      /\ restarts = 0
  BY DEF Init
<1> QED
  BY <1>1 DEF TypeInv, WebhooksEnd, Processes

\* A process goes on and leaves the inbox alone.
LEMMA GoesOn ==
  ASSUME IInv, NEW p \in Processes, NEW step,
         p \in Webhooks => step # "idle",
         at' = [at EXCEPT ![p] = step],
         inbox' = inbox, restarts' = restarts, unrecorded' = unrecorded
  PROVE  IInv'
<1>1. TypeInv'
  BY DEF IInv, TypeInv
<1>2. ASSUME NEW w \in Webhooks, inbox'[w] = "stored", at'[w] = "idle"
      PROVE  restarts' > 0 \/ w \in unrecorded'
  <2>1. w \in Processes /\ w # p
    BY <1>2 DEF Processes, IInv, TypeInv
  <2>2. at[w] = "idle"
    BY <1>2, <2>1 DEF IInv, TypeInv
  <2> QED
    BY <1>2, <2>2 DEF IInv, WebhooksEnd
<1> QED
  BY <1>1, <1>2 DEF IInv, WebhooksEnd

\* A run or a webhook is over.
LEMMA Ends ==
  ASSUME IInv, NEW p \in Processes, End(p),
         inbox' = inbox, restarts' = restarts, unrecorded' = unrecorded
  PROVE  IInv'
<1> DEFINE step == IF p \in Webhooks THEN "mark" ELSE "idle"
<1>1. at' = [at EXCEPT ![p] = step] /\ (p \in Webhooks => step # "idle")
  BY DEF End, Goto
<1> HIDE DEF step
<1> QED
  BY <1>1, GoesOn

\* The parts of a product: to the next of them, or to the end.
LEMMA Replaces ==
  ASSUME IInv, NEW p \in Processes, NEW answers, NEW x,
         Replace(p, answers, x) \/ AfterPart(p),
         inbox' = inbox, restarts' = restarts, unrecorded' = unrecorded
  PROVE  IInv'
<1>1. Goto(p, "tally") \/ Goto(p, "delete")
  BY DEF Replace, AfterPart
<1> QED
  BY <1>1, GoesOn DEF Goto

LEMMA EventsKeepIInv ==
  ASSUME IInv, NEW p \in Processes,
         \/ GetSyncState(p) \/ GetExistingEvents(p) \/ GetEvents(p) \/ PrepareEvents(p)
         \/ WriteEvent(p) \/ UpdateSyncState(p)
  PROVE  IInv'
<1>1. inbox' = inbox /\ restarts' = restarts /\ unrecorded' = unrecorded
  BY DEF GetSyncState, GetExistingEvents, GetEvents, PrepareEvents, WriteEvent,
         UpdateSyncState, eventsOnly, bounds
<1>2. \/ \E step \in EventSteps \cup ProductSteps : Goto(p, step)
      \/ End(p)
  BY DEF GetSyncState, GetExistingEvents, GetEvents, PrepareEvents, WriteEvent,
         UpdateSyncState, EventSteps, ProductSteps
<1>3. "idle" \notin EventSteps \cup ProductSteps
  BY DEF EventSteps, ProductSteps, DetailSteps
<1> QED
  BY <1>1, <1>2, <1>3, GoesOn, Ends DEF Goto

LEMMA ProductsKeepIInv ==
  ASSUME IInv, NEW p \in Processes,
         \/ GetProducts(p) \/ FindProducts(p) \/ WriteProduct(p) \/ GetDetails(p)
         \/ DeletePart(p) \/ InsertPart(p) \/ StoreSyncState(p) \/ ReplaceThrows(p)
  PROVE  IInv'
<1>1. inbox' = inbox /\ restarts' = restarts /\ unrecorded' = unrecorded
  BY DEF GetProducts, FindProducts, WriteProduct, GetDetails, DeletePart, InsertPart,
         StoreSyncState, ReplaceThrows, productsOnly
<1>2. \/ \E step \in {"stored", "writeProduct", "tally", "details", "insert"} : Goto(p, step)
      \/ End(p)
      \/ \E answers : Replace(p, answers, "variants")
      \/ AfterPart(p)
  BY DEF GetProducts, FindProducts, WriteProduct, GetDetails, DeletePart, InsertPart,
         StoreSyncState, ReplaceThrows
<1> QED
  BY <1>1, <1>2, GoesOn, Ends, Replaces DEF Goto

LEMMA StartsKeepIInv ==
  ASSUME IInv, NEW s \in Syncs,
         \/ SyncReferenceData(s) \/ FullHistoricalSync(s)
         \/ SyncEventsNow(s) \/ SyncProductsNow(s)
  PROVE  IInv'
<1>1. \E k, force, step : Start(s, k, force, step)
  BY DEF SyncReferenceData, FullHistoricalSync, SyncEventsNow, SyncProductsNow
<1>2. PICK k, force, step : Start(s, k, force, step)
  BY <1>1
<1>3. /\ at' = [at EXCEPT ![s] = step]
      /\ inbox' = inbox /\ restarts' = restarts /\ unrecorded' = unrecorded
  BY <1>2 DEF Start
<1>4. s \in Processes /\ s \notin Webhooks
  BY CatalogueAssumption DEF Processes
<1> QED
  BY <1>3, <1>4, GoesOn

\* The webhook itself: only its end writes its row, or says that it did not.
LEMMA InboxKeepsIInv ==
  ASSUME IInv, NEW w \in Webhooks, ReceiveWebhook(w) \/ Handle(w)
  PROVE  IInv'
<1>1. w \in Processes
  BY DEF Processes
<1>2. ASSUME NEW step, NEW state,
             \/ step # "idle" \/ state # "stored",
             at' = [at EXCEPT ![w] = step], inbox' = [inbox EXCEPT ![w] = state],
             restarts' = restarts, unrecorded' = unrecorded
      PROVE  IInv'
  <2>1. TypeInv'
    BY <1>2 DEF IInv, TypeInv
  <2>2. ASSUME NEW u \in Webhooks, inbox'[u] = "stored", at'[u] = "idle"
        PROVE  restarts' > 0 \/ u \in unrecorded'
    <3>1. u \in Processes
      BY DEF Processes
    <3>2. inbox[u] = "stored" /\ at[u] = "idle"
      BY <1>1, <1>2, <2>2, <3>1 DEF IInv, TypeInv
    <3> QED
      BY <1>2, <3>2 DEF IInv, WebhooksEnd
  <2> QED
    BY <2>1, <2>2 DEF IInv, WebhooksEnd
<1>3. CASE ReceiveWebhook(w)
  BY <1>2, <1>3 DEF ReceiveWebhook, Goto, inboxOnly
<1>4. CASE MarkProcessed(w) \/ RecordError(w)
  BY <1>2, <1>4 DEF MarkProcessed, RecordError, Goto, inboxOnly
<1>5. CASE ProcessEvent(w) \/ GetOrders(w) \/ UpsertOrder(w)
  <2>1. inbox' = inbox /\ restarts' = restarts /\ unrecorded' = unrecorded
    BY <1>5 DEF ProcessEvent, GetOrders, UpsertOrder, inboxOnly
  <2>2. \/ \E step \in {"products", "orders", "order", "mark"} : Goto(w, step)
        \/ End(w)
    BY <1>5 DEF ProcessEvent, GetOrders, UpsertOrder
  <2> QED
    BY <1>1, <2>1, <2>2, GoesOn, Ends DEF Goto
<1>6. CASE Proceed(w)
  BY <1>1, <1>6, EventsKeepIInv, ProductsKeepIInv DEF Proceed
<1> QED
  BY <1>3, <1>4, <1>5, <1>6 DEF Handle

LEMMA ThrowKeepsIInv ==
  ASSUME IInv, NEW p \in Processes, Throw(p)
  PROVE  IInv'
<1> DEFINE over == p \in Syncs \/ at[p] \in {"find", "error"}
<1>1. /\ at' = [at EXCEPT ![p] = IF over THEN "idle" ELSE "error"]
      /\ inbox' = inbox /\ restarts' = restarts
      /\ unrecorded' = unrecorded \cup ({p} \cap {w \in Webhooks : at[w] \in {"find", "error"}})
  BY DEF Throw, Goto
<1>2. TypeInv'
  BY <1>1 DEF IInv, TypeInv
<1>3. ASSUME NEW w \in Webhooks, inbox'[w] = "stored", at'[w] = "idle"
      PROVE  restarts' > 0 \/ w \in unrecorded'
  <2>1. w \in Processes /\ w \notin Syncs
    BY CatalogueAssumption DEF Processes
  <2>2. CASE w = p
    BY <1>1, <1>3, <2>1, <2>2 DEF IInv, TypeInv
  <2>3. CASE w # p
    BY <1>1, <1>3, <2>1, <2>3 DEF IInv, TypeInv, WebhooksEnd
  <2> QED
    BY <2>2, <2>3
<1> QED
  BY <1>2, <1>3 DEF IInv, WebhooksEnd

LEMMA NextKeepsIInv == IInv /\ [Next]_vars => IInv'
<1> SUFFICES ASSUME IInv, [Next]_vars
             PROVE  IInv'
  OBVIOUS
<1>1. ASSUME at' = at, inbox' = inbox, restarts' = restarts, unrecorded' = unrecorded
      PROVE  IInv'
  BY <1>1 DEF IInv, TypeInv, WebhooksEnd
<1>2. CASE \/ ChangeEvent \/ ChangeProduct \/ ChangeDetails
           \/ BatchUpsertEvent \/ BatchUpsertProduct \/ ResetSyncState
  BY <1>1, <1>2 DEF ChangeEvent, ChangeProduct, ChangeDetails, BatchUpsertEvent,
                    BatchUpsertProduct, ResetSyncState, bounds
<1>3. CASE Restart
  <2>1. /\ at' = [p \in Processes |-> "idle"]
        /\ inbox' = inbox /\ restarts' = restarts + 1
    BY <1>3 DEF Restart
  <2>2. restarts' \in Nat /\ restarts' > 0
    BY <2>1 DEF IInv, TypeInv
  <2> QED
    BY <2>1, <2>2 DEF IInv, TypeInv, WebhooksEnd
<1>4. ASSUME NEW s \in Syncs,
             \/ SyncReferenceData(s) \/ FullHistoricalSync(s)
             \/ SyncEventsNow(s) \/ SyncProductsNow(s) \/ Proceed(s)
      PROVE  IInv'
  <2>1. s \in Processes
    BY DEF Processes
  <2> QED
    BY <1>4, <2>1, StartsKeepIInv, EventsKeepIInv, ProductsKeepIInv DEF Proceed
<1>5. ASSUME NEW w \in Webhooks, ReceiveWebhook(w) \/ Handle(w)
      PROVE  IInv'
  BY <1>5, InboxKeepsIInv
<1>6. ASSUME NEW p \in Processes, ReplaceThrows(p) \/ Throw(p)
      PROVE  IInv'
  BY <1>6, ProductsKeepIInv, ThrowKeepsIInv
<1>7. CASE UNCHANGED vars
  BY <1>1, <1>7 DEF vars, bounds
<1> QED
  BY <1>2, <1>3, <1>4, <1>5, <1>6, <1>7 DEF Next

(* A webhook that was stored and answered is being processed, or is marked  *)
(* processed or failed, unless the process was restarted, or its row could  *)
(* not be read or written (processEvent).                                   *)
THEOREM WebhooksAreEnded == Spec => []WebhooksEnd
<1>1. Spec => []IInv
  BY Initially, NextKeepsIInv, PTL DEF Spec
<1>2. IInv => WebhooksEnd
  BY DEF IInv
<1> QED
  BY <1>1, <1>2, PTL

(***************************************************************************)
(* Types.  What is inserted was answered: a run replaces a part only if    *)
(* Weezevent did not refuse it.                                            *)
(***************************************************************************)
Replaceable(answers, x) == answers[x] \in Versions /\ \A y \in Parts : answers[y] # Pending

Answered ==
    \A p \in Processes : at[p] \in {"delete", "insert"} => Replaceable(fetched[p], part[p])

Typed == TypeOK /\ Answered

Steps == {"idle"} \cup EventSteps \cup ProductSteps \cup InboxSteps
Kinds == {"none", "events", "reference", "product", "order", "other"}

LEMMA Numbers ==
  /\ MaxChanges \in Nat /\ MaxRuns \in Nat /\ MaxFaults \in Nat
  /\ 1 \in Versions /\ Versions \subseteq Nat
  /\ Missing \notin Versions /\ Stub \notin Versions
  BY CatalogueAssumption DEF Versions, Missing, Stub

LEMMA TypedInitially == Init => Typed
<1> SUFFICES ASSUME Init
             PROVE  TypeOK /\ Answered
  BY DEF Typed
<1>1. Answered
  BY DEF Init, Answered
<1>2. eventRow \in [v : {Missing, Stub} \cup Versions, at : {Missing} \cup Versions]
  BY Numbers DEF Init, NoRow
<1>3. fetched \in [Processes -> [Parts -> {Pending, Lost} \cup Versions]]
  BY DEF Init
<1>4. parts \in [Parts -> {Missing} \cup Versions] /\ productRow \in {Missing, Stub} \cup Versions
  BY Numbers DEF Init
<1>5. product \in [base : Versions, more : Versions] /\ event \in Versions
  BY Numbers DEF Init
<1>6. runs \in 0..MaxRuns /\ faults \in 0..MaxFaults /\ restarts \in 0..MaxFaults
  BY Numbers DEF Init
<1>7. part \in [Processes -> Parts]
  BY DEF Init, Parts
<1> QED
  BY <1>1, <1>2, <1>3, <1>4, <1>5, <1>6, <1>7, Numbers DEF Init, TypeOK

\* The steps that leave the processes alone.
LEMMA WorldKeepsTyped ==
  ASSUME Typed,
         \/ ChangeEvent \/ ChangeProduct \/ ChangeDetails
         \/ BatchUpsertEvent \/ BatchUpsertProduct \/ ResetSyncState
  PROVE  Typed'
<1>1. UNCHANGED <<at, local>>
  BY DEF ChangeEvent, ChangeProduct, ChangeDetails, BatchUpsertEvent, BatchUpsertProduct,
         ResetSyncState
<1>2. Answered'
  BY <1>1 DEF Typed, Answered, local
<1>3. CASE ChangeEvent
  <2>1. event' \in Versions
    BY <1>3, Numbers DEF ChangeEvent, MoreChanges, Typed, TypeOK, Versions
  <2> QED
    BY <1>1, <1>2, <1>3, <2>1 DEF ChangeEvent, Typed, TypeOK, local, eventTable, productTables,
       bounds, productHistory
<1>4. CASE ChangeProduct
  <2>1. product' \in [base : Versions, more : Versions]
    <3>1. /\ product.base \in Versions /\ product.more \in Versions /\ event \in Versions
          /\ product.base + 1 \in Versions
      BY <1>4, Numbers DEF ChangeProduct, MoreChanges, Typed, TypeOK, Versions
    <3> QED
      BY <1>4, <3>1 DEF ChangeProduct
  <2>2. /\ UNCHANGED <<event, eventTable, productTables, inbox, at, local, bounds, eventHistory, unrecorded>>
        /\ clean' \in [Processes -> BOOLEAN]
        /\ {matched', outdated', cut', alone'} \subseteq BOOLEAN
    BY <1>4 DEF ChangeProduct, Typed, TypeOK
  <2> QED
    BY <1>2, <2>1, <2>2 DEF Typed, TypeOK, local, eventTable, productTables, bounds, eventHistory
<1>5. CASE ChangeDetails
  <2>1. product' \in [base : Versions, more : Versions]
    <3>1. product \in [base : Versions, more : Versions] /\ event \in Versions
      BY DEF Typed, TypeOK
    <3>2. product.base \in Versions /\ product.more \in Versions /\ product.more + 1 \in Versions
      BY <1>5, <3>1, Numbers DEF ChangeDetails, MoreChanges, Versions
    <3> QED
      BY <1>5, <3>1, <3>2 DEF ChangeDetails
  <2> QED
    BY <1>1, <1>2, <1>5, <2>1 DEF ChangeDetails, Typed, TypeOK, local, eventTable, productTables,
       bounds, eventHistory
<1>6. CASE BatchUpsertEvent
  <2>1. eventRow' \in [v : {Missing, Stub} \cup Versions, at : {Missing} \cup Versions]
    BY <1>6 DEF BatchUpsertEvent, Typed, TypeOK
  <2>2. touched' \in BOOLEAN
    BY <1>6 DEF BatchUpsertEvent, Typed, TypeOK
  <2> QED
    BY <1>1, <1>2, <1>6, <2>1, <2>2 DEF BatchUpsertEvent, Typed, TypeOK, local, weezevent,
       productTables, bounds, productHistory
<1>7. CASE BatchUpsertProduct
  BY <1>1, <1>2, <1>7 DEF BatchUpsertProduct, Typed, TypeOK, local, weezevent,
     eventTable, bounds, eventHistory, productHistory
<1>8. CASE ResetSyncState
  <2>1. runs' \in 0..MaxRuns
    BY <1>8, Numbers DEF ResetSyncState, Typed, TypeOK
  <2> QED
    BY <1>1, <1>2, <1>8, <2>1 DEF ResetSyncState, Typed, TypeOK, local, weezevent,
       productTables, eventHistory, productHistory
<1> QED
  BY <1>3, <1>4, <1>5, <1>6, <1>7, <1>8

\* A step of one process: the rows it writes, and what it knows afterwards.
StepOf(p) ==
    /\ UNCHANGED weezevent
    /\ eventRow' \in [v : {Missing, Stub} \cup Versions, at : {Missing} \cup Versions]
    /\ cursor' \in BOOLEAN
    /\ productRow' \in {Missing, Stub} \cup Versions
    /\ parts' \in [Parts -> {Missing} \cup Versions]
    /\ inbox' \in [Webhooks -> {"none", "stored", "processed", "failed"}]
    /\ runs' \in 0..MaxRuns /\ faults' \in 0..MaxFaults /\ restarts' \in 0..MaxFaults
    /\ synced' \in {"no", "incremental", "full"}
    /\ {touched', stale', matched', outdated', cut', alone'} \subseteq BOOLEAN
    /\ unrecorded' \subseteq Webhooks

\* What it remembers: nobody else's memory changes.
LocalOf(p) ==
    /\ at' = [at EXCEPT ![p] = at'[p]] /\ at'[p] \in Steps
    /\ kind' = [kind EXCEPT ![p] = kind'[p]] /\ kind'[p] \in Kinds
    /\ full' = [full EXCEPT ![p] = full'[p]] /\ full'[p] \in BOOLEAN
    /\ list' = [list EXCEPT ![p] = list'[p]] /\ list'[p] \in {Missing} \cup Versions
    /\ known' = [known EXCEPT ![p] = known'[p]] /\ known'[p] \in {Missing, Stub} \cup Versions
    /\ stamp' = [stamp EXCEPT ![p] = stamp'[p]] /\ stamp'[p] \in {Missing} \cup Versions
    /\ fetched' = [fetched EXCEPT ![p] = fetched'[p]]
    /\ fetched'[p] \in [Parts -> {Pending, Lost} \cup Versions]
    /\ part' = [part EXCEPT ![p] = part'[p]] /\ part'[p] \in Parts
    /\ clean' = [clean EXCEPT ![p] = clean'[p]] /\ clean'[p] \in BOOLEAN
    /\ at'[p] \in {"delete", "insert"} => Replaceable(fetched'[p], part'[p])

LEMMA StepKeepsTyped ==
  ASSUME Typed, NEW p \in Processes, StepOf(p), LocalOf(p)
  PROVE  Typed'
<1>1. TypeOK'
  <2>1. UNCHANGED weezevent /\ TypeOK
    BY DEF Typed, StepOf
  <2>2. event' \in Versions /\ product' \in [base : Versions, more : Versions]
    BY <2>1 DEF TypeOK, weezevent
  <2>3. /\ at' \in [Processes -> Steps] /\ kind' \in [Processes -> Kinds]
        /\ full' \in [Processes -> BOOLEAN] /\ list' \in [Processes -> {Missing} \cup Versions]
    <3>1. /\ at \in [Processes -> Steps] /\ kind \in [Processes -> Kinds]
          /\ full \in [Processes -> BOOLEAN] /\ list \in [Processes -> {Missing} \cup Versions]
      BY <2>1 DEF TypeOK, Steps, Kinds
    <3> QED
      BY <3>1 DEF LocalOf
  <2>4. /\ known' \in [Processes -> {Missing, Stub} \cup Versions]
        /\ stamp' \in [Processes -> {Missing} \cup Versions]
    BY <2>1 DEF TypeOK, LocalOf
  <2>5. /\ fetched' \in [Processes -> [Parts -> {Pending, Lost} \cup Versions]]
        /\ part' \in [Processes -> Parts] /\ clean' \in [Processes -> BOOLEAN]
    BY <2>1 DEF TypeOK, LocalOf
  <2> QED
    BY <2>2, <2>3, <2>4, <2>5 DEF TypeOK, StepOf, Steps, Kinds
<1>2. ASSUME NEW q \in Processes, at'[q] \in {"delete", "insert"}
      PROVE  Replaceable(fetched'[q], part'[q])
  <2>1. CASE q = p
    BY <1>2, <2>1 DEF LocalOf
  <2>2. CASE q # p
    <3>1. at'[q] = at[q] /\ fetched'[q] = fetched[q] /\ part'[q] = part[q]
      BY <2>2 DEF LocalOf, Typed, TypeOK
    <3> QED
      BY <1>2, <3>1 DEF Typed, Answered
  <2> QED
    BY <2>1, <2>2
<1> QED
  BY <1>1, <1>2 DEF Typed, Answered

LEMMA StepsThereAre ==
  {"idle", "state", "existing", "events", "prepare", "writeEvent", "cursor", "products", "stored",
   "writeProduct", "details", "delete", "insert", "tally", "find", "orders", "order", "mark",
   "error"} = Steps
  BY DEF Steps, EventSteps, ProductSteps, DetailSteps, InboxSteps

LEMMA EventsKeepTyped ==
  ASSUME Typed, NEW p \in Processes,
         \/ GetSyncState(p) \/ GetExistingEvents(p) \/ GetEvents(p) \/ PrepareEvents(p)
         \/ WriteEvent(p) \/ UpdateSyncState(p)
  PROVE  Typed'
<1>2. CASE GetSyncState(p)
  <2>1. StepOf(p)
    BY <1>2 DEF GetSyncState, eventsOnly, StepOf, Typed, TypeOK, bounds, productTables,
       eventTable, eventHistory, productHistory
  <2>9. LocalOf(p)
    BY <1>2, StepsThereAre DEF GetSyncState, eventsOnly, Goto, LocalOf, Typed, TypeOK, Parts, Kinds, Answered
  <2> QED
    BY <2>1, <2>9, StepKeepsTyped
<1>3. CASE GetExistingEvents(p)
  <2>1. StepOf(p)
    BY <1>3 DEF GetExistingEvents, eventsOnly, StepOf, Typed, TypeOK, bounds, productTables,
       eventTable, eventHistory, productHistory
  <2>2. eventRow.at \in {Missing, Stub} \cup Versions
    BY DEF Typed, TypeOK
  <2>9. LocalOf(p)
    BY <1>3, <2>2, StepsThereAre DEF GetExistingEvents, eventsOnly, Goto, LocalOf, Typed, TypeOK, Parts, Kinds, Answered
  <2> QED
    BY <2>1, <2>9, StepKeepsTyped
<1>4. CASE GetEvents(p)
  <2>1. StepOf(p)
    BY <1>4 DEF GetEvents, eventsOnly, StepOf, Typed, TypeOK, bounds, productTables,
       eventTable, eventHistory, productHistory
  <2>2. event \in {Missing} \cup Versions
    BY DEF Typed, TypeOK
  <2>9. LocalOf(p)
    BY <1>4, <2>2, StepsThereAre DEF GetEvents, eventsOnly, Goto, LocalOf, Typed, TypeOK, Parts, Kinds, Answered
  <2> QED
    BY <2>1, <2>9, StepKeepsTyped
<1>5. CASE PrepareEvents(p)
  <2>1. StepOf(p)
    BY <1>5 DEF PrepareEvents, eventsOnly, StepOf, Typed, TypeOK, bounds, productTables,
       eventTable, eventHistory, productHistory
  <2>2. event \in {Missing} \cup Versions
    BY DEF Typed, TypeOK
  <2>3. \E s \in {"cursor", "writeEvent"} : Goto(p, s)
    BY <1>5 DEF PrepareEvents
  <2>9. LocalOf(p)
    BY <1>5, <2>2, <2>3, StepsThereAre DEF PrepareEvents, eventsOnly, Goto, LocalOf, Typed, TypeOK, Parts, Kinds, Answered
  <2> QED
    BY <2>1, <2>9, StepKeepsTyped
<1>6. CASE WriteEvent(p)
  <2>1. eventRow' \in [v : {Missing, Stub} \cup Versions, at : {Missing} \cup Versions]
    BY <1>6 DEF WriteEvent, Typed, TypeOK
  <2>2. touched' \in BOOLEAN /\ stale' \in BOOLEAN
    BY <1>6 DEF WriteEvent, Typed, TypeOK
  <2>3. StepOf(p)
    BY <1>6, <2>1, <2>2 DEF WriteEvent, eventsOnly, StepOf, Typed, TypeOK, bounds, productTables,
       productHistory
  <2>4. \E b \in BOOLEAN : clean' = [clean EXCEPT ![p] = b]
    BY <1>6 DEF WriteEvent
  <2>9. LocalOf(p)
    BY <1>6, <2>4, StepsThereAre DEF WriteEvent, eventsOnly, Goto, LocalOf, Typed, TypeOK, Parts, Kinds, Answered
  <2> QED
    BY <2>3, <2>9, StepKeepsTyped
<1>7. CASE UpdateSyncState(p)
  <2>1. synced' \in {"no", "incremental", "full"}
    BY <1>7 DEF UpdateSyncState, Typed, TypeOK
  <2>2. StepOf(p)
    BY <1>7, <2>1 DEF UpdateSyncState, eventsOnly, StepOf, Typed, TypeOK, bounds, productTables,
       productHistory
  <2>3. \E s \in {"products", "mark", "idle"} : Goto(p, s)
    BY <1>7 DEF UpdateSyncState, End
  <2>9. LocalOf(p)
    BY <1>7, <2>3, StepsThereAre DEF UpdateSyncState, eventsOnly, Goto, LocalOf, Typed, TypeOK, Parts, Kinds, Answered
  <2> QED
    BY <2>2, <2>9, StepKeepsTyped
<1> QED
  BY <1>2, <1>3, <1>4, <1>5, <1>6, <1>7

\* Going to the next part that was answered, or on.
LEMMA ReplacesAnswered ==
  ASSUME NEW p \in Processes, NEW answers \in [Parts -> {Pending, Lost} \cup Versions],
         NEW x \in Parts, Replace(p, answers, x), part \in [Processes -> Parts],
         \A y \in Parts : answers[y] # Pending
  PROVE  \E s \in {"delete", "tally"}, y \in Parts :
            /\ Goto(p, s) /\ part' = [part EXCEPT ![p] = y]
            /\ s = "delete" => Replaceable(answers, y)
<1> DEFINE next == {y \in {x, "components"} : answers[y] # Lost}
           first == CHOOSE y \in next : x \in next => y = x
<1>1. CASE next = {}
  BY <1>1 DEF Replace
<1>2. CASE next # {}
  <2>1. \E y \in next : x \in next => y = x
    BY <1>2
  <2>2. first \in next
    BY <2>1
  <2>3. Goto(p, "delete") /\ part' = [part EXCEPT ![p] = first]
    BY <1>2 DEF Replace
  <2> HIDE DEF first
  <2>4. first \in Parts /\ Replaceable(answers, first)
    BY <2>2 DEF Parts, Replaceable
  <2> QED
    BY <2>3, <2>4
<1> QED
  BY <1>1, <1>2

LEMMA ProductsKeepTyped ==
  ASSUME Typed, NEW p \in Processes,
         \/ GetProducts(p) \/ FindProducts(p) \/ WriteProduct(p) \/ GetDetails(p)
         \/ DeletePart(p) \/ InsertPart(p) \/ StoreSyncState(p) \/ ReplaceThrows(p)
  PROVE  Typed'
<1>1. CASE GetProducts(p)
  <2>1. StepOf(p)
    BY <1>1 DEF GetProducts, productsOnly, StepOf, productTables, productHistory, Typed, TypeOK, eventTable, eventHistory
  <2>2. LocalOf(p)
    BY <1>1, StepsThereAre DEF GetProducts, productsOnly, Goto, LocalOf, Typed, TypeOK, Parts, Kinds, Answered
  <2> QED
    BY <2>1, <2>2, StepKeepsTyped
<1>2. CASE FindProducts(p)
  <2>1. \E s \in {"writeProduct", "tally"} : Goto(p, s)
    BY <1>2 DEF FindProducts
  <2>2. StepOf(p)
    BY <1>2 DEF FindProducts, productsOnly, StepOf, productTables, productHistory, Typed, TypeOK, eventTable, eventHistory
  <2>3. LocalOf(p)
    BY <1>2, <2>1, StepsThereAre DEF FindProducts, productsOnly, Goto, LocalOf, Typed, TypeOK, Parts, Kinds, Answered
  <2> QED
    BY <2>2, <2>3, StepKeepsTyped
<1>3. CASE WriteProduct(p)
  <2>1. StepOf(p)
    BY <1>3 DEF WriteProduct, productsOnly, StepOf, Typed, TypeOK, eventTable, eventHistory
  <2>2. LocalOf(p)
    BY <1>3, StepsThereAre DEF WriteProduct, productsOnly, Goto, LocalOf, Typed, TypeOK, Parts, Kinds, Answered
  <2> QED
    BY <2>1, <2>2, StepKeepsTyped
<1>4. CASE StoreSyncState(p)
  <2>1. \E s \in {"mark", "idle"} : Goto(p, s)
    BY <1>4 DEF StoreSyncState, End
  <2>2. StepOf(p)
    BY <1>4 DEF StoreSyncState, productsOnly, StepOf, productTables, Typed, TypeOK, eventTable, eventHistory
  <2>3. LocalOf(p)
    BY <1>4, <2>1, StepsThereAre DEF StoreSyncState, productsOnly, Goto, LocalOf, Typed, TypeOK, Parts, Kinds, Answered
  <2> QED
    BY <2>2, <2>3, StepKeepsTyped
<1>5. CASE DeletePart(p)
  <2>1. StepOf(p)
    BY <1>5 DEF DeletePart, productsOnly, StepOf, Typed, TypeOK, eventTable, eventHistory
  <2>2. LocalOf(p)
    BY <1>5, StepsThereAre DEF DeletePart, productsOnly, Goto, LocalOf, Typed, TypeOK, Parts, Kinds, Answered
  <2> QED
    BY <2>1, <2>2, StepKeepsTyped
<1>6. CASE GetDetails(p)
  <2>1. PICK lost \in SUBSET Parts :
           LET answers == [x \in Parts |-> IF x \in lost THEN Lost ELSE product.more]
           IN  /\ Replace(p, answers, "variants")
               /\ fetched' = [fetched EXCEPT ![p] = answers]
               /\ faults + restarts + Cardinality(lost) <= MaxFaults
               /\ faults' = faults + Cardinality(lost)
               /\ cut' = (cut \/ lost # {})
    BY <1>6 DEF GetDetails
  <2> DEFINE answers == [x \in Parts |-> IF x \in lost THEN Lost ELSE product.more]
  <2>2. answers \in [Parts -> {Pending, Lost} \cup Versions] /\ \A y \in Parts : answers[y] # Pending
    BY DEF Typed, TypeOK, Versions, Pending, Lost
  <2>3. Replace(p, answers, "variants") /\ fetched' = [fetched EXCEPT ![p] = answers]
    BY <2>1
  <2> HIDE DEF answers
  <2>4. PICK s \in {"delete", "tally"}, y \in Parts :
           /\ Goto(p, s) /\ part' = [part EXCEPT ![p] = y]
           /\ s = "delete" => Replaceable(answers, y)
    BY <2>2, <2>3, ReplacesAnswered DEF Typed, TypeOK, Parts
  <2>5. UNCHANGED <<productsOnly, productTables, list, known, clean, matched, outdated, alone>>
    BY <1>6 DEF GetDetails
  <2>6. Cardinality(lost) \in Nat
    <3>1. IsFiniteSet(Parts)
      <4>1. Parts = {"variants"} \cup {"components"}
        BY DEF Parts
      <4> QED
        BY <4>1, FS_Singleton, FS_Union
    <3> QED
      BY <3>1, FS_Subset, FS_CardinalityType
  <2>7. faults' \in 0..MaxFaults
    BY <2>1, <2>6, Numbers DEF Typed, TypeOK
  <2>8. cut' \in BOOLEAN
    BY <2>1 DEF Typed, TypeOK
  <2>9. StepOf(p)
    BY <2>5, <2>7, <2>8 DEF productsOnly, StepOf, productTables, Typed, TypeOK, eventTable, eventHistory
  <2>10. LocalOf(p)
    BY <2>2, <2>3, <2>4, <2>5, StepsThereAre
       DEF productsOnly, Goto, LocalOf, Typed, TypeOK, Kinds
  <2> QED
    BY <2>9, <2>10, StepKeepsTyped
<1>7. ASSUME AfterPart(p), at[p] \in {"delete", "insert"},
             UNCHANGED <<productsOnly, list, known, fetched, clean>>
      PROVE  LocalOf(p)
  <2>1. \E s \in {"delete", "tally"}, y \in Parts :
           /\ Goto(p, s) /\ part' = [part EXCEPT ![p] = y]
           /\ s = "delete" => Replaceable(fetched[p], y)
    <3>1. CASE part[p] = "variants"
      <4>1. Replace(p, fetched[p], "components")
        BY <1>7, <3>1 DEF AfterPart
      <4>2. CASE fetched[p]["components"] = Lost
        BY <4>1, <4>2 DEF Replace, Typed, TypeOK, Parts
      <4>3. CASE fetched[p]["components"] # Lost
        <5>1. Goto(p, "delete") /\ part' = [part EXCEPT ![p] = "components"]
          BY <4>1, <4>3 DEF Replace
        <5>2. Replaceable(fetched[p], "components")
          BY <1>7, <4>3 DEF Replaceable, Typed, TypeOK, Answered, Parts
        <5> QED
          BY <5>1, <5>2 DEF Parts
      <4> QED
        BY <4>2, <4>3
    <3>2. CASE part[p] # "variants"
      BY <1>7, <3>2 DEF AfterPart, Typed, TypeOK
    <3> QED
      BY <3>1, <3>2
  <2> QED
    BY <1>7, <2>1, StepsThereAre DEF productsOnly, Goto, LocalOf, Typed, TypeOK, Kinds
<1>8. CASE InsertPart(p)
  <2>1. parts' \in [Parts -> {Missing} \cup Versions]
    BY <1>8 DEF InsertPart, Typed, TypeOK, Answered, Replaceable
  <2>2. StepOf(p)
    BY <1>8, <2>1 DEF InsertPart, productsOnly, StepOf, Typed, TypeOK, eventTable, eventHistory
  <2>3. LocalOf(p)
    BY <1>7, <1>8 DEF InsertPart
  <2> QED
    BY <2>2, <2>3, StepKeepsTyped
<1>9. CASE ReplaceThrows(p)
  <2>1. faults' \in 0..MaxFaults
    BY <1>9, Numbers DEF ReplaceThrows, Typed, TypeOK
  <2>2. StepOf(p)
    BY <1>9, <2>1 DEF ReplaceThrows, productsOnly, StepOf, productTables, Typed, TypeOK,
       eventTable, eventHistory
  <2>3. CASE at[p] \in {"delete", "insert"} /\ AfterPart(p)
    BY <1>7, <1>9, <2>2, <2>3, StepKeepsTyped DEF ReplaceThrows
  <2>4. CASE Goto(p, "tally") /\ UNCHANGED part
    <3>1. LocalOf(p)
      BY <1>9, <2>4, StepsThereAre DEF ReplaceThrows, productsOnly, Goto, LocalOf, Typed, TypeOK, Kinds
    <3> QED
      BY <2>2, <3>1, StepKeepsTyped
  <2> QED
    BY <1>9, <2>3, <2>4 DEF ReplaceThrows
<1> QED
  BY <1>1, <1>2, <1>3, <1>4, <1>5, <1>6, <1>8, <1>9

LEMMA StartsKeepTyped ==
  ASSUME Typed, NEW s \in Syncs,
         \/ SyncReferenceData(s) \/ FullHistoricalSync(s)
         \/ SyncEventsNow(s) \/ SyncProductsNow(s)
  PROVE  Typed'
<1>1. /\ \E k \in Kinds, force \in BOOLEAN, step \in {"state", "products"} : Start(s, k, force, step)
      /\ cursor' \in BOOLEAN /\ eventRow' = eventRow
  BY DEF SyncReferenceData, FullHistoricalSync, SyncEventsNow, SyncProductsNow, Typed, TypeOK,
         eventTable, Kinds
<1>2. PICK k \in Kinds, force \in BOOLEAN, step \in {"state", "products"} : Start(s, k, force, step)
  BY <1>1
<1>3. s \in Processes
  BY DEF Processes
<1>4. runs' \in 0..MaxRuns
  BY <1>2, Numbers DEF Start, Typed, TypeOK
<1>5. StepOf(s)
  BY <1>1, <1>2, <1>4 DEF Start, StepOf, Typed, TypeOK, productTables, eventHistory, productHistory
<1>6. LocalOf(s)
  BY <1>2, <1>3, StepsThereAre DEF Start, LocalOf, Typed, TypeOK
<1> QED
  BY <1>3, <1>5, <1>6, StepKeepsTyped

LEMMA InboxKeepsTyped ==
  ASSUME Typed, NEW w \in Webhooks, ReceiveWebhook(w) \/ Handle(w)
  PROVE  Typed'
<1>1. w \in Processes
  BY DEF Processes
<1>2. CASE Proceed(w)
  BY <1>1, <1>2, EventsKeepTyped, ProductsKeepTyped DEF Proceed
<1>3. CASE ReceiveWebhook(w)
  <2>1. runs' \in 0..MaxRuns
    BY <1>3, Numbers DEF ReceiveWebhook, Typed, TypeOK
  <2>2. StepOf(w)
    BY <1>3, <2>1 DEF ReceiveWebhook, StepOf, inboxOnly, Typed, TypeOK, eventTable, productTables,
       eventHistory, productHistory
  <2>3. LocalOf(w)
    BY <1>1, <1>3, StepsThereAre DEF ReceiveWebhook, Goto, LocalOf, inboxOnly, Typed, TypeOK, Kinds
  <2> QED
    BY <1>1, <2>2, <2>3, StepKeepsTyped
<1>4. CASE ProcessEvent(w) \/ GetOrders(w) \/ UpsertOrder(w) \/ MarkProcessed(w) \/ RecordError(w)
  <2>1. /\ UNCHANGED <<inboxOnly, kind, runs, faults>>
        /\ \E s \in {"products", "orders", "order", "mark", "idle"} : Goto(w, s)
        /\ inbox' \in [Webhooks -> {"none", "stored", "processed", "failed"}]
    BY <1>4 DEF ProcessEvent, GetOrders, UpsertOrder, MarkProcessed, RecordError, End, Typed, TypeOK
  <2>2. StepOf(w)
    BY <2>1 DEF StepOf, inboxOnly, Typed, TypeOK, eventTable, productTables,
       eventHistory, productHistory
  <2>3. LocalOf(w)
    BY <1>1, <2>1, StepsThereAre DEF Goto, LocalOf, inboxOnly, Typed, TypeOK, Kinds
  <2> QED
    BY <1>1, <2>2, <2>3, StepKeepsTyped
<1> QED
  BY <1>2, <1>3, <1>4 DEF Handle

LEMMA ThrowKeepsTyped ==
  ASSUME Typed, NEW p \in Processes, Throw(p)
  PROVE  Typed'
<1>1. faults' \in 0..MaxFaults /\ unrecorded' \subseteq Webhooks
  BY Numbers DEF Throw, Typed, TypeOK
<1>2. StepOf(p)
  BY <1>1 DEF Throw, StepOf, Typed, TypeOK, eventTable, productTables, eventHistory, productHistory
<1>3. \E s \in {"idle", "error"} : Goto(p, s)
  BY DEF Throw
<1>4. \E k \in Kinds : kind' = [kind EXCEPT ![p] = k]
  BY DEF Throw, Typed, TypeOK, Kinds
<1>5. LocalOf(p)
  BY <1>3, <1>4, StepsThereAre DEF Throw, Goto, LocalOf, Typed, TypeOK, Parts
<1> QED
  BY <1>2, <1>5, StepKeepsTyped

LEMMA RestartKeepsTyped == ASSUME Typed, Restart PROVE Typed'
<1>1. restarts' \in 0..MaxFaults
  BY Numbers DEF Restart, Typed, TypeOK
<1>2. kind' \in [Processes -> Kinds] /\ cut' \in BOOLEAN
  BY DEF Restart, Typed, TypeOK, Kinds
<1>3. Answered'
  BY DEF Restart, Answered
<1>4. part' \in [Processes -> Parts]
  BY DEF Restart, Parts
<1>5. fetched' \in [Processes -> [Parts -> {Pending, Lost} \cup Versions]]
  BY DEF Restart
<1> QED
  BY <1>1, <1>2, <1>3, <1>4, <1>5 DEF Restart, Typed, TypeOK, Kinds, weezevent, eventTable,
     productTables, eventHistory

LEMMA NextKeepsTyped == Typed /\ [Next]_vars => Typed'
<1> SUFFICES ASSUME Typed, [Next]_vars
             PROVE  Typed'
  OBVIOUS
<1>1. CASE \/ ChangeEvent \/ ChangeProduct \/ ChangeDetails
           \/ BatchUpsertEvent \/ BatchUpsertProduct \/ ResetSyncState
  BY <1>1, WorldKeepsTyped
<1>2. CASE Restart
  BY <1>2, RestartKeepsTyped
<1>3. ASSUME NEW s \in Syncs,
             \/ SyncReferenceData(s) \/ FullHistoricalSync(s)
             \/ SyncEventsNow(s) \/ SyncProductsNow(s) \/ Proceed(s)
      PROVE  Typed'
  <2>1. s \in Processes
    BY DEF Processes
  <2> QED
    BY <1>3, <2>1, StartsKeepTyped, EventsKeepTyped, ProductsKeepTyped DEF Proceed
<1>4. ASSUME NEW w \in Webhooks, ReceiveWebhook(w) \/ Handle(w)
      PROVE  Typed'
  BY <1>4, InboxKeepsTyped
<1>5. ASSUME NEW p \in Processes, ReplaceThrows(p) \/ Throw(p)
      PROVE  Typed'
  BY <1>5, ProductsKeepTyped, ThrowKeepsTyped
<1>6. CASE UNCHANGED vars
  BY <1>6 DEF vars, Typed, TypeOK, Answered, weezevent, eventTable, productTables, local, bounds,
     eventHistory, productHistory
<1> QED
  BY <1>1, <1>2, <1>3, <1>4, <1>5, <1>6 DEF Next

(* Every variable keeps its type, and a run only ever inserts variants and  *)
(* components that Weezevent has answered (syncProductDetails).             *)
THEOREM CatalogueTypeCorrect == Spec => []TypeOK
<1>1. Typed => TypeOK
  BY DEF Typed
<1> QED
  BY TypedInitially, NextKeepsTyped, <1>1, PTL DEF Spec
(***************************************************************************)
(* Events.  A row is never ahead of Weezevent, and says that it is as new  *)
(* as the event only if it shows it, or older data got the syncedAt        *)
(* (EventInv).  A clean run has listed the event as it is; when it comes   *)
(* to the sync state it has written that, or it skipped a row that said so *)
(* (Listed).                                                               *)
(***************************************************************************)
Shown == eventRow.v = event

Listed(p) ==
    /\ stamp[p] <= event
    /\ at[p] \in {"events", "prepare"}
       => known[p] <= event /\ (known[p] = event => Shown \/ touched \/ stale)
    /\ at[p] \in ListedEvent /\ clean[p] => list[p] = event
    /\ at[p] = "cursor" /\ clean[p] => Shown \/ stale \/ (~full[p] /\ touched)

EventInv ==
    /\ eventRow.at <= event
    /\ eventRow.at = event => Shown \/ touched
    /\ \A p \in Processes : Listed(p)
    /\ EventsFollow

\* The other processes are where they were.
Others(p) ==
    \A q \in Processes \ {p} :
        /\ at'[q] = at[q] /\ full'[q] = full[q] /\ list'[q] = list[q] /\ known'[q] = known[q]
        /\ stamp'[q] = stamp[q] /\ fetched'[q] = fetched[q] /\ part'[q] = part[q]
        /\ clean'[q] = clean[q]

LEMMA EventsInitially == Init => EventInv
<1> SUFFICES ASSUME Init PROVE EventInv
  OBVIOUS
<1>1. eventRow.at <= event /\ (eventRow.at = event => Shown)
  BY DEF Init, NoRow, Missing, Shown
<1>2. ASSUME NEW p \in Processes PROVE Listed(p)
  BY <1>2 DEF Init, Listed, Missing, ListedEvent
<1>3. EventsFollow
  BY DEF Init, EventsFollow
<1> QED
  BY <1>1, <1>2, <1>3 DEF EventInv

LEMMA EventTypes ==
  ASSUME Typed
  PROVE  /\ event \in Nat /\ eventRow.v \in Int /\ eventRow.at \in Int
         /\ touched \in BOOLEAN /\ stale \in BOOLEAN
         /\ \A p \in Processes :
               /\ list[p] \in Int /\ known[p] \in Int /\ stamp[p] \in Int
               /\ full[p] \in BOOLEAN /\ clean[p] \in BOOLEAN
<1>1. {Missing, Stub} \cup Versions \subseteq Int /\ Versions \subseteq Nat
  BY Numbers DEF Missing, Stub
<1> QED
  BY <1>1 DEF Typed, TypeOK

\* What a step takes from nobody else.
LEMMA OthersAreListed ==
  ASSUME Typed, EventInv, NEW p \in Processes, Others(p), event' = event,
         Shown \/ stale => (Shown \/ stale)', touched => touched'
  PROVE  \A q \in Processes \ {p} : Listed(q)'
<1> SUFFICES ASSUME NEW q \in Processes \ {p}
             PROVE  Listed(q)'
  OBVIOUS
<1>1. Listed(q)
  BY DEF EventInv
<1>2. /\ at'[q] = at[q] /\ full'[q] = full[q] /\ list'[q] = list[q] /\ known'[q] = known[q]
      /\ stamp'[q] = stamp[q] /\ clean'[q] = clean[q]
  BY DEF Others
<1> QED
  BY <1>1, <1>2 DEF Listed

\* The steps that have nothing to do with events, and those to or from calls
\* that are not about the answer of Weezevent.
LEMMA OutsideEvents ==
  ASSUME Typed, EventInv, NEW p \in Processes, Others(p),
         UNCHANGED <<event, eventRow, synced, touched, stale>>,
         at'[p] \notin {"events"} \cup ListedEvent, stamp'[p] \in {stamp[p], Missing}
  PROVE  EventInv'
<1>1. Listed(p)'
  <2>1. stamp'[p] <= event
    BY EventTypes DEF EventInv, Listed, Missing
  <2> QED
    BY <2>1 DEF Listed, ListedEvent
<1>2. \A q \in Processes : Listed(q)'
  BY <1>1, OthersAreListed DEF Shown
<1>3. EventsFollow'
  BY DEF EventInv, EventsFollow
<1> QED
  BY <1>2, <1>3 DEF EventInv, Shown
\* A step of a process is its own.
LEMMA StepsAreOwn ==
  ASSUME Typed, NEW p \in Processes,
         \/ Proceed(p) \/ ReplaceThrows(p) \/ Throw(p)
         \/ p \in Webhooks /\ (ReceiveWebhook(p) \/ Handle(p))
         \/ p \in Syncs /\ (\/ SyncReferenceData(p) \/ FullHistoricalSync(p)
                            \/ SyncEventsNow(p) \/ SyncProductsNow(p))
  PROVE  Others(p)
<1> DEFINE One(f, g) == g = f \/ \E e : g = [f EXCEPT ![p] = e]
<1>1. ASSUME /\ One(at, at') /\ One(full, full') /\ One(list, list') /\ One(known, known')
             /\ One(stamp, stamp') /\ One(fetched, fetched') /\ One(part, part')
             /\ One(clean, clean')
      PROVE  Others(p)
  BY <1>1 DEF Others, Typed, TypeOK
<1>2. CASE \/ GetSyncState(p) \/ GetExistingEvents(p) \/ GetEvents(p) \/ PrepareEvents(p)
           \/ WriteEvent(p) \/ UpdateSyncState(p)
  <2>1. /\ One(full, full') /\ One(list, list') /\ One(known, known')
        /\ One(stamp, stamp') /\ One(fetched, fetched') /\ One(part, part')
        /\ One(clean, clean')
    BY <1>2 DEF GetSyncState, GetExistingEvents, GetEvents, PrepareEvents, WriteEvent,
       UpdateSyncState, eventsOnly
  <2>2. One(at, at')
    BY <1>2 DEF GetSyncState, GetExistingEvents, GetEvents, PrepareEvents, WriteEvent,
       UpdateSyncState, Goto, End
  <2> QED
    BY <1>1, <2>1, <2>2
<1>3. CASE \/ GetProducts(p) \/ FindProducts(p) \/ WriteProduct(p) \/ GetDetails(p)
           \/ DeletePart(p) \/ InsertPart(p) \/ StoreSyncState(p) \/ ReplaceThrows(p)
  <2>1. /\ One(full, full') /\ One(list, list') /\ One(known, known')
        /\ One(stamp, stamp') /\ One(fetched, fetched') /\ One(clean, clean')
    BY <1>3 DEF GetProducts, FindProducts, WriteProduct, GetDetails, DeletePart, InsertPart,
       StoreSyncState, ReplaceThrows, productsOnly
  <2>2. One(at, at') /\ One(part, part')
    BY <1>3 DEF GetProducts, FindProducts, WriteProduct, GetDetails, DeletePart, InsertPart,
       StoreSyncState, ReplaceThrows, Replace, AfterPart, Goto, End
  <2> QED
    BY <1>1, <2>1, <2>2
<1>4. CASE \/ SyncReferenceData(p) \/ FullHistoricalSync(p)
           \/ SyncEventsNow(p) \/ SyncProductsNow(p)
  <2>1. \E k, force, step : Start(p, k, force, step)
    BY <1>4 DEF SyncReferenceData, FullHistoricalSync, SyncEventsNow, SyncProductsNow
  <2> QED
    BY <1>1, <2>1 DEF Start
<1>5. CASE \/ ReceiveWebhook(p) \/ ProcessEvent(p) \/ GetOrders(p) \/ UpsertOrder(p)
           \/ MarkProcessed(p) \/ RecordError(p)
  <2>1. UNCHANGED inboxOnly /\ One(at, at')
    BY <1>5 DEF ReceiveWebhook, ProcessEvent, GetOrders, UpsertOrder, MarkProcessed,
       RecordError, Goto, End
  <2> QED
    BY <1>1, <2>1 DEF inboxOnly
<1>6. CASE Throw(p)
  BY <1>1, <1>6 DEF Throw, Goto
<1> QED
  BY <1>2, <1>3, <1>4, <1>5, <1>6 DEF Proceed, Handle
\* The calls of syncEventsIncremental that only read.
LEMMA ReadsKeepEvents ==
  ASSUME Typed, EventInv, NEW p \in Processes,
         GetSyncState(p) \/ GetExistingEvents(p) \/ GetEvents(p) \/ PrepareEvents(p)
  PROVE  EventInv'
<1>1. Others(p)
  BY StepsAreOwn DEF Proceed
<1>2. UNCHANGED <<event, eventRow, synced, touched, stale>>
  BY DEF GetSyncState, GetExistingEvents, GetEvents, PrepareEvents, eventsOnly, weezevent,
     eventTable, eventHistory
<1>3. \A q \in Processes \ {p} : Listed(q)'
  BY <1>1, <1>2, OthersAreListed DEF Shown
<1>4. Listed(p)
  BY DEF EventInv
<1>5. p \in DOMAIN at /\ p \in DOMAIN full /\ p \in DOMAIN list /\ p \in DOMAIN known
      /\ p \in DOMAIN stamp /\ p \in DOMAIN clean
  BY DEF Typed, TypeOK
<1>6. Listed(p)'
  <2>1. CASE GetSyncState(p)
    <3>1. at'[p] = "existing" /\ stamp'[p] = stamp[p]
      BY <1>5, <2>1 DEF GetSyncState, Goto
    <3> QED
      BY <1>2, <1>4, <3>1 DEF Listed, ListedEvent
  <2>2. CASE GetExistingEvents(p)
    <3>1. at'[p] = "events" /\ stamp'[p] = stamp[p] /\ known'[p] = eventRow.at
      BY <1>5, <2>2 DEF GetExistingEvents, Goto
    <3> QED
      BY <1>2, <1>4, <3>1 DEF Listed, ListedEvent, EventInv, Shown
  <2>3. CASE GetEvents(p)
    <3>1. /\ at[p] = "events" /\ at'[p] = "prepare" /\ stamp'[p] = stamp[p]
          /\ known'[p] = known[p] /\ list'[p] = event
      BY <1>5, <2>3 DEF GetEvents, Goto
    <3> QED
      BY <1>2, <1>4, <3>1 DEF Listed, ListedEvent, Shown
  <2>4. CASE PrepareEvents(p)
    <3>1. /\ at[p] = "prepare" /\ at'[p] = IF SyncedRecently(p) THEN "cursor" ELSE "writeEvent"
          /\ stamp'[p] = event /\ clean'[p] = clean[p] /\ list'[p] = list[p] /\ full'[p] = full[p]
      BY <1>5, <2>4 DEF PrepareEvents, Goto
    <3>2. clean[p] => list[p] = event
      BY <1>4, <3>1 DEF Listed, ListedEvent
    <3>3. SyncedRecently(p) /\ clean[p] => ~full[p] /\ (Shown \/ touched \/ stale)
      BY <1>4, <3>1, <3>2, EventTypes DEF SyncedRecently, Listed
    <3>4. stamp'[p] <= event
      BY <3>1, EventTypes
    <3> QED
      BY <1>2, <3>1, <3>2, <3>3, <3>4 DEF Listed, Shown
  <2> QED
    BY <2>1, <2>2, <2>3, <2>4
<1>7. EventsFollow'
  BY <1>2 DEF EventInv, EventsFollow
<1> QED
  BY <1>2, <1>3, <1>6, <1>7 DEF EventInv, Shown

\* What a clean run writes shows the event; older data are noted, and so is a
\* syncedAt that they get although the event is newer.
LEMMA WriteEventKeepsEvents ==
  ASSUME Typed, EventInv, NEW p \in Processes, WriteEvent(p)
  PROVE  EventInv'
<1>1. Others(p)
  BY StepsAreOwn DEF Proceed
<1>2. UNCHANGED <<event, synced, full, list, stamp>> /\ at[p] = "writeEvent" /\ at'[p] = "cursor"
  BY DEF WriteEvent, eventsOnly, weezevent, Goto, Typed, TypeOK
<1>3. Listed(p)
  BY DEF EventInv
<1>4. CASE UNCHANGED <<eventRow, touched, stale>> /\ ~clean'[p]
  <2>1. \A q \in Processes \ {p} : Listed(q)'
    BY <1>1, <1>2, <1>4, OthersAreListed DEF Shown
  <2>2. Listed(p)'
    BY <1>2, <1>3, <1>4 DEF Listed
  <2>3. EventsFollow'
    BY <1>2, <1>4 DEF EventInv, EventsFollow
  <2> QED
    BY <1>2, <1>4, <2>1, <2>2, <2>3 DEF EventInv, Shown
<1>5. CASE /\ eventRow' = [v |-> list[p], at |-> stamp[p]] /\ clean'[p] = clean[p]
           /\ touched' = (touched \/ (list[p] # event /\ stamp[p] = event))
           /\ stale' = (stale \/ list[p] # event)
  <2>1. (Shown \/ stale)' /\ (touched => touched')
    BY <1>2, <1>5 DEF Shown
  <2>2. \A q \in Processes \ {p} : Listed(q)'
    BY <1>1, <1>2, <2>1, OthersAreListed
  <2>3. Listed(p)'
    BY <1>2, <1>3, <1>5, <2>1 DEF Listed, ListedEvent
  <2>4. eventRow'.at <= event' /\ (eventRow'.at = event' => Shown' \/ touched')
    BY <1>2, <1>3, <1>5 DEF Listed, Shown
  <2>5. EventsFollow'
    BY <1>2, <2>1 DEF EventsFollow, Shown
  <2> QED
    BY <2>2, <2>3, <2>4, <2>5 DEF EventInv
<1>6. \/ UNCHANGED <<eventRow, touched, stale>> /\ ~clean'[p]
      \/ /\ eventRow' = [v |-> list[p], at |-> stamp[p]] /\ clean'[p] = clean[p]
         /\ touched' = (touched \/ (list[p] # event /\ stamp[p] = event))
         /\ stale' = (stale \/ list[p] # event)
  <2> DEFINE skipped == known[p] = Missing /\ eventRow # NoRow
  <2>1. clean'[p] = (clean[p] /\ ~skipped)
    BY DEF WriteEvent, Typed, TypeOK
  <2>2. CASE skipped
    BY <2>1, <2>2 DEF WriteEvent
  <2>3. CASE ~skipped
    <3>1. clean'[p] = clean[p]
      BY <2>1, <2>3, EventTypes
    <3> QED
      BY <2>3, <3>1 DEF WriteEvent
  <2> QED
    BY <2>2, <2>3
<1> QED
  BY <1>4, <1>5, <1>6

\* A clean run at the sync state has shown the event.
LEMMA UpdateSyncStateKeepsEvents ==
  ASSUME Typed, EventInv, NEW p \in Processes, UpdateSyncState(p)
  PROVE  EventInv'
<1>1. Others(p)
  BY StepsAreOwn DEF Proceed
<1>2. UNCHANGED <<event, eventRow, touched, stale>> /\ at[p] = "cursor"
  BY DEF UpdateSyncState, eventsOnly, weezevent
<1>3. at'[p] \in {"products", "mark", "idle"} /\ stamp'[p] = Missing
  BY DEF UpdateSyncState, Goto, End, Typed, TypeOK
<1>4. \A q \in Processes \ {p} : Listed(q)'
  BY <1>1, <1>2, OthersAreListed DEF Shown
<1>5. Listed(p)'
  BY <1>2, <1>3, EventTypes DEF Listed, ListedEvent, Missing
<1>6. clean[p] => Shown \/ stale \/ (~full[p] /\ touched)
  BY <1>2 DEF EventInv, Listed
<1>7. EventsFollow
  BY DEF EventInv
<1>8. \/ synced' = synced
      \/ clean[p] /\ full[p] /\ synced' = "full"
      \/ clean[p] /\ synced' = "incremental"
  BY DEF UpdateSyncState
<1>9. EventsFollow'
  <2>1. CASE synced' = synced
    BY <1>2, <1>7, <2>1 DEF EventsFollow
  <2>2. CASE clean[p] /\ full[p] /\ synced' = "full"
    BY <1>2, <1>6, <2>2 DEF EventsFollow, Shown
  <2>3. CASE clean[p] /\ synced' = "incremental"
    BY <1>2, <1>6, <2>3 DEF EventsFollow, Shown
  <2> QED
    BY <1>8, <2>1, <2>2, <2>3
<1> QED
  BY <1>2, <1>4, <1>5, <1>9 DEF EventInv, Shown

\* The event changes: everything is older than it.  A batch of transactions
\* gives the row a new syncedAt and not what it shows.
LEMMA WorldKeepsEvents ==
  ASSUME Typed, EventInv,
         \/ ChangeEvent \/ ChangeProduct \/ ChangeDetails
         \/ BatchUpsertEvent \/ BatchUpsertProduct \/ ResetSyncState
  PROVE  EventInv'
<1>1. CASE ChangeEvent
  <2>1. /\ UNCHANGED <<eventRow, at, full, known, stamp>> /\ event' = event + 1 /\ synced' = "no"
        /\ \A p \in Processes : clean'[p] => at[p] \notin ListedEvent
    BY <1>1 DEF ChangeEvent, eventTable, local
  <2>2. ASSUME NEW p \in Processes PROVE Listed(p)'
    BY <2>1, EventTypes DEF Listed, EventInv, ListedEvent
  <2>3. eventRow'.at < event'
    BY <2>1, EventTypes DEF EventInv
  <2>4. EventsFollow'
    BY <2>1 DEF EventsFollow
  <2> QED
    BY <2>2, <2>3, <2>4, <2>1, EventTypes DEF EventInv
<1>2. CASE ChangeProduct
  <2>1. UNCHANGED <<event, eventRow, at, full, list, known, stamp, synced, touched, stale>>
        /\ \A p \in Processes : clean'[p] => clean[p]
    BY <1>2 DEF ChangeProduct, eventTable, local, eventHistory
  <2>2. ASSUME NEW p \in Processes PROVE Listed(p)'
    BY <2>1 DEF Listed, EventInv, Shown
  <2> QED
    BY <2>1, <2>2 DEF EventInv, EventsFollow, Shown
<1>3. CASE ChangeDetails \/ BatchUpsertProduct \/ ResetSyncState
  <2>1. UNCHANGED <<event, eventRow, at, full, list, known, stamp, clean, synced, touched, stale>>
    BY <1>3 DEF ChangeDetails, BatchUpsertProduct, ResetSyncState, eventTable, local, eventHistory,
       weezevent
  <2> QED
    BY <2>1 DEF EventInv, EventsFollow, Shown, Listed
<1>4. CASE BatchUpsertEvent
  <2>1. UNCHANGED <<event, at, full, list, known, stamp, clean, synced, stale>>
        /\ (touched => touched')
    BY <1>4 DEF BatchUpsertEvent, local, weezevent
  <2>2. eventRow'.at = event /\ (Shown => eventRow'.v = event) /\ (eventRow'.v = event \/ touched')
    <3>1. CASE eventRow = NoRow
      <4>1. eventRow' = [v |-> Stub, at |-> event] /\ eventRow.v = Missing
        BY <1>4, <3>1 DEF BatchUpsertEvent, NoRow
      <4>2. eventRow.v # event
        BY <4>1, EventTypes DEF Missing
      <4>3. touched'
        BY <1>4, <4>2 DEF BatchUpsertEvent
      <4> QED
        BY <4>1, <4>2, <4>3 DEF Shown
    <3>2. CASE eventRow # NoRow
      <4>1. eventRow' = [eventRow EXCEPT !.at = event]
        BY <1>4, <3>2 DEF BatchUpsertEvent
      <4>2. eventRow'.at = event /\ eventRow'.v = eventRow.v
        BY <4>1 DEF Typed, TypeOK
      <4> QED
        BY <1>4, <4>2 DEF BatchUpsertEvent, Shown
    <3> QED
      BY <3>1, <3>2
  <2>3. ASSUME NEW p \in Processes PROVE Listed(p)'
    BY <2>1, <2>2 DEF Listed, EventInv, Shown
  <2>4. EventsFollow'
    BY <2>1, <2>2 DEF EventInv, EventsFollow, Shown
  <2> QED
    BY <2>1, <2>2, <2>3, <2>4, EventTypes DEF EventInv, Shown
<1> QED
  BY <1>1, <1>2, <1>3, <1>4
\* The steps that have nothing to do with events.
LEMMA ProductsKeepEvents ==
  ASSUME Typed, EventInv, NEW p \in Processes,
         \/ GetProducts(p) \/ FindProducts(p) \/ WriteProduct(p) \/ GetDetails(p)
         \/ DeletePart(p) \/ InsertPart(p) \/ StoreSyncState(p) \/ ReplaceThrows(p)
  PROVE  EventInv'
<1>1. Others(p)
  BY StepsAreOwn DEF Proceed
<1>2. UNCHANGED <<event, eventRow, synced, touched, stale, stamp>>
  BY DEF GetProducts, FindProducts, WriteProduct, GetDetails, DeletePart, InsertPart,
     StoreSyncState, ReplaceThrows, productsOnly, weezevent, eventTable, eventHistory
<1>3. \E step \in {"stored", "writeProduct", "tally", "details", "delete", "insert", "mark", "idle"} :
          Goto(p, step)
  BY DEF GetProducts, FindProducts, WriteProduct, GetDetails, DeletePart, InsertPart,
     StoreSyncState, ReplaceThrows, Replace, AfterPart, End
<1>4. at'[p] \notin {"events"} \cup ListedEvent
  BY <1>3 DEF Goto, Typed, TypeOK, ListedEvent
<1> QED
  BY <1>1, <1>2, <1>4, OutsideEvents

LEMMA StartsKeepEvents ==
  ASSUME Typed, EventInv, NEW s \in Syncs,
         \/ SyncReferenceData(s) \/ FullHistoricalSync(s)
         \/ SyncEventsNow(s) \/ SyncProductsNow(s)
  PROVE  EventInv'
<1>1. s \in Processes
  BY DEF Processes
<1>2. Others(s)
  BY <1>1, StepsAreOwn
<1>3. /\ \E k \in Kinds, force \in BOOLEAN, step \in {"state", "products"} : Start(s, k, force, step)
      /\ eventRow' = eventRow
  BY DEF SyncReferenceData, FullHistoricalSync, SyncEventsNow, SyncProductsNow, eventTable, Kinds
<1>4. UNCHANGED <<event, synced, touched, stale, stamp>>
  BY <1>3 DEF Start, weezevent, eventHistory
<1>5. at'[s] \notin {"events"} \cup ListedEvent
  BY <1>1, <1>3 DEF Start, Typed, TypeOK, ListedEvent
<1> QED
  BY <1>1, <1>2, <1>3, <1>4, <1>5, OutsideEvents

LEMMA InboxKeepsEvents ==
  ASSUME Typed, EventInv, NEW w \in Webhooks,
         \/ ReceiveWebhook(w) \/ ProcessEvent(w) \/ GetOrders(w) \/ UpsertOrder(w)
         \/ MarkProcessed(w) \/ RecordError(w)
  PROVE  EventInv'
<1>1. w \in Processes
  BY DEF Processes
<1>2. Others(w)
  BY <1>1, StepsAreOwn DEF Handle
<1>3. UNCHANGED inboxOnly
  BY DEF ReceiveWebhook, ProcessEvent, GetOrders, UpsertOrder, MarkProcessed, RecordError
<1>4. \E step \in {"find", "products", "orders", "order", "mark", "idle"} : Goto(w, step)
  BY DEF ReceiveWebhook, ProcessEvent, GetOrders, UpsertOrder, MarkProcessed, RecordError, End
<1>5. at'[w] \notin {"events"} \cup ListedEvent
  BY <1>1, <1>4 DEF Goto, Typed, TypeOK, ListedEvent
<1> QED
  BY <1>1, <1>2, <1>3, <1>5, OutsideEvents DEF inboxOnly, weezevent, eventTable, eventHistory

LEMMA FailuresKeepEvents ==
  ASSUME Typed, EventInv, Restart \/ \E p \in Processes : Throw(p)
  PROVE  EventInv'
<1>1. CASE Restart
  <2>1. UNCHANGED <<event, eventRow, synced, touched, stale>>
    BY <1>1 DEF Restart, weezevent, eventTable, eventHistory
  <2>2. ASSUME NEW p \in Processes PROVE Listed(p)'
    <3>1. at'[p] = "idle" /\ stamp'[p] = Missing
      BY <1>1 DEF Restart
    <3> QED
      BY <2>1, <3>1, EventTypes DEF Listed, ListedEvent, Missing
  <2> QED
    BY <2>1, <2>2 DEF EventInv, EventsFollow, Shown
<1>2. ASSUME NEW p \in Processes, Throw(p) PROVE EventInv'
  <2>1. Others(p)
    BY <1>2, StepsAreOwn
  <2>2. UNCHANGED <<event, eventRow, synced, touched, stale>> /\ stamp'[p] = Missing
    BY <1>2 DEF Throw, weezevent, eventTable, eventHistory, Typed, TypeOK
  <2>3. at'[p] \notin {"events"} \cup ListedEvent
    BY <1>2 DEF Throw, Goto, Typed, TypeOK, ListedEvent
  <2> QED
    BY <2>1, <2>2, <2>3, OutsideEvents
<1> QED
  BY <1>1, <1>2

LEMMA NextKeepsEvents == Typed /\ EventInv /\ [Next]_vars => EventInv'
<1> SUFFICES ASSUME Typed, EventInv, [Next]_vars
             PROVE  EventInv'
  OBVIOUS
<1>1. ASSUME NEW p \in Processes, Proceed(p) PROVE EventInv'
  BY <1>1, ReadsKeepEvents, WriteEventKeepsEvents, UpdateSyncStateKeepsEvents, ProductsKeepEvents
     DEF Proceed
<1>2. CASE \/ ChangeEvent \/ ChangeProduct \/ ChangeDetails
           \/ BatchUpsertEvent \/ BatchUpsertProduct \/ ResetSyncState
  BY <1>2, WorldKeepsEvents
<1>3. ASSUME NEW s \in Syncs,
             \/ SyncReferenceData(s) \/ FullHistoricalSync(s)
             \/ SyncEventsNow(s) \/ SyncProductsNow(s) \/ Proceed(s)
      PROVE  EventInv'
  BY <1>1, <1>3, StartsKeepEvents DEF Processes
<1>4. ASSUME NEW w \in Webhooks, ReceiveWebhook(w) \/ Handle(w)
      PROVE  EventInv'
  BY <1>1, <1>4, InboxKeepsEvents DEF Handle, Processes
<1>5. ASSUME NEW p \in Processes, ReplaceThrows(p)
      PROVE  EventInv'
  BY <1>5, ProductsKeepEvents
<1>6. CASE Restart \/ \E p \in Processes : Throw(p)
  BY <1>6, FailuresKeepEvents
<1>7. CASE UNCHANGED vars
  BY <1>7 DEF vars, EventInv, EventsFollow, Listed, Shown, weezevent, eventTable, local, eventHistory
<1> QED
  BY <1>2, <1>3, <1>4, <1>5, <1>6, <1>7 DEF Next

(* A full run that was not disturbed leaves the row as the event is, and so *)
(* does an incremental one unless older data had got a newer syncedAt       *)
(* (syncEventsIncremental): with any number of runs, webhooks and changes.  *)
THEOREM EventsAreFollowed == Spec => []EventsFollow
<1>1. EventInv => EventsFollow
  BY DEF EventInv
<1> QED
  BY TypedInitially, NextKeepsTyped, EventsInitially, NextKeepsEvents, <1>1, PTL DEF Spec
(***************************************************************************)
(* Products.  A run at the products knows them as they are, or is not      *)
(* clean and knows older ones (ListedProduct).  As long as nothing was     *)
(* disturbed since the last change, a row that is current promises its     *)
(* parts: each is as at Weezevent, or some run is still to replace it      *)
(* (PartsFollow), and it has the right answer, and nothing but that comes  *)
(* between its two calls (Replacing).                                      *)
(***************************************************************************)
Current == productRow = product.base

Undisturbed == ~outdated /\ ~cut /\ ~alone

Answering == ProductSteps \ {"products"}

ListedProduct(p) ==
    /\ at[p] \in Answering => list[p] <= product.base
    /\ at[p] \in Answering /\ clean[p] => list[p] = product.base
    /\ at[p] \in {"stored", "writeProduct"} /\ ~clean[p] => list[p] < product.base
    /\ at[p] \in {"tally"} \cup DetailSteps /\ clean[p] => Current \/ outdated

Replacing(p) ==
    at[p] \in {"delete", "insert"} /\ clean[p] /\ Undisturbed
    => /\ \A x \in Parts : fetched[p][x] = product.more
       /\ at[p] = "insert" => parts[part[p]] \in {Missing, product.more}

WillReplace(p, x) ==
    \/ at[p] = "details"
    \/ at[p] \in {"delete", "insert"} /\ part[p] \in {x, "variants"}

PartsFollow ==
    Current /\ Undisturbed
    => \A x \in Parts : parts[x] = product.more \/ \E p \in Processes : WillReplace(p, x)

ProductInv ==
    /\ productRow <= product.base
    /\ \A p \in Processes : ListedProduct(p) /\ Replacing(p)
    /\ matched => Current \/ outdated
    /\ PartsFollow

LEMMA ProductsInitially == Init => ProductInv
<1> SUFFICES ASSUME Init PROVE ProductInv
  OBVIOUS
<1>1. product.base = 1 /\ product.more = 1 /\ matched = FALSE
  BY DEF Init
<1>2. \A p \in Processes : at[p] = "idle"
  BY DEF Init
<1>3. \A p \in Processes : ListedProduct(p) /\ Replacing(p)
  BY <1>2 DEF ListedProduct, Replacing, Answering, ProductSteps, DetailSteps
<1>4. productRow <= product.base /\ PartsFollow
  BY <1>1 DEF Init, PartsFollow, Current, Missing
<1> QED
  BY <1>1, <1>3, <1>4 DEF ProductInv

LEMMA ProductTypes ==
  ASSUME Typed
  PROVE  /\ product.base \in Nat /\ product.more \in Nat /\ productRow \in Int
         /\ outdated \in BOOLEAN /\ cut \in BOOLEAN /\ alone \in BOOLEAN /\ matched \in BOOLEAN
         /\ parts \in [Parts -> Int]
         /\ \A p \in Processes :
               /\ list[p] \in Int /\ clean[p] \in BOOLEAN /\ part[p] \in Parts
               /\ fetched[p] \in [Parts -> Int]
<1>1. {Missing, Stub, Pending, Lost} \cup Versions \subseteq Int /\ Versions \subseteq Nat
  BY Numbers DEF Missing, Stub, Pending, Lost
<1>2. product.base \in Versions /\ product.more \in Versions
  BY DEF Typed, TypeOK
<1>3. parts \in [Parts -> Int]
  BY <1>1 DEF Typed, TypeOK
<1>4. \A p \in Processes : fetched[p] \in [Parts -> Int]
  BY <1>1 DEF Typed, TypeOK
<1> QED
  BY <1>1, <1>2, <1>3, <1>4 DEF Typed, TypeOK

\* What a step takes from no other process.
LEMMA OthersGoOn ==
  ASSUME Typed, ProductInv, NEW p \in Processes, Others(p), product' = product,
         Current \/ outdated => (Current \/ outdated)',
         outdated => outdated', cut => cut', alone => alone',
         \A x \in Parts : Undisturbed' /\ parts[x] \in {Missing, product.more}
                          => parts'[x] \in {Missing, product.more}
  PROVE  \A q \in Processes \ {p} : ListedProduct(q)' /\ Replacing(q)'
<1> SUFFICES ASSUME NEW q \in Processes \ {p}
             PROVE  ListedProduct(q)' /\ Replacing(q)'
  OBVIOUS
<1>1. ListedProduct(q) /\ Replacing(q)
  BY DEF ProductInv
<1>2. /\ at'[q] = at[q] /\ list'[q] = list[q] /\ fetched'[q] = fetched[q] /\ part'[q] = part[q]
      /\ clean'[q] = clean[q]
  BY DEF Others
<1>3. ListedProduct(q)'
  BY <1>1, <1>2 DEF ListedProduct
<1>4. Replacing(q)'
  <2>1. Undisturbed' => Undisturbed
    BY DEF Undisturbed
  <2>2. part[q] \in Parts
    BY ProductTypes
  <2> QED
    BY <1>1, <1>2, <2>1, <2>2 DEF Replacing
<1> QED
  BY <1>3, <1>4

\* Those that were to replace a part still are.
LEMMA OthersReplace ==
  ASSUME NEW p \in Processes, Others(p), NEW x, NEW q \in Processes \ {p}, WillReplace(q, x)
  PROVE  WillReplace(q, x)'
  BY DEF Others, WillReplace

\* The steps that have nothing to do with products.
LEMMA OutsideProducts ==
  ASSUME Typed, ProductInv, NEW p \in Processes, Others(p),
         UNCHANGED <<product, productRow, parts, matched, outdated, cut, alone>>,
         at[p] \notin DetailSteps, at'[p] \notin Answering
  PROVE  ProductInv'
<1>1. ListedProduct(p)' /\ Replacing(p)'
  BY DEF ListedProduct, Replacing, Answering, ProductSteps, DetailSteps
<1>2. \A q \in Processes : ListedProduct(q)' /\ Replacing(q)'
  BY <1>1, OthersGoOn DEF Current
<1>3. PartsFollow'
  <2> SUFFICES ASSUME Current, Undisturbed, NEW x \in Parts
               PROVE  parts[x] = product.more \/ \E q \in Processes : WillReplace(q, x)'
    BY DEF PartsFollow, Current, Undisturbed
  <2>1. CASE parts[x] = product.more
    BY <2>1
  <2>2. CASE \E q \in Processes : WillReplace(q, x)
    <3>1. PICK q \in Processes : WillReplace(q, x)
      BY <2>2
    <3>2. q # p
      BY <3>1 DEF WillReplace, DetailSteps
    <3> QED
      BY <3>1, <3>2, OthersReplace
  <2> QED
    BY <2>1, <2>2 DEF ProductInv, PartsFollow
<1> QED
  BY <1>2, <1>3 DEF ProductInv, Current
\* A step that keeps, or replaces, what it was to replace.
LEMMA PartsGoOn ==
  ASSUME Typed, ProductInv, NEW p \in Processes, Others(p), product' = product,
         (Current /\ Undisturbed)' => Current /\ Undisturbed,
         \A x \in Parts : Undisturbed' /\ (parts[x] = product.more \/ WillReplace(p, x))
                          => parts'[x] = product.more \/ WillReplace(p, x)'
  PROVE  PartsFollow'
<1> SUFFICES ASSUME (Current /\ Undisturbed)', NEW x \in Parts
             PROVE  parts'[x] = product.more \/ \E q \in Processes : WillReplace(q, x)'
  BY DEF PartsFollow
<1>1. CASE parts[x] = product.more \/ WillReplace(p, x)
  BY <1>1
<1>2. CASE \E q \in Processes \ {p} : WillReplace(q, x)
  BY <1>2, OthersReplace
<1> QED
  BY <1>1, <1>2 DEF ProductInv, PartsFollow

\* The steps of syncProducts that write no row.
LEMMA ListingKeepsProducts ==
  ASSUME Typed, ProductInv, NEW p \in Processes,
         GetProducts(p) \/ FindProducts(p) \/ StoreSyncState(p)
  PROVE  ProductInv'
<1>1. Others(p)
  BY StepsAreOwn DEF Proceed
<1>2. UNCHANGED <<product, productRow, parts, outdated, cut, alone>>
  BY DEF GetProducts, FindProducts, StoreSyncState, productsOnly, weezevent, productTables,
     productHistory
<1>3. at[p] \in {"products", "stored", "tally"} /\ at'[p] \notin {"delete", "insert"}
  BY DEF GetProducts, FindProducts, StoreSyncState, Goto, End, Typed, TypeOK
<1>4. \A q \in Processes \ {p} : ListedProduct(q)' /\ Replacing(q)'
  BY <1>1, <1>2, OthersGoOn DEF Current
<1>5. Replacing(p)'
  BY <1>3 DEF Replacing
<1>6. PartsFollow'
  BY <1>1, <1>2, <1>3, PartsGoOn DEF WillReplace, Current, Undisturbed
<1>7. ListedProduct(p)
  BY DEF ProductInv
<1>8. CASE GetProducts(p)
  <2>1. at'[p] = "stored" /\ list'[p] = product.base /\ clean'[p] /\ matched' = matched
    BY <1>8 DEF GetProducts, Goto, productHistory, Typed, TypeOK
  <2>2. ListedProduct(p)'
    BY <1>2, <2>1, ProductTypes DEF ListedProduct, DetailSteps
  <2> QED
    BY <1>2, <1>4, <1>5, <1>6, <2>1, <2>2 DEF ProductInv, Current
<1>9. CASE FindProducts(p)
  <2>1. /\ at[p] = "stored" /\ at'[p] = IF HasChanged(p) THEN "writeProduct" ELSE "tally"
        /\ list'[p] = list[p] /\ clean'[p] = clean[p] /\ matched' = matched
    BY <1>9 DEF FindProducts, Goto, productHistory, Typed, TypeOK
  <2>2. ~HasChanged(p) => productRow = list[p]
    BY DEF HasChanged
  <2>3. ListedProduct(p)'
    BY <1>2, <1>7, <2>1, <2>2 DEF ListedProduct, Answering, ProductSteps, DetailSteps, Current
  <2> QED
    BY <1>2, <1>4, <1>5, <1>6, <2>1, <2>3 DEF ProductInv, Current
<1>10. CASE StoreSyncState(p)
  <2>1. /\ at[p] = "tally" /\ at'[p] \notin Answering /\ matched' = (matched \/ clean[p])
    BY <1>10 DEF StoreSyncState, Goto, End, Typed, TypeOK, Answering, ProductSteps, DetailSteps
  <2>2. ListedProduct(p)'
    BY <2>1 DEF ListedProduct, Answering, ProductSteps, DetailSteps
  <2>3. matched' => Current \/ outdated
    BY <1>7, <2>1 DEF ProductInv, ListedProduct
  <2> QED
    BY <1>2, <1>4, <1>5, <1>6, <2>2, <2>3 DEF ProductInv, Current
<1> QED
  BY <1>8, <1>9, <1>10

\* The row is written as it is at Weezevent by a run that then replaces all
\* parts, or it is noted that it was written as it no longer is.
LEMMA WriteProductKeepsProducts ==
  ASSUME Typed, ProductInv, NEW p \in Processes, WriteProduct(p)
  PROVE  ProductInv'
<1>1. Others(p)
  BY StepsAreOwn DEF Proceed
<1>2. UNCHANGED <<product, parts, matched, cut, alone, list>>
  BY DEF WriteProduct, productsOnly, weezevent
<1>3. at[p] = "writeProduct" /\ at'[p] = "details"
  BY DEF WriteProduct, Goto, Typed, TypeOK
<1>4. ListedProduct(p)
  BY DEF ProductInv
<1>5. \/ /\ known[p] = Missing /\ productRow # Missing
         /\ productRow' = productRow /\ ~clean'[p] /\ outdated' = outdated
      \/ /\ productRow' = list[p] /\ clean'[p] = clean[p]
         /\ outdated' = (outdated \/ list[p] # product.base)
  <2> DEFINE skipped == known[p] = Missing /\ productRow # Missing
  <2>1. clean'[p] = (clean[p] /\ ~skipped)
    BY DEF WriteProduct, Typed, TypeOK
  <2>2. CASE skipped
    <3>1. outdated' = outdated
      BY <2>2, ProductTypes DEF WriteProduct
    <3> QED
      BY <2>1, <2>2, <3>1 DEF WriteProduct
  <2>3. CASE ~skipped
    <3>1. clean'[p] = clean[p]
      BY <2>1, <2>3, ProductTypes
    <3>2. outdated' = (outdated \/ list[p] # product.base)
      BY <2>3, ProductTypes DEF WriteProduct
    <3> QED
      BY <2>3, <3>1, <3>2 DEF WriteProduct
  <2> QED
    BY <2>2, <2>3
<1>6. /\ outdated => outdated'
      /\ Current \/ outdated => (Current \/ outdated)'
      /\ productRow' <= product.base
      /\ clean'[p] => clean[p] /\ (Current \/ outdated)'
  BY <1>2, <1>3, <1>4, <1>5 DEF Current, ProductInv, ListedProduct, Answering, ProductSteps
<1>7. \A q \in Processes \ {p} : ListedProduct(q)' /\ Replacing(q)'
  BY <1>1, <1>2, <1>6, OthersGoOn
<1>8. ListedProduct(p)' /\ Replacing(p)'
  BY <1>2, <1>3, <1>4, <1>6 DEF ListedProduct, Replacing, Answering, ProductSteps, DetailSteps
<1>9. \A x \in Parts : WillReplace(p, x)'
  BY <1>3 DEF WillReplace
<1>10. PartsFollow'
  BY <1>9 DEF PartsFollow
<1>11. matched' => (Current \/ outdated)'
  BY <1>2, <1>6 DEF ProductInv
<1> QED
  BY <1>2, <1>6, <1>7, <1>8, <1>10, <1>11 DEF ProductInv
\* A run that replaces details still knows what it knew.
LEMMA DetailsStayListed ==
  ASSUME Typed, ProductInv, NEW p \in Processes, at[p] \in DetailSteps,
         at'[p] \in {"tally"} \cup DetailSteps,
         UNCHANGED <<product, productRow, matched>>, list'[p] = list[p], clean'[p] = clean[p],
         outdated => outdated'
  PROVE  /\ ListedProduct(p)'
         /\ Current \/ outdated => (Current \/ outdated)'
         /\ matched' => (Current \/ outdated)'
<1>1. ListedProduct(p) /\ (matched => Current \/ outdated)
  BY DEF ProductInv
<1>2. Current \/ outdated => (Current \/ outdated)'
  BY DEF Current
<1> QED
  BY <1>1, <1>2 DEF ListedProduct, Answering, ProductSteps, DetailSteps

\* Both answers are there, or it is noted that one is not.
LEMMA GetDetailsKeepsProducts ==
  ASSUME Typed, ProductInv, NEW p \in Processes, GetDetails(p)
  PROVE  ProductInv'
<1>1. Others(p)
  BY StepsAreOwn DEF Proceed
<1>2. UNCHANGED <<product, productRow, parts, list, clean, matched, outdated, alone>>
  BY DEF GetDetails, productsOnly, weezevent, productTables
<1>3. PICK lost \in SUBSET Parts :
        LET answers == [x \in Parts |-> IF x \in lost THEN Lost ELSE product.more]
        IN  /\ Replace(p, answers, "variants")
            /\ fetched' = [fetched EXCEPT ![p] = answers]
            /\ cut' = (cut \/ lost # {})
  BY DEF GetDetails
<1> DEFINE answers == [x \in Parts |-> IF x \in lost THEN Lost ELSE product.more]
<1>4. /\ Replace(p, answers, "variants") /\ fetched'[p] = answers
      /\ cut' = (cut \/ lost # {})
  BY <1>3 DEF Typed, TypeOK
<1>5. at[p] = "details" /\ at'[p] \in {"tally", "delete"}
  <2>1. at[p] = "details"
    BY DEF GetDetails
  <2>2. at' = [at EXCEPT ![p] = "tally"] \/ at' = [at EXCEPT ![p] = "delete"]
    BY <1>4 DEF Replace, Goto
  <2> QED
    BY <2>1, <2>2 DEF Typed, TypeOK
<1>6. ASSUME Undisturbed'
      PROVE  /\ lost = {} /\ answers = [x \in Parts |-> product.more]
             /\ at'[p] = "delete" /\ part'[p] = "variants"
  <2>1. lost = {}
    BY <1>4, <1>6 DEF Undisturbed
  <2>2. answers = [x \in Parts |-> product.more]
    BY <2>1
  <2> DEFINE next == {y \in {"variants", "components"} : answers[y] # Lost}
             first == CHOOSE y \in next : "variants" \in next => y = "variants"
  <2>3. next = {"variants", "components"}
    BY <2>2, ProductTypes DEF Parts, Lost
  <2>4. first = "variants"
    BY <2>3
  <2>5. Goto(p, "delete") /\ part' = [part EXCEPT ![p] = first]
    BY <1>4, <2>3 DEF Replace
  <2> HIDE DEF first
  <2> QED
    BY <2>1, <2>2, <2>4, <2>5 DEF Goto, Typed, TypeOK
<1> HIDE DEF answers
<1>7. \A q \in Processes \ {p} : ListedProduct(q)' /\ Replacing(q)'
  BY <1>1, <1>2, <1>4, OthersGoOn DEF Current
<1>8. /\ ListedProduct(p)'
      /\ matched' => (Current \/ outdated)'
  BY <1>2, <1>5, DetailsStayListed DEF DetailSteps
<1>9. Replacing(p)'
  BY <1>2, <1>4, <1>6 DEF Replacing
<1>10. PartsFollow'
  BY <1>6 DEF PartsFollow, WillReplace
<1> QED
  BY <1>2, <1>7, <1>8, <1>9, <1>10 DEF ProductInv

\* The rows of a part are deleted to be inserted again.
LEMMA DeletePartKeepsProducts ==
  ASSUME Typed, ProductInv, NEW p \in Processes, DeletePart(p)
  PROVE  ProductInv'
<1>1. Others(p)
  BY StepsAreOwn DEF Proceed
<1>2. UNCHANGED <<product, productRow, list, fetched, part, clean, matched, cut, alone>>
  BY DEF DeletePart, productsOnly, weezevent
<1>3. /\ at[p] = "delete" /\ at'[p] = "insert" /\ outdated' = (outdated \/ ~clean[p])
      /\ parts' = [parts EXCEPT ![part[p]] = Missing]
  BY DEF DeletePart, Goto, Typed, TypeOK
<1>4. part[p] \in Parts /\ parts'[part[p]] = Missing
      /\ \A x \in Parts \ {part[p]} : parts'[x] = parts[x]
  BY <1>3, ProductTypes
<1>5. \A q \in Processes \ {p} : ListedProduct(q)' /\ Replacing(q)'
  BY <1>1, <1>2, <1>3, <1>4, OthersGoOn DEF Current
<1>6. /\ ListedProduct(p)'
      /\ matched' => (Current \/ outdated)'
  BY <1>2, <1>3, DetailsStayListed DEF DetailSteps
<1>7. Replacing(p)'
  BY <1>2, <1>3, <1>4 DEF ProductInv, Replacing, Undisturbed
<1>8. PartsFollow'
  <2>1. (Current /\ Undisturbed)' => Current /\ Undisturbed
    BY <1>2, <1>3 DEF Current, Undisturbed
  <2>2. \A x \in Parts : parts[x] = product.more \/ WillReplace(p, x)
                         => parts'[x] = product.more \/ WillReplace(p, x)'
    BY <1>2, <1>3, <1>4 DEF WillReplace
  <2> QED
    BY <1>1, <1>2, <2>1, <2>2, PartsGoOn
<1> QED
  BY <1>2, <1>5, <1>6, <1>7, <1>8 DEF ProductInv

\* Only a part that is not there is inserted: between the two calls nothing
\* else than the same came in.
LEMMA InsertPartKeepsProducts ==
  ASSUME Typed, ProductInv, NEW p \in Processes, InsertPart(p)
  PROVE  ProductInv'
<1>1. Others(p)
  BY StepsAreOwn DEF Proceed
<1>2. UNCHANGED <<product, productRow, list, fetched, clean, matched, cut, alone>>
  BY DEF InsertPart, productsOnly, weezevent
<1> DEFINE rows == IF parts[part[p]] = Missing THEN fetched[p][part[p]] ELSE parts[part[p]]
<1>3. /\ at[p] = "insert" /\ AfterPart(p) /\ outdated' = (outdated \/ ~clean[p])
      /\ parts' = [parts EXCEPT ![part[p]] = rows]
  BY DEF InsertPart
<1>4. /\ part[p] \in Parts /\ parts'[part[p]] = rows
      /\ \A x \in Parts \ {part[p]} : parts'[x] = parts[x]
  BY <1>3, ProductTypes
<1>5. at'[p] \in {"tally", "delete"}
  BY <1>3 DEF AfterPart, Replace, Goto, Typed, TypeOK
<1>6. Undisturbed' => Undisturbed /\ clean[p]
  BY <1>2, <1>3 DEF Undisturbed
<1>7. ASSUME Undisturbed'
      PROVE  /\ rows = product.more
             /\ \A x \in Parts : fetched[p][x] = product.more
  BY <1>3, <1>4, <1>6, <1>7 DEF ProductInv, Replacing
<1>8. ASSUME Undisturbed', part[p] = "variants"
      PROVE  at'[p] = "delete" /\ part'[p] = "components"
  <2>1. Replace(p, fetched[p], "components")
    BY <1>3, <1>8 DEF AfterPart
  <2> DEFINE next == {y \in {"components", "components"} : fetched[p][y] # Lost}
             first == CHOOSE y \in next : "components" \in next => y = "components"
  <2>2. fetched[p]["components"] # Lost
    BY <1>7, <1>8, ProductTypes DEF Parts, Lost
  <2>3. next = {"components"}
    BY <2>2
  <2>4. first = "components"
    BY <2>3
  <2>5. Goto(p, "delete") /\ part' = [part EXCEPT ![p] = first]
    BY <2>1, <2>3 DEF Replace
  <2> HIDE DEF first
  <2> QED
    BY <2>4, <2>5 DEF Goto, Typed, TypeOK
<1> HIDE DEF rows
<1>9. \A q \in Processes \ {p} : ListedProduct(q)' /\ Replacing(q)'
  <2>1. \A x \in Parts : Undisturbed' /\ parts[x] \in {Missing, product.more}
                         => parts'[x] \in {Missing, product.more}
    BY <1>4, <1>7
  <2>2. Current \/ outdated => (Current \/ outdated)'
    BY <1>2, <1>3 DEF Current
  <2> QED
    BY <1>1, <1>2, <1>3, <2>1, <2>2, OthersGoOn
<1>10. /\ ListedProduct(p)'
       /\ matched' => (Current \/ outdated)'
  BY <1>2, <1>3, <1>5, DetailsStayListed DEF DetailSteps
<1>11. Replacing(p)'
  BY <1>2, <1>5, <1>7 DEF Replacing
<1>12. PartsFollow'
  <2>1. (Current /\ Undisturbed)' => Current /\ Undisturbed
    BY <1>2, <1>6 DEF Current
  <2>2. ASSUME NEW x \in Parts, Undisturbed', parts[x] = product.more \/ WillReplace(p, x)
        PROVE  parts'[x] = product.more \/ WillReplace(p, x)'
    <3>1. CASE x = part[p]
      BY <1>4, <1>7, <2>2, <3>1
    <3>2. CASE x # part[p] /\ parts[x] = product.more
      BY <1>4, <3>2
    <3>3. CASE x # part[p] /\ WillReplace(p, x)
      <4>1. part[p] = "variants"
        BY <1>3, <3>3 DEF WillReplace
      <4>2. x = "components"
        BY <3>3, <4>1 DEF Parts
      <4> QED
        BY <1>8, <2>2, <4>1, <4>2 DEF WillReplace
    <3> QED
      BY <2>2, <3>1, <3>2, <3>3
  <2> QED
    BY <1>1, <1>2, <2>1, <2>2, PartsGoOn
<1> QED
  BY <1>2, <1>9, <1>10, <1>11, <1>12 DEF ProductInv

\* A failure is noted.
LEMMA ReplaceThrowsKeepsProducts ==
  ASSUME Typed, ProductInv, NEW p \in Processes, ReplaceThrows(p)
  PROVE  ProductInv'
<1>1. Others(p)
  BY StepsAreOwn
<1>2. UNCHANGED <<product, productRow, parts, list, clean, matched, outdated, alone>> /\ cut'
  BY DEF ReplaceThrows, productsOnly, weezevent, productTables
<1>3. at[p] \in DetailSteps /\ at'[p] \in {"tally"} \cup DetailSteps
  BY DEF ReplaceThrows, AfterPart, Replace, Goto, Typed, TypeOK, DetailSteps
<1>4. ~Undisturbed'
  BY <1>2 DEF Undisturbed
<1>5. \A q \in Processes \ {p} : ListedProduct(q)' /\ Replacing(q)'
  BY <1>1, <1>2, OthersGoOn DEF Current
<1>6. /\ ListedProduct(p)'
      /\ matched' => (Current \/ outdated)'
  BY <1>2, <1>3, DetailsStayListed
<1>7. Replacing(p)' /\ PartsFollow'
  BY <1>4 DEF Replacing, PartsFollow
<1> QED
  BY <1>2, <1>5, <1>6, <1>7 DEF ProductInv
\* Nothing is done for a webhook before it is stored.
Fresh == \A w \in Webhooks : inbox[w] = "none" => at[w] = "idle"

LEMMA FreshInitially == Init => Fresh
  BY DEF Init, Fresh, Processes

LEMMA FreshGoesOn ==
  ASSUME Typed, Fresh, NEW p \in Processes, Others(p),
         \A w \in Webhooks \ {p} : inbox'[w] = inbox[w],
         \/ at[p] # "idle" /\ inbox' = inbox
         \/ p \notin Webhooks
         \/ inbox'[p] # "none"
  PROVE  Fresh'
<1> SUFFICES ASSUME NEW w \in Webhooks, inbox'[w] = "none"
             PROVE  at'[w] = "idle"
  BY DEF Fresh
<1>1. w # p
  BY DEF Fresh
<1>2. inbox[w] = "none" /\ at'[w] = at[w]
  BY <1>1 DEF Others, Processes
<1> QED
  BY <1>2 DEF Fresh

LEMMA NextKeepsFresh == Typed /\ Fresh /\ [Next]_vars => Fresh'
<1> SUFFICES ASSUME Typed, Fresh, [Next]_vars
             PROVE  Fresh'
  OBVIOUS
<1>1. ASSUME NEW p \in Processes, Proceed(p) \/ ReplaceThrows(p) \/ Throw(p) PROVE Fresh'
  <2>1. Others(p)
    BY <1>1, StepsAreOwn
  <2>2. at[p] # "idle" /\ inbox' = inbox
    <3>1. CASE \/ GetSyncState(p) \/ GetExistingEvents(p) \/ GetEvents(p) \/ PrepareEvents(p)
               \/ WriteEvent(p) \/ UpdateSyncState(p)
      BY <3>1 DEF GetSyncState, GetExistingEvents, GetEvents, PrepareEvents, WriteEvent,
         UpdateSyncState, eventsOnly
    <3>2. CASE \/ GetProducts(p) \/ FindProducts(p) \/ WriteProduct(p) \/ GetDetails(p)
               \/ DeletePart(p) \/ InsertPart(p) \/ StoreSyncState(p) \/ ReplaceThrows(p)
      BY <3>2 DEF GetProducts, FindProducts, WriteProduct, GetDetails, DeletePart, InsertPart,
         StoreSyncState, ReplaceThrows, productsOnly
    <3>3. CASE Throw(p)
      BY <3>3 DEF Throw, ThrowingSteps, InboxSteps
    <3> QED
      BY <1>1, <3>1, <3>2, <3>3 DEF Proceed
  <2> QED
    BY <2>1, <2>2, FreshGoesOn
<1>2. CASE \/ ChangeEvent \/ ChangeProduct \/ ChangeDetails
           \/ BatchUpsertEvent \/ BatchUpsertProduct \/ ResetSyncState
  <2>1. UNCHANGED <<inbox, at>>
    BY <1>2 DEF ChangeEvent, ChangeProduct, ChangeDetails, BatchUpsertEvent, BatchUpsertProduct,
       ResetSyncState
  <2> QED
    BY <2>1 DEF Fresh
<1>3. ASSUME NEW s \in Syncs,
             \/ SyncReferenceData(s) \/ FullHistoricalSync(s)
             \/ SyncEventsNow(s) \/ SyncProductsNow(s)
      PROVE  Fresh'
  <2>1. s \in Processes /\ s \notin Webhooks
    BY CatalogueAssumption DEF Processes
  <2>2. \E k, force, step : Start(s, k, force, step)
    BY <1>3 DEF SyncReferenceData, FullHistoricalSync, SyncEventsNow, SyncProductsNow
  <2>3. inbox' = inbox
    BY <2>2 DEF Start
  <2>4. Others(s)
    BY <1>3, <2>1, StepsAreOwn
  <2> QED
    BY <2>1, <2>3, <2>4, FreshGoesOn
<1>4. ASSUME NEW w \in Webhooks,
             \/ ReceiveWebhook(w) \/ ProcessEvent(w) \/ GetOrders(w) \/ UpsertOrder(w)
             \/ MarkProcessed(w) \/ RecordError(w)
      PROVE  Fresh'
  <2>1. w \in Processes
    BY DEF Processes
  <2>2. Others(w)
    BY <1>4, <2>1, StepsAreOwn DEF Handle
  <2>3. \/ at[w] # "idle" /\ inbox' = inbox
        \/ \E state \in {"stored", "processed", "failed"} : inbox' = [inbox EXCEPT ![w] = state]
    BY <1>4 DEF ReceiveWebhook, ProcessEvent, GetOrders, UpsertOrder, MarkProcessed, RecordError
  <2>4. /\ \A v \in Webhooks \ {w} : inbox'[v] = inbox[v]
        /\ (at[w] # "idle" /\ inbox' = inbox) \/ inbox'[w] # "none"
    BY <2>3 DEF Typed, TypeOK
  <2> QED
    BY <2>1, <2>2, <2>4, FreshGoesOn
<1>5. CASE Restart \/ UNCHANGED vars
  <2>1. inbox' = inbox /\ (at' = at \/ at' = [p \in Processes |-> "idle"])
    BY <1>5 DEF Restart, vars
  <2> QED
    BY <2>1 DEF Fresh, Processes
<1> QED
  BY <1>1, <1>2, <1>3, <1>4, <1>5 DEF Next, Handle, Processes

\* A change makes every run unclean that has listed the products; a change of
\* the details alone is noted.
LEMMA WorldKeepsProducts ==
  ASSUME Typed, ProductInv,
         \/ ChangeEvent \/ ChangeProduct \/ ChangeDetails
         \/ BatchUpsertEvent \/ BatchUpsertProduct \/ ResetSyncState
  PROVE  ProductInv'
<1>1. CASE ChangeProduct
  <2>1. /\ UNCHANGED <<productRow, parts, at, list, fetched, part>>
        /\ product'.base = product.base + 1 /\ matched' = FALSE
        /\ \A p \in Processes : clean'[p] => at[p] \notin ProductSteps
    <3>1. UNCHANGED <<productRow, parts, at, list, fetched, part>> /\ matched' = FALSE
      BY <1>1 DEF ChangeProduct, productTables, local
    <3>2. product'.base = product.base + 1
      BY <1>1 DEF ChangeProduct
    <3>3. \A p \in Processes : clean'[p] = (clean[p] /\ at[p] \notin ProductSteps)
      BY <1>1 DEF ChangeProduct
    <3> QED
      BY <3>1, <3>2, <3>3
  <2>2. productRow' < product'.base
    BY <2>1, ProductTypes DEF ProductInv
  <2>3. ASSUME NEW p \in Processes PROVE ListedProduct(p)' /\ Replacing(p)'
    <3>1. ListedProduct(p)'
      BY <2>1, ProductTypes DEF ProductInv, ListedProduct, Answering, ProductSteps, DetailSteps
    <3>2. Replacing(p)'
      BY <2>1 DEF Replacing, ProductSteps, DetailSteps
    <3> QED
      BY <3>1, <3>2
  <2>4. PartsFollow'
    BY <2>1, <2>2, ProductTypes DEF PartsFollow, Current
  <2>5. productRow' <= product'.base
    BY <2>1, <2>2, ProductTypes
  <2> QED
    BY <2>1, <2>3, <2>4, <2>5 DEF ProductInv
<1>2. CASE ChangeDetails
  <2>1. /\ UNCHANGED <<productRow, parts, at, list, fetched, part, clean, matched, outdated>>
        /\ alone'
    BY <1>2 DEF ChangeDetails, productTables, local
  <2>2. product'.base = product.base
    BY <1>2 DEF ChangeDetails, Typed, TypeOK
  <2> QED
    BY <2>1, <2>2 DEF ProductInv, ListedProduct, Replacing, PartsFollow, Current, Undisturbed
<1>3. CASE ChangeEvent
  <2>1. /\ UNCHANGED <<product, productRow, parts, at, list, fetched, part, matched, outdated, cut, alone>>
        /\ \A p \in Processes : clean'[p] = (clean[p] /\ at[p] \notin ListedEvent)
    BY <1>3 DEF ChangeEvent, productTables, local, productHistory
  <2>2. \A p \in Processes : at[p] \in Answering => (clean'[p] <=> clean[p])
    BY <2>1 DEF Answering, ProductSteps, DetailSteps, ListedEvent
  <2>3. ASSUME NEW p \in Processes PROVE ListedProduct(p)' /\ Replacing(p)'
    BY <2>1, <2>2 DEF ProductInv, ListedProduct, Replacing, Current, Undisturbed, Answering,
       ProductSteps, DetailSteps
  <2> QED
    BY <2>1, <2>3 DEF ProductInv, PartsFollow, Current, Undisturbed, WillReplace
<1>4. CASE BatchUpsertEvent \/ ResetSyncState
  <2>1. UNCHANGED <<product, productRow, parts, at, list, fetched, part, clean, matched, outdated,
                    cut, alone>>
    BY <1>4 DEF BatchUpsertEvent, ResetSyncState, productTables, local, productHistory, weezevent
  <2> QED
    BY <2>1 DEF ProductInv, ListedProduct, Replacing, PartsFollow, Current, Undisturbed, WillReplace
<1>5. CASE BatchUpsertProduct
  <2>1. /\ UNCHANGED <<product, parts, at, list, fetched, part, clean, matched, outdated, cut, alone>>
        /\ productRow = Missing /\ productRow' = Stub
    BY <1>5 DEF BatchUpsertProduct, local, productHistory, weezevent
  <2>2. ~Current /\ ~Current' /\ productRow' <= product'.base
    <3>1. product.base \in Versions
      BY DEF Typed, TypeOK
    <3> QED
      BY <2>1, <3>1, Numbers, ProductTypes DEF Current, Stub
  <2>3. ASSUME NEW p \in Processes PROVE ListedProduct(p)' /\ Replacing(p)'
    BY <2>1, <2>2 DEF ProductInv, ListedProduct, Replacing, Undisturbed
  <2> QED
    BY <2>1, <2>2, <2>3 DEF ProductInv, PartsFollow
<1> QED
  BY <1>1, <1>2, <1>3, <1>4, <1>5

\* The steps that have nothing to do with products.
LEMMA EventsKeepProducts ==
  ASSUME Typed, ProductInv, NEW p \in Processes,
         \/ GetSyncState(p) \/ GetExistingEvents(p) \/ GetEvents(p) \/ PrepareEvents(p)
         \/ WriteEvent(p) \/ UpdateSyncState(p)
  PROVE  ProductInv'
<1>1. Others(p)
  BY StepsAreOwn DEF Proceed
<1>2. UNCHANGED <<product, productRow, parts, matched, outdated, cut, alone>>
  BY DEF GetSyncState, GetExistingEvents, GetEvents, PrepareEvents, WriteEvent,
     UpdateSyncState, eventsOnly, weezevent, productTables, productHistory
<1>3. /\ at[p] \in EventSteps
      /\ \E step \in {"existing", "events", "prepare", "writeEvent", "cursor", "products", "mark", "idle"} :
             Goto(p, step)
  BY DEF GetSyncState, GetExistingEvents, GetEvents, PrepareEvents, WriteEvent, UpdateSyncState, End,
     EventSteps
<1>4. at[p] \notin DetailSteps /\ at'[p] \notin Answering
  BY <1>3 DEF Goto, Typed, TypeOK, EventSteps, DetailSteps, Answering, ProductSteps
<1> QED
  BY <1>1, <1>2, <1>4, OutsideProducts

LEMMA StartsKeepProducts ==
  ASSUME Typed, ProductInv, NEW s \in Syncs,
         \/ SyncReferenceData(s) \/ FullHistoricalSync(s)
         \/ SyncEventsNow(s) \/ SyncProductsNow(s)
  PROVE  ProductInv'
<1>1. s \in Processes
  BY DEF Processes
<1>2. Others(s)
  BY <1>1, StepsAreOwn
<1>3. \E k \in Kinds, force \in BOOLEAN, step \in {"state", "products"} : Start(s, k, force, step)
  BY DEF SyncReferenceData, FullHistoricalSync, SyncEventsNow, SyncProductsNow, Kinds
<1>4. UNCHANGED <<product, productRow, parts, matched, outdated, cut, alone>>
  BY <1>3 DEF Start, weezevent, productTables, productHistory
<1>5. at[s] \notin DetailSteps /\ at'[s] \notin Answering
  BY <1>1, <1>3 DEF Start, Typed, TypeOK, DetailSteps, Answering, ProductSteps
<1> QED
  BY <1>1, <1>2, <1>4, <1>5, OutsideProducts

LEMMA InboxKeepsProducts ==
  ASSUME Typed, ProductInv, Fresh, NEW w \in Webhooks,
         \/ ReceiveWebhook(w) \/ ProcessEvent(w) \/ GetOrders(w) \/ UpsertOrder(w)
         \/ MarkProcessed(w) \/ RecordError(w)
  PROVE  ProductInv'
<1>1. w \in Processes
  BY DEF Processes
<1>2. Others(w)
  BY <1>1, StepsAreOwn DEF Handle
<1>3. UNCHANGED inboxOnly
  BY DEF ReceiveWebhook, ProcessEvent, GetOrders, UpsertOrder, MarkProcessed, RecordError
<1>4. /\ at[w] \in {"idle", "find", "orders", "order", "mark", "error"}
      /\ \E step \in {"find", "products", "orders", "order", "mark", "idle"} : Goto(w, step)
  BY DEF ReceiveWebhook, ProcessEvent, GetOrders, UpsertOrder, MarkProcessed, RecordError, End, Fresh
<1>5. at[w] \notin DetailSteps /\ at'[w] \notin Answering
  BY <1>1, <1>4 DEF Goto, Typed, TypeOK, DetailSteps, Answering, ProductSteps
<1> QED
  BY <1>1, <1>2, <1>3, <1>5, OutsideProducts DEF inboxOnly, weezevent, productTables, productHistory

\* A run that is at the details when the process is restarted is noted.
LEMMA FailuresKeepProducts ==
  ASSUME Typed, ProductInv, Restart \/ \E p \in Processes : Throw(p)
  PROVE  ProductInv'
<1>1. CASE Restart
  <2>1. /\ UNCHANGED <<product, productRow, parts, matched, outdated, alone>>
        /\ (cut \/ \E p \in Processes : at[p] \in DetailSteps) => cut'
        /\ cut => cut'
    BY <1>1 DEF Restart, weezevent, productTables
  <2>2. \A p \in Processes : at'[p] = "idle"
    BY <1>1 DEF Restart
  <2>3. \A p \in Processes : ListedProduct(p)' /\ Replacing(p)'
    BY <2>2 DEF ListedProduct, Replacing, Answering, ProductSteps, DetailSteps
  <2>4. PartsFollow'
    <3> SUFFICES ASSUME Current, Undisturbed', NEW x \in Parts
                 PROVE  parts[x] = product.more
      BY <2>1 DEF PartsFollow, Current
    <3>1. Undisturbed /\ \A p \in Processes : at[p] \notin DetailSteps
      BY <2>1 DEF Undisturbed
    <3> QED
      BY <3>1 DEF ProductInv, PartsFollow, WillReplace, DetailSteps
  <2> QED
    BY <2>1, <2>3, <2>4 DEF ProductInv, Current
<1>2. ASSUME NEW p \in Processes, Throw(p) PROVE ProductInv'
  <2>1. Others(p)
    BY <1>2, StepsAreOwn
  <2>2. UNCHANGED <<product, productRow, parts, matched, outdated, cut, alone>>
    BY <1>2 DEF Throw, weezevent, productTables, productHistory
  <2>3. at[p] \notin DetailSteps /\ at'[p] \in {"idle", "error"}
    BY <1>2 DEF Throw, ThrowingSteps, InboxSteps, DetailSteps, Goto, Typed, TypeOK
  <2>4. at'[p] \notin Answering
    BY <2>3 DEF Answering, ProductSteps, DetailSteps
  <2> QED
    BY <2>1, <2>2, <2>3, <2>4, OutsideProducts
<1> QED
  BY <1>1, <1>2

LEMMA NextKeepsProducts == Typed /\ ProductInv /\ Fresh /\ [Next]_vars => ProductInv'
<1> SUFFICES ASSUME Typed, ProductInv, Fresh, [Next]_vars
             PROVE  ProductInv'
  OBVIOUS
<1>1. ASSUME NEW p \in Processes, Proceed(p) PROVE ProductInv'
  BY <1>1, EventsKeepProducts, ListingKeepsProducts, WriteProductKeepsProducts,
     GetDetailsKeepsProducts, DeletePartKeepsProducts, InsertPartKeepsProducts
     DEF Proceed
<1>2. CASE \/ ChangeEvent \/ ChangeProduct \/ ChangeDetails
           \/ BatchUpsertEvent \/ BatchUpsertProduct \/ ResetSyncState
  BY <1>2, WorldKeepsProducts
<1>3. ASSUME NEW s \in Syncs,
             \/ SyncReferenceData(s) \/ FullHistoricalSync(s)
             \/ SyncEventsNow(s) \/ SyncProductsNow(s) \/ Proceed(s)
      PROVE  ProductInv'
  BY <1>1, <1>3, StartsKeepProducts DEF Processes
<1>4. ASSUME NEW w \in Webhooks, ReceiveWebhook(w) \/ Handle(w)
      PROVE  ProductInv'
  BY <1>1, <1>4, InboxKeepsProducts DEF Handle, Processes
<1>5. ASSUME NEW p \in Processes, ReplaceThrows(p)
      PROVE  ProductInv'
  BY <1>5, ReplaceThrowsKeepsProducts
<1>6. CASE Restart \/ \E p \in Processes : Throw(p)
  BY <1>6, FailuresKeepProducts
<1>7. CASE UNCHANGED vars
  BY <1>7 DEF vars, ProductInv, PartsFollow, ListedProduct, Replacing, WillReplace, Current,
     Undisturbed, weezevent, productTables, local, productHistory
<1> QED
  BY <1>2, <1>3, <1>4, <1>5, <1>6, <1>7 DEF Next

(* When no run is at the products, what the last run left that was not      *)
(* disturbed is the product as Weezevent has it, and its variants and       *)
(* components are too unless it is noted why not (syncProducts,             *)
(* syncProductDetails): with any number of runs at the same time.           *)
THEOREM ProductsAreFollowed == Spec => []ProductsFollow
<1>1. ProductInv => ProductsFollow
  <2> SUFFICES ASSUME ProductInv, \A p \in Processes : at[p] \notin ProductSteps,
                      matched, ~outdated
               PROVE  /\ Current
                      /\ ~cut /\ ~alone => \A x \in Parts : parts[x] = product.more
    BY DEF ProductsFollow, Current
  <2>1. Current
    BY DEF ProductInv
  <2>2. \A p \in Processes, x \in Parts : ~WillReplace(p, x)
    BY DEF WillReplace, ProductSteps, DetailSteps
  <2> QED
    BY <2>1, <2>2 DEF ProductInv, PartsFollow, Undisturbed
<1> QED
  BY TypedInitially, NextKeepsTyped, FreshInitially, NextKeepsFresh,
     ProductsInitially, NextKeepsProducts, <1>1, PTL DEF Spec
=============================================================================
