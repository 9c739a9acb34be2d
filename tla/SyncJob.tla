------------------------------ MODULE SyncJob -------------------------------
(***************************************************************************)
(* The asynchronous import of Weezevent transactions: the HTTP handlers    *)
(* that start and delete a job (WeezeventController.startSyncJob,          *)
(* deleteSyncJob), the collector that bisects the date range and stores    *)
(* one chunk row per sub-range (WeezeventCollectWorkerService.start), and  *)
(* the watcher that picks PENDING chunks, at most Parallel at a time, and  *)
(* runs one worker per chunk (WeezeventInsertWorkerService.watch and       *)
(* processChunk).                                                          *)
(*                                                                         *)
(* Handlers, collector, watcher and workers are promises of one Node       *)
(* process; between two database calls of one of them every other may run. *)
(* One action is therefore one database call together with the synchronous *)
(* code up to the next await.  A call fails by throwing, which costs one   *)
(* unit of the Faults budget, or because the row it updates is gone        *)
(* (deleteSyncJob cascades to the chunks), which costs nothing.  A restart *)
(* of the server (Restart) loses everything but the tables.                *)
(*                                                                         *)
(* Abstracted: the k-th chunk a job saves is the number k; what the        *)
(* collector fetches is left to the module Bisection, so here it saves any *)
(* number of chunks from 1 to MaxChunks; totalCollected and totalInserted  *)
(* move in the same updates as totalChunks and processedChunks.            *)
(***************************************************************************)
EXTENDS Naturals, FiniteSets

CONSTANTS
    Jobs,          \* one element per POST /sync/start request
    Integrations,
    Target,        \* [Jobs -> Integrations]: dto.integrationId of the request
    MaxChunks,     \* bound: chunks one job may save
    Parallel,      \* PARALLEL_CHUNKS
    MaxFaults,     \* bound: database or API calls that throw
    MaxRestarts    \* bound: restarts of the server

ASSUME SyncJobAssumption ==
    /\ Target \in [Jobs -> Integrations]
    /\ MaxChunks \in Nat
    /\ Parallel \in Nat \ {0}
    /\ MaxFaults \in Nat
    /\ MaxRestarts \in Nat

VARIABLES
    \* Tables
    job,        \* weezeventSyncJob, by request
    chunk,      \* weezeventSyncChunk.status, by job and chunk number
    org,        \* integrations that have an organizationId
    delivered,  \* chunks whose transactions are in weezeventTransaction
    \* Memory of the server process
    request,    \* progress of startSyncJob
    deletion,   \* progress of deleteSyncJob
    collector,  \* progress of CollectWorker.start
    saved,      \* chunks the collector of the job has stored so far
    watcher,    \* progress of InsertWorker.watch
    worker,     \* progress of InsertWorker.processChunk, by chunk
    \* Environment
    old,        \* jobs whose startedAt is more than two minutes ago
    faults,     \* calls that have thrown
    restarts

tables == <<job, chunk, org, delivered>>
handlers == <<request, deletion>>
workers == <<collector, saved, watcher, worker>>
environment == <<old, faults, restarts>>
vars == <<tables, handlers, workers, environment>>

ChunkNo == 1..MaxChunks

JobStatus == {"absent", "PENDING", "COLLECTING", "COMPLETED", "FAILED"}
ChunkStatus == {"absent", "PENDING", "PROCESSING", "DONE", "FAILED"}

JobRow == [status: JobStatus, collectDone: BOOLEAN, total: Nat, processed: Nat]

NoRow == [status |-> "absent", collectDone |-> FALSE, total |-> 0, processed |-> 0]

TypeOK ==
    /\ job \in [Jobs -> JobRow]
    /\ chunk \in [Jobs -> [ChunkNo -> ChunkStatus]]
    /\ org \in SUBSET Integrations
    /\ delivered \in [Jobs -> SUBSET ChunkNo]
    /\ request \in [Jobs -> {"idle", "create", "accepted", "refused"}]
    /\ deletion \in [Jobs -> {"idle", "delete", "done"}]
    /\ collector \in [Jobs -> {"off", "begin", "fetch", "tally", "fail"}]
    /\ saved \in [Jobs -> 0..MaxChunks]
    /\ watcher \in [Jobs -> {"off", "poll", "batch", "check", "complete", "fail"}]
    /\ worker \in [Jobs -> [ChunkNo -> {"idle", "claim", "load", "insert", "done", "count", "abort"}]]
    /\ old \in SUBSET Jobs
    /\ faults \in 0..MaxFaults
    /\ restarts \in 0..MaxRestarts

Init ==
    /\ job = [j \in Jobs |-> NoRow]
    /\ chunk = [j \in Jobs |-> [k \in ChunkNo |-> "absent"]]
    /\ org = Integrations
    /\ delivered = [j \in Jobs |-> {}]
    /\ request = [j \in Jobs |-> "idle"]
    /\ deletion = [j \in Jobs |-> "idle"]
    /\ collector = [j \in Jobs |-> "off"]
    /\ saved = [j \in Jobs |-> 0]
    /\ watcher = [j \in Jobs |-> "off"]
    /\ worker = [j \in Jobs |-> [k \in ChunkNo |-> "idle"]]
    /\ old = {}
    /\ faults = 0
    /\ restarts = 0

Exists(j) == job[j].status # "absent"

\* A call throws without having changed a table.
Throws ==
    /\ faults < MaxFaults
    /\ faults' = faults + 1
    /\ UNCHANGED <<tables, old, restarts>>

(***************************************************************************)
(* WeezeventController.startSyncJob                                        *)
(***************************************************************************)
\* The jobs that make the handler answer "Un job de sync est déjà en cours".
Running(i) == {j \in Jobs : Target[j] = i /\ job[j].status = "COLLECTING"}

\* The two reads that may refuse the request.
StartRequest(j) ==
    /\ request[j] = "idle"
    /\ request' = [request EXCEPT ![j] =
           IF Target[j] \in org /\ Running(Target[j]) = {} THEN "create" ELSE "refused"]
    /\ UNCHANGED <<tables, deletion, workers, environment>>

\* The row is created, both background promises start, nothing is awaited.
StartCreate(j) ==
    /\ request[j] = "create"
    /\ request' = [request EXCEPT ![j] = "accepted"]
    /\ job' = [job EXCEPT ![j] = [NoRow EXCEPT !.status = "PENDING"]]
    /\ collector' = [collector EXCEPT ![j] = "begin"]
    /\ watcher' = [watcher EXCEPT ![j] = "poll"]
    /\ UNCHANGED <<chunk, org, delivered, deletion, saved, worker, environment>>

(***************************************************************************)
(* WeezeventController.deleteSyncJob                                       *)
(***************************************************************************)
\* A COLLECTING job is protected for two minutes only, a PENDING one never.
DeleteRequest(j) ==
    /\ deletion[j] = "idle"
    /\ Exists(j)
    /\ job[j].status = "COLLECTING" => j \in old
    /\ deletion' = [deletion EXCEPT ![j] = "delete"]
    /\ UNCHANGED <<tables, request, workers, environment>>

\* The chunks go with the job (onDelete: Cascade).
DeleteRow(j) ==
    /\ deletion[j] = "delete"
    /\ deletion' = [deletion EXCEPT ![j] = "done"]
    /\ job' = [job EXCEPT ![j] = NoRow]
    /\ chunk' = [chunk EXCEPT ![j] = [k \in ChunkNo |-> "absent"]]
    /\ UNCHANGED <<org, delivered, request, workers, environment>>

(***************************************************************************)
(* WeezeventCollectWorkerService                                           *)
(***************************************************************************)
\* The update returns the job with its integration; a missing organizationId
\* throws after the status has been written.
CollectBegin(j) ==
    /\ collector[j] = "begin"
    /\ Exists(j)
    /\ job' = [job EXCEPT ![j].status = "COLLECTING"]
    /\ collector' = [collector EXCEPT ![j] = IF Target[j] \in org THEN "fetch" ELSE "fail"]
    /\ UNCHANGED <<chunk, org, delivered, handlers, saved, watcher, worker, environment>>

\* saveChunk, first call: the row is visible to the watcher before it is counted.
CollectSave(j) ==
    /\ collector[j] = "fetch"
    /\ saved[j] < MaxChunks
    /\ Exists(j)
    /\ saved' = [saved EXCEPT ![j] = @ + 1]
    /\ chunk' = [chunk EXCEPT ![j][saved[j] + 1] = "PENDING"]
    /\ collector' = [collector EXCEPT ![j] = "tally"]
    /\ UNCHANGED <<job, org, delivered, handlers, watcher, worker, environment>>

\* saveChunk, second call.
CollectTally(j) ==
    /\ collector[j] = "tally"
    /\ Exists(j)
    /\ job' = [job EXCEPT ![j].total = @ + 1]
    /\ collector' = [collector EXCEPT ![j] = "fetch"]
    /\ UNCHANGED <<chunk, org, delivered, handlers, saved, watcher, worker, environment>>

\* The recursion is over; it always ends with at least one chunk.
CollectClose(j) ==
    /\ collector[j] = "fetch"
    /\ saved[j] > 0
    /\ Exists(j)
    /\ job' = [job EXCEPT ![j].collectDone = TRUE]
    /\ collector' = [collector EXCEPT ![j] = "off"]
    /\ UNCHANGED <<chunk, org, delivered, handlers, saved, watcher, worker, environment>>

\* The job has been deleted: its update finds no row, its chunk no foreign key.
CollectGone(j) ==
    /\ collector[j] \in {"begin", "fetch", "tally"}
    /\ ~Exists(j)
    /\ collector' = [collector EXCEPT ![j] = "fail"]
    /\ UNCHANGED <<tables, handlers, saved, watcher, worker, environment>>

\* Weezevent or the database throws: control goes to the catch block.
CollectThrows(j) ==
    /\ collector[j] \in {"begin", "fetch", "tally"}
    /\ Throws
    /\ collector' = [collector EXCEPT ![j] = "fail"]
    /\ UNCHANGED <<handlers, saved, watcher, worker>>

Fail(j) == job' = IF Exists(j) THEN [job EXCEPT ![j].status = "FAILED"] ELSE job

CollectFail(j) ==
    /\ collector[j] = "fail"
    /\ collector' = [collector EXCEPT ![j] = "off"]
    /\ Fail(j)
    /\ UNCHANGED <<chunk, org, delivered, handlers, saved, watcher, worker, environment>>

\* The catch block's own update throws and .catch(() => undefined) drops it.
CollectFailThrows(j) ==
    /\ collector[j] = "fail"
    /\ Throws
    /\ collector' = [collector EXCEPT ![j] = "off"]
    /\ UNCHANGED <<handlers, saved, watcher, worker>>

(***************************************************************************)
(* WeezeventInsertWorkerService.watch                                      *)
(***************************************************************************)
Pending(j) == {k \in ChunkNo : chunk[j][k] = "PENDING"}

\* orderBy createdAt asc, take PARALLEL_CHUNKS
Oldest(S) == {k \in S : Cardinality({i \in S : i < k}) < Parallel}

WatchPoll(j) ==
    /\ watcher[j] = "poll"
    /\ watcher' = [watcher EXCEPT ![j] = IF Pending(j) = {} THEN "check" ELSE "batch"]
    /\ worker' = [worker EXCEPT ![j] = [k \in ChunkNo |->
           IF k \in Oldest(Pending(j)) THEN "claim" ELSE "idle"]]
    /\ UNCHANGED <<tables, handlers, collector, saved, environment>>

\* await Promise.all(...)
WatchJoin(j) ==
    /\ watcher[j] = "batch"
    /\ \A k \in ChunkNo : worker[j][k] = "idle"
    /\ watcher' = [watcher EXCEPT ![j] = "poll"]
    /\ UNCHANGED <<tables, handlers, collector, saved, worker, environment>>

\* MUTANT of AllCounted: the comparison is strict.
MoreThanAllCounted(j) == job[j].collectDone /\ job[j].processed > job[j].total

AllCounted(j) == job[j].collectDone /\ job[j].processed >= job[j].total

\* Nothing PENDING: stop, complete, or sleep and poll again.
WatchCheck(j) ==
    /\ watcher[j] = "check"
    /\ watcher' = [watcher EXCEPT ![j] =
           CASE job[j].status \in {"absent", "FAILED"} -> "off"
             [] job[j].status \notin {"absent", "FAILED"} /\ AllCounted(j) -> "complete"
             [] OTHER -> "poll"]
    /\ UNCHANGED <<tables, handlers, collector, saved, worker, environment>>

WatchComplete(j) ==
    /\ watcher[j] = "complete"
    /\ Exists(j)
    /\ job' = [job EXCEPT ![j].status = "COMPLETED"]
    /\ watcher' = [watcher EXCEPT ![j] = "off"]
    /\ UNCHANGED <<chunk, org, delivered, handlers, collector, saved, worker, environment>>

WatchGone(j) ==
    /\ watcher[j] = "complete"
    /\ ~Exists(j)
    /\ watcher' = [watcher EXCEPT ![j] = "fail"]
    /\ UNCHANGED <<tables, handlers, collector, saved, worker, environment>>

WatchThrows(j) ==
    /\ watcher[j] \in {"poll", "check", "complete"}
    /\ Throws
    /\ watcher' = [watcher EXCEPT ![j] = "fail"]
    /\ UNCHANGED <<handlers, collector, saved, worker>>

\* MUTANT of WatchFail: the loop goes on after the catch block.
WatchFailAndPoll(j) ==
    /\ watcher[j] = "fail"
    /\ watcher' = [watcher EXCEPT ![j] = "poll"]
    /\ Fail(j)
    /\ UNCHANGED <<chunk, org, delivered, handlers, collector, saved, worker, environment>>

WatchFail(j) ==
    /\ watcher[j] = "fail"
    /\ watcher' = [watcher EXCEPT ![j] = "off"]
    /\ Fail(j)
    /\ UNCHANGED <<chunk, org, delivered, handlers, collector, saved, worker, environment>>

WatchFailThrows(j) ==
    /\ watcher[j] = "fail"
    /\ Throws
    /\ watcher' = [watcher EXCEPT ![j] = "off"]
    /\ UNCHANGED <<handlers, collector, saved, worker>>

(***************************************************************************)
(* WeezeventInsertWorkerService.processChunk                               *)
(***************************************************************************)
WorkerTo(j, k, step) == worker' = [worker EXCEPT ![j][k] = step]

\* updateMany where status = PENDING
Claim(j, k) ==
    /\ worker[j][k] = "claim"
    /\ chunk[j][k] = "PENDING"
    /\ chunk' = [chunk EXCEPT ![j][k] = "PROCESSING"]
    /\ WorkerTo(j, k, "load")
    /\ UNCHANGED <<job, org, delivered, handlers, collector, saved, watcher, environment>>

\* count = 0: nothing to do.
ClaimNothing(j, k) ==
    /\ worker[j][k] = "claim"
    /\ chunk[j][k] # "PENDING"
    /\ WorkerTo(j, k, "idle")
    /\ UNCHANGED <<tables, handlers, collector, saved, watcher, environment>>

Load(j, k) ==
    /\ worker[j][k] = "load"
    /\ Exists(j)
    /\ WorkerTo(j, k, "insert")
    /\ UNCHANGED <<tables, handlers, collector, saved, watcher, environment>>

\* insertTransactionBatch, external to this module.
Insert(j, k) ==
    /\ worker[j][k] = "insert"
    /\ delivered' = [delivered EXCEPT ![j] = @ \union {k}]
    /\ WorkerTo(j, k, "done")
    /\ UNCHANGED <<job, chunk, org, handlers, collector, saved, watcher, environment>>

MarkDone(j, k) ==
    /\ worker[j][k] = "done"
    /\ Exists(j)
    /\ chunk' = [chunk EXCEPT ![j][k] = "DONE"]
    /\ WorkerTo(j, k, "count")
    /\ UNCHANGED <<job, org, delivered, handlers, collector, saved, watcher, environment>>

Count(j, k) ==
    /\ worker[j][k] = "count"
    /\ Exists(j)
    /\ job' = [job EXCEPT ![j].processed = @ + 1]
    /\ WorkerTo(j, k, "idle")
    /\ UNCHANGED <<chunk, org, delivered, handlers, collector, saved, watcher, environment>>

\* The job and its chunks have been deleted: "introuvable", or an update without a row.
WorkerGone(j, k) ==
    /\ worker[j][k] \in {"load", "done", "count"}
    /\ ~Exists(j)
    /\ WorkerTo(j, k, "abort")
    /\ UNCHANGED <<tables, handlers, collector, saved, watcher, environment>>

\* MUTANT of WorkerThrows: a failed insertion is swallowed.
WorkerSwallows(j, k) ==
    /\ worker[j][k] = "insert"
    /\ Throws
    /\ WorkerTo(j, k, "done")
    /\ UNCHANGED <<handlers, collector, saved, watcher>>

WorkerThrows(j, k) ==
    /\ worker[j][k] \in {"claim", "load", "insert", "done", "count"}
    /\ Throws
    /\ WorkerTo(j, k, "abort")
    /\ UNCHANGED <<handlers, collector, saved, watcher>>

\* The catch block marks the chunk FAILED; processedChunks never counts it.
Abort(j, k) ==
    /\ worker[j][k] = "abort"
    /\ WorkerTo(j, k, "idle")
    /\ chunk' = IF chunk[j][k] # "absent" THEN [chunk EXCEPT ![j][k] = "FAILED"] ELSE chunk
    /\ UNCHANGED <<job, org, delivered, handlers, collector, saved, watcher, environment>>

AbortThrows(j, k) ==
    /\ worker[j][k] = "abort"
    /\ Throws
    /\ WorkerTo(j, k, "idle")
    /\ UNCHANGED <<handlers, collector, saved, watcher>>

(***************************************************************************)
(* Environment                                                             *)
(***************************************************************************)
\* An administrator clears the organization of an integration.
Unconfigure(i) ==
    /\ i \in org
    /\ org' = org \ {i}
    /\ UNCHANGED <<job, chunk, delivered, handlers, workers, environment>>

TwoMinutesPass(j) ==
    /\ Exists(j)
    /\ j \notin old
    /\ old' = old \union {j}
    /\ UNCHANGED <<tables, handlers, workers, faults, restarts>>

\* No promise survives a restart and nothing resumes a job.
Restart ==
    /\ restarts < MaxRestarts
    /\ restarts' = restarts + 1
    /\ request' = [j \in Jobs |-> IF request[j] = "create" THEN "refused" ELSE request[j]]
    /\ deletion' = [j \in Jobs |-> IF deletion[j] = "delete" THEN "idle" ELSE deletion[j]]
    /\ collector' = [j \in Jobs |-> "off"]
    /\ watcher' = [j \in Jobs |-> "off"]
    /\ worker' = [j \in Jobs |-> [k \in ChunkNo |-> "idle"]]
    /\ UNCHANGED <<tables, saved, old, faults>>

-----------------------------------------------------------------------------
Collector(j) ==
    \/ CollectBegin(j) \/ CollectSave(j) \/ CollectTally(j) \/ CollectClose(j)
    \/ CollectGone(j) \/ CollectFail(j)
Watcher(j) ==
    \/ WatchPoll(j) \/ WatchJoin(j) \/ WatchCheck(j) \/ WatchComplete(j)
    \/ WatchGone(j) \/ WatchFail(j)
Worker(j, k) ==
    \/ Claim(j, k) \/ ClaimNothing(j, k) \/ Load(j, k) \/ Insert(j, k) \/ MarkDone(j, k)
    \/ Count(j, k) \/ WorkerGone(j, k) \/ Abort(j, k)

Next ==
    \/ \E j \in Jobs :
         \/ StartRequest(j) \/ StartCreate(j)
         \/ DeleteRequest(j) \/ DeleteRow(j)
         \/ Collector(j) \/ CollectThrows(j) \/ CollectFailThrows(j)
         \/ Watcher(j) \/ WatchThrows(j) \/ WatchFailThrows(j)
         \/ \E k \in ChunkNo : Worker(j, k) \/ WorkerThrows(j, k) \/ AbortThrows(j, k)
         \/ TwoMinutesPass(j)
    \/ \E i \in Integrations : Unconfigure(i)
    \/ Restart

Spec == Init /\ [][Next]_vars

(***************************************************************************)
(* A promise that has been started runs as long as its process does: the   *)
(* event loop starves nobody.  Requests, faults, restarts and the          *)
(* administrator owe nothing.                                              *)
(***************************************************************************)
Fairness ==
    \A j \in Jobs :
        /\ WF_vars(Collector(j))
        /\ WF_vars(Watcher(j))
        /\ \A k \in ChunkNo : WF_vars(Worker(j, k))

FairSpec == Spec /\ Fairness

-----------------------------------------------------------------------------
(***************************************************************************)
(* A job shown as COMPLETED has lost nothing: its collector has stopped,   *)
(* and every chunk it ever stored was inserted and marked DONE.  Relates   *)
(* the watcher's comparison of two counters, kept by two other actors, to  *)
(* what those actors did (insert-worker 46-54).                            *)
(***************************************************************************)
CompletedMeansDelivered ==
    \A j \in Jobs : job[j].status = "COMPLETED" =>
        /\ collector[j] = "off"
        /\ saved[j] > 0
        /\ \A k \in 1..saved[j] : chunk[j][k] = "DONE" /\ k \in delivered[j]

(***************************************************************************)
(* The counters the progress bar divides (getSyncJobStatus): a chunk is    *)
(* counted as processed at most once, and at most one stored chunk is not  *)
(* yet counted in totalChunks, so processedChunks exceeds totalChunks by   *)
(* at most one, and not at all once the collection is over.                *)
(***************************************************************************)
Done(j) == {k \in ChunkNo : chunk[j][k] = "DONE"}

CountersSound ==
    \A j \in Jobs : Exists(j) =>
        /\ job[j].processed <= Cardinality(Done(j))
        /\ job[j].total <= saved[j]
        /\ job[j].processed <= job[j].total + 1
        /\ job[j].collectDone => job[j].total = saved[j]

(***************************************************************************)
(* A job reported as FAILED is never reported as COMPLETED later, although *)
(* collector and watcher both write FAILED and both write other statuses   *)
(* without looking at the one they replace.                                *)
(***************************************************************************)
FailureIsFinal(j) ==
    [](job[j].status = "FAILED" => [](job[j].status # "COMPLETED"))

FailedNeverCompletes == \A j \in Jobs : FailureIsFinal(j)

(***************************************************************************)
(* The workers implement the import that SyncImport describes.  FAILED is  *)
(* no state of its own there: the collector's first update may overwrite   *)
(* it with COLLECTING.                                                     *)
(***************************************************************************)
ImportState(j) ==
    IF Exists(j)
    THEN IF job[j].status = "COMPLETED" THEN "completed"
         ELSE IF job[j].collectDone THEN "closed" ELSE "open"
    ELSE IF request[j] = "accepted" THEN "dropped" ELSE "none"

Import == INSTANCE SyncImport WITH
    Pages <- ChunkNo,
    state <- [j \in Jobs |-> ImportState(j)],
    collected <- [j \in Jobs |-> 1..saved[j]],
    delivered <- delivered

ImplementsImport == Import!Spec

(***************************************************************************)
(* If no call throws and the server is not restarted, every accepted job   *)
(* ends: the frontend that polls its status sees COMPLETED or FAILED, or   *)
(* the job has been deleted.                                               *)
(***************************************************************************)
Ended(j) == job[j].status \in {"absent", "COMPLETED", "FAILED"}

UndisturbedJobsEnd ==
    [](faults = 0 /\ restarts = 0) => \A j \in Jobs : request[j] = "accepted" ~> Ended(j)
=============================================================================
