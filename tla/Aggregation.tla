---------------------------- MODULE Aggregation ----------------------------
(***************************************************************************)
(* The revenue aggregates of one space: AggregationService, the aggregation *)
(* queue with its processors (one per pod), and the job log.               *)
(*                                                                         *)
(* A row of SpaceRevenueMinuteAgg is [event, key, version, by]: the group  *)
(* it stands for, the state of the transaction tables it was computed from *)
(* and the job that wrote it.  Sold says which groups an event has in each *)
(* state; the sums are abstracted by the version.  Rows of NullKeys have   *)
(* no location: PostgreSQL never finds them in conflict with each other.   *)
(*                                                                         *)
(* updateProgress is part of the step before it.  The integration a job is *)
(* limited to changes sums only and is left out; whether it is mapped to   *)
(* this space when the job looks is a choice.  The attendees jobs that a   *)
(* synchronisation queues as well are left out.                            *)
(***************************************************************************)
EXTENDS Naturals, Sequences, FiniteSets

CONSTANTS
    MaxJobs,     \* bound: rows of aggregationJobLog
    Events,
    Processors,
    Keys,        \* minute, location and menu item of a group
    NullKeys,    \* those whose location is NULL
    Product,     \* [Keys -> products], for the daily table
    Day,         \* [Events -> days]
    MaxVersion,  \* bound: states of the transaction tables
    Sold,        \* [1..MaxVersion -> [Events -> SUBSET Keys]]
    MaxFaults    \* bound: calls that throw and pods that die

ASSUME AggregationAssumption ==
    /\ MaxJobs \in Nat
    /\ NullKeys \subseteq Keys
    /\ MaxVersion \in Nat \ {0}
    /\ Sold \in [1..MaxVersion -> [Events -> SUBSET Keys]]
    /\ MaxFaults \in Nat

VARIABLES
    sold,       \* state of the transaction tables
    life,       \* [Events -> "new", "there" or "gone"]
    rows,       \* SpaceRevenueMinuteAgg
    daily,      \* SpaceProductRevenueDailyAgg
    job,        \* [Jobs -> row of the log and data of the queued job]
    logged,     \* rows in the log; its rows are numbered by startedAt
    queue,      \* waiting jobs of the aggregation queue
    at,         \* next call of each processor
    held,       \* [Processors -> the job it holds, 0 if none]
    todo,       \* events still to process
    current,    \* the event being processed, <<>> if none
    success,    \* events processed
    stalled,    \* jobs whose pod has died
    faults,     \* calls that have thrown
    deaths,     \* pods that have died
    since,      \* history: state of the tables when a job was asked for
    overlapped, \* history: events two processors have cleared before either wrote
    unmarked    \* history: jobs whose failure could not be logged

tables == <<rows, daily>>
request == <<job, logged>>
local == <<held, todo, current, success>>
world == <<sold, life>>
history == <<since, overlapped, unmarked>>
bounds == <<stalled, faults, deaths>>
vars == <<world, tables, request, queue, at, local, bounds, history>>

Jobs == 1..MaxJobs
Versions == 1..MaxVersion
Types == {"process-events", "synchronize", "skip"}
Statuses == {"none", "pending", "running", "completed", "failed", "skipped"}
Steps == {"idle", "start", "begin", "delete", "insert",
          "daily", "tally", "finish", "catch", "failed"}
Row == [event : Events, key : Keys, version : Versions, by : Jobs]
DailyRow == [day : {Day[e] : e \in Events}, product : {Product[k] : k \in Keys},
             version : Versions]
JobRow == [status : Statuses, processed : Nat, type : Types, ids : SUBSET Events,
           queued : BOOLEAN]

TypeOK ==
    /\ sold \in Versions
    /\ life \in [Events -> {"new", "there", "gone"}]
    /\ rows \in SUBSET Row
    /\ daily \in SUBSET DailyRow
    /\ job \in [Jobs -> JobRow]
    /\ logged \in 0..MaxJobs
    /\ queue \in Seq(Jobs)
    /\ at \in [Processors -> Steps]
    /\ held \in [Processors -> 0..MaxJobs]
    /\ \A p \in Processors : at[p] = "idle" <=> held[p] = 0
    /\ todo \in [Processors -> SUBSET Events]
    /\ current \in [Processors -> Events \union {<<>>}]
    /\ success \in [Processors -> SUBSET Events]
    /\ stalled \subseteq Jobs
    /\ faults \in 0..MaxFaults
    /\ deaths \in 0..MaxFaults
    /\ since \in [Jobs -> 0..MaxVersion]
    /\ overlapped \subseteq Events
    /\ unmarked \subseteq Jobs

NoJob == [status |-> "none", processed |-> 0, type |-> "skip", ids |-> {},
          queued |-> FALSE]

Init ==
    /\ sold = 1
    /\ life = [e \in Events |-> "new"]
    /\ rows = {}
    /\ daily = {}
    /\ job = [j \in Jobs |-> NoJob]
    /\ logged = 0
    /\ queue = <<>>
    /\ at = [p \in Processors |-> "idle"]
    /\ held = [p \in Processors |-> 0]
    /\ todo = [p \in Processors |-> {}]
    /\ current = [p \in Processors |-> <<>>]
    /\ success = [p \in Processors |-> {}]
    /\ stalled = {}
    /\ faults = 0
    /\ deaths = 0
    /\ since = [j \in Jobs |-> 0]
    /\ overlapped = {}
    /\ unmarked = {}

There == {e \in Events : life[e] = "there"}

-----------------------------------------------------------------------------
(* Around the service: sales and their syncs, and events.                  *)

SellOrCancel ==
    /\ sold < MaxVersion
    /\ sold' = sold + 1
    /\ UNCHANGED <<life, tables, request, queue, at, local, bounds, history>>

CreateEvent(e) ==
    /\ life[e] = "new"
    /\ life' = [life EXCEPT ![e] = "there"]
    /\ UNCHANGED <<sold, tables, request, queue, at, local, bounds, history>>

\* remove deletes the event only; its aggregates have no foreign key.
RemoveEvent(e) ==
    /\ life[e] = "there"
    /\ life' = [life EXCEPT ![e] = "gone"]
    /\ UNCHANGED <<sold, tables, request, queue, at, local, bounds, history>>

-----------------------------------------------------------------------------
(* The handlers: a log row first, then the job in the queue. *)

CreateLog(j, type, status, ids) ==
    /\ j = logged + 1
    /\ logged' = j
    /\ job' = [job EXCEPT ![j] = [status |-> status, processed |-> 0, type |-> type,
                                  ids |-> ids, queued |-> FALSE]]
    /\ since' = [since EXCEPT ![j] = sold]
    /\ UNCHANGED <<world, tables, queue, at, local, bounds, overlapped, unmarked>>

\* Without one of the events in the space there is nothing to queue.
ProcessEvents(j) ==
    \E ids \in SUBSET {e \in Events : life[e] # "new"} :
        /\ ids \intersect There # {}
        /\ CreateLog(j, "process-events", "pending", ids)

Synchronize(j) == CreateLog(j, "synchronize", "pending", There)

SkipEvent(j) ==
    \E e \in There : CreateLog(j, "skip", "skipped", {e})

QueueAggregationJob(j) ==
    /\ job[j].status = "pending" /\ ~job[j].queued
    /\ job' = [job EXCEPT ![j].queued = TRUE]
    /\ queue' = Append(queue, j)
    /\ UNCHANGED <<world, tables, logged, at, local, bounds, history>>

-----------------------------------------------------------------------------
(* A processor: AggregationProcessor.process and the two execute methods.  *)

Busy(p) == held[p] # 0
Goto(p, step) == at' = [at EXCEPT ![p] = step]
Fault == faults + deaths < MaxFaults /\ faults' = faults + 1

\* updateProgress is a call to Redis, and may throw after the step it reports.
Progress(p, step, error) ==
    \/ Goto(p, step) /\ UNCHANGED faults
    \/ Goto(p, error) /\ Fault

SetLog(j, status) == job' = [job EXCEPT ![j].status = status]

\* MUTANT of InLoop: the last event is left out.
InLoopShort(events) == IF Cardinality(events) <= 1 THEN "finish" ELSE "delete"

InLoop(events) == IF events = {} THEN "finish" ELSE "delete"

Take(p) ==
    /\ ~Busy(p) /\ queue # <<>>
    /\ held' = [held EXCEPT ![p] = Head(queue)]
    /\ queue' = Tail(queue)
    /\ Goto(p, IF job[Head(queue)].type = "synchronize" THEN "start" ELSE "begin")
    /\ UNCHANGED <<world, tables, request, todo, current, success, bounds, history>>

\* MUTANT of Start: the daily table is left alone.
StartMinutesOnly(p) ==
    /\ at[p] = "start"
    /\ SetLog(held[p], "running")
    /\ \/ rows' = {} /\ daily' = daily /\ Progress(p, "begin", "failed")
       \/ Goto(p, "failed") /\ Fault /\ UNCHANGED tables
    /\ UNCHANGED <<world, logged, queue, local, stalled, deaths, history>>

\* Both deletions are in one database transaction.
Start(p) ==
    /\ at[p] = "start"
    /\ SetLog(held[p], "running")
    /\ \/ rows' = {} /\ daily' = {} /\ Progress(p, "begin", "failed")
       \/ Goto(p, "failed") /\ Fault /\ UNCHANGED tables
    /\ UNCHANGED <<world, logged, queue, local, stalled, deaths, history>>

\* A rebuild takes the events there are now, the other jobs those they name.
Begin(p) ==
    /\ at[p] = "begin"
    /\ SetLog(held[p], "running")
    /\ LET j == held[p]
           events == IF job[j].type = "synchronize" THEN There ELSE job[j].ids \intersect There
       IN  /\ todo' = [todo EXCEPT ![p] = events]
           /\ \/ Goto(p, InLoop(events)) /\ UNCHANGED faults
              \/ Goto(p, "catch") /\ UNCHANGED faults    \* integration not mapped here
              \/ Goto(p, "failed") /\ Fault
    /\ UNCHANGED <<world, tables, logged, queue, held, current, success, stalled,
                   deaths, history>>

\* Some processor has deleted the rows of the event and not yet written the new ones.
Cleared(e) == \E p \in Processors : at[p] = "insert" /\ current[p] = e

\* MUTANT of DeleteOld: the rows of the event stay.
KeepOld(p) ==
    /\ at[p] = "delete"
    /\ \E e \in todo[p] :
          /\ current' = [current EXCEPT ![p] = e]
          /\ todo' = [todo EXCEPT ![p] = @ \ {e}]
          /\ overlapped' = IF Cleared(e) THEN overlapped \union {e} ELSE overlapped \ {e}
    /\ Goto(p, "insert")
    /\ UNCHANGED <<world, tables, request, queue, held, success, bounds, since,
                   unmarked>>

DeleteOld(p) ==
    /\ at[p] = "delete"
    /\ \E e \in todo[p] :
          /\ current' = [current EXCEPT ![p] = e]
          /\ todo' = [todo EXCEPT ![p] = @ \ {e}]
          /\ rows' = {r \in rows : r.event # e}
          /\ overlapped' = IF Cleared(e) THEN overlapped \union {e} ELSE overlapped \ {e}
    /\ Goto(p, "insert")
    /\ UNCHANGED <<world, daily, request, queue, held, success, bounds, since,
                   unmarked>>

\* INSERT ... ON CONFLICT DO UPDATE, on a key that is compared with NULLs.
Insert(p) ==
    /\ at[p] = "insert"
    /\ LET e == current[p]
           keys == Sold[sold][e]
       IN  rows' = {r \in rows : ~(r.event = e /\ r.key \in keys \ NullKeys)} \union
                   {[event |-> e, key |-> k, version |-> sold, by |-> held[p]] : k \in keys}
    /\ Goto(p, "daily")
    /\ UNCHANGED <<world, daily, request, queue, local, bounds, history>>

InsertDaily(p) ==
    /\ at[p] = "daily"
    /\ LET e == current[p]
           products == {Product[k] : k \in Sold[sold][e]}
       IN  /\ daily' = {d \in daily : ~(d.day = Day[e] /\ d.product \in products)} \union
                       {[day |-> Day[e], product |-> i, version |-> sold] : i \in products}
           /\ success' = [success EXCEPT ![p] = @ \union {e}]
    /\ Goto(p, "tally")
    /\ UNCHANGED <<world, rows, request, queue, held, todo, current, bounds, history>>

\* transactionsProcessed counts events.
Tally(p) ==
    /\ at[p] = "tally"
    /\ job' = [job EXCEPT ![held[p]].processed = Cardinality(success[p])]
    /\ current' = [current EXCEPT ![p] = <<>>]
    /\ Progress(p, InLoop(todo[p]), "catch")
    /\ UNCHANGED <<world, tables, logged, queue, held, todo, success, stalled,
                   deaths, history>>

Release(p) ==
    /\ Goto(p, "idle")
    /\ held' = [held EXCEPT ![p] = 0]
    /\ todo' = [todo EXCEPT ![p] = {}]
    /\ current' = [current EXCEPT ![p] = <<>>]
    /\ success' = [success EXCEPT ![p] = {}]

\* A job whose events have all failed is completed as well.
Finish(p) ==
    /\ at[p] = "finish"
    /\ job' = [job EXCEPT ![held[p]].status = "completed",
                          ![held[p]].processed = Cardinality(success[p])]
    /\ \/ Release(p) /\ UNCHANGED faults
       \/ Goto(p, "catch") /\ Fault /\ UNCHANGED local
    /\ UNCHANGED <<world, tables, logged, queue, stalled, deaths, history>>

-----------------------------------------------------------------------------
(* Failures.                                                               *)

\* MUTANT of CatchError: the error is swallowed.
SwallowError(p) ==
    /\ at[p] = "catch"
    /\ Release(p)
    /\ UNCHANGED <<world, tables, request, queue, bounds, history>>

\* The catch block marks the job failed, whatever it is, and throws again.
CatchError(p) ==
    /\ at[p] = "catch"
    /\ SetLog(held[p], "failed")
    /\ Goto(p, "failed")
    /\ UNCHANGED <<world, tables, logged, queue, local, bounds, history>>

\* onFailed, markJobLogFailed; there is one attempt only.
MarkFailed(j) ==
    job' = [job EXCEPT ![j].status = IF @ = "completed" THEN @ ELSE "failed"]

\* MUTANT of OnFailed: the processor keeps its job.
OnFailedHolding(p) ==
    /\ at[p] = "failed"
    /\ MarkFailed(held[p])
    /\ Goto(p, "idle")
    /\ UNCHANGED <<world, tables, logged, queue, local, bounds, history>>

OnFailed(p) ==
    /\ at[p] = "failed"
    /\ MarkFailed(held[p])
    /\ Release(p)
    /\ UNCHANGED <<world, tables, logged, queue, bounds, history>>

OnFailedThrows(p) ==
    /\ at[p] = "failed"
    /\ Fault
    /\ unmarked' = unmarked \union {held[p]}
    /\ Release(p)
    /\ UNCHANGED <<world, tables, request, queue, stalled, deaths, since, overlapped>>

\* Where an error goes: an event's own catch, the catch block, or straight to onFailed.
Handler(step) ==
    CASE step \in {"start", "begin", "catch"} -> "failed"
      [] step \in {"tally", "finish"} -> "catch"
      [] step \in {"delete", "insert", "daily"} -> "tally"

Throw(p) ==
    /\ at[p] \notin {"idle", "failed"}
    /\ Fault
    /\ Goto(p, Handler(at[p]))
    /\ \/ at[p] # "delete" /\ UNCHANGED todo
       \/ at[p] = "delete" /\ \E e \in todo[p] : todo' = [todo EXCEPT ![p] = @ \ {e}]
    /\ UNCHANGED <<world, tables, request, queue, held, current, success, stalled,
                   deaths, history>>

\* A pod dies: its job stalls, is run again once, and fails the second time.
PodDies(p) ==
    /\ Busy(p) /\ faults + deaths < MaxFaults
    /\ deaths' = deaths + 1
    /\ stalled' = stalled \union {held[p]}
    /\ IF held[p] \in stalled
       THEN MarkFailed(held[p]) /\ UNCHANGED queue
       ELSE queue' = <<held[p]>> \o queue /\ UNCHANGED job
    /\ Release(p)
    /\ UNCHANGED <<world, tables, logged, faults, history>>

-----------------------------------------------------------------------------
Around ==
    \/ SellOrCancel
    \/ \E e \in Events : CreateEvent(e) \/ RemoveEvent(e)

Request ==
    \E j \in Jobs :
        ProcessEvents(j) \/ Synchronize(j) \/ SkipEvent(j) \/ QueueAggregationJob(j)

Process(p) ==
    \/ Take(p) \/ Start(p) \/ Begin(p)
    \/ DeleteOld(p) \/ Insert(p) \/ InsertDaily(p) \/ Tally(p) \/ Finish(p)
    \/ CatchError(p) \/ OnFailed(p)

Fails(p) == Throw(p) \/ OnFailedThrows(p) \/ PodDies(p)

Next == Around \/ Request \/ \E p \in Processors : Process(p) \/ Fails(p)

Spec == Init /\ [][Next]_vars /\ \A p \in Processors : WF_vars(Process(p))

-----------------------------------------------------------------------------
\* getEventsTimelineStatus shows the status of the latest job that names the event.
Naming(e) == {j \in 1..logged : e \in job[j].ids}
Latest(e) == CHOOSE j \in Naming(e) : \A k \in Naming(e) : k <= j
Shown(e) == IF Naming(e) = {} THEN "pending" ELSE job[Latest(e)].status

Ended(j) == job[j].status \in {"completed", "failed"} \/ j \in unmarked
RowsOf(e) == {r \in rows : r.event = e}
Calm == faults = 0 /\ \A j \in Jobs : job[j].status # "failed"

(***************************************************************************)
(* Whatever fails, dies, is repeated or runs beside it, the rows of an     *)
(* event are all of one state of the sales and one job, each group once,   *)
(* or none at all, unless two processors have both deleted the old rows    *)
(* before either wrote its own.  Groups without a location rely on the     *)
(* deletion alone (lines 255-258, 298-303).                                *)
(***************************************************************************)
OneSnapshotPerEvent ==
    \A e \in Events \ overlapped :
        \/ RowsOf(e) = {}
        \/ \E v \in Versions, j \in Jobs :
              RowsOf(e) = {[event |-> e, key |-> k, version |-> v, by |-> j] : k \in Sold[v][e]}

(***************************************************************************)
(* If nothing has failed and no job is under way, an event that the        *)
(* timeline shows as completed has every row of a state of the sales no    *)
(* older than the request, pods that died included (46-66, 239-340).       *)
(***************************************************************************)
ShownAsAggregated ==
    Calm =>
        \A e \in There \ overlapped :
            /\ Shown(e) = "completed"
            /\ \A j \in Jobs : job[j].queued => Ended(j)
            => \E v \in since[Latest(e)]..sold :
                  /\ {r.key : r \in RowsOf(e)} = Sold[v][e]
                  /\ \A r \in RowsOf(e) : r.version = v

(***************************************************************************)
(* Once a rebuild has completed, nothing computed before it was asked for  *)
(* is left in either table, not even below events that are gone, whatever  *)
(* has failed or died on the way (447-450).                                *)
(***************************************************************************)
RebuildLeavesNothingOld ==
    \A j \in Jobs :
        job[j].type = "synchronize" /\ job[j].status = "completed"
        => \A r \in rows \union daily : r.version >= since[j]

(***************************************************************************)
(* A queued job ends as completed or failed in the log, unless the one     *)
(* call that would say so throws (aggregation.processor.ts 41-48).         *)
(***************************************************************************)
QueuedJobsEnd == \A j \in Jobs : job[j].queued ~> Ended(j)

=============================================================================
