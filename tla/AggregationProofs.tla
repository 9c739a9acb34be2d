------------------------- MODULE AggregationProofs -------------------------
(***************************************************************************)
(* Proofs about Aggregation, for any events, groups, jobs, processors,     *)
(* states of the sales and faults, in layers that each rest on the ones    *)
(* before: types; the rows of one event; who holds which job; rebuilds;    *)
(* and, as long as no call has thrown, what a job has done for an event.   *)
(***************************************************************************)
EXTENDS Aggregation, FiniteSetTheorems, NaturalsInduction, WellFoundedInduction, TLAPS

LoopSteps == {"delete", "insert", "daily", "tally", "finish"}

-----------------------------------------------------------------------------
(* The invariants, one layer per concern. *)

\* An event is at hand while it is written; successes can be counted.
AtHand ==
    /\ \A p \in Processors : at[p] \in {"insert", "daily"} => current[p] \in Events
    /\ \A p \in Processors : IsFiniteSet(success[p])

Typed == TypeOK /\ AtHand

\* Where nothing has overlapped, whoever has deleted the rows of an event is
\* alone with it, and they are still gone.
Alone ==
    \A e \in Events \ overlapped :
        /\ Cleared(e) => RowsOf(e) = {}
        /\ \A p, q \in Processors :
              at[p] = "insert" /\ at[q] = "insert" /\ current[p] = e /\ current[q] = e => p = q

Snapshots == Alone /\ OneSnapshotPerEvent

Waits(j) == \E k \in 1..Len(queue) : queue[k] = j
Runs(j) == \E p \in Processors : held[p] = j

\* The jobs that were never asked for, and those in the queue or held.
Known ==
    /\ \A j \in Jobs : j > logged => job[j] = NoJob
    /\ \A j \in Jobs : Waits(j) \/ Runs(j) => j <= logged /\ job[j].queued
    /\ \A j \in Jobs : since[j] <= sold

NothingOld(j) == \A r \in rows \union daily : r.version >= since[j]

\* A rebuild that is past its deletion, or has completed once.
Rebuilt(j) ==
    \/ job[j].status = "completed"
    \/ \E p \in Processors : held[p] = j /\ at[p] \in LoopSteps \union {"begin", "catch"}

Rebuilds == \A j \in Jobs : job[j].type = "synchronize" /\ Rebuilt(j) => NothingOld(j)

\* A job is in the queue once or held once.
Apart ==
    /\ \A k, l \in 1..Len(queue) : queue[k] = queue[l] => k = l
    /\ \A j \in Jobs : ~(Waits(j) /\ Runs(j))
    /\ \A p, q \in Processors : held[p] # 0 /\ held[p] = held[q] => p = q

Concerns(j, e) == job[j].type = "synchronize" \/ e \in job[j].ids

\* Jobs name events that there are or were; a processor works for its job.
Work ==
    /\ \A j \in Jobs : \A e \in job[j].ids : life[e] # "new"
    /\ \A p \in Processors :
          /\ at[p] \in LoopSteps => \A e \in todo[p] : Concerns(held[p], e)
          /\ at[p] = "insert" => Concerns(held[p], current[p])
          /\ at[p] = "finish" => todo[p] = {}
          /\ at[p] = "start" => job[held[p]].type = "synchronize"

\* Processor p has gone past event e in its loop.
Past(p, e) == at[p] \in LoopSteps /\ e \notin todo[p]

\* A job concerned with e has still to come to it, or will never end well.
Awaited(e) ==
    \E j \in Jobs :
        /\ job[j].queued /\ job[j].status # "completed" /\ Concerns(j, e)
        /\ ~ \E p \in Processors : held[p] = j /\ Past(p, e)

\* The rows of e are those of a state no older than the request of job j.
Current(e, j) ==
    \E v \in since[j]..sold :
        /\ {r.key : r \in RowsOf(e)} = Sold[v][e]
        /\ \A r \in RowsOf(e) : r.version = v

\* Job j has been past e.
Treated(j, e) ==
    \/ job[j].status = "completed"
    \/ \E p \in Processors : held[p] = j /\ Past(p, e)

\* What is left to do for e is known of: whatever a job has done for it is still
\* there, or about to be written, or another job will do it again.
Done(e) ==
    \A j \in Jobs :
        e \in job[j].ids /\ Treated(j, e) => Cleared(e) \/ Current(e, j) \/ Awaited(e)

Underway == \A j \in Jobs : Waits(j) \/ Runs(j) => job[j].status # "completed"

Undisturbed ==
    /\ unmarked = {}
    /\ Underway
    /\ \A e \in There \ overlapped : Done(e)

-----------------------------------------------------------------------------
(* Types. *)

LEMMA Bounds ==
  /\ MaxJobs \in Nat /\ MaxVersion \in Nat \ {0} /\ MaxFaults \in Nat
  /\ Sold \in [Versions -> [Events -> SUBSET Keys]]
  BY AggregationAssumption DEF Versions

LEMMA Initially == Init => Typed
<1> SUFFICES ASSUME Init
             PROVE  Typed
  OBVIOUS
<1>1. NoJob \in JobRow
  BY DEF NoJob, JobRow, Statuses, Types
<1>2. TypeOK
  BY <1>1, Bounds DEF Init, TypeOK, Steps, Versions
<1>3. AtHand
  BY FS_EmptySet DEF Init, AtHand
<1> QED
  BY <1>2, <1>3 DEF Typed

\* What the actions leave alone.
LEMMA TypedStutter == Typed /\ UNCHANGED vars => Typed'
  BY DEF Typed, TypeOK, AtHand, vars, world, tables, request, local, bounds, history

LEMMA AroundTyped == Typed /\ Around => Typed'
<1> SUFFICES ASSUME Typed, Around
             PROVE  Typed'
  OBVIOUS
<1>1. CASE SellOrCancel
  BY <1>1, Bounds DEF SellOrCancel, Typed, TypeOK, AtHand, Versions,
     tables, request, local, bounds, history
<1>2. CASE \E e \in Events : CreateEvent(e) \/ RemoveEvent(e)
  BY <1>2 DEF CreateEvent, RemoveEvent, Typed, TypeOK, AtHand,
     tables, request, local, bounds, history
<1> QED
  BY <1>1, <1>2 DEF Around

LEMMA CreateLogTyped ==
  ASSUME Typed, NEW j \in Jobs, NEW type \in Types, NEW status \in Statuses,
         NEW ids \in SUBSET Events, CreateLog(j, type, status, ids)
  PROVE  Typed'
<1>1. logged' \in 0..MaxJobs /\ since' \in [Jobs -> 0..MaxVersion]
  BY Bounds DEF CreateLog, Typed, TypeOK, Jobs, Versions
<1>2. job' \in [Jobs -> JobRow]
  BY DEF CreateLog, Typed, TypeOK, JobRow
<1> QED
  BY <1>1, <1>2 DEF CreateLog, Typed, TypeOK, AtHand, world, tables, local, bounds

LEMMA RequestTyped == Typed /\ Request => Typed'
<1> SUFFICES ASSUME Typed, NEW j \in Jobs,
                    ProcessEvents(j) \/ Synchronize(j) \/ SkipEvent(j) \/ QueueAggregationJob(j)
             PROVE  Typed'
  BY DEF Request
<1>1. CASE ProcessEvents(j)
  BY <1>1, CreateLogTyped DEF ProcessEvents, Types, Statuses
<1>2. CASE Synchronize(j)
  BY <1>2, CreateLogTyped DEF Synchronize, Types, Statuses, There
<1>3. CASE SkipEvent(j)
  BY <1>3, CreateLogTyped DEF SkipEvent, Types, Statuses, There
<1>4. CASE QueueAggregationJob(j)
  <2>1. job' \in [Jobs -> JobRow]
    <3>1. \A r \in JobRow : [r EXCEPT !.queued = TRUE] \in JobRow
      BY DEF JobRow
    <3> QED
      BY <1>4, <3>1 DEF QueueAggregationJob, Typed, TypeOK
  <2>2. queue' \in Seq(Jobs)
    BY <1>4 DEF QueueAggregationJob, Typed, TypeOK
  <2> QED
    BY <1>4, <2>1, <2>2 DEF QueueAggregationJob, Typed, TypeOK, AtHand, world, tables, local,
       bounds, history
<1> QED
  BY <1>1, <1>2, <1>3, <1>4

\* The log row of a job takes another status.
LEMMA StatusTyped ==
  ASSUME Typed, NEW j \in Jobs, NEW s \in Statuses, SetLog(j, s)
  PROVE  job' \in [Jobs -> JobRow]
<1>1. \A r \in JobRow : [r EXCEPT !.status = s] \in JobRow
  BY DEF JobRow
<1> QED
  BY <1>1 DEF SetLog, Typed, TypeOK

LEMMA MarkTyped ==
  ASSUME Typed, NEW j \in Jobs, MarkFailed(j)
  PROVE  job' \in [Jobs -> JobRow]
<1>1. PICK s \in {job[j].status, "failed"} : SetLog(j, s)
  BY DEF MarkFailed, SetLog
<1>2. s \in Statuses
  BY DEF Typed, TypeOK, JobRow, Statuses
<1> QED
  BY <1>1, <1>2, StatusTyped

LEMMA HeldJob ==
  ASSUME Typed, NEW p \in Processors, at[p] # "idle"
  PROVE  held[p] \in Jobs /\ Busy(p)
  BY Bounds DEF Typed, TypeOK, Jobs, Busy

LEMMA FaultTyped == Typed /\ Fault => faults' \in 0..MaxFaults
  BY Bounds DEF Typed, TypeOK, Fault

\* A processor lets go of its job.
LEMMA ReleaseTyped ==
  ASSUME Typed, NEW p \in Processors, Release(p)
  PROVE  /\ at' \in [Processors -> Steps]
         /\ held' \in [Processors -> 0..MaxJobs]
         /\ \A q \in Processors : at'[q] = "idle" <=> held'[q] = 0
         /\ todo' \in [Processors -> SUBSET Events]
         /\ current' \in [Processors -> Events \union {<<>>}]
         /\ success' \in [Processors -> SUBSET Events]
         /\ AtHand'
<1>1. /\ at' \in [Processors -> Steps]
      /\ held' \in [Processors -> 0..MaxJobs]
      /\ \A q \in Processors : at'[q] = "idle" <=> held'[q] = 0
  BY Bounds DEF Release, Goto, Typed, TypeOK, Steps
<1>2. /\ todo' \in [Processors -> SUBSET Events]
      /\ current' \in [Processors -> Events \union {<<>>}]
      /\ success' \in [Processors -> SUBSET Events]
  BY DEF Release, Typed, TypeOK
<1>3. AtHand'
  BY FS_EmptySet DEF Release, Goto, Typed, TypeOK, AtHand
<1> QED
  BY <1>1, <1>2, <1>3

\* A processor goes to a step that holds a job.
LEMMA GotoTyped ==
  ASSUME Typed, NEW p \in Processors, NEW s \in Steps \ {"idle"}, at[p] # "idle", Goto(p, s),
         UNCHANGED held
  PROVE  /\ at' \in [Processors -> Steps]
         /\ \A q \in Processors : at'[q] = "idle" <=> held'[q] = 0
  BY DEF Goto, Typed, TypeOK

LEMMA ProgressTyped ==
  ASSUME Typed, NEW p \in Processors, NEW s \in Steps \ {"idle"}, NEW x \in Steps \ {"idle"},
         at[p] # "idle", Progress(p, s, x), UNCHANGED held
  PROVE  /\ at' \in [Processors -> Steps]
         /\ \A q \in Processors : at'[q] = "idle" <=> held'[q] = 0
         /\ faults' \in 0..MaxFaults
         /\ at'[p] \in {s, x} /\ \A q \in Processors \ {p} : at'[q] = at[q]
<1>1. faults' \in 0..MaxFaults
  BY FaultTyped DEF Progress, Typed, TypeOK
<1>2. Goto(p, s) \/ Goto(p, x)
  BY DEF Progress
<1>3. at'[p] \in {s, x} /\ \A q \in Processors \ {p} : at'[q] = at[q]
  BY <1>2 DEF Goto, Typed, TypeOK
<1> QED
  BY <1>1, <1>2, <1>3, GotoTyped

LEMMA TakeTyped == ASSUME Typed, NEW p \in Processors, Take(p) PROVE Typed'
<1>1. Head(queue) \in Jobs /\ queue' \in Seq(Jobs)
  BY DEF Take, Typed, TypeOK
<1>2. DEFINE step == IF job[Head(queue)].type = "synchronize" THEN "start" ELSE "begin"
<1>3. /\ held' = [held EXCEPT ![p] = Head(queue)] /\ at' = [at EXCEPT ![p] = step]
      /\ step \in {"start", "begin"}
  BY DEF Take, Goto
<1>4. Head(queue) \in 0..MaxJobs \ {0}
  BY <1>1, Bounds DEF Jobs
<1> HIDE DEF step
<1>5. at' \in [Processors -> Steps] /\ held' \in [Processors -> 0..MaxJobs]
  BY <1>3, <1>4 DEF Typed, TypeOK, Steps
<1>6. \A q \in Processors : at'[q] = "idle" <=> held'[q] = 0
  BY <1>3, <1>4 DEF Typed, TypeOK
<1>7. AtHand'
  BY DEF Take, Goto, Typed, TypeOK, AtHand
<1> QED
  BY <1>1, <1>5, <1>6, <1>7 DEF Take, Typed, TypeOK, world, tables, request, bounds, history

LEMMA StartTyped == ASSUME Typed, NEW p \in Processors, Start(p) PROVE Typed'
<1>1. job' \in [Jobs -> JobRow]
  BY HeldJob, StatusTyped DEF Start, Statuses
<1>2. rows' \in SUBSET Row /\ daily' \in SUBSET DailyRow
  BY DEF Start, tables, Typed, TypeOK
<1>3. /\ at' \in [Processors -> Steps]
      /\ \A q \in Processors : at'[q] = "idle" <=> held'[q] = 0
      /\ faults' \in 0..MaxFaults
      /\ at'[p] \in {"begin", "failed"} /\ \A q \in Processors \ {p} : at'[q] = at[q]
  <2>1. CASE Progress(p, "begin", "failed")
    BY <2>1, ProgressTyped DEF Start, Steps, local
  <2>2. CASE Goto(p, "failed") /\ Fault
    <3>1. Progress(p, "begin", "failed")
      BY <2>2 DEF Progress
    <3> QED
      BY <3>1, ProgressTyped DEF Start, Steps, local
  <2> QED
    BY <2>1, <2>2 DEF Start
<1>4. AtHand'
  BY <1>3 DEF Start, local, Typed, AtHand
<1> QED
  BY <1>1, <1>2, <1>3, <1>4 DEF Start, Typed, TypeOK, world, local, history

LEMMA BeginTyped == ASSUME Typed, NEW p \in Processors, Begin(p) PROVE Typed'
<1> DEFINE j == held[p]
           events == IF job[j].type = "synchronize" THEN There ELSE job[j].ids \intersect There
<1>1. job' \in [Jobs -> JobRow]
  BY HeldJob, StatusTyped DEF Begin, Statuses
<1>2. todo' \in [Processors -> SUBSET Events]
  BY DEF Begin, There, Typed, TypeOK
<1>3. Progress(p, InLoop(events), "failed") \/ (Goto(p, "catch") /\ UNCHANGED faults)
  BY DEF Begin, Progress
<1>4. InLoop(events) \in {"finish", "delete"}
  BY DEF InLoop
<1>5. /\ at' \in [Processors -> Steps]
      /\ \A q \in Processors : at'[q] = "idle" <=> held'[q] = 0
      /\ faults' \in 0..MaxFaults
      /\ at'[p] \notin {"insert", "daily"} /\ \A q \in Processors \ {p} : at'[q] = at[q]
  <2>1. CASE Progress(p, InLoop(events), "failed")
    <3> HIDE DEF events
    <3> QED
      BY <2>1, <1>4, ProgressTyped DEF Begin, Steps
  <2>2. CASE Goto(p, "catch") /\ UNCHANGED faults
    <3>1. /\ at' \in [Processors -> Steps]
          /\ \A q \in Processors : at'[q] = "idle" <=> held'[q] = 0
      BY <2>2, GotoTyped DEF Begin, Steps
    <3> QED
      BY <2>2, <3>1 DEF Goto, Typed, TypeOK
  <2> QED
    BY <1>3, <2>1, <2>2
<1>6. AtHand'
  BY <1>5 DEF Begin, Typed, AtHand
<1> QED
  BY <1>1, <1>2, <1>5, <1>6 DEF Begin, Typed, TypeOK, world, tables, history

LEMMA DeleteOldTyped == ASSUME Typed, NEW p \in Processors, DeleteOld(p) PROVE Typed'
<1>1. PICK e \in todo[p] :
          /\ current' = [current EXCEPT ![p] = e]
          /\ todo' = [todo EXCEPT ![p] = @ \ {e}]
          /\ rows' = {r \in rows : r.event # e}
          /\ overlapped' = IF Cleared(e) THEN overlapped \union {e} ELSE overlapped \ {e}
  BY DEF DeleteOld
<1>2. e \in Events
  BY DEF Typed, TypeOK
<1>3. /\ current' \in [Processors -> Events \union {<<>>}] /\ current'[p] = e
      /\ \A q \in Processors \ {p} : current'[q] = current[q]
      /\ todo' \in [Processors -> SUBSET Events]
      /\ rows' \in SUBSET Row
      /\ overlapped' \subseteq Events
  BY <1>1, <1>2 DEF Typed, TypeOK
<1>4. /\ at' \in [Processors -> Steps]
      /\ \A q \in Processors : at'[q] = "idle" <=> held'[q] = 0
      /\ \A q \in Processors \ {p} : at'[q] = at[q]
  <2>1. Goto(p, "insert") /\ at[p] # "idle" /\ UNCHANGED held
    BY DEF DeleteOld
  <2> QED
    BY <2>1, GotoTyped DEF Steps, Goto, Typed, TypeOK
<1>5. AtHand'
  BY <1>2, <1>3, <1>4 DEF DeleteOld, Typed, AtHand
<1> QED
  BY <1>3, <1>4, <1>5 DEF DeleteOld, Typed, TypeOK, world, request, bounds

LEMMA InsertTyped == ASSUME Typed, NEW p \in Processors, Insert(p) PROVE Typed'
<1>1. held[p] \in Jobs /\ current[p] \in Events
  BY HeldJob DEF Insert, Typed, AtHand
<1>2. sold \in Versions /\ Sold[sold][current[p]] \subseteq Keys
  BY <1>1, Bounds DEF Typed, TypeOK
<1>3. rows' \in SUBSET Row
  BY <1>1, <1>2 DEF Insert, Row, Typed, TypeOK
<1>4. /\ at' \in [Processors -> Steps]
      /\ \A q \in Processors : at'[q] = "idle" <=> held'[q] = 0
  BY GotoTyped DEF Insert, local, Steps
<1>5. AtHand'
  BY DEF Insert, Goto, local, Typed, TypeOK, AtHand
<1> QED
  BY <1>3, <1>4, <1>5 DEF Insert, Typed, TypeOK, world, request, local, bounds, history

LEMMA InsertDailyTyped == ASSUME Typed, NEW p \in Processors, InsertDaily(p) PROVE Typed'
<1>1. current[p] \in Events
  BY DEF InsertDaily, Typed, AtHand
<1>2. sold \in Versions /\ Sold[sold][current[p]] \subseteq Keys
  BY <1>1, Bounds DEF Typed, TypeOK
<1>3. daily' \in SUBSET DailyRow
  BY <1>1, <1>2 DEF InsertDaily, DailyRow, Typed, TypeOK
<1>4. /\ at' \in [Processors -> Steps]
      /\ \A q \in Processors : at'[q] = "idle" <=> held'[q] = 0
  BY GotoTyped DEF InsertDaily, Steps
<1>5. success' = [success EXCEPT ![p] = @ \union {current[p]}]
  BY DEF InsertDaily
<1>6. success' \in [Processors -> SUBSET Events]
  BY <1>1, <1>5 DEF Typed, TypeOK
<1>7. \A q \in Processors : IsFiniteSet(success'[q])
  <2>1. IsFiniteSet(success[p] \union {current[p]})
    BY FS_AddElement DEF Typed, AtHand
  <2> QED
    BY <1>5, <2>1 DEF Typed, TypeOK, AtHand
<1>8. AtHand'
  BY <1>7 DEF InsertDaily, Goto, Typed, TypeOK, AtHand
<1> QED
  BY <1>3, <1>4, <1>6, <1>8 DEF InsertDaily, Typed, TypeOK, world, request, bounds, history

\* The job log counts the events.
LEMMA CountTyped ==
  ASSUME Typed, NEW p \in Processors
  PROVE  Cardinality(success[p]) \in Nat
  BY FS_CardinalityType DEF Typed, AtHand

LEMMA TallyTyped == ASSUME Typed, NEW p \in Processors, Tally(p) PROVE Typed'
<1>1. job' \in [Jobs -> JobRow]
  <2>1. DEFINE n == Cardinality(success[p])
  <2>2. n \in Nat
    BY CountTyped
  <2>3. job' = [job EXCEPT ![held[p]].processed = n]
    BY DEF Tally
  <2> HIDE DEF n
  <2>4. \A r \in JobRow : [r EXCEPT !.processed = n] \in JobRow
    BY <2>2 DEF JobRow
  <2> QED
    BY <2>3, <2>4 DEF Typed, TypeOK
<1>2. current' \in [Processors -> Events \union {<<>>}]
      /\ \A q \in Processors \ {p} : current'[q] = current[q]
  BY DEF Tally, Typed, TypeOK
<1>3. InLoop(todo[p]) \in {"finish", "delete"}
  BY DEF InLoop
<1>4. /\ at' \in [Processors -> Steps]
      /\ \A q \in Processors : at'[q] = "idle" <=> held'[q] = 0
      /\ faults' \in 0..MaxFaults
      /\ at'[p] \notin {"insert", "daily"} /\ \A q \in Processors \ {p} : at'[q] = at[q]
  <2>1. at[p] # "idle" /\ Progress(p, InLoop(todo[p]), "catch") /\ UNCHANGED held
    BY DEF Tally
  <2>2. InLoop(todo[p]) \in Steps \ {"idle"} /\ "catch" \in Steps \ {"idle"}
    BY <1>3 DEF Steps
  <2>3. at'[p] \in {InLoop(todo[p]), "catch"}
    BY <2>1, <2>2, ProgressTyped
  <2> QED
    BY <1>3, <2>1, <2>2, <2>3, ProgressTyped
<1>5. AtHand'
  BY <1>2, <1>4 DEF Tally, Typed, AtHand
<1> QED
  BY <1>1, <1>2, <1>4, <1>5 DEF Tally, Typed, TypeOK, world, tables, history

LEMMA FinishTyped == ASSUME Typed, NEW p \in Processors, Finish(p) PROVE Typed'
<1>1. job' \in [Jobs -> JobRow]
  <2>1. DEFINE n == Cardinality(success[p])
  <2>2. job' = [job EXCEPT ![held[p]] = [@ EXCEPT !.status = "completed", !.processed = n]]
    BY DEF Finish
  <2>3. n \in Nat /\ job \in [Jobs -> JobRow]
    BY CountTyped DEF Typed, TypeOK
  <2> HIDE DEF n
  <2>4. \A r \in JobRow : [r EXCEPT !.status = "completed", !.processed = n] \in JobRow
    BY <2>3 DEF JobRow, Statuses
  <2> QED
    BY <2>2, <2>3, <2>4
<1>2. CASE Release(p) /\ UNCHANGED faults
  BY <1>1, <1>2, ReleaseTyped DEF Finish, Typed, TypeOK, world, tables, history
<1>3. CASE Goto(p, "catch") /\ Fault /\ UNCHANGED local
  <2>1. /\ at' \in [Processors -> Steps]
        /\ \A q \in Processors : at'[q] = "idle" <=> held'[q] = 0
    BY <1>3, GotoTyped DEF Finish, local, Steps
  <2>2. AtHand'
    BY <1>3 DEF Goto, local, Typed, TypeOK, AtHand
  <2> QED
    BY <1>1, <1>3, <2>1, <2>2, FaultTyped DEF Finish, local, Typed, TypeOK, world, tables, history
<1> QED
  BY <1>2, <1>3 DEF Finish

LEMMA CatchErrorTyped == ASSUME Typed, NEW p \in Processors, CatchError(p) PROVE Typed'
<1>1. job' \in [Jobs -> JobRow]
  BY HeldJob, StatusTyped DEF CatchError, Statuses
<1>2. /\ at' \in [Processors -> Steps]
      /\ \A q \in Processors : at'[q] = "idle" <=> held'[q] = 0
  BY GotoTyped DEF CatchError, local, Steps
<1>3. AtHand'
  BY DEF CatchError, Goto, local, Typed, TypeOK, AtHand
<1> QED
  BY <1>1, <1>2, <1>3 DEF CatchError, Typed, TypeOK, world, tables, local, bounds, history

LEMMA OnFailedTyped == ASSUME Typed, NEW p \in Processors, OnFailed(p) PROVE Typed'
<1>1. job' \in [Jobs -> JobRow]
  BY HeldJob, MarkTyped DEF OnFailed
<1> QED
  BY <1>1, ReleaseTyped DEF OnFailed, Typed, TypeOK, world, tables, bounds, history

LEMMA OnFailedThrowsTyped == ASSUME Typed, NEW p \in Processors, OnFailedThrows(p) PROVE Typed'
<1>1. held[p] \in Jobs
  BY HeldJob DEF OnFailedThrows
<1> QED
  BY <1>1, ReleaseTyped, FaultTyped DEF OnFailedThrows, Typed, TypeOK, world, tables, request

\* Where an error goes.
LEMMA HandlerStep ==
  ASSUME NEW s \in Steps \ {"idle", "failed"}
  PROVE  /\ Handler(s) \in {"failed", "catch", "tally"}
         /\ Handler(s) = "tally" => s \in {"delete", "insert", "daily"}
         /\ Handler(s) = "catch" => s \in {"tally", "finish"}
  BY DEF Handler, Steps

LEMMA ThrowTyped == ASSUME Typed, NEW p \in Processors, Throw(p) PROVE Typed'
<1>1. at[p] \in Steps \ {"idle", "failed"}
  BY DEF Throw, Typed, TypeOK
<1>2. Handler(at[p]) \in {"failed", "catch", "tally"}
  BY <1>1, HandlerStep
<1>3. /\ at' \in [Processors -> Steps]
      /\ \A q \in Processors : at'[q] = "idle" <=> held'[q] = 0
  BY <1>1, <1>2, GotoTyped DEF Throw, Steps
<1>4. todo' \in [Processors -> SUBSET Events]
  <2>1. CASE UNCHANGED todo
    BY <2>1 DEF Typed, TypeOK
  <2>2. CASE \E e \in todo[p] : todo' = [todo EXCEPT ![p] = @ \ {e}]
    BY <2>2 DEF Typed, TypeOK
  <2> QED
    BY <2>1, <2>2 DEF Throw
<1>5. AtHand'
  BY <1>2 DEF Throw, Goto, Typed, TypeOK, AtHand
<1> QED
  BY <1>3, <1>4, <1>5, FaultTyped DEF Throw, Typed, TypeOK, world, tables, request, history

LEMMA PodDiesTyped == ASSUME Typed, NEW p \in Processors, PodDies(p) PROVE Typed'
<1>1. held[p] \in Jobs
  BY Bounds DEF PodDies, Busy, Typed, TypeOK, Jobs
<1>2. job' \in [Jobs -> JobRow]
  BY <1>1, MarkTyped DEF PodDies, Typed, TypeOK
<1>3. queue' \in Seq(Jobs)
  <2>1. <<held[p]>> \in Seq(Jobs) /\ queue \in Seq(Jobs)
    BY <1>1 DEF Typed, TypeOK
  <2>2. <<held[p]>> \o queue \in Seq(Jobs)
    BY <2>1
  <2> QED
    BY <2>1, <2>2 DEF PodDies
<1>4. deaths' \in 0..MaxFaults
  BY Bounds DEF PodDies, Typed, TypeOK
<1> QED
  BY <1>1, <1>2, <1>3, <1>4, ReleaseTyped DEF PodDies, Typed, TypeOK, world, tables, history

LEMMA ProcessTyped == ASSUME Typed, NEW p \in Processors, Process(p) \/ Fails(p) PROVE Typed'
  BY TakeTyped, StartTyped, BeginTyped, DeleteOldTyped, InsertTyped, InsertDailyTyped,
     TallyTyped, FinishTyped, CatchErrorTyped, OnFailedTyped, ThrowTyped, OnFailedThrowsTyped,
     PodDiesTyped DEF Process, Fails

LEMMA NextTyped == Typed /\ [Next]_vars => Typed'
  BY TypedStutter, AroundTyped, RequestTyped, ProcessTyped DEF Next

\* Fairness is no part of what is proved here.
LEMMA SpecSafe == Spec => Init /\ [][Next]_vars
  BY PTL DEF Spec

LEMMA TypedAlways == Spec => []Typed
  BY Initially, NextTyped, SpecSafe, PTL

(***************************************************************************)
(* Aggregates, log rows, queue and processors stay of the kinds the code   *)
(* stores, for any events, groups, jobs, processors and faults             *)
(* (AggregationService, AggregationProcessor).                             *)
(***************************************************************************)
THEOREM AggregationTypeCorrect == Spec => []TypeOK
<1>1. Typed => TypeOK
  BY DEF Typed
<1> QED
  BY <1>1, TypedAlways, PTL

-----------------------------------------------------------------------------
(* The rows of one event. *)

LEMMA SnapshotsInitially == Init => Snapshots
  BY DEF Init, Snapshots, Alone, OneSnapshotPerEvent, Cleared, RowsOf

\* A step that takes nobody to an insertion and writes no rows.
LEMMA SnapshotsKept ==
  ASSUME Snapshots, UNCHANGED <<rows, overlapped>>,
         \A p \in Processors : at'[p] = "insert" => at[p] = "insert" /\ current'[p] = current[p]
  PROVE  Snapshots'
  BY DEF Snapshots, Alone, OneSnapshotPerEvent, Cleared, RowsOf

\* Nothing is left when a rebuild begins.
LEMMA SnapshotsGone ==
  ASSUME Snapshots, UNCHANGED overlapped, rows' = {},
         \A p \in Processors : at'[p] = "insert" => at[p] = "insert" /\ current'[p] = current[p]
  PROVE  Snapshots'
  BY DEF Snapshots, Alone, OneSnapshotPerEvent, Cleared, RowsOf

LEMMA DeleteOldSnapshots ==
  ASSUME Typed, Snapshots, NEW p \in Processors, DeleteOld(p)
  PROVE  Snapshots'
<1>1. PICK e \in todo[p] :
          /\ current' = [current EXCEPT ![p] = e]
          /\ rows' = {r \in rows : r.event # e}
          /\ overlapped' = IF Cleared(e) THEN overlapped \union {e} ELSE overlapped \ {e}
  BY DEF DeleteOld
<1>2. /\ at' = [at EXCEPT ![p] = "insert"] /\ at[p] = "delete"
      /\ at \in [Processors -> Steps] /\ current \in [Processors -> Events \union {<<>>}]
      /\ e \in Events
  BY DEF DeleteOld, Goto, Typed, TypeOK
<1>3. RowsOf(e)' = {}
  BY <1>1 DEF RowsOf
<1>4. ASSUME NEW d \in Events \ overlapped', d # e
      PROVE  RowsOf(d)' = RowsOf(d) /\ d \notin overlapped /\ (Cleared(d)' => Cleared(d))
  BY <1>1, <1>2, <1>4 DEF RowsOf, Cleared
<1>5. OneSnapshotPerEvent'
  BY <1>3, <1>4 DEF Snapshots, OneSnapshotPerEvent
<1>6. \A d \in Events \ overlapped' : Cleared(d)' => RowsOf(d)' = {}
  BY <1>3, <1>4 DEF Snapshots, Alone
<1>7. ASSUME NEW d \in Events \ overlapped', NEW x \in Processors, NEW y \in Processors,
             at'[x] = "insert", at'[y] = "insert", current'[x] = d, current'[y] = d
      PROVE  x = y
  <2>1. CASE d = e
    <3>1. ~Cleared(e)
      BY <1>1, <2>1
    <3> QED
      BY <1>1, <1>2, <1>7, <2>1, <3>1 DEF Cleared
  <2>2. CASE d # e
    BY <1>1, <1>2, <1>4, <1>7, <2>2 DEF Snapshots, Alone
  <2> QED
    BY <2>1, <2>2
<1> QED
  BY <1>5, <1>6, <1>7 DEF Snapshots, Alone

\* What is written for an event whose rows are gone is all there is of it.
LEMMA InsertRows ==
  ASSUME Typed, NEW p \in Processors, Insert(p), NEW d \in Events
  PROVE  /\ d # current[p] => RowsOf(d)' = RowsOf(d)
         /\ d = current[p] /\ RowsOf(d) = {} =>
               RowsOf(d)' = {[event |-> d, key |-> k, version |-> sold, by |-> held[p]] :
                                k \in Sold[sold][d]}
<1> DEFINE e == current[p]
           new == {[event |-> e, key |-> k, version |-> sold, by |-> held[p]] : k \in Sold[sold][e]}
           kept == {r \in rows : ~(r.event = e /\ r.key \in Sold[sold][e] \ NullKeys)}
<1>1. rows' = kept \union new
  BY DEF Insert
<1>2. \A r \in new : r.event = e
  OBVIOUS
<1>3. \A r \in kept : r \in rows
  OBVIOUS
<1>4. \A r \in rows : r.event # e => r \in kept
  OBVIOUS
<1>5. d = e => new = {[event |-> d, key |-> k, version |-> sold, by |-> held[p]] :
                         k \in Sold[sold][d]}
  OBVIOUS
<1> HIDE DEF new, kept
<1>6. d # e => RowsOf(d)' = RowsOf(d)
  BY <1>1, <1>2, <1>3, <1>4 DEF RowsOf
<1>7. d = e /\ RowsOf(d) = {} => RowsOf(d)' = new
  BY <1>1, <1>2, <1>3 DEF RowsOf
<1> QED
  BY <1>5, <1>6, <1>7

LEMMA InsertSnapshots ==
  ASSUME Typed, Snapshots, NEW p \in Processors, Insert(p)
  PROVE  Snapshots'
<1>0. PICK e \in Events : e = current[p]
  BY DEF Insert, Typed, AtHand
<1>1. /\ held[p] \in Jobs /\ sold \in Versions /\ e = current[p]
      /\ at' = [at EXCEPT ![p] = "daily"] /\ at[p] = "insert"
      /\ at \in [Processors -> Steps]
      /\ UNCHANGED <<current, overlapped>>
  BY <1>0, HeldJob DEF Insert, Goto, local, history, Typed, TypeOK
<1>2. ASSUME NEW d \in Events \ overlapped, d # e
      PROVE  RowsOf(d)' = RowsOf(d) /\ (Cleared(d)' => Cleared(d))
  BY <1>1, <1>2, InsertRows DEF Cleared
<1>3. ASSUME e \notin overlapped
      PROVE  /\ ~Cleared(e)'
             /\ RowsOf(e)' = {[event |-> e, key |-> k, version |-> sold, by |-> held[p]] :
                                 k \in Sold[sold][e]}
  <2>1. Cleared(e)
    BY <1>1 DEF Cleared
  <2>2. RowsOf(e) = {}
    BY <1>1, <1>3, <2>1 DEF Snapshots, Alone
  <2>3. ~Cleared(e)'
    BY <1>1, <1>3 DEF Snapshots, Alone, Cleared
  <2> QED
    BY <1>1, <2>2, <2>3, InsertRows
<1>4. ASSUME NEW d \in Events \ overlapped'
      PROVE  \/ RowsOf(d)' = {}
             \/ \E v \in Versions, j \in Jobs :
                   RowsOf(d)' = {[event |-> d, key |-> k, version |-> v, by |-> j] :
                                    k \in Sold[v][d]}
  <2>1. CASE d = e
    BY <1>1, <1>3, <2>1
  <2>2. CASE d # e
    BY <1>1, <1>2, <2>2 DEF Snapshots, OneSnapshotPerEvent
  <2> QED
    BY <2>1, <2>2
<1>5. OneSnapshotPerEvent'
  BY <1>4 DEF OneSnapshotPerEvent
<1>6. \A d \in Events \ overlapped' : Cleared(d)' => RowsOf(d)' = {}
  BY <1>1, <1>2, <1>3 DEF Snapshots, Alone
<1>7. \A d \in Events \ overlapped' : \A x, y \in Processors :
         at'[x] = "insert" /\ at'[y] = "insert" /\ current'[x] = d /\ current'[y] = d => x = y
  BY <1>1 DEF Snapshots, Alone
<1> QED
  BY <1>5, <1>6, <1>7 DEF Snapshots, Alone

LEMMA ProcessSnapshots ==
  ASSUME Typed, Snapshots, NEW p \in Processors, Process(p) \/ Fails(p)
  PROVE  Snapshots'
<1> USE DEF Goto, Typed, TypeOK
<1>1. CASE Take(p)
  <2>1. UNCHANGED <<rows, overlapped, current>> /\ at'[p] # "insert"
        /\ \A q \in Processors \ {p} : at'[q] = at[q]
    BY <1>1 DEF Take, tables, history
  <2> QED
    BY <2>1, SnapshotsKept
<1>2. CASE Start(p)
  <2>1. UNCHANGED <<overlapped, current>> /\ rows' \in {rows, {}} /\ at'[p] # "insert"
        /\ \A q \in Processors \ {p} : at'[q] = at[q]
    BY <1>2 DEF Start, Progress, tables, local, history
  <2> QED
    BY <2>1, SnapshotsKept, SnapshotsGone
<1>3. CASE Begin(p)
  <2>1. UNCHANGED <<rows, overlapped, current>> /\ at'[p] # "insert"
        /\ \A q \in Processors \ {p} : at'[q] = at[q]
    BY <1>3 DEF Begin, InLoop, tables, history
  <2> QED
    BY <2>1, SnapshotsKept
<1>4. CASE DeleteOld(p)
  BY <1>4, DeleteOldSnapshots
<1>5. CASE Insert(p)
  BY <1>5, InsertSnapshots
<1>6. CASE InsertDaily(p)
  <2>1. UNCHANGED <<rows, overlapped, current>> /\ at'[p] # "insert"
        /\ \A q \in Processors \ {p} : at'[q] = at[q]
    BY <1>6 DEF InsertDaily, history
  <2> QED
    BY <2>1, SnapshotsKept
<1>7. CASE Tally(p)
  <2>1. UNCHANGED <<rows, overlapped>> /\ at'[p] # "insert"
        /\ \A q \in Processors \ {p} : at'[q] = at[q] /\ current'[q] = current[q]
    BY <1>7 DEF Tally, Progress, InLoop, tables, history
  <2> QED
    BY <2>1, SnapshotsKept
<1>8. CASE Finish(p)
  <2>1. UNCHANGED <<rows, overlapped>> /\ at'[p] # "insert"
        /\ \A q \in Processors \ {p} : at'[q] = at[q] /\ current'[q] = current[q]
    BY <1>8 DEF Finish, Release, tables, local, history
  <2> QED
    BY <2>1, SnapshotsKept
<1>9. CASE CatchError(p)
  <2>1. UNCHANGED <<rows, overlapped, current>> /\ at'[p] # "insert"
        /\ \A q \in Processors \ {p} : at'[q] = at[q]
    BY <1>9 DEF CatchError, tables, local, history
  <2> QED
    BY <2>1, SnapshotsKept
<1>10. CASE OnFailed(p) \/ OnFailedThrows(p) \/ PodDies(p)
  <2>1. UNCHANGED <<rows, overlapped>> /\ at'[p] # "insert"
        /\ \A q \in Processors \ {p} : at'[q] = at[q] /\ current'[q] = current[q]
    BY <1>10 DEF OnFailed, OnFailedThrows, PodDies, Release, tables, history
  <2> QED
    BY <2>1, SnapshotsKept
<1>11. CASE Throw(p)
  <2>1. UNCHANGED <<rows, overlapped, current>> /\ at'[p] = Handler(at[p])
        /\ at[p] \in Steps \ {"idle", "failed"}
        /\ \A q \in Processors \ {p} : at'[q] = at[q]
    BY <1>11 DEF Throw, tables, history
  <2>2. at'[p] # "insert"
    BY <2>1, HandlerStep
  <2> QED
    BY <2>1, <2>2, SnapshotsKept
<1> QED
  BY <1>1, <1>2, <1>3, <1>4, <1>5, <1>6, <1>7, <1>8, <1>9, <1>10, <1>11 DEF Process, Fails

LEMMA NextSnapshots == Typed /\ Snapshots /\ [Next]_vars => Snapshots'
<1> SUFFICES ASSUME Typed, Snapshots, [Next]_vars
             PROVE  Snapshots'
  OBVIOUS
<1>1. CASE Around \/ Request \/ UNCHANGED vars
  <2>1. UNCHANGED <<rows, overlapped, at, current>>
    BY <1>1 DEF Around, SellOrCancel, CreateEvent, RemoveEvent, Request, ProcessEvents,
       Synchronize, SkipEvent, CreateLog, QueueAggregationJob, vars, tables, local, history
  <2> QED
    BY <2>1, SnapshotsKept
<1>2. CASE \E p \in Processors : Process(p) \/ Fails(p)
  BY <1>2, ProcessSnapshots
<1> QED
  BY <1>1, <1>2 DEF Next

(***************************************************************************)
(* The rows of an event are of one state of the sales and one job, or      *)
(* there are none, unless two processors have both deleted before either   *)
(* wrote: for any processors, groups with or without a location, and       *)
(* whatever fails or dies (aggregateEvent).                                *)
(***************************************************************************)
THEOREM EventsHaveOneSnapshot == Spec => []OneSnapshotPerEvent
<1>1. Typed /\ Snapshots /\ [Next]_vars => Snapshots'
  BY NextSnapshots
<1>2. Snapshots => OneSnapshotPerEvent
  BY DEF Snapshots
<1> QED
  BY <1>1, <1>2, SnapshotsInitially, TypedAlways, SpecSafe, PTL

LEMMA SnapshotsAlways == Spec => []Snapshots
  BY NextSnapshots, SnapshotsInitially, TypedAlways, SpecSafe, PTL

-----------------------------------------------------------------------------
(* The jobs in the queue and those held; rebuilds. *)

LEMMA KnownInitially == Init => Known
  BY Bounds DEF Init, Known, Waits, Runs, Jobs, Versions

\* The job that is asked for is new: nobody has it.
LEMMA CreateLogKnown ==
  ASSUME Typed, Known, NEW j \in Jobs, NEW type, NEW status, NEW ids,
         CreateLog(j, type, status, ids)
  PROVE  /\ Known'
         /\ ~Waits(j) /\ ~Runs(j)
         /\ job[j] = NoJob
         /\ \A i \in Jobs \ {j} : job'[i] = job[i] /\ since'[i] = since[i]
         /\ job'[j] = [status |-> status, processed |-> 0, type |-> type, ids |-> ids,
                       queued |-> FALSE]
         /\ since'[j] = sold
         /\ UNCHANGED <<world, tables, queue, at, local, bounds, overlapped, unmarked>>
<1>1. logged \in Nat /\ j = logged + 1 /\ logged' = j /\ Jobs \subseteq Nat /\ sold \in Nat
  BY Bounds DEF CreateLog, Typed, TypeOK, Jobs, Versions
<1>2. /\ \A i \in Jobs \ {j} : job'[i] = job[i] /\ since'[i] = since[i]
      /\ job'[j] = [status |-> status, processed |-> 0, type |-> type, ids |-> ids,
                    queued |-> FALSE]
      /\ since'[j] = sold
      /\ UNCHANGED <<world, tables, queue, at, local, bounds, overlapped, unmarked>>
      /\ UNCHANGED <<sold, held, queue>>
  BY DEF CreateLog, world, local, Typed, TypeOK
<1>3. ~Waits(j) /\ ~Runs(j) /\ job[j] = NoJob
  BY <1>1 DEF Known
<1>4. \A i \in Jobs : (Waits(i)' <=> Waits(i)) /\ (Runs(i)' <=> Runs(i))
  BY <1>2 DEF Waits, Runs
<1>5. Known'
  BY <1>1, <1>2, <1>3, <1>4 DEF Known
<1> QED
  BY <1>2, <1>3, <1>5

\* A step changes the status and the count of a job at most, and hands jobs
\* over between queue and processors.
HandsOver ==
    /\ \A j \in Jobs : /\ job'[j].type = job[j].type /\ job'[j].ids = job[j].ids
                       /\ job'[j].queued = job[j].queued
                       /\ job'[j] # job[j] => Runs(j)
                       /\ Waits(j)' \/ Runs(j)' => Waits(j) \/ Runs(j)
    /\ UNCHANGED <<logged, since>>
    /\ sold' >= sold

\* Only p moves.
Others(p) ==
    \A q \in Processors \ {p} : /\ at'[q] = at[q] /\ held'[q] = held[q]
                                /\ todo'[q] = todo[q] /\ current'[q] = current[q]

LEMMA HandsOverKnown ==
  ASSUME Typed, Typed', Known, HandsOver
  PROVE  Known'
<1>1. /\ sold \in Nat /\ sold' \in Nat /\ logged \in Nat /\ since \in [Jobs -> Nat]
      /\ Jobs \subseteq Nat
  <2>1. Jobs \subseteq Nat /\ Versions \subseteq Nat
    BY Bounds DEF Jobs, Versions
  <2>2. sold \in Versions /\ sold' \in Versions
    BY DEF Typed, TypeOK
  <2>3. logged \in 0..MaxJobs /\ since \in [Jobs -> 0..MaxVersion]
    BY DEF Typed, TypeOK
  <2> QED
    BY <2>1, <2>2, <2>3, Bounds
<1>2. ASSUME NEW j \in Jobs
      PROVE  (j > logged' => job'[j] = NoJob) /\ since'[j] <= sold'
  BY <1>1, <1>2 DEF HandsOver, Known
<1>3. ASSUME NEW j \in Jobs, Waits(j)' \/ Runs(j)'
      PROVE  j <= logged' /\ job'[j].queued
  BY <1>3 DEF HandsOver, Known
<1> QED
  BY <1>2, <1>3 DEF Known

\* The steps of a processor p on its job.
LEMMA TakeHandsOver ==
  ASSUME Typed, NEW p \in Processors, Take(p)
  PROVE  /\ HandsOver
         /\ UNCHANGED <<job, rows, daily, world>>
         /\ at'[p] \in {"start", "begin"}
         /\ at'[p] = "begin" => job[held'[p]].type # "synchronize"
         /\ held'[p] \in Jobs /\ Waits(held'[p]) /\ held[p] = 0
         /\ Others(p)
<1>1. queue \in Seq(Jobs) /\ queue # <<>>
  BY DEF Take, Typed, TypeOK
<1>2. Len(queue) \in Nat \ {0} /\ Head(queue) = queue[1] /\ queue[1] \in Jobs
      /\ Len(Tail(queue)) = Len(queue) - 1
      /\ \A k \in 1..Len(Tail(queue)) : Tail(queue)[k] = queue[k + 1]
  BY <1>1
<1>3. /\ held'[p] = queue[1] /\ Waits(queue[1]) /\ held[p] = 0 /\ queue' = Tail(queue)
      /\ Others(p)
      /\ at'[p] = (IF job[queue[1]].type = "synchronize" THEN "start" ELSE "begin")
  BY <1>2 DEF Take, Goto, Others, Busy, Waits, Typed, TypeOK
<1>4. \A j \in Jobs : Waits(j)' => Waits(j)
  BY <1>2, <1>3 DEF Waits
<1>5. \A j \in Jobs : Runs(j)' => Waits(j) \/ Runs(j)
  BY <1>3 DEF Others, Runs
<1>6. UNCHANGED <<job, logged, since, rows, daily, world>>
  BY DEF Take, request, tables, history
<1>7. sold' >= sold
  BY <1>6, Bounds DEF world, Typed, TypeOK, Versions
<1>8. HandsOver
  BY <1>4, <1>5, <1>6, <1>7 DEF HandsOver
<1>9. Waits(held'[p]) /\ held'[p] \in Jobs
  BY <1>2, <1>3 DEF Waits
<1>10. at'[p] \in {"start", "begin"} /\ (at'[p] = "begin" => job[held'[p]].type # "synchronize")
  BY <1>3
<1> QED
  BY <1>3, <1>6, <1>8, <1>9, <1>10

\* What all others do with the job they hold.
Works(p) ==
    /\ \A j \in Jobs \ {held[p]} : job'[j] = job[j]
    /\ LET j == held[p] IN
          /\ job'[j].type = job[j].type /\ job'[j].ids = job[j].ids
          /\ job'[j].queued = job[j].queued
    /\ Others(p)
    /\ UNCHANGED <<logged, since, world, queue>>

LEMMA WorksHandsOver ==
  ASSUME Typed, NEW p \in Processors, held[p] \in Jobs, Works(p), held'[p] \in {held[p], 0}
  PROVE  HandsOver
<1>1. sold' >= sold /\ 0 \notin Jobs
  BY Bounds DEF Works, world, Typed, TypeOK, Versions, Jobs
<1>2. \A j \in Jobs : (Waits(j)' <=> Waits(j)) /\ (Runs(j)' => Runs(j))
  BY <1>1 DEF Works, Others, Waits, Runs
<1>3. \A j \in Jobs : /\ job'[j].type = job[j].type /\ job'[j].ids = job[j].ids
                      /\ job'[j].queued = job[j].queued
                      /\ job'[j] # job[j] => Runs(j)
  BY DEF Works, Runs
<1> QED
  BY <1>1, <1>2, <1>3 DEF HandsOver, Works

LEMMA ProcessWorks ==
  ASSUME Typed, NEW p \in Processors,
         \/ Start(p) \/ Begin(p) \/ DeleteOld(p) \/ Insert(p) \/ InsertDaily(p)
         \/ Tally(p) \/ Finish(p) \/ CatchError(p) \/ OnFailed(p) \/ Throw(p) \/ OnFailedThrows(p)
  PROVE  Works(p) /\ held[p] \in Jobs /\ held'[p] \in {held[p], 0}
<1> USE DEF Works, Others, Goto, Typed, TypeOK
<1>1. at[p] # "idle"
  BY DEF Start, Begin, DeleteOld, Insert, InsertDaily, Tally, Finish, CatchError, OnFailed,
     Throw, OnFailedThrows
<1>2. held[p] \in Jobs
  BY <1>1, HeldJob
<1>3. CASE Start(p)
  BY <1>2, <1>3 DEF Start, Progress, SetLog, local, world, history, JobRow
<1>4. CASE Begin(p)
  BY <1>2, <1>4 DEF Begin, InLoop, SetLog, world, history, JobRow
<1>5. CASE DeleteOld(p) \/ Insert(p) \/ InsertDaily(p) \/ Throw(p)
  BY <1>2, <1>5 DEF DeleteOld, Insert, InsertDaily, Throw, world, local, request, history
<1>6. CASE Tally(p)
  BY <1>2, <1>6 DEF Tally, Progress, world, history, JobRow
<1>7. CASE Finish(p)
  BY <1>2, <1>7 DEF Finish, Release, world, local, history, JobRow
<1>8. CASE CatchError(p)
  BY <1>2, <1>8 DEF CatchError, SetLog, world, local, history, JobRow
<1>9. CASE OnFailed(p)
  BY <1>2, <1>9 DEF OnFailed, MarkFailed, Release, world, history, JobRow
<1>10. CASE OnFailedThrows(p)
  BY <1>2, <1>10 DEF OnFailedThrows, Release, world, request
<1> QED
  BY <1>2, <1>3, <1>4, <1>5, <1>6, <1>7, <1>8, <1>9, <1>10

\* The job of a pod that dies goes back to the front of the queue, or is failed.
LEMMA PodDiesHandsOver ==
  ASSUME Typed, NEW p \in Processors, PodDies(p)
  PROVE  /\ HandsOver
         /\ UNCHANGED <<rows, daily, world>>
         /\ held[p] \in Jobs /\ held'[p] = 0 /\ at'[p] = "idle"
         /\ job'[held[p]].status # job[held[p]].status => job'[held[p]].status = "failed"
         /\ \A j \in Jobs \ {held[p]} : job'[j] = job[j] /\ (Waits(j)' <=> Waits(j))
         /\ Others(p)
         /\ queue' \in {queue, <<held[p]>> \o queue}
<1> DEFINE i == held[p]
<1>1. i \in Jobs /\ 0 \notin Jobs
  BY Bounds DEF PodDies, Busy, Typed, TypeOK, Jobs
<1>2. /\ held'[p] = 0 /\ at'[p] = "idle"
      /\ Others(p)
      /\ UNCHANGED <<rows, daily, world, logged, since>>
      /\ queue' \in {queue, <<i>> \o queue}
  BY DEF PodDies, Release, Goto, Others, Typed, TypeOK, tables, history
<1>3. /\ \A j \in Jobs \ {i} : job'[j] = job[j]
      /\ job'[i].type = job[i].type /\ job'[i].ids = job[i].ids /\ job'[i].queued = job[i].queued
      /\ job'[i].status # job[i].status => job'[i].status = "failed"
  <2>1. job \in [Jobs -> JobRow]
    BY DEF Typed, TypeOK
  <2>2. CASE MarkFailed(i)
    BY <1>1, <2>1, <2>2 DEF MarkFailed, JobRow
  <2>3. CASE UNCHANGED job
    BY <2>3
  <2> QED
    BY <2>2, <2>3 DEF PodDies
<1>4. \A j \in Jobs \ {i} : Waits(j)' <=> Waits(j)
  <2>1. queue \in Seq(Jobs)
    BY DEF Typed, TypeOK
  <2>2. CASE queue' = <<i>> \o queue
    <3>1. Len(queue') = Len(queue) + 1 /\ queue'[1] = i
          /\ \A k \in 1..Len(queue) : queue'[k + 1] = queue[k]
      BY <1>1, <2>1, <2>2
    <3>2. Len(queue) \in Nat
      BY <2>1
    <3>3. \A k \in 1..Len(queue') : k = 1 \/ (k - 1 \in 1..Len(queue) /\ queue'[k] = queue[k - 1])
      BY <3>1, <3>2
    <3>4. ASSUME NEW j \in Jobs \ {i}, NEW k \in 1..Len(queue), queue[k] = j
          PROVE  k + 1 \in 1..Len(queue') /\ queue'[k + 1] = j
      BY <3>1, <3>2, <3>4
    <3>5. ASSUME NEW j \in Jobs \ {i}, NEW k \in 1..Len(queue'), queue'[k] = j
          PROVE  k - 1 \in 1..Len(queue) /\ queue[k - 1] = j
      BY <3>1, <3>3, <3>5
    <3>6. \A j \in Jobs \ {i} : Waits(j) => Waits(j)'
      BY <3>4 DEF Waits
    <3>7. \A j \in Jobs \ {i} : Waits(j)' => Waits(j)
      BY <3>5 DEF Waits
    <3> QED
      BY <3>6, <3>7
  <2>3. CASE queue' = queue
    BY <2>3 DEF Waits
  <2> QED
    BY <1>2, <2>2, <2>3
<1>5. \A j \in Jobs : Runs(j)' => Runs(j)
  BY <1>1, <1>2 DEF Others, Runs
<1>6. Runs(i)
  BY DEF Runs
<1>7. sold' >= sold
  BY <1>2, Bounds DEF world, Typed, TypeOK, Versions
<1> QED
  BY <1>1, <1>2, <1>3, <1>4, <1>5, <1>6, <1>7 DEF HandsOver

\* A job is put into the queue when it was not in it before.
LEMMA QueueHandsOn ==
  ASSUME Typed, Known, NEW j \in Jobs, QueueAggregationJob(j)
  PROVE  /\ ~Waits(j) /\ ~Runs(j)
         /\ \A i \in Jobs \ {j} : job'[i] = job[i] /\ (Waits(i)' => Waits(i))
         /\ job'[j] = [job[j] EXCEPT !.queued = TRUE] /\ job[j].status = "pending"
         /\ queue' = Append(queue, j)
         /\ UNCHANGED <<world, tables, logged, at, local, bounds, history>>
<1>1. ~Waits(j) /\ ~Runs(j)
  BY DEF QueueAggregationJob, Known
<1>2. queue \in Seq(Jobs) /\ queue' = Append(queue, j)
  BY DEF QueueAggregationJob, Typed, TypeOK
<1>3. Len(queue) \in Nat /\ Len(queue') = Len(queue) + 1 /\ queue'[Len(queue) + 1] = j
      /\ \A k \in 1..Len(queue) : queue'[k] = queue[k]
  BY <1>2
<1>4. ASSUME NEW i \in Jobs \ {j}, NEW k \in 1..Len(queue'), queue'[k] = i
      PROVE  k \in 1..Len(queue) /\ queue[k] = i
  BY <1>3, <1>4
<1>5. \A i \in Jobs \ {j} : Waits(i)' => Waits(i)
  BY <1>4 DEF Waits
<1>6. \A i \in Jobs \ {j} : job'[i] = job[i]
  BY DEF QueueAggregationJob, Typed, TypeOK
<1>7. job'[j] = [job[j] EXCEPT !.queued = TRUE] /\ job[j].status = "pending"
  BY DEF QueueAggregationJob, Typed, TypeOK
<1> QED
  BY <1>1, <1>2, <1>5, <1>6, <1>7 DEF QueueAggregationJob

LEMMA QueueKnown ==
  ASSUME Typed, Known, NEW j \in Jobs, QueueAggregationJob(j)
  PROVE  Known'
<1>1. job[j] # NoJob /\ j \in Nat /\ logged \in Nat
  BY Bounds DEF QueueAggregationJob, NoJob, Typed, TypeOK, Jobs
<1>2. j <= logged
  BY <1>1 DEF Known
<1>3. UNCHANGED <<logged, held, since, sold>> /\ job'[j].queued
  BY DEF QueueAggregationJob, local, history, world, Typed, TypeOK, JobRow
<1>4. \A i \in Jobs : Runs(i)' <=> Runs(i)
  BY <1>3 DEF Runs
<1> QED
  BY <1>1, <1>2, <1>3, <1>4, QueueHandsOn DEF Known

\* Every step that is not a request hands jobs over.
LEMMA ProcessHandsOver ==
  ASSUME Typed, NEW p \in Processors, Process(p) \/ Fails(p)
  PROVE  HandsOver
<1>1. CASE Take(p)
  BY <1>1, TakeHandsOver
<1>2. CASE PodDies(p)
  BY <1>2, PodDiesHandsOver
<1>3. CASE ~Take(p) /\ ~PodDies(p)
  BY <1>3, ProcessWorks, WorksHandsOver DEF Process, Fails
<1> QED
  BY <1>1, <1>2, <1>3

LEMMA AroundHandsOver == Typed /\ (Around \/ UNCHANGED vars) => HandsOver
<1> SUFFICES ASSUME Typed, Around \/ UNCHANGED vars
             PROVE  HandsOver
  OBVIOUS
<1>1. sold \in Nat /\ sold' \in {sold, sold + 1}
      /\ UNCHANGED <<job, logged, queue, held, since>>
  BY Bounds DEF Around, SellOrCancel, CreateEvent, RemoveEvent, vars, world, request, local,
     history, Typed, TypeOK, Versions
<1>2. \A j \in Jobs : (Waits(j)' <=> Waits(j)) /\ (Runs(j)' <=> Runs(j))
  BY <1>1 DEF Waits, Runs
<1>3. sold' >= sold
  BY <1>1
<1> QED
  BY <1>1, <1>2, <1>3 DEF HandsOver

LEMMA NextKnown == Typed /\ Known /\ [Next]_vars => Known'
<1> SUFFICES ASSUME Typed, Known, [Next]_vars
             PROVE  Known'
  OBVIOUS
<1>1. Typed'
  BY NextTyped
<1>2. CASE Around \/ UNCHANGED vars
  BY <1>1, <1>2, AroundHandsOver, HandsOverKnown
<1>3. CASE Request
  BY <1>3, CreateLogKnown, QueueKnown DEF Request, ProcessEvents, Synchronize, SkipEvent
<1>4. CASE \E p \in Processors : Process(p) \/ Fails(p)
  BY <1>1, <1>4, ProcessHandsOver, HandsOverKnown
<1> QED
  BY <1>2, <1>3, <1>4 DEF Next

LEMMA KnownAlways == Spec => []Known
  BY KnownInitially, NextKnown, TypedAlways, SpecSafe, PTL

-----------------------------------------------------------------------------
(* Rebuilds. *)

LEMMA RebuildsInitially == Init => Rebuilds
  BY DEF Init, Rebuilds, Rebuilt, NoJob

\* A step that neither starts a job nor completes one, and writes only what
\* is of today.
LEMMA RebuildsKept ==
  ASSUME Typed, Known, Rebuilds, HandsOver,
         \A j \in Jobs : job[j].type = "synchronize" /\ Rebuilt(j)' => Rebuilt(j),
         \A r \in (rows \union daily)' : r \in rows \union daily \/ r.version = sold
  PROVE  Rebuilds'
<1> SUFFICES ASSUME NEW j \in Jobs, job'[j].type = "synchronize", Rebuilt(j)',
                    NEW r \in rows' \union daily'
             PROVE  r.version >= since'[j]
  BY DEF Rebuilds, NothingOld
<1>1. job[j].type = "synchronize" /\ since'[j] = since[j] /\ Rebuilt(j)
  BY DEF HandsOver
<1>2. since[j] <= sold /\ since[j] \in Nat /\ sold \in Nat
  BY Bounds DEF Known, Typed, TypeOK, Versions
<1> QED
  BY <1>1, <1>2 DEF Rebuilds, NothingOld

LEMMA ProcessRebuilds ==
  ASSUME Typed, Known, Rebuilds, NEW p \in Processors, Process(p) \/ Fails(p)
  PROVE  Rebuilds'
<1>1. HandsOver
  BY ProcessHandsOver
<1>2. held[p] # 0 => Runs(held[p])
  BY DEF Runs
<1>3. CASE Take(p)
  <2>1. \A j \in Jobs : job[j].type = "synchronize" /\ Rebuilt(j)' => Rebuilt(j)
    BY <1>3, TakeHandsOver DEF Others, Rebuilt, LoopSteps
  <2>2. UNCHANGED <<rows, daily>>
    BY <1>3, TakeHandsOver
  <2> QED
    BY <1>1, <2>1, <2>2, RebuildsKept
<1>4. CASE PodDies(p)
  <2>1. ASSUME NEW j \in Jobs, Rebuilt(j)'
        PROVE  Rebuilt(j)
    <3>1. job'[j].status = "completed" => job[j].status = "completed"
      BY <1>4, PodDiesHandsOver
    <3>2. \A q \in Processors : at'[q] \in LoopSteps \union {"begin", "catch"}
                                => at[q] = at'[q] /\ held[q] = held'[q]
      BY <1>4, PodDiesHandsOver DEF Others, LoopSteps
    <3> QED
      BY <2>1, <3>1, <3>2 DEF Rebuilt
  <2>2. UNCHANGED <<rows, daily>>
    BY <1>4, PodDiesHandsOver
  <2> QED
    BY <1>1, <2>1, <2>2, RebuildsKept
<1>5. CASE ~Take(p) /\ ~PodDies(p)
  <2>0. PICK i \in Jobs : i = held[p]
    BY <1>5, ProcessWorks DEF Process, Fails
  <2>1. Works(p) /\ held[p] = i /\ held'[p] \in {i, 0} /\ 0 \notin Jobs
    BY <1>5, <2>0, ProcessWorks, Bounds DEF Process, Fails, Jobs
  <2>2. ASSUME NEW j \in Jobs, j # i
        PROVE  Rebuilt(j)' => Rebuilt(j)
    BY <2>1, <2>2 DEF Works, Others, Rebuilt
  <2>3. CASE Start(p)
    <3>1. \A j \in Jobs : job'[j].type = job[j].type
      BY <1>1 DEF HandsOver
    <3>2. (rows' = {} /\ daily' = {}) \/ at'[p] = "failed"
      BY <2>3 DEF Start, Progress, Goto, Typed, TypeOK
    <3>3. CASE rows' = {} /\ daily' = {}
      BY <3>3 DEF Rebuilds, NothingOld
    <3>4. CASE at'[p] = "failed" /\ ~(rows' = {} /\ daily' = {})
      <4>1. UNCHANGED <<rows, daily>>
        BY <2>3, <3>4 DEF Start, tables
      <4>2. job'[i].status = "running"
        BY <2>1, <2>3 DEF Start, SetLog, Typed, TypeOK, JobRow
      <4>3. Rebuilt(i)' => Rebuilt(i)
        BY <2>1, <3>4, <4>2 DEF Works, Others, Rebuilt, LoopSteps
      <4> QED
        BY <1>1, <2>2, <4>1, <4>3, RebuildsKept
    <3> QED
      BY <3>2, <3>3, <3>4
  <2>4. CASE ~Start(p)
    <3>1. ASSUME at[p] \in LoopSteps \union {"begin", "catch"}
          PROVE  Rebuilt(i)' => Rebuilt(i)
      BY <2>1, <3>1 DEF Rebuilt
    <3>2. ASSUME at[p] \in {"idle", "start", "failed"}
          PROVE  Rebuilt(i)' => Rebuilt(i)
      <4>1. OnFailed(p) \/ OnFailedThrows(p) \/ Throw(p)
        BY <1>5, <2>4, <3>2 DEF Process, Fails, Begin, DeleteOld, Insert, InsertDaily, Tally,
           Finish, CatchError
      <4>2. at'[p] \in {"idle", "failed"}
        BY <3>2, <4>1 DEF OnFailed, OnFailedThrows, Throw, Handler, Release, Goto, Typed, TypeOK
      <4>3. job'[i].status = "completed" => job[i].status = "completed"
        BY <2>1, <4>1 DEF OnFailed, OnFailedThrows, Throw, MarkFailed, request, Typed, TypeOK,
           JobRow
      <4> QED
        BY <2>1, <4>2, <4>3 DEF Works, Others, Rebuilt, LoopSteps
    <3>4. Rebuilt(i)' => Rebuilt(i)
      BY <3>1, <3>2 DEF Typed, TypeOK, Steps, LoopSteps
    <3>3. \A r \in (rows \union daily)' : r \in rows \union daily \/ r.version = sold
      <4>1. CASE DeleteOld(p) \/ Insert(p)
        BY <4>1 DEF DeleteOld, Insert
      <4>2. CASE InsertDaily(p)
        BY <4>2 DEF InsertDaily
      <4>3. CASE ~DeleteOld(p) /\ ~Insert(p) /\ ~InsertDaily(p)
        <5>1. UNCHANGED tables
          BY <1>5, <2>4, <4>3 DEF Process, Fails, Begin, Tally, Finish, CatchError, OnFailed,
             Throw, OnFailedThrows
        <5> QED
          BY <5>1 DEF tables
      <4> QED
        BY <4>1, <4>2, <4>3
    <3> QED
      BY <1>1, <2>2, <3>3, <3>4, RebuildsKept
  <2> QED
    BY <2>3, <2>4
<1> QED
  BY <1>3, <1>4, <1>5

LEMMA CreateLogRebuilds ==
  ASSUME Typed, Known, Rebuilds, NEW j \in Jobs, NEW type, NEW status \in {"pending", "skipped"},
         NEW ids, CreateLog(j, type, status, ids)
  PROVE  Rebuilds'
<1>0. /\ \A i \in Jobs \ {j} : job'[i] = job[i] /\ since'[i] = since[i]
      /\ job'[j] = [status |-> status, processed |-> 0, type |-> type, ids |-> ids,
                    queued |-> FALSE]
      /\ ~Runs(j) /\ UNCHANGED <<tables, at, local>>
  BY CreateLogKnown
<1>1. /\ \A i \in Jobs \ {j} : job'[i] = job[i] /\ since'[i] = since[i]
      /\ job'[j].status # "completed" /\ ~Runs(j)
      /\ UNCHANGED <<rows, daily, at, held>>
  BY <1>0 DEF tables, local
<1>2. ~Rebuilt(j)'
  BY <1>1 DEF Rebuilt, Runs
<1>3. \A i \in Jobs \ {j} : Rebuilt(i)' => Rebuilt(i)
  BY <1>1 DEF Rebuilt
<1> QED
  BY <1>1, <1>2, <1>3 DEF Rebuilds, NothingOld

LEMMA QueueRebuilds ==
  ASSUME Typed, Known, Rebuilds, NEW j \in Jobs, QueueAggregationJob(j)
  PROVE  Rebuilds'
<1>1. \A i \in Jobs : job'[i].type = job[i].type /\ job'[i].status = job[i].status
  BY DEF QueueAggregationJob, Typed, TypeOK, JobRow
<1>2. UNCHANGED <<rows, daily, at, held, since>>
  BY DEF QueueAggregationJob, tables, local, history
<1>3. \A i \in Jobs : Rebuilt(i)' <=> Rebuilt(i)
  BY <1>1, <1>2 DEF Rebuilt
<1> QED
  BY <1>1, <1>2, <1>3 DEF Rebuilds, NothingOld

LEMMA NextRebuilds == Typed /\ Known /\ Rebuilds /\ [Next]_vars => Rebuilds'
<1> SUFFICES ASSUME Typed, Known, Rebuilds, [Next]_vars
             PROVE  Rebuilds'
  OBVIOUS
<1>1. CASE Around \/ UNCHANGED vars
  <2>1. UNCHANGED <<job, rows, daily, at, held>>
    BY <1>1 DEF Around, SellOrCancel, CreateEvent, RemoveEvent, vars, request, tables, local
  <2>2. \A j \in Jobs : Rebuilt(j)' => Rebuilt(j)
    BY <2>1 DEF Rebuilt
  <2> QED
    BY <1>1, <2>1, <2>2, AroundHandsOver, RebuildsKept
<1>2. CASE Request
  BY <1>2, CreateLogRebuilds, QueueRebuilds DEF Request, ProcessEvents, Synchronize, SkipEvent
<1>3. CASE \E p \in Processors : Process(p) \/ Fails(p)
  BY <1>3, ProcessRebuilds
<1> QED
  BY <1>1, <1>2, <1>3 DEF Next

(***************************************************************************)
(* A completed rebuild has left nothing computed before it was asked for   *)
(* in either table, for any jobs beside it and whatever fails or dies      *)
(* (executeSynchronize).                                                   *)
(***************************************************************************)
THEOREM RebuildsLeaveNothingOld == Spec => []RebuildLeavesNothingOld
<1>1. Rebuilds => RebuildLeavesNothingOld
  BY DEF Rebuilds, Rebuilt, NothingOld, RebuildLeavesNothingOld
<1> QED
  BY <1>1, RebuildsInitially, NextRebuilds, TypedAlways, KnownAlways, SpecSafe, PTL

-----------------------------------------------------------------------------
(* A job is in one place, and what a processor has in hand is of its job. *)

LEMMA ApartInitially == Init => Apart
  BY Bounds DEF Init, Apart, Waits, Runs, Jobs

LEMMA TakeApart == ASSUME Typed, Apart, NEW p \in Processors, Take(p) PROVE Apart'
<1>1. queue \in Seq(Jobs) /\ queue # <<>> /\ queue' = Tail(queue) /\ held'[p] = Head(queue)
      /\ 0 \notin Jobs
  BY Bounds DEF Take, Typed, TypeOK, Jobs
<1>2. /\ Len(queue) \in Nat \ {0} /\ held'[p] = queue[1] /\ queue[1] \in Jobs
      /\ Len(queue') = Len(queue) - 1
      /\ \A k \in 1..Len(queue') : queue'[k] = queue[k + 1] /\ k + 1 \in 1..Len(queue) /\ k + 1 # 1
  BY <1>1
<1>3. Others(p) /\ held[p] = 0
  BY TakeHandsOver
<1>4. ASSUME NEW k \in 1..Len(queue'), NEW l \in 1..Len(queue'), queue'[k] = queue'[l]
      PROVE  k = l
  <2>1. k + 1 \in 1..Len(queue) /\ l + 1 \in 1..Len(queue) /\ queue[k + 1] = queue[l + 1]
    BY <1>2, <1>4
  <2>2. k + 1 = l + 1
    BY <2>1 DEF Apart
  <2> QED
    BY <2>2
<1>5. 1 \in 1..Len(queue)
  BY <1>2
<1>6. \A k \in 1..Len(queue') : queue'[k] # queue[1]
  BY <1>2, <1>5 DEF Apart
<1>7. Waits(queue[1]) /\ ~Runs(queue[1])
  BY <1>2, <1>5 DEF Waits, Apart
<1>8. \A j \in Jobs : ~(Waits(j)' /\ Runs(j)')
  <2>1. \A j \in Jobs : Waits(j)' => Waits(j) /\ j # queue[1]
    BY <1>2, <1>6 DEF Waits
  <2>2. \A j \in Jobs : Runs(j)' => Runs(j) \/ j = queue[1]
    BY <1>2, <1>3 DEF Runs, Others
  <2> QED
    BY <2>1, <2>2 DEF Apart
<1>9. \A q \in Processors \ {p} : held'[q] = held[q] /\ held[q] # queue[1]
  BY <1>3, <1>7 DEF Others, Runs
<1>10. \A x, y \in Processors : held'[x] # 0 /\ held'[x] = held'[y] => x = y
  BY <1>2, <1>9 DEF Apart
<1> QED
  BY <1>4, <1>8, <1>10 DEF Apart

\* Nobody takes a job, and the queue is left alone.
LEMMA ApartKept ==
  ASSUME Apart, UNCHANGED queue, \A q \in Processors : held'[q] \in {held[q], 0}, 0 \notin Jobs
  PROVE  Apart'
<1>1. \A j \in Jobs : (Waits(j)' <=> Waits(j)) /\ (Runs(j)' => Runs(j))
  BY DEF Waits, Runs
<1> QED
  BY <1>1 DEF Apart

LEMMA PodDiesApart ==
  ASSUME Typed, Apart, NEW p \in Processors, PodDies(p)
  PROVE  Apart'
<1>1. PICK i \in Jobs : i = held[p]
  BY PodDiesHandsOver
<1>2. /\ Others(p) /\ held'[p] = 0 /\ queue' \in {queue, <<i>> \o queue}
      /\ \A j \in Jobs \ {i} : Waits(j)' <=> Waits(j)
      /\ 0 \notin Jobs /\ queue \in Seq(Jobs)
  <2>1. 0 \notin Jobs /\ queue \in Seq(Jobs)
    BY Bounds DEF Typed, TypeOK, Jobs
  <2>2. /\ Others(p) /\ held'[p] = 0 /\ queue' \in {queue, <<held[p]>> \o queue}
        /\ \A j \in Jobs \ {held[p]} : Waits(j)' <=> Waits(j)
    BY PodDiesHandsOver
  <2> QED
    BY <1>1, <2>1, <2>2
<1>3. Runs(i) /\ ~Waits(i)
  BY <1>1 DEF Runs, Apart
<1>4. \A q \in Processors : held'[q] \in {held[q], 0} /\ held'[q] # i
  BY <1>1, <1>2 DEF Others, Apart
<1>5. CASE queue' = queue
  BY <1>2, <1>4, <1>5, ApartKept
<1>6. CASE queue' = <<i>> \o queue
  <2>1. Len(queue) \in Nat /\ Len(queue') = Len(queue) + 1 /\ queue'[1] = i
        /\ \A k \in 1..Len(queue') : k = 1 \/ (k - 1 \in 1..Len(queue) /\ queue'[k] = queue[k - 1])
    BY <1>2, <1>6
  <2>2. \A k \in 1..Len(queue) : queue[k] # i
    BY <1>3 DEF Waits
  <2>3. ASSUME NEW k \in 1..Len(queue'), NEW l \in 1..Len(queue'), queue'[k] = queue'[l]
        PROVE  k = l
    <3>1. CASE k = 1 \/ l = 1
      BY <2>1, <2>2, <2>3, <3>1
    <3>2. CASE k # 1 /\ l # 1
      <4>1. k - 1 \in 1..Len(queue) /\ l - 1 \in 1..Len(queue) /\ queue[k - 1] = queue[l - 1]
        BY <2>1, <2>3, <3>2
      <4>2. k - 1 = l - 1
        BY <4>1 DEF Apart
      <4> QED
        BY <4>2
    <3> QED
      BY <3>1, <3>2
  <2>4. \A j \in Jobs : Runs(j)' => Runs(j) /\ j # i
    BY <1>2, <1>4 DEF Runs
  <2>5. \A j \in Jobs : ~(Waits(j)' /\ Runs(j)')
    BY <1>2, <2>4 DEF Apart
  <2>6. \A x, y \in Processors : held'[x] # 0 /\ held'[x] = held'[y] => x = y
    BY <1>4 DEF Apart
  <2> QED
    BY <2>3, <2>5, <2>6 DEF Apart
<1> QED
  BY <1>2, <1>5, <1>6

LEMMA QueueApart ==
  ASSUME Typed, Known, Apart, NEW j \in Jobs, QueueAggregationJob(j)
  PROVE  Apart'
<1>1. /\ ~Waits(j) /\ ~Runs(j) /\ queue' = Append(queue, j) /\ UNCHANGED held
      /\ \A i \in Jobs \ {j} : Waits(i)' => Waits(i)
      /\ queue \in Seq(Jobs)
  BY QueueHandsOn DEF local, Typed, TypeOK
<1>2. /\ Len(queue) \in Nat /\ Len(queue') = Len(queue) + 1 /\ queue'[Len(queue) + 1] = j
      /\ \A k \in 1..Len(queue) : queue'[k] = queue[k]
  BY <1>1
<1>3. \A k \in 1..Len(queue) : queue[k] # j
  BY <1>1 DEF Waits
<1>4. \A k, l \in 1..Len(queue') : queue'[k] = queue'[l] => k = l
  <2>1. \A k \in 1..Len(queue') : k \in 1..Len(queue) \/ k = Len(queue) + 1
    BY <1>2
  <2> QED
    BY <1>2, <1>3, <2>1 DEF Apart
<1>5. \A i \in Jobs : Runs(i)' <=> Runs(i)
  BY <1>1 DEF Runs
<1>6. \A i \in Jobs : ~(Waits(i)' /\ Runs(i)')
  BY <1>1, <1>5 DEF Apart
<1> QED
  BY <1>1, <1>4, <1>6 DEF Apart

LEMMA NextApart == Typed /\ Known /\ Apart /\ [Next]_vars => Apart'
<1> SUFFICES ASSUME Typed, Known, Apart, [Next]_vars
             PROVE  Apart'
  OBVIOUS
<1>0. 0 \notin Jobs
  BY Bounds DEF Jobs
<1>1. CASE UNCHANGED <<queue, held>>
  BY <1>0, <1>1, ApartKept
<1>2. CASE Around \/ UNCHANGED vars
  BY <1>1, <1>2 DEF Around, SellOrCancel, CreateEvent, RemoveEvent, vars, local
<1>3. CASE Request
  <2>1. PICK j \in Jobs :
           ProcessEvents(j) \/ Synchronize(j) \/ SkipEvent(j) \/ QueueAggregationJob(j)
    BY <1>3 DEF Request
  <2>2. CASE QueueAggregationJob(j)
    BY <2>2, QueueApart
  <2>3. CASE ProcessEvents(j) \/ Synchronize(j) \/ SkipEvent(j)
    BY <1>1, <2>3 DEF ProcessEvents, Synchronize, SkipEvent, CreateLog, local
  <2> QED
    BY <2>1, <2>2, <2>3
<1>4. ASSUME NEW p \in Processors, Process(p) \/ Fails(p)
      PROVE  Apart'
  <2>1. CASE Take(p)
    BY <2>1, TakeApart
  <2>2. CASE PodDies(p)
    BY <2>2, PodDiesApart
  <2>3. CASE ~Take(p) /\ ~PodDies(p)
    <3>1. Works(p) /\ held'[p] \in {held[p], 0}
      BY <1>4, <2>3, ProcessWorks DEF Process, Fails
    <3>2. UNCHANGED queue /\ \A q \in Processors : held'[q] \in {held[q], 0}
      BY <3>1 DEF Works, Others
    <3> QED
      BY <1>0, <3>2, ApartKept
  <2> QED
    BY <2>1, <2>2, <2>3
<1> QED
  BY <1>2, <1>3, <1>4 DEF Next

LEMMA ApartAlways == Spec => []Apart
  BY ApartInitially, NextApart, TypedAlways, KnownAlways, SpecSafe, PTL

LEMMA WorkInitially == Init => Work
  BY DEF Init, Work, LoopSteps, NoJob

\* Whoever does not move keeps working for its job.
LEMMA WorkKept ==
  ASSUME Typed, Typed', Work, NEW p \in Processors, Others(p), UNCHANGED life,
         \A j \in Jobs : job'[j].type = job[j].type /\ job'[j].ids = job[j].ids,
         NEW i, held'[p] = i,
         /\ at'[p] \in LoopSteps => \A e \in todo'[p] : Concerns(i, e)
         /\ at'[p] = "insert" => Concerns(i, current'[p])
         /\ at'[p] = "finish" => todo'[p] = {}
         /\ at'[p] = "start" => job[i].type = "synchronize"
  PROVE  Work'
<1>1. \A j \in Jobs : \A e : Concerns(j, e)' <=> Concerns(j, e)
  BY DEF Concerns
<1>2. \A j \in Jobs : \A e \in job'[j].ids : life'[e] # "new"
  BY DEF Work
<1>3. ASSUME NEW q \in Processors
      PROVE  /\ at'[q] \in LoopSteps => \A e \in todo'[q] : Concerns(held[q], e)'
             /\ at'[q] = "insert" => Concerns(held[q], current[q])'
             /\ at'[q] = "finish" => todo'[q] = {}
             /\ at'[q] = "start" => job'[held'[q]].type = "synchronize"
  <2>1. at'[q] # "idle" => held'[q] \in Jobs
    BY Bounds DEF Typed, TypeOK, Jobs
  <2>2. CASE q = p
    BY <1>1, <2>1, <2>2 DEF LoopSteps
  <2>3. CASE q # p
    <3>1. at'[q] = at[q] /\ held'[q] = held[q] /\ todo'[q] = todo[q] /\ current'[q] = current[q]
      BY <2>3 DEF Others
    <3>2. PICK k : k = held[q]
      OBVIOUS
    <3> QED
      BY <1>1, <2>1, <3>1, <3>2 DEF Work, LoopSteps
  <2> QED
    BY <2>2, <2>3
<1> QED
  BY <1>2, <1>3 DEF Work

\* Where an error takes a processor.
LEMMA ThrowGoes ==
  ASSUME Typed, NEW p \in Processors, Throw(p)
  PROVE  /\ at'[p] \in {"failed", "catch", "tally"}
         /\ at'[p] = "tally" => at[p] \in {"delete", "insert", "daily"}
         /\ held'[p] = held[p] /\ todo'[p] \subseteq todo[p]
<1>1. at'[p] = Handler(at[p]) /\ at[p] \in Steps \ {"idle", "failed"} /\ UNCHANGED held
      /\ todo'[p] \subseteq todo[p]
  BY DEF Throw, Goto, Typed, TypeOK
<1> QED
  BY <1>1, HandlerStep

LEMMA ProcessWork ==
  ASSUME Typed, Work, NEW p \in Processors, Process(p) \/ Fails(p)
  PROVE  Work'
<1>1. Typed' /\ \A j \in Jobs : job'[j].type = job[j].type /\ job'[j].ids = job[j].ids
  BY ProcessTyped, ProcessHandsOver DEF HandsOver
<1>2. CASE Take(p)
  <2>1. Others(p) /\ UNCHANGED life /\ at'[p] \in {"start", "begin"}
    BY <1>2, TakeHandsOver DEF world
  <2>2. at'[p] = "start" => job[held'[p]].type = "synchronize"
    BY <1>2 DEF Take, Goto, Typed, TypeOK
  <2> QED
    BY <1>1, <2>1, <2>2, WorkKept DEF LoopSteps
<1>3. CASE PodDies(p)
  <2>1. Others(p) /\ UNCHANGED life /\ at'[p] = "idle"
    BY <1>3, PodDiesHandsOver DEF world
  <2> QED
    BY <1>1, <2>1, WorkKept DEF LoopSteps
<1>4. CASE ~Take(p) /\ ~PodDies(p)
  <2>1. /\ Works(p) /\ Others(p) /\ UNCHANGED life /\ held[p] \in Jobs
        /\ held'[p] \in {held[p], 0}
    BY <1>4, ProcessWorks DEF Process, Fails, Works, world
  <2> USE DEF Goto, Typed, TypeOK
  <2>2. CASE at'[p] \notin LoopSteps \union {"start"}
    BY <1>1, <2>1, <2>2, WorkKept DEF LoopSteps
  <2>3. CASE at'[p] \in LoopSteps \union {"start"}
    <3>1. \/ Begin(p) \/ DeleteOld(p) \/ Insert(p) \/ InsertDaily(p) \/ Tally(p) \/ Throw(p)
      BY <1>4, <2>3 DEF Process, Fails, Start, Progress, Finish, CatchError, OnFailed,
         OnFailedThrows, Release, LoopSteps
    <3>2. held'[p] = held[p] /\ at'[p] # "start"
      <4>1. CASE Throw(p)
        BY <4>1, ThrowGoes
      <4>2. CASE Tally(p)
        BY <4>2 DEF Tally, Progress, InLoop
      <4>3. CASE Begin(p) \/ DeleteOld(p) \/ Insert(p) \/ InsertDaily(p)
        BY <4>3 DEF Begin, DeleteOld, Insert, InsertDaily, InLoop, local
      <4> QED
        BY <3>1, <4>1, <4>2, <4>3
    <3>3. ASSUME NEW e \in todo'[p] PROVE Concerns(held[p], e)
      <4>1. CASE Begin(p)
        BY <3>3, <4>1 DEF Begin, Concerns
      <4>2. CASE Throw(p)
        <5>1. at[p] \in LoopSteps
          BY <2>3, <4>2, ThrowGoes DEF LoopSteps
        <5>2. e \in todo[p]
          BY <3>3, <4>2, ThrowGoes
        <5> QED
          BY <5>1, <5>2 DEF Work
      <4>3. CASE DeleteOld(p) \/ Insert(p) \/ InsertDaily(p) \/ Tally(p)
        <5>1. at[p] \in LoopSteps /\ e \in todo[p]
          BY <3>3, <4>3 DEF DeleteOld, Insert, InsertDaily, Tally, LoopSteps, local
        <5> QED
          BY <5>1 DEF Work
      <4> QED
        BY <3>1, <4>1, <4>2, <4>3
    <3>4. at'[p] = "insert" => Concerns(held[p], current'[p])
      <4>1. CASE DeleteOld(p)
        <5>1. at[p] \in LoopSteps /\ current'[p] \in todo[p]
          BY <4>1 DEF DeleteOld, LoopSteps
        <5> QED
          BY <5>1 DEF Work
      <4>2. CASE ~DeleteOld(p)
        <5>1. at'[p] # "insert"
          <6>1. CASE Throw(p)
            BY <6>1, ThrowGoes
          <6>2. CASE Tally(p)
            BY <6>2 DEF Tally, Progress, InLoop
          <6>3. CASE Begin(p) \/ Insert(p) \/ InsertDaily(p)
            BY <6>3 DEF Begin, Insert, InsertDaily, InLoop, local
          <6> QED
            BY <3>1, <4>2, <6>1, <6>2, <6>3
        <5> QED
          BY <5>1
      <4> QED
        BY <4>1, <4>2
    <3>5. at'[p] = "finish" => todo'[p] = {}
      <4>1. CASE Throw(p)
        BY <4>1, ThrowGoes
      <4>2. CASE Tally(p)
        BY <4>2 DEF Tally, Progress, InLoop
      <4>3. CASE Begin(p)
        BY <4>3 DEF Begin, InLoop
      <4>4. CASE DeleteOld(p) \/ Insert(p) \/ InsertDaily(p)
        BY <4>4 DEF DeleteOld, Insert, InsertDaily, local
      <4> QED
        BY <3>1, <4>1, <4>2, <4>3, <4>4
    <3> HIDE DEF Goto, Typed, TypeOK
    <3> QED
      BY <1>1, <2>1, <3>2, <3>3, <3>4, <3>5, WorkKept
  <2> QED
    BY <2>2, <2>3
<1> QED
  BY <1>2, <1>3, <1>4

LEMMA CreateLogWork ==
  ASSUME Typed, Known, Work, NEW j \in Jobs, NEW type, NEW status,
         NEW ids \in SUBSET {e \in Events : life[e] # "new"}, CreateLog(j, type, status, ids)
  PROVE  Work'
<1>0. /\ ~Runs(j) /\ \A i \in Jobs \ {j} : job'[i] = job[i]
      /\ job'[j] = [status |-> status, processed |-> 0, type |-> type, ids |-> ids,
                    queued |-> FALSE]
      /\ UNCHANGED <<world, at, local>>
  BY CreateLogKnown
<1>1. /\ ~Runs(j) /\ \A i \in Jobs \ {j} : job'[i] = job[i]
      /\ job'[j].ids = ids
      /\ UNCHANGED <<life, at, held, todo, current>>
  BY <1>0 DEF world, local
<1>2. \A i \in Jobs : \A e \in job'[i].ids : life'[e] # "new"
  BY <1>1 DEF Work
<1>3. ASSUME NEW q \in Processors
      PROVE  /\ at'[q] \in LoopSteps => \A e \in todo'[q] : Concerns(held[q], e)'
             /\ at'[q] = "insert" => Concerns(held[q], current[q])'
             /\ at'[q] = "finish" => todo'[q] = {}
             /\ at'[q] = "start" => job'[held'[q]].type = "synchronize"
  <2>1. at[q] # "idle" => held[q] \in Jobs \ {j} /\ job'[held[q]] = job[held[q]]
    BY <1>1, HeldJob DEF Runs
  <2>2. PICK k : k = held[q] /\ k = held'[q]
    BY <1>1
  <2> QED
    BY <1>1, <2>1, <2>2 DEF Work, LoopSteps, Concerns
<1> QED
  BY <1>2, <1>3 DEF Work

LEMMA NextWork == Typed /\ Known /\ Work /\ [Next]_vars => Work'
<1> SUFFICES ASSUME Typed, Known, Work, [Next]_vars
             PROVE  Work'
  OBVIOUS
<1>1. ASSUME \A e \in Events : life[e] # "new" => life'[e] # "new",
             \A j \in Jobs : job'[j].type = job[j].type /\ job'[j].ids = job[j].ids,
             UNCHANGED <<at, held, todo, current>>
      PROVE  Work'
  <2>1. \A j \in Jobs : job[j].ids \subseteq Events
    BY DEF Typed, TypeOK, JobRow
  <2>2. \A j \in Jobs : \A e \in job'[j].ids : life'[e] # "new"
    BY <1>1, <2>1 DEF Work
  <2>3. ASSUME NEW q \in Processors
        PROVE  /\ at'[q] \in LoopSteps => \A e \in todo'[q] : Concerns(held[q], e)'
               /\ at'[q] = "insert" => Concerns(held[q], current[q])'
               /\ at'[q] = "finish" => todo'[q] = {}
               /\ at'[q] = "start" => job'[held'[q]].type = "synchronize"
    <3>1. at[q] # "idle" => held[q] \in Jobs
      BY HeldJob
    <3>2. PICK k : k = held[q] /\ k = held'[q]
      BY <1>1
    <3> QED
      BY <1>1, <3>1, <3>2 DEF Work, LoopSteps, Concerns
  <2> QED
    BY <2>2, <2>3 DEF Work
<1>2. CASE Around \/ UNCHANGED vars
  <2>1. UNCHANGED <<job, at, held, todo, current>>
    BY <1>2 DEF Around, SellOrCancel, CreateEvent, RemoveEvent, vars, request, local
  <2>2. \A e \in Events : life[e] # "new" => life'[e] # "new"
    BY <1>2 DEF Around, SellOrCancel, CreateEvent, RemoveEvent, vars, world, Typed, TypeOK
  <2> QED
    BY <1>1, <2>1, <2>2
<1>3. CASE Request
  <2>1. PICK j \in Jobs :
           ProcessEvents(j) \/ Synchronize(j) \/ SkipEvent(j) \/ QueueAggregationJob(j)
    BY <1>3 DEF Request
  <2>2. CASE QueueAggregationJob(j)
    <3>1. UNCHANGED <<life, at, held, todo, current>>
      BY <2>2 DEF QueueAggregationJob, world, local
    <3>2. \A i \in Jobs : job'[i].type = job[i].type /\ job'[i].ids = job[i].ids
      BY <2>2 DEF QueueAggregationJob, Typed, TypeOK, JobRow
    <3> QED
      BY <1>1, <3>1, <3>2
  <2>3. CASE ProcessEvents(j)
    BY <2>3, CreateLogWork DEF ProcessEvents
  <2>4. CASE Synchronize(j)
    <3>1. There \in SUBSET {e \in Events : life[e] # "new"}
      BY DEF There
    <3> QED
      BY <2>4, <3>1, CreateLogWork DEF Synchronize
  <2>5. CASE SkipEvent(j)
    <3>1. PICK e \in There : CreateLog(j, "skip", "skipped", {e})
      BY <2>5 DEF SkipEvent
    <3>2. {e} \in SUBSET {x \in Events : life[x] # "new"}
      BY <3>1 DEF There
    <3> QED
      BY <3>1, <3>2, CreateLogWork
  <2> QED
    BY <2>1, <2>2, <2>3, <2>4, <2>5
<1>4. CASE \E p \in Processors : Process(p) \/ Fails(p)
  BY <1>4, ProcessWork
<1> QED
  BY <1>2, <1>3, <1>4 DEF Next

LEMMA WorkAlways == Spec => []Work
  BY WorkInitially, NextWork, TypedAlways, KnownAlways, SpecSafe, PTL

-----------------------------------------------------------------------------
(* What has been done for an event, as long as no call has thrown. *)

\* A step of p that neither ends a job nor writes rows of e, nor takes p past e.
Carries(p, e) ==
    /\ HandsOver /\ Others(p)
    /\ \A j \in Jobs : job'[j].status = "completed" <=> job[j].status = "completed"
    /\ RowsOf(e)' = RowsOf(e)
    /\ at'[p] \in LoopSteps /\ e \notin todo'[p] /\ Concerns(held'[p], e)
       => at[p] \in LoopSteps /\ e \notin todo[p] /\ held'[p] = held[p]
    /\ at[p] = "insert" /\ current[p] = e
       => (at'[p] = "insert" /\ current'[p] = e) \/ Awaited(e)'

LEMMA CurrentKept ==
  ASSUME Typed, Typed', NEW e, NEW j \in Jobs, RowsOf(e)' = RowsOf(e), sold' >= sold,
         since'[j] = since[j], Current(e, j)
  PROVE  Current(e, j)'
<1>1. PICK v \in since[j]..sold : /\ {r.key : r \in RowsOf(e)} = Sold[v][e]
                                  /\ \A r \in RowsOf(e) : r.version = v
  BY DEF Current
<1>2. since[j] \in Nat /\ sold \in Nat /\ sold' \in Nat
  BY Bounds DEF Typed, TypeOK, Versions
<1>3. v \in since'[j]..sold'
  BY <1>2
<1>4. {r.key : r \in RowsOf(e)'} = Sold[v][e]
  BY <1>1
<1>5. \A r \in RowsOf(e)' : r.version = v
  BY <1>1
<1> QED
  BY <1>3, <1>4, <1>5 DEF Current

LEMMA CarriesDone ==
  ASSUME Typed, Typed', NEW p \in Processors, NEW e, Carries(p, e), Done(e)
  PROVE  Done(e)'
<1>1. \A j \in Jobs : \A d : Concerns(j, d)' <=> Concerns(j, d)
  BY DEF Carries, HandsOver, Concerns
<1>2. ASSUME NEW j \in Jobs, NEW q \in Processors, held'[q] = j, Past(q, e)', Concerns(j, e)
      PROVE  held[q] = j /\ Past(q, e)
  BY <1>2 DEF Carries, Others, Past
<1>3. ASSUME NEW j \in Jobs, e \in job'[j].ids, Treated(j, e)'
      PROVE  e \in job[j].ids /\ Treated(j, e)
  <2>1. e \in job[j].ids /\ Concerns(j, e)
    BY <1>3 DEF Carries, HandsOver, Concerns
  <2> QED
    BY <1>2, <1>3, <2>1 DEF Treated, Carries
<1>4. Awaited(e) => Awaited(e)'
  <2>1. SUFFICES ASSUME NEW k \in Jobs, job[k].queued, job[k].status # "completed", Concerns(k, e),
                        ~ \E q \in Processors : held[q] = k /\ Past(q, e)
                 PROVE  Awaited(e)'
    BY DEF Awaited
  <2>2. job'[k].queued /\ job'[k].status # "completed" /\ Concerns(k, e)'
    BY <1>1, <2>1 DEF Carries, HandsOver
  <2>3. ~ \E q \in Processors : held'[q] = k /\ Past(q, e)'
    BY <1>2, <2>1
  <2> QED
    BY <2>2, <2>3 DEF Awaited
<1>5. Cleared(e) => Cleared(e)' \/ Awaited(e)'
  BY DEF Carries, Others, Cleared
<1>6. ASSUME NEW j \in Jobs, Current(e, j)
      PROVE  Current(e, j)'
  BY <1>6, CurrentKept DEF Carries, HandsOver
<1> QED
  BY <1>3, <1>4, <1>5, <1>6 DEF Done

\* An event is awaited as long as a job that is not completed has to come to it.
LEMMA AwaitedBy ==
  ASSUME NEW i \in Jobs, NEW e, job[i].queued, job[i].status # "completed", Concerns(i, e),
         \A q \in Processors : held[q] = i => ~Past(q, e)
  PROVE  Awaited(e)
  BY DEF Awaited

LEMMA NoFault == ASSUME Typed, faults' = 0 PROVE ~Fault
  BY Bounds DEF Fault, Typed, TypeOK

LEMMA HeldAlone ==
  ASSUME Typed, Known, Apart, Underway, NEW p \in Processors, at[p] # "idle"
  PROVE  /\ held[p] \in Jobs /\ job[held[p]].queued /\ job[held[p]].status # "completed"
         /\ ~Waits(held[p])
         /\ \A q \in Processors \ {p} : held[q] # held[p]
<1>1. PICK i \in Jobs : i = held[p]
  BY HeldJob
<1>2. Runs(i) /\ i # 0
  BY <1>1, Bounds DEF Runs, Jobs
<1>3. job[i].queued /\ job[i].status # "completed" /\ ~Waits(i)
  BY <1>2 DEF Known, Underway, Apart
<1>4. \A q \in Processors \ {p} : held[q] # i
  BY <1>1, <1>2 DEF Apart
<1> QED
  BY <1>1, <1>3, <1>4

\* A rebuild deletes the rows of all events, and will come to each of them.
LEMMA StartDone ==
  ASSUME Typed, Known, Apart, Work, Underway, NEW p \in Processors, Start(p), faults' = 0, NEW e
  PROVE  Done(e)'
<1>1. at[p] = "start" /\ ~Fault
  BY NoFault DEF Start
<1>2. PICK i \in Jobs : i = held[p]
  BY <1>1, HeldJob
<1>3. job[i].queued /\ job[i].type = "synchronize" /\ \A q \in Processors \ {p} : held[q] # i
  BY <1>1, <1>2, HeldAlone DEF Work
<1>4. at' = [at EXCEPT ![p] = "begin"] /\ UNCHANGED held
      /\ job' = [job EXCEPT ![i].status = "running"]
  BY <1>1, <1>2 DEF Start, Progress, Goto, SetLog, local
<1>5. job'[i].queued /\ job'[i].status = "running" /\ job'[i].type = "synchronize"
  BY <1>3, <1>4 DEF Typed, TypeOK, JobRow
<1>6. Concerns(i, e)'
  BY <1>5 DEF Concerns
<1>7. at'[p] = "begin"
  BY <1>4 DEF Typed, TypeOK
<1>8. \A q \in Processors : held'[q] = i => ~Past(q, e)'
  BY <1>3, <1>4, <1>7 DEF Past, LoopSteps
<1>9. Awaited(e)'
  BY <1>5, <1>6, <1>8 DEF Awaited
<1> QED
  BY <1>9 DEF Done

\* The steps that leave the rows alone.
LEMMA TakeDone ==
  ASSUME Typed, NEW p \in Processors, Take(p), NEW e, Done(e)
  PROVE  Done(e)'
<1>1. RowsOf(e)' = RowsOf(e)
  BY TakeHandsOver DEF RowsOf
<1>2. at[p] = "idle" /\ at'[p] \in {"start", "begin"}
  BY TakeHandsOver DEF Typed, TypeOK
<1>3. \A j \in Jobs : job'[j].status = "completed" <=> job[j].status = "completed"
  BY TakeHandsOver
<1>4. Carries(p, e)
  BY <1>1, <1>2, <1>3, TakeHandsOver DEF Carries, LoopSteps
<1> QED
  BY <1>4, TakeTyped, CarriesDone

LEMMA BeginDone ==
  ASSUME Typed, Known, Apart, Underway, NEW p \in Processors, Begin(p), faults' = 0,
         NEW e \in There, Done(e)
  PROVE  Done(e)'
<1>1. at[p] = "begin" /\ UNCHANGED <<held, rows>>
  BY DEF Begin, tables
<1>2. PICK i \in Jobs : i = held[p]
  BY <1>1, HeldJob
<1>3. job[i].status # "completed"
  BY <1>1, <1>2, HeldAlone
<1>4. /\ job' = [job EXCEPT ![i].status = "running"]
      /\ at'[p] \in {"finish", "delete", "catch", "failed"}
      /\ todo'[p] = IF job[i].type = "synchronize" THEN There ELSE job[i].ids \intersect There
  BY <1>2 DEF Begin, SetLog, Goto, InLoop, Typed, TypeOK
<1>5. \A j \in Jobs : job'[j].status = "completed" <=> job[j].status = "completed"
  BY <1>3, <1>4 DEF Typed, TypeOK, JobRow
<1>6. HandsOver /\ Others(p)
  BY ProcessHandsOver, ProcessWorks DEF Process, Works
<1>7. ~(e \notin todo'[p] /\ Concerns(held'[p], e))
  <2>1. Concerns(held'[p], e) => Concerns(i, e)
    BY <1>1, <1>2
  <2> QED
    BY <1>4, <2>1 DEF Concerns
<1>8. Carries(p, e)
  BY <1>1, <1>5, <1>6, <1>7 DEF Carries, RowsOf
<1> QED
  BY <1>8, BeginTyped, CarriesDone

LEMMA DeleteOldDone ==
  ASSUME Typed, NEW p \in Processors, DeleteOld(p), NEW e \in Events \ overlapped',
         e \notin overlapped => Done(e)
  PROVE  Done(e)'
<1>1. PICK d \in todo[p] :
          /\ current' = [current EXCEPT ![p] = d]
          /\ todo' = [todo EXCEPT ![p] = @ \ {d}]
          /\ rows' = {r \in rows : r.event # d}
          /\ overlapped' = IF Cleared(d) THEN overlapped \union {d} ELSE overlapped \ {d}
  BY DEF DeleteOld
<1>2. /\ at[p] = "delete" /\ at'[p] = "insert" /\ UNCHANGED <<job, held>>
      /\ current'[p] = d /\ todo'[p] = todo[p] \ {d}
  BY <1>1 DEF DeleteOld, Goto, request, Typed, TypeOK
<1>3. CASE e = d
  <2>1. Cleared(e)'
    BY <1>2, <1>3 DEF Cleared
  <2> QED
    BY <2>1 DEF Done
<1>4. CASE e # d
  <2>1. e \notin overlapped /\ RowsOf(e)' = RowsOf(e)
    BY <1>1, <1>4 DEF RowsOf
  <2>2. HandsOver /\ Others(p)
    BY ProcessHandsOver, ProcessWorks DEF Process, Works
  <2>3. Carries(p, e)
    BY <1>2, <1>4, <2>1, <2>2 DEF Carries, LoopSteps
  <2> QED
    BY <2>1, <2>3, DeleteOldTyped, CarriesDone
<1> QED
  BY <1>3, <1>4

\* What a job writes for an event.
Written(e, K, v, j) == {[event |-> e, key |-> k, version |-> v, by |-> j] : k \in K}

LEMMA WrittenKeys ==
  ASSUME NEW e, NEW K, NEW v, NEW j
  PROVE  {r.key : r \in Written(e, K, v, j)} = K /\ \A r \in Written(e, K, v, j) : r.version = v
<1>1. \A r \in Written(e, K, v, j) : r.key \in K /\ r.version = v
  BY DEF Written
<1>2. ASSUME NEW k \in K
      PROVE  k \in {r.key : r \in Written(e, K, v, j)}
  <2>1. PICK r \in Written(e, K, v, j) : r = [event |-> e, key |-> k, version |-> v, by |-> j]
    BY DEF Written
  <2>2. r.key = k
    BY <2>1
  <2> QED
    BY <2>2
<1> QED
  BY <1>1, <1>2

\* What is written is of today, and so no older than any request.
LEMMA InsertDone ==
  ASSUME Typed, Snapshots, Known, NEW p \in Processors, Insert(p),
         NEW e \in Events \ overlapped, Done(e)
  PROVE  Done(e)'
<1>1. /\ at[p] = "insert" /\ at'[p] = "daily" /\ current[p] \in Events
      /\ UNCHANGED <<job, held, todo, since, sold>>
  BY DEF Insert, Goto, request, local, history, world, Typed, TypeOK, AtHand
<1>2. CASE e = current[p]
  <2>1. Cleared(e)
    BY <1>1, <1>2 DEF Cleared
  <2>2. RowsOf(e) = {}
    BY <2>1 DEF Snapshots, Alone
  <2>3. RowsOf(e)' = Written(e, Sold[sold][e], sold, held[p])
    BY <1>2, <2>2, InsertRows DEF Written
  <2>4. {r.key : r \in RowsOf(e)'} = Sold[sold][e]
    BY <2>3, WrittenKeys
  <2>5. \A r \in RowsOf(e)' : r.version = sold
    BY <2>3, WrittenKeys
  <2>6. \A j \in Jobs : sold \in since'[j]..sold'
    BY <1>1, Bounds DEF Known, Typed, TypeOK, Versions
  <2>7. \A j \in Jobs : Current(e, j)'
    BY <2>4, <2>5, <2>6 DEF Current
  <2> QED
    BY <2>7 DEF Done
<1>3. CASE e # current[p]
  <2>1. RowsOf(e)' = RowsOf(e)
    BY <1>3, InsertRows
  <2>2. HandsOver /\ Others(p)
    BY ProcessHandsOver, ProcessWorks DEF Process, Works
  <2>3. Carries(p, e)
    BY <1>1, <1>3, <2>1, <2>2 DEF Carries, LoopSteps
  <2> QED
    BY <2>3, InsertTyped, CarriesDone
<1> QED
  BY <1>2, <1>3

LEMMA CountingDone ==
  ASSUME Typed, NEW p \in Processors, InsertDaily(p) \/ Tally(p), NEW e, Done(e)
  PROVE  Done(e)'
<1>1. HandsOver /\ Others(p) /\ Typed'
  BY ProcessHandsOver, ProcessWorks, ProcessTyped DEF Process, Works
<1>2. UNCHANGED <<rows, held, todo>>
  BY DEF InsertDaily, Tally, tables
<1>3. at[p] \in {"daily", "tally"}
  BY DEF InsertDaily, Tally
<1>4. \A j \in Jobs : job'[j].status = job[j].status
  <2>1. CASE InsertDaily(p)
    BY <2>1 DEF InsertDaily, request
  <2>2. CASE Tally(p)
    <3>1. PICK n : job' = [job EXCEPT ![held[p]].processed = n]
      BY <2>2 DEF Tally
    <3> QED
      BY <3>1 DEF Typed, TypeOK, JobRow
  <2> QED
    BY <2>1, <2>2
<1>5. Carries(p, e)
  BY <1>1, <1>2, <1>3, <1>4 DEF Carries, RowsOf, LoopSteps
<1> QED
  BY <1>1, <1>5, CarriesDone

\* When a job ends well it has been past every event: nothing changes.
LEMMA FinishDone ==
  ASSUME Typed, Known, Apart, Work, Underway, NEW p \in Processors, Finish(p), faults' = 0,
         NEW e, Done(e)
  PROVE  Done(e)'
<1>1. at[p] = "finish" /\ ~Fault /\ UNCHANGED <<rows, sold, since>>
  BY NoFault DEF Finish, tables, world, history
<1>2. PICK i \in Jobs : i = held[p]
  BY <1>1, HeldJob
<1>3. \A q \in Processors \ {p} : held[q] # i
  BY <1>1, <1>2, HeldAlone
<1>4. Past(p, e)
  BY <1>1 DEF Past, Work, LoopSteps
<1>5. /\ Release(p)
      /\ job'[i].status = "completed" /\ job'[i].ids = job[i].ids /\ job'[i].type = job[i].type
      /\ \A j \in Jobs \ {i} : job'[j] = job[j]
  BY <1>1, <1>2 DEF Finish, Typed, TypeOK, JobRow
<1>6. /\ at'[p] = "idle" /\ held'[p] = 0 /\ 0 \notin Jobs
      /\ Others(p)
  BY <1>5, Bounds DEF Release, Goto, Others, Jobs, Typed, TypeOK
<1>7. \A q \in Processors \ {p} : Past(q, e)' <=> Past(q, e)
  BY <1>6 DEF Others, Past
<1>8. ASSUME NEW j \in Jobs, Treated(j, e)'
      PROVE  Treated(j, e)
  <2>1. CASE j = i
    BY <1>2, <1>4, <2>1 DEF Treated
  <2>2. CASE j # i
    BY <1>5, <1>6, <1>7, <1>8, <2>2 DEF Treated, Others
  <2> QED
    BY <2>1, <2>2
<1>9. Awaited(e) => Awaited(e)'
  <2>1. SUFFICES ASSUME NEW k \in Jobs, job[k].queued, job[k].status # "completed", Concerns(k, e),
                        ~ \E q \in Processors : held[q] = k /\ Past(q, e)
                 PROVE  Awaited(e)'
    BY DEF Awaited
  <2>2. k # i
    BY <1>2, <1>4, <2>1
  <2>3. job'[k].queued /\ job'[k].status # "completed" /\ Concerns(k, e)'
    BY <1>5, <2>1, <2>2 DEF Concerns
  <2>4. ~ \E q \in Processors : held'[q] = k /\ Past(q, e)'
    BY <1>6, <1>7, <2>1 DEF Others
  <2> QED
    BY <2>3, <2>4 DEF Awaited
<1>10. Cleared(e) => Cleared(e)'
  BY <1>1, <1>6 DEF Cleared, Others
<1>11. RowsOf(e)' = RowsOf(e) /\ sold' >= sold /\ Typed'
  <2>1. RowsOf(e)' = RowsOf(e)
    BY <1>1 DEF RowsOf
  <2>2. sold \in Nat
    BY Bounds DEF Typed, TypeOK, Versions
  <2> QED
    BY <1>1, <2>1, <2>2, FinishTyped
<1>12. \A j \in Jobs : Current(e, j) => Current(e, j)'
  BY <1>1, <1>11, CurrentKept
<1>13. \A j \in Jobs : job'[j].ids = job[j].ids
  BY <1>5
<1> QED
  BY <1>8, <1>9, <1>10, <1>12, <1>13 DEF Done

LEMMA FailedDone ==
  ASSUME Typed, Known, Apart, Underway, NEW p \in Processors, CatchError(p) \/ OnFailed(p),
         NEW e, Done(e)
  PROVE  Done(e)'
<1>1. HandsOver /\ Others(p) /\ Typed'
  BY ProcessHandsOver, ProcessWorks, ProcessTyped DEF Process, Works
<1>2. UNCHANGED rows /\ at[p] \in {"catch", "failed"} /\ at'[p] \in {"failed", "idle"}
  BY DEF CatchError, OnFailed, Release, Goto, tables, Typed, TypeOK
<1>3. PICK i \in Jobs : i = held[p]
  BY <1>2, HeldJob
<1>4. job[i].status # "completed"
  BY <1>2, <1>3, HeldAlone
<1>5. job' = [job EXCEPT ![i].status = "failed"]
  BY <1>3, <1>4 DEF CatchError, OnFailed, SetLog, MarkFailed
<1>6. \A j \in Jobs : job'[j].status = "completed" <=> job[j].status = "completed"
  BY <1>4, <1>5 DEF Typed, TypeOK, JobRow
<1>7. Carries(p, e)
  BY <1>1, <1>2, <1>6 DEF Carries, RowsOf, LoopSteps
<1> QED
  BY <1>1, <1>7, CarriesDone

\* The job of the pod that dies will do what it was about to do again, or has failed.
LEMMA PodDiesDone ==
  ASSUME Typed, Known, Apart, Work, Underway, NEW p \in Processors, PodDies(p), NEW e, Done(e)
  PROVE  Done(e)'
<1>1. /\ HandsOver /\ Others(p) /\ UNCHANGED rows /\ at'[p] = "idle" /\ held'[p] = 0
      /\ job'[held[p]].status # job[held[p]].status => job'[held[p]].status = "failed"
      /\ \A j \in Jobs \ {held[p]} : job'[j] = job[j]
  BY PodDiesHandsOver
<1>2. PICK i \in Jobs : i = held[p]
  BY PodDiesHandsOver
<1>3. /\ job[i].queued /\ job[i].status # "completed"
      /\ \A q \in Processors \ {p} : held[q] # i
      /\ i # 0
  <2>1. i # 0
    BY Bounds DEF Jobs
  <2>2. at[p] # "idle"
    BY <1>2, <2>1 DEF Typed, TypeOK
  <2>3. /\ job[held[p]].queued /\ job[held[p]].status # "completed"
        /\ \A q \in Processors \ {p} : held[q] # held[p]
    BY <2>2, HeldAlone
  <2> QED
    BY <1>2, <2>1, <2>3
<1>4. job'[i].queued /\ job'[i].status # "completed"
  BY <1>1, <1>2, <1>3 DEF HandsOver
<1>5. \A j \in Jobs : job'[j].status = "completed" <=> job[j].status = "completed"
  BY <1>1, <1>2, <1>3, <1>4
<1>6. ASSUME at[p] = "insert", current[p] = e
      PROVE  Awaited(e)'
  <2>1. Concerns(i, e)
    BY <1>2, <1>6 DEF Work
  <2>2. Concerns(i, e)'
    BY <1>1, <2>1 DEF HandsOver, Concerns
  <2>3. \A q \in Processors : held'[q] # i
    BY <1>1, <1>3 DEF Others
  <2> QED
    BY <1>4, <2>2, <2>3 DEF Awaited
<1>7. Carries(p, e)
  BY <1>1, <1>5, <1>6 DEF Carries, RowsOf, LoopSteps
<1> QED
  BY <1>7, PodDiesTyped, CarriesDone

\* A job that nobody has asked for yet has done nothing.
LEMMA CreateLogDone ==
  ASSUME Typed, Known, NEW j \in Jobs, NEW type, NEW status \in {"pending", "skipped"},
         NEW ids, CreateLog(j, type, status, ids), NEW e, Done(e)
  PROVE  Done(e)'
<1>0. /\ ~Runs(j) /\ job[j] = NoJob
      /\ \A i \in Jobs \ {j} : job'[i] = job[i] /\ since'[i] = since[i]
      /\ job'[j] = [status |-> status, processed |-> 0, type |-> type, ids |-> ids,
                    queued |-> FALSE]
      /\ UNCHANGED <<world, tables, queue, at, local, bounds, overlapped, unmarked>>
  BY CreateLogKnown
<1>1. /\ job'[j].status # "completed" /\ ~job[j].queued
      /\ UNCHANGED <<sold, rows, at, held, todo, current>>
  BY <1>0 DEF world, tables, local, NoJob
<1>2. ASSUME NEW i \in Jobs, Treated(i, e)'
      PROVE  i # j /\ Treated(i, e)
  BY <1>0, <1>1, <1>2 DEF Treated, Past, Runs
<1>3. Awaited(e) => Awaited(e)'
  <2>1. SUFFICES ASSUME NEW k \in Jobs, job[k].queued, job[k].status # "completed", Concerns(k, e),
                        ~ \E q \in Processors : held[q] = k /\ Past(q, e)
                 PROVE  Awaited(e)'
    BY DEF Awaited
  <2>2. k # j
    BY <1>1, <2>1
  <2>3. job'[k].queued /\ job'[k].status # "completed" /\ Concerns(k, e)'
    BY <1>0, <2>1, <2>2 DEF Concerns
  <2>4. ~ \E q \in Processors : held'[q] = k /\ Past(q, e)'
    BY <1>1, <2>1 DEF Past
  <2> QED
    BY <2>3, <2>4 DEF Awaited
<1>4. Cleared(e)' <=> Cleared(e)
  BY <1>1 DEF Cleared
<1>5. RowsOf(e)' = RowsOf(e)
  BY <1>1 DEF RowsOf
<1>6. \A i \in Jobs \ {j} : Current(e, i) => Current(e, i)'
  BY <1>0, <1>1, <1>5 DEF Current
<1> QED
  BY <1>0, <1>2, <1>3, <1>4, <1>6 DEF Done

LEMMA QueueDone ==
  ASSUME Typed, Known, NEW j \in Jobs, QueueAggregationJob(j), NEW e, Done(e)
  PROVE  Done(e)'
<1>1. /\ UNCHANGED <<sold, since, rows, at, held, todo, current>>
      /\ job' = [job EXCEPT ![j].queued = TRUE]
  BY DEF QueueAggregationJob, world, tables, local, history
<1>2. \A i \in Jobs : /\ job'[i].status = job[i].status /\ job'[i].ids = job[i].ids
                      /\ job'[i].type = job[i].type /\ (job[i].queued => job'[i].queued)
  BY <1>1 DEF Typed, TypeOK, JobRow
<1>3. \A i \in Jobs : Treated(i, e)' <=> Treated(i, e)
  BY <1>1, <1>2 DEF Treated, Past
<1>4. Awaited(e) => Awaited(e)'
  BY <1>1, <1>2 DEF Awaited, Past, Concerns
<1>5. (Cleared(e)' <=> Cleared(e)) /\ RowsOf(e)' = RowsOf(e)
  BY <1>1 DEF Cleared, RowsOf
<1>6. \A i \in Jobs : Current(e, i) => Current(e, i)'
  BY <1>1, <1>5 DEF Current
<1> QED
  BY <1>2, <1>3, <1>4, <1>5, <1>6 DEF Done

LEMMA AroundDone ==
  ASSUME Typed, Typed', UNCHANGED <<rows, job, at, held, todo, current, since>>, sold' >= sold,
         NEW e, Done(e)
  PROVE  Done(e)'
<1>1. \A i \in Jobs : Treated(i, e)' <=> Treated(i, e)
  BY DEF Treated, Past
<1>2. Awaited(e) => Awaited(e)'
  BY DEF Awaited, Past, Concerns
<1>3. (Cleared(e)' <=> Cleared(e)) /\ RowsOf(e)' = RowsOf(e)
  BY DEF Cleared, RowsOf
<1>4. \A i \in Jobs : Current(e, i) => Current(e, i)'
  BY <1>3, CurrentKept
<1> QED
  BY <1>1, <1>2, <1>3, <1>4 DEF Done

LEMMA UndisturbedInitially == Init => Undisturbed
  BY Bounds DEF Init, Undisturbed, Underway, Done, Waits, Runs, NoJob, There, Jobs

\* No call has thrown before or in a step after which none has.
LEMMA NoneThrown ==
  ASSUME Typed, [Next]_vars, faults' = 0
  PROVE  faults = 0 /\ \A p \in Processors : ~Throw(p) /\ ~OnFailedThrows(p)
<1>1. ~Fault /\ faults \in Nat
  BY NoFault, Bounds DEF Typed, TypeOK
<1>2. faults' = faults
  <2>1. CASE UNCHANGED vars \/ Around
    BY <2>1 DEF vars, Around, SellOrCancel, CreateEvent, RemoveEvent, bounds
  <2>2. CASE Request
    BY <2>2 DEF Request, ProcessEvents, Synchronize, SkipEvent, CreateLog, QueueAggregationJob,
       bounds
  <2>3. CASE \E p \in Processors : Process(p) \/ Fails(p)
    BY <1>1, <2>3 DEF Process, Fails, Take, Start, Progress, Begin, DeleteOld, Insert, InsertDaily,
       Tally, Finish, CatchError, OnFailed, OnFailedThrows, Throw, PodDies, bounds
  <2> QED
    BY <2>1, <2>2, <2>3 DEF Next
<1> QED
  BY <1>1, <1>2 DEF Throw, OnFailedThrows

\* Only the end of a job completes it.
LEMMA OnlyFinishCompletes ==
  ASSUME Typed, NEW p \in Processors, Process(p) \/ PodDies(p), ~Finish(p), NEW j \in Jobs,
         job'[j].status = "completed"
  PROVE  job[j].status = "completed"
<1>1. CASE Take(p)
  BY <1>1, TakeHandsOver
<1>2. CASE PodDies(p)
  BY <1>2, PodDiesHandsOver
<1>3. CASE DeleteOld(p) \/ Insert(p) \/ InsertDaily(p)
  BY <1>3 DEF DeleteOld, Insert, InsertDaily, request
<1>4. CASE Tally(p)
  <2>1. PICK n : job' = [job EXCEPT ![held[p]].processed = n]
    BY <1>4 DEF Tally
  <2> QED
    BY <2>1 DEF Typed, TypeOK, JobRow
<1>5. CASE Start(p) \/ Begin(p) \/ CatchError(p) \/ OnFailed(p)
  <2>1. PICK s \in {"running", "failed", job[held[p]].status} :
           job' = [job EXCEPT ![held[p]].status = s]
    BY <1>5 DEF Start, Begin, CatchError, OnFailed, SetLog, MarkFailed
  <2> QED
    BY <2>1 DEF Typed, TypeOK, JobRow
<1> QED
  BY <1>1, <1>2, <1>3, <1>4, <1>5 DEF Process

LEMMA ProcessUnderway ==
  ASSUME Typed, Known, Apart, Underway, NEW p \in Processors, Process(p) \/ PodDies(p),
         faults' = 0
  PROVE  Underway'
<1>1. HandsOver
  BY ProcessHandsOver DEF Fails
<1>2. CASE ~Finish(p)
  <2>1. \A j \in Jobs : job'[j].status = "completed" => job[j].status = "completed"
    BY <1>2, OnlyFinishCompletes
  <2> QED
    BY <1>1, <2>1 DEF HandsOver, Underway
<1>3. CASE Finish(p)
  <2>1. PICK i \in Jobs : i = held[p]
    BY <1>3, HeldJob DEF Finish
  <2>2. ~Fault
    BY NoFault
  <2>3. /\ Release(p) /\ UNCHANGED queue
        /\ \A j \in Jobs \ {i} : job'[j] = job[j]
    BY <1>3, <2>1, <2>2 DEF Finish, Typed, TypeOK
  <2>4. /\ ~Waits(i) /\ \A q \in Processors \ {p} : held[q] # i
    BY <1>3, <2>1, HeldAlone DEF Finish
  <2>5. ~Waits(i)'
    BY <2>3, <2>4 DEF Waits
  <2>6. \A q \in Processors : held'[q] # i
    BY <2>3, <2>4, Bounds DEF Release, Jobs, Typed, TypeOK
  <2> QED
    BY <1>1, <2>3, <2>5, <2>6 DEF HandsOver, Underway, Runs
<1> QED
  BY <1>2, <1>3

LEMMA ProcessUndisturbed ==
  ASSUME Typed, Snapshots, Known, Apart, Work, Undisturbed, NEW p \in Processors,
         Process(p) \/ PodDies(p), faults' = 0
  PROVE  Undisturbed'
<1>1. Underway /\ Underway'
  BY ProcessUnderway DEF Undisturbed
<1>2. unmarked' = {}
  BY DEF Undisturbed, Process, Take, Start, Begin, DeleteOld, Insert, InsertDaily, Tally, Finish,
     CatchError, OnFailed, PodDies, history
<1>3. There' = There /\ There \subseteq Events
  <2>1. UNCHANGED life
    BY DEF Process, Take, Start, Begin, DeleteOld, Insert, InsertDaily, Tally, Finish, CatchError,
       OnFailed, PodDies, world
  <2> QED
    BY <2>1 DEF There
<1>4. ASSUME NEW e \in There, e \notin overlapped'
      PROVE  Done(e)'
  <2>1. CASE DeleteOld(p)
    BY <1>3, <1>4, <2>1, DeleteOldDone DEF Undisturbed
  <2>2. CASE ~DeleteOld(p)
    <3>1. UNCHANGED overlapped
      BY <2>2 DEF Process, Take, Start, Begin, Insert, InsertDaily, Tally, Finish, CatchError,
         OnFailed, PodDies, history
    <3>2. Done(e) /\ e \in Events \ overlapped
      BY <1>3, <1>4, <3>1 DEF Undisturbed
    <3> QED
      BY <1>1, <2>2, <3>2, TakeDone, StartDone, BeginDone, InsertDone, CountingDone, FinishDone,
         FailedDone, PodDiesDone DEF Process
  <2> QED
    BY <2>1, <2>2
<1> QED
  BY <1>1, <1>2, <1>3, <1>4 DEF Undisturbed

LEMMA RequestUndisturbed ==
  ASSUME Typed, Known, Undisturbed, Request
  PROVE  Undisturbed'
<1>1. PICK j \in Jobs :
         ProcessEvents(j) \/ Synchronize(j) \/ SkipEvent(j) \/ QueueAggregationJob(j)
  BY DEF Request
<1>2. CASE QueueAggregationJob(j)
  <2>1. /\ UNCHANGED <<life, overlapped, unmarked, held>>
        /\ \A i \in Jobs \ {j} : job'[i] = job[i] /\ (Waits(i)' => Waits(i))
        /\ job'[j].status = "pending"
    <3>1. UNCHANGED <<life, overlapped, unmarked, held>>
      BY <1>2 DEF QueueAggregationJob, world, history, local
    <3>2. job'[j].status = "pending"
      BY <1>2 DEF QueueAggregationJob, Typed, TypeOK, JobRow
    <3> QED
      BY <1>2, <3>1, <3>2, QueueHandsOn
  <2>2. \A i \in Jobs : Runs(i)' <=> Runs(i)
    BY <2>1 DEF Runs
  <2>3. Underway'
    BY <2>1, <2>2 DEF Undisturbed, Underway
  <2>4. \A e \in There \ overlapped : Done(e)'
    BY <1>2, QueueDone DEF Undisturbed
  <2> QED
    BY <2>1, <2>3, <2>4 DEF Undisturbed, There
<1>3. ASSUME NEW type, NEW status \in {"pending", "skipped"}, NEW ids,
             CreateLog(j, type, status, ids)
      PROVE  Undisturbed'
  <2>1. /\ ~Waits(j) /\ ~Runs(j)
        /\ \A i \in Jobs \ {j} : job'[i] = job[i]
        /\ UNCHANGED <<world, queue, local, overlapped, unmarked>>
    BY <1>3, CreateLogKnown
  <2>2. UNCHANGED <<life, queue, held, overlapped, unmarked>>
    BY <2>1 DEF world, local
  <2>3. \A i \in Jobs : (Waits(i)' <=> Waits(i)) /\ (Runs(i)' <=> Runs(i))
    BY <2>2 DEF Waits, Runs
  <2>4. Underway'
    BY <2>1, <2>3 DEF Undisturbed, Underway
  <2>5. \A e \in There \ overlapped : Done(e)'
    BY <1>3, CreateLogDone DEF Undisturbed
  <2> QED
    BY <2>2, <2>4, <2>5 DEF Undisturbed, There
<1> QED
  BY <1>1, <1>2, <1>3 DEF ProcessEvents, Synchronize, SkipEvent

\* An event that is only now created is named by no job.
LEMMA AroundUndisturbed ==
  ASSUME Typed, Typed', Work, Undisturbed, Around \/ UNCHANGED vars
  PROVE  Undisturbed'
<1>1. /\ UNCHANGED <<rows, job, queue, at, held, todo, current, since, overlapped, unmarked>>
      /\ sold' >= sold
  BY Bounds DEF Around, SellOrCancel, CreateEvent, RemoveEvent, vars, world, request, local,
     tables, history, Typed, TypeOK, Versions
<1>2. Underway'
  BY <1>1 DEF Undisturbed, Underway, Waits, Runs
<1>3. \A e \in Events : e \in There' => e \in There \/ life[e] = "new"
  BY DEF Around, SellOrCancel, CreateEvent, RemoveEvent, vars, world, There, Typed, TypeOK
<1>4. ASSUME NEW e \in There', e \notin overlapped
      PROVE  Done(e)'
  <2>1. e \in Events
    BY DEF There
  <2>2. Done(e)
    BY <1>3, <1>4, <2>1 DEF Undisturbed, Work, Done
  <2> QED
    BY <1>1, <2>2, AroundDone
<1> QED
  BY <1>1, <1>2, <1>4 DEF Undisturbed

LEMMA NextUndisturbed ==
  /\ Typed /\ Snapshots /\ Known /\ Apart /\ Work /\ (faults = 0 => Undisturbed) /\ [Next]_vars
  => (faults = 0 => Undisturbed)'
<1> SUFFICES ASSUME Typed, Snapshots, Known, Apart, Work, faults = 0 => Undisturbed, [Next]_vars,
                    faults' = 0
             PROVE  Undisturbed'
  OBVIOUS
<1>1. Typed' /\ faults = 0 /\ \A p \in Processors : ~Throw(p) /\ ~OnFailedThrows(p)
  BY NextTyped, NoneThrown
<1>2. CASE Around \/ UNCHANGED vars
  BY <1>1, <1>2, AroundUndisturbed
<1>3. CASE Request
  BY <1>1, <1>3, RequestUndisturbed
<1>4. CASE \E p \in Processors : Process(p) \/ Fails(p)
  BY <1>1, <1>4, ProcessUndisturbed DEF Fails
<1> QED
  BY <1>2, <1>3, <1>4 DEF Next

LEMMA UndisturbedAlways == Spec => [](faults = 0 => Undisturbed)
<1>1. Init => (faults = 0 => Undisturbed)
  BY UndisturbedInitially
<1> QED
  BY <1>1, NextUndisturbed, TypedAlways, SnapshotsAlways, KnownAlways, ApartAlways, WorkAlways,
     SpecSafe, PTL

-----------------------------------------------------------------------------
(* What the timeline shows. *)

LEMMA LeastNatural ==
  ASSUME NEW N \in SUBSET Nat, N # {}
  PROVE  \E m \in N : \A n \in N : m <= n
<1>1. PICK m \in N : \A n \in N : ~ (<<n, m>> \in OpToRel(<, Nat))
  <2> HIDE DEF OpToRel
  <2> QED
    BY NatLessThanWellFounded, WFMin
<1>2. \A n \in N : ~ (n < m)
  BY <1>1 DEF OpToRel
<1> QED
  BY <1>2

\* Of the jobs that name an event there is a latest one.
LEMMA LatestNames ==
  ASSUME Typed, NEW e, Naming(e) # {}
  PROVE  Latest(e) \in Naming(e) /\ Latest(e) \in Jobs
<1>1. logged \in Nat /\ logged <= MaxJobs /\ MaxJobs \in Nat
  BY Bounds DEF Typed, TypeOK
<1>2. DEFINE N == {logged - j : j \in Naming(e)}
<1>3. Naming(e) \subseteq 1..logged
  BY DEF Naming
<1>4. N \in SUBSET Nat /\ N # {}
  BY <1>1, <1>3
<1>5. PICK m \in N : \A n \in N : m <= n
  <2> HIDE DEF N
  <2> QED
    BY <1>4, LeastNatural
<1>6. PICK j \in Naming(e) : m = logged - j
  BY <1>5
<1>7. \A k \in Naming(e) : k <= j
  <2>1. \A k \in Naming(e) : logged - j <= logged - k
    BY <1>5, <1>6
  <2> QED
    BY <1>1, <1>3, <2>1
<1>8. Latest(e) \in Naming(e)
  BY <1>7 DEF Latest
<1> QED
  BY <1>1, <1>3, <1>8 DEF Jobs

LEMMA NothingLeftToDo ==
  ASSUME Typed, Known, Undisturbed, Calm, \A j \in Jobs : job[j].queued => Ended(j), NEW e
  PROVE  ~Awaited(e) /\ ~Cleared(e)
<1>1. \A j \in Jobs : job[j].queued => job[j].status = "completed"
  BY DEF Ended, Calm, Undisturbed
<1>2. ~Awaited(e)
  BY <1>1 DEF Awaited
<1>3. ASSUME NEW p \in Processors, at[p] = "insert"
      PROVE  FALSE
  <2>1. PICK i \in Jobs : i = held[p]
    BY <1>3, HeldJob
  <2> QED
    BY <1>1, <2>1 DEF Known, Undisturbed, Underway, Runs
<1> QED
  BY <1>2, <1>3 DEF Cleared

(***************************************************************************)
(* When no call has thrown, no job has failed and none is under way, an    *)
(* event shown as completed has every row of one state of the sales, no    *)
(* older than the request that is shown: for any events, jobs, processors  *)
(* and groups, beside any other jobs, and whatever pods have died          *)
(* (executeAggregation, executeSynchronize, getEventsTimelineStatus).      *)
(***************************************************************************)
THEOREM TimelineIsTrue == Spec => []ShownAsAggregated
<1>1. Typed /\ Known /\ (faults = 0 => Undisturbed) => ShownAsAggregated
  <2> SUFFICES ASSUME Typed, Known, faults = 0 => Undisturbed, Calm,
                      NEW e \in There \ overlapped, Shown(e) = "completed",
                      \A j \in Jobs : job[j].queued => Ended(j)
               PROVE  Current(e, Latest(e))
    BY DEF ShownAsAggregated, Current
  <2>1. Undisturbed
    BY DEF Calm
  <2>2. Naming(e) # {} /\ job[Latest(e)].status = "completed"
    BY DEF Shown
  <2>3. PICK j \in Jobs : j = Latest(e) /\ e \in job[j].ids
    BY <2>2, LatestNames DEF Naming
  <2>4. Treated(j, e) /\ Done(e)
    BY <2>1, <2>2, <2>3 DEF Treated, Undisturbed
  <2> QED
    BY <2>1, <2>3, <2>4, NothingLeftToDo DEF Done
<1> QED
  BY <1>1, TypedAlways, KnownAlways, UndisturbedAlways, PTL
=============================================================================
