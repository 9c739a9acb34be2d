--------------------------- MODULE IncrementalSync --------------------------
(***************************************************************************)
(* syncTransactionsIncremental: the run that the ten-minute cron, the      *)
(* weekly cron, the queue and the manual endpoint all call.  A run reads   *)
(* the integration's cursor (weezeventSyncState.lastSyncedAt), asks        *)
(* Weezevent for what was created since five minutes before it, inserts    *)
(* the answer, and moves the cursor to the moment it ends.                 *)
(*                                                                         *)
(* GET transactions is not paged: whatever per_page and page say, an       *)
(* answer has at most AnswerCap transactions and total_pages is 1, so the  *)
(* loop over pages always ends after the first one and maxItems is never   *)
(* reached.                                                                *)
(*                                                                         *)
(* Nothing keeps two runs of an integration apart: the cron looks at       *)
(* SyncTrackerService.getRunningSyncs, but no caller registers a run there *)
(* with startSync.  Runs therefore interleave at every await, and take as  *)
(* long as they take.                                                      *)
(*                                                                         *)
(* Abstracted: how one row and its items are written is in                 *)
(* TransactionWrite, so a batch is inserted in one step here.  The         *)
(* statistics stored beside the cursor (lastSyncCount, ...) are left out:  *)
(* nothing reads them back to decide anything.                             *)
(***************************************************************************)
EXTENDS Integers, FiniteSets

CONSTANTS
    Txs,        \* transactions of the integration
    Unreadable, \* those whose rows the batch cannot make sense of
    Runs,       \* promises that may run syncTransactionsIncremental
    Requests,   \* options of a run: [full, since, until]
    Overlap,    \* five minutes
    AnswerCap,  \* 500: the most that Weezevent answers
    MaxTime     \* bound: end of the model's clock

NoCursor == -1
NoFilter == [full |-> FALSE, since |-> 0, until |-> MaxTime]

ASSUME IncrementalSyncAssumption ==
    /\ IsFiniteSet(Txs) /\ Unreadable \subseteq Txs
    /\ {Overlap, MaxTime} \subseteq Nat
    /\ AnswerCap \in Nat \ {0}
    /\ Requests \subseteq [full : BOOLEAN, since : 0..MaxTime, until : 0..MaxTime]

VARIABLES
    now,
    created,  \* created_at of the sales made so far, -1 for the others
    returned, \* sales that Weezevent returns, with any status
    validAt,  \* when they got the status V, -1 for the others
    stored,   \* rows of weezeventTransaction
    cursor,   \* weezeventSyncState.lastSyncedAt, or NoCursor
    run,      \* local state of each run
    cut,      \* history: sales that a full answer to a run that ended left out
    outside,  \* history: sales outside the dates of a request that ended
    slowest   \* history: the longest time from an answer to the end of its run

sales == <<created, returned, validAt>>
passed == <<cut, outside, slowest>>
syncVars == <<now, sales, stored, cursor, run, passed>>

IdleRun == [at |-> "idle", from |-> 0, since |-> 0, until |-> 0, asked |-> 0,
            batch |-> {}, missed |-> {}, unasked |-> {}]

Run == [at : {"idle", "ask", "insert", "commit"},
        from : Int, since : 0..MaxTime, until : 0..MaxTime,
        asked : 0..MaxTime,     \* history: when Weezevent answered
        batch : SUBSET Txs,
        missed : SUBSET Txs,    \* history: matching sales that the answer left out
        unasked : SUBSET Txs]   \* history: sales outside the request's own dates

SyncTypeOK ==
    /\ now \in 0..MaxTime
    /\ created \in [Txs -> -1..now]
    /\ returned \subseteq {t \in Txs : created[t] >= 0}
    /\ validAt \in [Txs -> -1..now]
    /\ \A t \in Txs : validAt[t] >= 0 => t \in returned /\ created[t] <= validAt[t]
    /\ stored \subseteq {t \in Txs : validAt[t] >= 0}
    /\ cursor \in -1..now
    /\ run \in [Runs -> Run]
    /\ cut \subseteq Txs
    /\ outside \subseteq Txs
    /\ slowest \in 0..MaxTime

SyncInit ==
    /\ now = 0
    /\ created = [t \in Txs |-> -1]
    /\ returned = {}
    /\ validAt = [t \in Txs |-> -1]
    /\ stored = {}
    /\ cursor = NoCursor
    /\ run = [r \in Runs |-> IdleRun]
    /\ cut = {}
    /\ outside = {}
    /\ slowest = 0

-----------------------------------------------------------------------------
(* Weezevent and the clock.  A till that is offline delivers a sale late,  *)
(* and a sale may wait (W) before it is validated (V).                     *)

Sale(t) ==
    /\ created[t] = -1
    /\ created' = [created EXCEPT ![t] = now]
    /\ UNCHANGED <<now, returned, validAt, stored, cursor, run, passed>>

Appear(t) ==
    /\ created[t] >= 0
    /\ t \notin returned
    /\ returned' = returned \union {t}
    /\ UNCHANGED <<now, created, validAt, stored, cursor, run, passed>>

Validate(t) ==
    /\ t \in returned
    /\ validAt[t] = -1
    /\ validAt' = [validAt EXCEPT ![t] = now]
    /\ UNCHANGED <<now, created, returned, stored, cursor, run, passed>>

Tick ==
    /\ now < MaxTime
    /\ now' = now + 1
    /\ UNCHANGED <<sales, stored, cursor, run, passed>>

\* created_at__gte, created_at__lte
Matching(r) ==
    {t \in returned : run[r].from <= created[t] /\ created[t] <= run[r].until}

\* All that matches when it is less than the cap, any AnswerCap of it otherwise.
Answered(S) ==
    {A \in SUBSET S : \/ A = S /\ Cardinality(S) < AnswerCap
                      \/ Cardinality(A) = AnswerCap}

-----------------------------------------------------------------------------
(* syncTransactionsIncremental *)

\* MUTANT of FromDate: without the overlap.
FromCursor(q) == IF ~q.full /\ cursor # NoCursor THEN cursor ELSE q.since

\* The first run, and a forced one, take the dates of the request instead of the cursor.
FromDate(q) ==
    IF ~q.full /\ cursor # NoCursor THEN cursor - Overlap ELSE q.since

Begin(r, q) ==
    /\ run[r].at = "idle"
    /\ run' = [run EXCEPT ![r] = [IdleRun EXCEPT
           !.at = "ask", !.from = FromDate(q), !.until = q.until,
           !.since = IF ~q.full /\ cursor # NoCursor THEN 0 ELSE q.since]]
    /\ UNCHANGED <<now, sales, stored, cursor, passed>>

\* What a request with dates of its own does not ask for.
Unasked(r) == {t \in returned : created[t] < run[r].since \/ created[t] > run[r].until}

\* The only page.  Of its transactions only those with the status V are
\* inserted; the ones already stored are left out, which changes nothing.
\* The range is not needed any more.
FetchPage(r) ==
    /\ run[r].at = "ask"
    /\ \E answer \in Answered(Matching(r)) :
           run' = [run EXCEPT ![r] = [IdleRun EXCEPT
               !.at = IF answer = {} THEN "commit" ELSE "insert",
               !.asked = now,
               !.batch = {t \in answer : validAt[t] >= 0},
               !.missed = Matching(r) \ answer,
               !.unasked = Unasked(r)]]
    /\ UNCHANGED <<now, sales, stored, cursor, passed>>

\* An error in one transaction is counted and the others are inserted.
InsertPage(r) ==
    /\ run[r].at = "insert"
    /\ stored' = stored \union (run[r].batch \ Unreadable)
    /\ run' = [run EXCEPT ![r].at = "commit", ![r].batch = {}]
    /\ UNCHANGED <<now, sales, cursor, passed>>

\* The cursor moves whatever result.errors says.
Commit(r) ==
    /\ run[r].at = "commit"
    /\ cursor' = now
    /\ run' = [run EXCEPT ![r] = IdleRun]
    /\ cut' = cut \union run[r].missed
    /\ outside' = outside \union run[r].unasked
    /\ slowest' = IF now - run[r].asked > slowest THEN now - run[r].asked ELSE slowest
    /\ UNCHANGED <<now, sales, stored>>

\* Weezevent or the database throws, or the server restarts: the cursor stays.
RunThrows(r) ==
    /\ run[r].at # "idle"
    /\ run' = [run EXCEPT ![r] = IdleRun]
    /\ UNCHANGED <<now, sales, stored, cursor, passed>>

\* resetSyncState
Reset ==
    /\ cursor # NoCursor
    /\ cursor' = NoCursor
    /\ UNCHANGED <<now, sales, stored, run, passed>>

SyncNext ==
    \/ Tick
    \/ \E t \in Txs : Sale(t) \/ Appear(t) \/ Validate(t)
    \/ \E r \in Runs :
         \/ \E q \in Requests : Begin(r, q)
         \/ FetchPage(r) \/ InsertPage(r) \/ Commit(r) \/ RunThrows(r)
    \/ Reset

SyncSpec == SyncInit /\ [][SyncNext]_syncVars

-----------------------------------------------------------------------------
\* No incremental run will ask for t again.
Forgotten(t) ==
    created[t] >= 0 /\ t \notin stored /\ cursor # NoCursor /\ created[t] < cursor - Overlap

\* Time from the sale to its validation, so far.
Delay(t) == (IF validAt[t] >= 0 THEN validAt[t] ELSE now) - created[t]

\* The four ways in which a run passes over a sale.
PassedOver(t) ==
    \/ t \in Unreadable
    \/ t \in cut
    \/ t \in outside
    \/ Delay(t) + slowest > Overlap

(***************************************************************************)
(* Nothing else is forgotten behind the cursor: a sale is stored, or a     *)
(* later incremental run still asks for it, or it was left out of an       *)
(* answer at the cap, or a request had dates that exclude it, or its rows  *)
(* cannot be read, or the overlap was too short for the delay of the sale  *)
(* and the time of the slowest run together: the cursor is the end of a    *)
(* run, not the moment it asked.  However many runs interleave, throw or   *)
(* are undone by a reset, these causes do not combine into another one.    *)
(* (incremental-sync 254-260 "overlap 5 min to avoid gaps", 336)           *)
(***************************************************************************)
NothingForgotten == \A t \in Txs : Forgotten(t) => PassedOver(t)
=============================================================================
