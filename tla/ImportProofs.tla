--------------------------- MODULE ImportProofs ----------------------------
(***************************************************************************)
(* Proofs about the import of transactions, in four parts.                 *)
(*                                                                         *)
(* IncrementalSync, for any transactions, runs, requests, overlap and cap: *)
(* the types, and that a sale which the cursor leaves behind was passed    *)
(* over for one of four named causes (LeftBehind says what a run still     *)
(* knows of such a sale between its question and its commit).              *)
(*                                                                         *)
(* TransactionWrite, for any writers of any kinds, versions, rounds and    *)
(* faults: the types, what no interleaving may do (WInv), and what holds   *)
(* of the items when the writers take turns (Rows, Turns).                 *)
(*                                                                         *)
(* SyncJob, for any jobs, integrations, number of chunks, parallelism,     *)
(* faults and restarts.                                                    *)
(*                                                                         *)
(* Bisection, for any transactions, range, cap and window.                 *)
(***************************************************************************)
EXTENDS IncrementalSync, TransactionWrite, SyncJob, Bisection,
        FiniteSetTheorems, SequenceTheorems, TLAPS

-----------------------------------------------------------------------------
(***************************************************************************)
(* Part one: IncrementalSync.                                              *)
(***************************************************************************)

BatchesValid == \A r \in Runs : \A t \in run[r].batch : validAt[t] >= 0

\* A batch is stored in a later step than it was answered in.
SyncInv == SyncTypeOK /\ BatchesValid

LEMMA IdleIsRun == IdleRun \in Run
<1>1. MaxTime \in Nat
  BY IncrementalSyncAssumption
<1> QED
  BY <1>1 DEF IdleRun, Run

LEMMA Dates ==
  ASSUME SyncTypeOK
  PROVE  /\ Overlap \in Nat /\ MaxTime \in Nat
         /\ now \in Nat /\ now <= MaxTime
         /\ created \in [Txs -> Int] /\ \A t \in Txs : created[t] <= now /\ created[t] >= -1
         /\ validAt \in [Txs -> Int] /\ \A t \in Txs : validAt[t] <= now /\ validAt[t] >= -1
         /\ cursor \in Int /\ cursor <= now /\ cursor >= -1
         /\ slowest \in Nat /\ slowest <= MaxTime
<1>1. Overlap \in Nat /\ MaxTime \in Nat
  BY IncrementalSyncAssumption
<1>2. now \in Nat /\ now <= MaxTime
  BY <1>1 DEF SyncTypeOK
<1>3. created \in [Txs -> -1..now] /\ validAt \in [Txs -> -1..now] /\ cursor \in -1..now
  BY DEF SyncTypeOK
<1>4. slowest \in Nat /\ slowest <= MaxTime
  BY <1>1 DEF SyncTypeOK
<1>5. created \in [Txs -> Int] /\ \A t \in Txs : created[t] <= now /\ created[t] >= -1
  BY <1>2, <1>3
<1>6. validAt \in [Txs -> Int] /\ \A t \in Txs : validAt[t] <= now /\ validAt[t] >= -1
  BY <1>2, <1>3
<1>7. cursor \in Int /\ cursor <= now /\ cursor >= -1
  BY <1>2, <1>3
<1> QED
  BY <1>1, <1>2, <1>4, <1>5, <1>6, <1>7

LEMMA DatesNext ==
  SyncTypeOK' =>
    (/\ Overlap \in Nat /\ MaxTime \in Nat
     /\ now \in Nat /\ now <= MaxTime
     /\ created \in [Txs -> Int] /\ \A t \in Txs : created[t] <= now /\ created[t] >= -1
     /\ validAt \in [Txs -> Int] /\ \A t \in Txs : validAt[t] <= now /\ validAt[t] >= -1
     /\ cursor \in Int /\ cursor <= now /\ cursor >= -1
     /\ slowest \in Nat /\ slowest <= MaxTime)'
<1>1. SyncTypeOK =>
        /\ Overlap \in Nat /\ MaxTime \in Nat
        /\ now \in Nat /\ now <= MaxTime
        /\ created \in [Txs -> Int] /\ \A t \in Txs : created[t] <= now /\ created[t] >= -1
        /\ validAt \in [Txs -> Int] /\ \A t \in Txs : validAt[t] <= now /\ validAt[t] >= -1
        /\ cursor \in Int /\ cursor <= now /\ cursor >= -1
        /\ slowest \in Nat /\ slowest <= MaxTime
  BY Dates
<1> QED
  BY <1>1, PTL

LEMMA Initially == SyncInit => SyncInv
<1> SUFFICES ASSUME SyncInit
             PROVE  SyncTypeOK /\ BatchesValid
  BY DEF SyncInv
<1> DEFINE none == -1
           Time == -1..now
<1>1. now = 0 /\ now \in 0..MaxTime /\ none \in Time /\ slowest \in 0..MaxTime
  <2>1. now = 0 /\ slowest = 0 /\ MaxTime \in Nat
    BY IncrementalSyncAssumption DEF SyncInit
  <2> QED
    BY <2>1
<1>2. /\ created = [t \in Txs |-> none] /\ validAt = [t \in Txs |-> none] /\ cursor = none
      /\ returned = {} /\ stored = {} /\ cut = {} /\ outside = {}
  BY DEF SyncInit, NoCursor
<1>3. \A t \in Txs : ~ (validAt[t] >= 0)
  BY <1>2
<1> HIDE DEF none, Time
<1>4. created \in [Txs -> Time] /\ validAt \in [Txs -> Time] /\ cursor \in Time
  BY <1>1, <1>2
<1>5. run \in [Runs -> Run]
  BY IdleIsRun DEF SyncInit
<1>6. BatchesValid
  BY DEF SyncInit, BatchesValid, IdleRun
<1> QED
  BY <1>1, <1>2, <1>3, <1>4, <1>5, <1>6 DEF SyncTypeOK, Time

\* The clock and the sales: the runs stay as they are.
LEMMA TickKeepsIInv ==
  ASSUME SyncInv, Tick
  PROVE  SyncInv'
<1>1. SyncTypeOK /\ BatchesValid
  BY DEF SyncInv
<1>2. /\ now' = now + 1 /\ now < MaxTime
      /\ UNCHANGED <<created, returned, validAt, stored, cursor, run, cut, outside, slowest>>
  BY DEF Tick, sales, passed
<1>3. now' \in 0..MaxTime
  BY <1>1, <1>2, Dates
<1>4. created' \in [Txs -> -1..now'] /\ validAt' \in [Txs -> -1..now'] /\ cursor' \in -1..now'
  <2>1. -1..now \subseteq -1..now'
    BY <1>1, <1>2, Dates
  <2> QED
    BY <1>1, <1>2, <2>1 DEF SyncTypeOK
<1>5. SyncTypeOK'
  BY <1>1, <1>2, <1>3, <1>4 DEF SyncTypeOK, Run
<1> QED
  BY <1>1, <1>2, <1>5 DEF SyncInv, BatchesValid

LEMMA SaleKeepsIInv ==
  ASSUME SyncInv, NEW t \in Txs, Sale(t)
  PROVE  SyncInv'
<1>1. SyncTypeOK /\ BatchesValid
  BY DEF SyncInv
<1>2. /\ created[t] = -1 /\ created' = [created EXCEPT ![t] = now]
      /\ UNCHANGED <<now, returned, validAt, stored, cursor, run, cut, outside, slowest>>
  BY DEF Sale, passed
<1>3. now \in -1..now
  BY <1>1, Dates
<1>4. created' \in [Txs -> -1..now]
  BY <1>1, <1>2, <1>3 DEF SyncTypeOK
<1>5. t \notin returned
  BY <1>1, <1>2 DEF SyncTypeOK
<1>6. \A u \in Txs : u # t => created'[u] = created[u]
  BY <1>1, <1>2 DEF SyncTypeOK
<1>7. returned' \subseteq {u \in Txs : created'[u] >= 0}
  BY <1>1, <1>2, <1>5, <1>6 DEF SyncTypeOK
<1>8. \A u \in Txs : validAt'[u] >= 0 => u \in returned' /\ created'[u] <= validAt'[u]
  BY <1>1, <1>2, <1>5, <1>6 DEF SyncTypeOK
<1>9. SyncTypeOK'
  BY <1>1, <1>2, <1>4, <1>7, <1>8 DEF SyncTypeOK, Run
<1> QED
  BY <1>1, <1>2, <1>9 DEF SyncInv, BatchesValid

LEMMA AppearKeepsIInv ==
  ASSUME SyncInv, NEW t \in Txs, Appear(t)
  PROVE  SyncInv'
<1>1. SyncTypeOK /\ BatchesValid
  BY DEF SyncInv
<1>2. /\ created[t] >= 0 /\ returned' = returned \union {t}
      /\ UNCHANGED <<now, created, validAt, stored, cursor, run, cut, outside, slowest>>
  BY DEF Appear, passed
<1>3. SyncTypeOK'
  BY <1>1, <1>2 DEF SyncTypeOK, Run
<1> QED
  BY <1>1, <1>2, <1>3 DEF SyncInv, BatchesValid

LEMMA ValidateKeepsIInv ==
  ASSUME SyncInv, NEW t \in Txs, Validate(t)
  PROVE  SyncInv'
<1>1. SyncTypeOK /\ BatchesValid
  BY DEF SyncInv
<1>2. /\ t \in returned /\ validAt' = [validAt EXCEPT ![t] = now]
      /\ UNCHANGED <<now, created, returned, stored, cursor, run, cut, outside, slowest>>
  BY DEF Validate, passed
<1>3. now \in -1..now /\ now >= 0 /\ created[t] <= now
  BY <1>1, Dates
<1>4. validAt' \in [Txs -> -1..now]
  BY <1>1, <1>2, <1>3 DEF SyncTypeOK
<1>5. validAt'[t] = now /\ \A u \in Txs : u # t => validAt'[u] = validAt[u]
  BY <1>1, <1>2 DEF SyncTypeOK
<1>6. \A u \in Txs : validAt'[u] >= 0 => u \in returned' /\ created'[u] <= validAt'[u]
  BY <1>1, <1>2, <1>3, <1>5 DEF SyncTypeOK
<1>7. stored' \subseteq {u \in Txs : validAt'[u] >= 0}
  BY <1>1, <1>2, <1>3, <1>5 DEF SyncTypeOK
<1>8. SyncTypeOK'
  BY <1>1, <1>2, <1>4, <1>6, <1>7 DEF SyncTypeOK, Run
<1>9. BatchesValid'
  <2> SUFFICES ASSUME NEW r \in Runs, NEW u \in run[r].batch
               PROVE  validAt'[u] >= 0
    BY <1>2 DEF BatchesValid
  <2>1. u \in Txs /\ validAt[u] >= 0
    BY <1>1 DEF BatchesValid, SyncTypeOK, Run
  <2> QED
    BY <1>3, <1>5, <2>1
<1> QED
  BY <1>8, <1>9 DEF SyncInv

\* A step of run r to a local state whose batch is of valid sales.
LEMMA RunStep ==
  ASSUME SyncInv, NEW r \in Runs, NEW s \in Run, \A t \in s.batch : validAt[t] >= 0,
         run' = [run EXCEPT ![r] = s],
         now' = now, sales' = sales,
         stored' \subseteq {t \in Txs : validAt[t] >= 0}, cursor' \in -1..now,
         cut' \subseteq Txs, outside' \subseteq Txs, slowest' \in 0..MaxTime
  PROVE  SyncInv'
<1>1. SyncTypeOK /\ BatchesValid
  BY DEF SyncInv
<1>2. run' \in [Runs -> Run]
  BY <1>1 DEF SyncTypeOK
<1>3. SyncTypeOK'
  BY <1>1, <1>2 DEF SyncTypeOK, sales, Run
<1>4. BatchesValid'
  BY <1>1 DEF BatchesValid, SyncTypeOK, sales
<1> QED
  BY <1>3, <1>4 DEF SyncInv

LEMMA BeginKeepsIInv ==
  ASSUME SyncInv, NEW r \in Runs, NEW q \in Requests, Begin(r, q)
  PROVE  SyncInv'
<1>1. SyncTypeOK
  BY DEF SyncInv
<1> DEFINE s == [IdleRun EXCEPT
               !.at = "ask", !.from = FromDate(q), !.until = q.until,
               !.since = IF ~q.full /\ cursor # NoCursor THEN 0 ELSE q.since]
<1>2. q.since \in 0..MaxTime /\ q.until \in 0..MaxTime
  BY IncrementalSyncAssumption
<1>3. FromDate(q) \in Int
  BY <1>1, <1>2, Dates DEF FromDate
<1>4. s \in Run
  <2>1. 0 \in 0..MaxTime
    BY <1>1, Dates
  <2> QED
    BY <1>2, <1>3, <2>1 DEF IdleRun, Run
<1>5. s.batch = {}
  BY DEF IdleRun
<1>6. run' = [run EXCEPT ![r] = s]
  BY DEF Begin
<1> HIDE DEF s
<1> QED
  BY <1>1, <1>4, <1>5, <1>6, RunStep DEF Begin, SyncTypeOK, passed

LEMMA AnsweredRun ==
  ASSUME NEW a \in {"insert", "commit"}, NEW n \in 0..MaxTime,
         NEW b \in SUBSET Txs, NEW m \in SUBSET Txs, NEW u \in SUBSET Txs
  PROVE  [IdleRun EXCEPT !.at = a, !.asked = n, !.batch = b, !.missed = m, !.unasked = u] \in Run
<1>1. 0 \in 0..MaxTime
  BY IncrementalSyncAssumption
<1>2. /\ [IdleRun EXCEPT !.at = a] = [at |-> a, from |-> 0, since |-> 0, until |-> 0,
                                      asked |-> 0, batch |-> {}, missed |-> {}, unasked |-> {}]
  BY DEF IdleRun
<1> DEFINE s1 == [IdleRun EXCEPT !.at = a]
           s2 == [s1 EXCEPT !.asked = n]
           s3 == [s2 EXCEPT !.batch = b]
           s4 == [s3 EXCEPT !.missed = m]
           s5 == [s4 EXCEPT !.unasked = u]
<1>3. s1 \in Run
  BY <1>1, <1>2 DEF Run
<1> HIDE DEF s1
<1>4. s2 \in Run
  BY <1>3 DEF Run
<1> HIDE DEF s2
<1>5. s3 \in Run
  BY <1>4 DEF Run
<1> HIDE DEF s3
<1>6. s4 \in Run
  BY <1>5 DEF Run
<1> HIDE DEF s4
<1>7. s5 \in Run
  BY <1>6 DEF Run
<1> QED
  BY <1>7 DEF s1, s2, s3, s4, s5

LEMMA FetchKeepsIInv ==
  ASSUME SyncInv, NEW r \in Runs, FetchPage(r)
  PROVE  SyncInv'
<1>1. SyncTypeOK
  BY DEF SyncInv
<1>2. PICK answer \in Answered(Matching(r)) :
          run' = [run EXCEPT ![r] = [IdleRun EXCEPT
               !.at = IF answer = {} THEN "commit" ELSE "insert",
               !.asked = now,
               !.batch = {t \in answer : validAt[t] >= 0},
               !.missed = Matching(r) \ answer,
               !.unasked = Unasked(r)]]
  BY DEF FetchPage
<1> DEFINE s == [IdleRun EXCEPT
               !.at = IF answer = {} THEN "commit" ELSE "insert",
               !.asked = now,
               !.batch = {t \in answer : validAt[t] >= 0},
               !.missed = Matching(r) \ answer,
               !.unasked = Unasked(r)]
<1>3. Matching(r) \subseteq Txs /\ answer \subseteq Txs /\ Unasked(r) \subseteq Txs
  BY <1>1 DEF Matching, Unasked, Answered, SyncTypeOK
<1>4. s.batch = {t \in answer : validAt[t] >= 0}
  BY DEF IdleRun
<1>5. s \in Run
  <2> DEFINE next == IF answer = {} THEN "commit" ELSE "insert"
             B == {t \in answer : validAt[t] >= 0}
             M == Matching(r) \ answer
             U == Unasked(r)
  <2>1. now \in 0..MaxTime /\ 0 \in 0..MaxTime
    BY <1>1, Dates
  <2>2. next \in {"insert", "commit"}
    OBVIOUS
  <2>3. B \in SUBSET Txs /\ M \in SUBSET Txs /\ U \in SUBSET Txs
    BY <1>3
  <2>4. s = [IdleRun EXCEPT !.at = next, !.asked = now, !.batch = B, !.missed = M, !.unasked = U]
    OBVIOUS
  <2> HIDE DEF next, B, M, U, s
  <2> QED
    BY <2>1, <2>2, <2>3, <2>4, AnsweredRun
<1>6. run' = [run EXCEPT ![r] = s]
  BY <1>2
<1> HIDE DEF s
<1> QED
  BY <1>1, <1>4, <1>5, <1>6, RunStep DEF FetchPage, SyncTypeOK, passed

LEMMA InsertKeepsIInv ==
  ASSUME SyncInv, NEW r \in Runs, InsertPage(r)
  PROVE  SyncInv'
<1>1. SyncTypeOK /\ BatchesValid /\ run[r] \in Run
  BY DEF SyncInv, SyncTypeOK
<1> DEFINE s == [run[r] EXCEPT !.at = "commit", !.batch = {}]
<1>2. s \in Run /\ s.batch = {}
  BY <1>1 DEF Run
<1>3. run' = [run EXCEPT ![r] = s]
  BY <1>1 DEF InsertPage, Run, SyncTypeOK
<1>4. stored' \subseteq {t \in Txs : validAt[t] >= 0}
  BY <1>1 DEF InsertPage, BatchesValid, SyncTypeOK, Run
<1> HIDE DEF s
<1> QED
  BY <1>1, <1>2, <1>3, <1>4, RunStep DEF InsertPage, SyncTypeOK, passed

LEMMA CommitKeepsIInv ==
  ASSUME SyncInv, NEW r \in Runs, Commit(r)
  PROVE  SyncInv'
<1>1. SyncTypeOK /\ run[r] \in Run
  BY DEF SyncInv, SyncTypeOK
<1>2. run[r].asked \in 0..MaxTime /\ run[r].missed \subseteq Txs /\ run[r].unasked \subseteq Txs
  BY <1>1 DEF Run
<1>3. slowest' \in 0..MaxTime
  <2>1. CASE now - run[r].asked > slowest
    <3>1. slowest' = now - run[r].asked
      BY <2>1 DEF Commit
    <3> QED
      BY <1>1, <1>2, <2>1, <3>1, Dates
  <2>2. CASE ~ (now - run[r].asked > slowest)
    <3>1. slowest' = slowest
      BY <2>2 DEF Commit
    <3> QED
      BY <1>1, <3>1, Dates
  <2> QED
    BY <2>1, <2>2
<1>4. cursor' \in -1..now
  BY <1>1, Dates DEF Commit
<1>5. cut' \subseteq Txs /\ outside' \subseteq Txs
  BY <1>1, <1>2 DEF Commit, SyncTypeOK
<1>6. IdleRun \in Run /\ IdleRun.batch = {}
  BY IdleIsRun DEF IdleRun
<1>7. /\ run' = [run EXCEPT ![r] = IdleRun] /\ now' = now /\ sales' = sales
      /\ stored' \subseteq {t \in Txs : validAt[t] >= 0}
  BY <1>1 DEF Commit, SyncTypeOK
<1> QED
  BY <1>3, <1>4, <1>5, <1>6, <1>7, RunStep

LEMMA ThrowKeepsIInv ==
  ASSUME SyncInv, NEW r \in Runs, RunThrows(r)
  PROVE  SyncInv'
<1>1. SyncTypeOK
  BY DEF SyncInv
<1>2. IdleRun \in Run /\ IdleRun.batch = {}
  BY IdleIsRun DEF IdleRun
<1> QED
  BY <1>1, <1>2, RunStep DEF RunThrows, SyncTypeOK, passed

LEMMA ResetKeepsIInv ==
  ASSUME SyncInv, Reset
  PROVE  SyncInv'
<1>1. SyncTypeOK /\ BatchesValid
  BY DEF SyncInv
<1>2. cursor' \in -1..now
  BY <1>1, Dates DEF Reset, NoCursor
<1>3. SyncTypeOK'
  BY <1>1, <1>2 DEF Reset, sales, passed, SyncTypeOK, Run
<1> QED
  BY <1>1, <1>3 DEF Reset, sales, SyncInv, BatchesValid

LEMMA NextKeepsIInv == SyncInv /\ [SyncNext]_syncVars => SyncInv'
<1> SUFFICES ASSUME SyncInv, [SyncNext]_syncVars
             PROVE  SyncInv'
  OBVIOUS
<1>1. CASE Tick
  BY <1>1, TickKeepsIInv
<1>2. ASSUME NEW t \in Txs, Sale(t) \/ Appear(t) \/ Validate(t)
      PROVE  SyncInv'
  BY <1>2, SaleKeepsIInv, AppearKeepsIInv, ValidateKeepsIInv
<1>3. ASSUME NEW r \in Runs, NEW q \in Requests, Begin(r, q)
      PROVE  SyncInv'
  BY <1>3, BeginKeepsIInv
<1>4. ASSUME NEW r \in Runs, FetchPage(r) \/ InsertPage(r) \/ Commit(r) \/ RunThrows(r)
      PROVE  SyncInv'
  BY <1>4, FetchKeepsIInv, InsertKeepsIInv, CommitKeepsIInv, ThrowKeepsIInv
<1>5. CASE Reset
  BY <1>5, ResetKeepsIInv
<1>6. CASE UNCHANGED syncVars
  BY <1>6 DEF syncVars, sales, passed, SyncInv, SyncTypeOK, BatchesValid, Run
<1> QED
  BY <1>1, <1>2, <1>3, <1>4, <1>5, <1>6 DEF SyncNext

(***************************************************************************)
(* Rows and batches are of sales that Weezevent has shown as valid, and    *)
(* the cursor is no later than the clock (syncTransactionsIncremental).    *)
(***************************************************************************)
THEOREM IncrementalTypeCorrect == SyncSpec => []SyncTypeOK
<1>1. SyncSpec => []SyncInv
  BY Initially, NextKeepsIInv, PTL DEF SyncSpec
<1>2. SyncInv => SyncTypeOK
  BY DEF SyncInv
<1> QED
  BY <1>1, <1>2, PTL

-----------------------------------------------------------------------------
(***************************************************************************)
(* What a run still knows of a sale that may be left behind.  Before it    *)
(* asks, everything earlier than its range is stored or has been passed    *)
(* over, or is outside the dates of the request; afterwards every sale is  *)
(* stored, passed over, left out for a reason that the run remembers, in   *)
(* its batch, or was validated after Weezevent had answered.               *)
(***************************************************************************)
Asking(r) ==
    run[r].at = "ask" =>
        /\ run[r].from <= now \/ run[r].from = run[r].since
        /\ \A t \in Txs : created[t] >= 0 /\ created[t] < run[r].from =>
               t \in stored \/ PassedOver(t) \/ created[t] < run[r].since

Accounted(r, t) ==
    \/ t \in stored
    \/ PassedOver(t)
    \/ t \in run[r].missed
    \/ t \in run[r].unasked
    \/ run[r].at = "insert" /\ t \in run[r].batch
    \/ run[r].asked <= created[t] + Delay(t)

Answering(r) ==
    run[r].at \in {"insert", "commit"} =>
        /\ run[r].asked <= now
        /\ \A t \in Txs : created[t] >= 0 => Accounted(r, t)

LeftBehind == \A r \in Runs : Asking(r) /\ Answering(r)

LEMMA RunDates ==
  ASSUME SyncTypeOK, NEW r \in Runs
  PROVE  /\ run[r] \in Run
         /\ run[r].from \in Int /\ run[r].since \in Nat
         /\ run[r].until \in Nat /\ run[r].asked \in Nat
<1>1. run[r] \in Run /\ MaxTime \in Nat
  BY Dates DEF SyncTypeOK
<1>2. /\ run[r].from \in Int /\ run[r].since \in 0..MaxTime
      /\ run[r].until \in 0..MaxTime /\ run[r].asked \in 0..MaxTime
  BY <1>1 DEF Run
<1> QED
  BY <1>1, <1>2

LEMMA DelayIs ==
  ASSUME SyncTypeOK, NEW t \in Txs
  PROVE  /\ Delay(t) \in Int
         /\ validAt[t] >= 0 => Delay(t) = validAt[t] - created[t]
         /\ ~ (validAt[t] >= 0) => Delay(t) = now - created[t]
  BY Dates DEF Delay

LEMMA DelayIsNext ==
  ASSUME SyncTypeOK', NEW t \in Txs
  PROVE  /\ Delay(t)' \in Int
         /\ validAt'[t] >= 0 => Delay(t)' = validAt'[t] - created'[t]
         /\ ~ (validAt'[t] >= 0) => Delay(t)' = now' - created'[t]
  BY DatesNext DEF Delay

(***************************************************************************)
(* What no step undoes for a sale that has been made, and what is true of  *)
(* one that is being made.                                                 *)
(***************************************************************************)
Onward(t) ==
    /\ created'[t] = created[t]
    /\ Delay(t) <= Delay(t)'
    /\ PassedOver(t) => PassedOver(t)'
    /\ t \in stored => t \in stored'

\* A delay only grows.
LEMMA DelayGrows ==
  ASSUME SyncTypeOK, SyncTypeOK', NEW t \in Txs,
         created'[t] = created[t], now <= now',
         validAt'[t] = validAt[t] \/ (validAt[t] = -1 /\ validAt'[t] = now)
  PROVE  Delay(t) <= Delay(t)'
<1>1. /\ now \in Nat /\ now' \in Nat /\ created[t] \in Int
      /\ validAt[t] \in Int /\ validAt[t] <= now /\ validAt[t] >= -1
  BY Dates, DatesNext
<1>2. /\ Delay(t) = (IF validAt[t] >= 0 THEN validAt[t] ELSE now) - created[t]
      /\ Delay(t)' = (IF validAt'[t] >= 0 THEN validAt'[t] ELSE now') - created[t]
  BY DEF Delay
<1>3. CASE validAt'[t] = validAt[t]
  BY <1>1, <1>2, <1>3
<1>4. CASE validAt[t] = -1 /\ validAt'[t] = now
  BY <1>1, <1>2, <1>4
<1> QED
  BY <1>3, <1>4

LEMMA MadeIsOnward ==
  ASSUME SyncTypeOK, SyncTypeOK', NEW t \in Txs,
         created'[t] = created[t], now <= now',
         validAt'[t] = validAt[t] \/ (validAt[t] = -1 /\ validAt'[t] = now),
         stored \subseteq stored', cut \subseteq cut', outside \subseteq outside',
         slowest <= slowest'
  PROVE  Onward(t)
<1>1. Delay(t) <= Delay(t)'
  BY DelayGrows
<1>2. Delay(t) \in Int /\ Delay(t)' \in Int
  BY DelayIs, DelayIsNext
<1>3. slowest \in Int /\ slowest' \in Int /\ Overlap \in Int
  BY Dates, DatesNext
<1>4. PassedOver(t) => PassedOver(t)'
  BY <1>1, <1>2, <1>3 DEF PassedOver
<1> QED
  BY <1>1, <1>4 DEF Onward

\* What a step does to the sales that there are, unless it makes one.
LEMMA StepsAreOnward ==
  ASSUME SyncInv, SyncInv', [SyncNext]_syncVars, ~ \E u \in Txs : Sale(u), NEW t \in Txs
  PROVE  Onward(t)
<1>1. SyncTypeOK /\ SyncTypeOK'
  BY DEF SyncInv
<1>2. now \in Nat /\ slowest \in Nat
  BY <1>1, Dates
<1>3. CASE Tick
  <2>1. now <= now' /\ slowest <= slowest'
    BY <1>2, <1>3 DEF Tick, passed
  <2> QED
    BY <1>1, <1>3, <2>1, MadeIsOnward DEF Tick, sales, passed
<1>4. ASSUME NEW u \in Txs, Appear(u) \/ Validate(u)
      PROVE  Onward(t)
  <2>1. now <= now' /\ slowest <= slowest'
    BY <1>2, <1>4 DEF Appear, Validate, passed
  <2>2. validAt'[t] = validAt[t] \/ (validAt[t] = -1 /\ validAt'[t] = now)
    BY <1>1, <1>4 DEF Appear, Validate, SyncTypeOK
  <2> QED
    BY <1>1, <1>4, <2>1, <2>2, MadeIsOnward DEF Appear, Validate, passed
<1>5. ASSUME NEW r \in Runs, Commit(r)
      PROVE  Onward(t)
  <2>1. run[r].asked \in Nat
    BY <1>1, RunDates
  <2>2. now <= now' /\ slowest <= slowest'
    BY <1>2, <1>5, <2>1 DEF Commit
  <2> QED
    BY <1>1, <1>5, <2>2, MadeIsOnward DEF Commit, sales
<1>6. CASE \/ \E r \in Runs : \/ \E q \in Requests : Begin(r, q)
                              \/ FetchPage(r) \/ InsertPage(r) \/ RunThrows(r)
           \/ Reset
           \/ UNCHANGED syncVars
  <2>1. UNCHANGED <<now, created, validAt, cut, outside, slowest>> /\ stored \subseteq stored'
    BY <1>6 DEF Begin, FetchPage, InsertPage, RunThrows, Reset, syncVars, sales, passed
  <2>2. now <= now' /\ slowest <= slowest'
    BY <1>2, <2>1
  <2> QED
    BY <1>1, <2>1, <2>2, MadeIsOnward
<1> QED
  BY <1>3, <1>4, <1>5, <1>6 DEF SyncNext

\* A run in which nothing happens.
LEMMA BystanderKnows ==
  ASSUME SyncInv, SyncInv', NEW r \in Runs, Asking(r), Answering(r), run'[r] = run[r],
         now <= now', \A t \in Txs : Onward(t)
  PROVE  Asking(r)' /\ Answering(r)'
<1>1. SyncTypeOK /\ SyncTypeOK'
  BY DEF SyncInv
<1>2. now \in Nat /\ now' \in Nat /\ created \in [Txs -> Int]
  BY <1>1, Dates, DatesNext
<1>3. run[r].from \in Int /\ run[r].asked \in Nat
  BY <1>1, RunDates
<1>4. ASSUME NEW t \in Txs, created[t] >= 0, Accounted(r, t)
      PROVE  Accounted(r, t)'
  <2>1. Onward(t) /\ Delay(t) \in Int /\ Delay(t)' \in Int /\ created[t] \in Int
    BY <1>1, <1>2, DelayIs, DelayIsNext
  <2>2. run[r].asked <= created[t] + Delay(t) => run[r].asked <= created'[t] + Delay(t)'
    BY <1>3, <2>1 DEF Onward
  <2> QED
    BY <1>4, <2>1, <2>2 DEF Accounted, Onward
<1>5. Answering(r)'
  <2>1. run[r].asked <= now => run[r].asked <= now'
    BY <1>2, <1>3
  <2>2. \A t \in Txs : created'[t] = created[t]
    BY DEF Onward
  <2> QED
    BY <1>4, <2>1, <2>2 DEF Answering
<1>6. Asking(r)'
  <2>1. run[r].from <= now => run[r].from <= now'
    BY <1>2, <1>3
  <2> QED
    BY <2>1 DEF Asking, Onward
<1> QED
  BY <1>5, <1>6

LEMMA SaleIsKnown ==
  ASSUME SyncInv, SyncInv', LeftBehind, NEW u \in Txs, Sale(u)
  PROVE  LeftBehind'
<1>1. SyncTypeOK /\ SyncTypeOK'
  BY DEF SyncInv
<1>2. /\ created[u] = -1 /\ created' = [created EXCEPT ![u] = now]
      /\ UNCHANGED <<now, returned, validAt, stored, cursor, run, cut, outside, slowest>>
  BY DEF Sale, passed
<1>3. now \in Nat /\ slowest \in Nat
  BY <1>1, Dates
<1>4. \A t \in Txs : t # u => created'[t] = created[t]
  BY <1>1, <1>2 DEF SyncTypeOK
<1>5. created'[u] = now
  BY <1>1, <1>2 DEF SyncTypeOK
<1>6. ASSUME NEW t \in Txs, t # u
      PROVE  Onward(t)
  <2>1. now <= now' /\ slowest <= slowest'
    BY <1>2, <1>3
  <2> QED
    BY <1>1, <1>2, <1>4, <1>6, <2>1, MadeIsOnward
<1>7. created'[u] + Delay(u)' = now
  <2>1. ~ (validAt[u] >= 0)
    BY <1>1, <1>2 DEF SyncTypeOK
  <2>2. Delay(u)' = now - now
    BY <1>2, <1>5, <2>1 DEF Delay
  <2> QED
    BY <1>3, <1>5, <2>2
<1>8. ASSUME NEW r \in Runs
      PROVE  Asking(r)' /\ Answering(r)'
  <2>1. Asking(r) /\ Answering(r)
    BY DEF LeftBehind
  <2>2. run[r].from \in Int /\ run[r].asked \in Nat /\ run[r].since \in Nat
    BY <1>1, RunDates
  <2>3. Asking(r)'
    <3> SUFFICES ASSUME run[r].at = "ask"
                 PROVE  Asking(r)'
      BY <1>2 DEF Asking
    <3>1. now < run[r].from => now < run[r].since
      BY <1>3, <2>1, <2>2 DEF Asking
    <3>2. ASSUME NEW t \in Txs, created'[t] >= 0, created'[t] < run[r].from
          PROVE  t \in stored' \/ PassedOver(t)' \/ created'[t] < run[r].since
      <4>1. CASE t = u
        BY <1>5, <3>1, <3>2, <4>1
      <4>2. CASE t # u
        BY <1>6, <2>1, <3>2, <4>2 DEF Asking, Onward
      <4> QED
        BY <4>1, <4>2
    <3> QED
      BY <1>2, <2>1, <3>2 DEF Asking
  <2>4. Answering(r)'
    <3> SUFFICES ASSUME run[r].at \in {"insert", "commit"}
                 PROVE  Answering(r)'
      BY <1>2 DEF Answering
    <3>1. run[r].asked <= now
      BY <2>1 DEF Answering
    <3>2. ASSUME NEW t \in Txs, created'[t] >= 0
          PROVE  Accounted(r, t)'
      <4>1. CASE t = u
        BY <1>2, <1>7, <3>1, <4>1 DEF Accounted
      <4>2. CASE t # u
        <5>1. Onward(t) /\ Delay(t) \in Int /\ Delay(t)' \in Int /\ created[t] \in Int
          BY <1>1, <1>6, <4>2, DelayIs, DelayIsNext, Dates
        <5>2. Accounted(r, t)
          BY <2>1, <3>2, <5>1 DEF Answering, Onward
        <5>3. run[r].asked <= created[t] + Delay(t) => run[r].asked <= created'[t] + Delay(t)'
          BY <2>2, <5>1 DEF Onward
        <5> QED
          BY <1>2, <5>1, <5>2, <5>3 DEF Accounted, Onward
      <4> QED
        BY <4>1, <4>2
    <3> QED
      BY <1>2, <3>1, <3>2 DEF Answering
  <2> QED
    BY <2>3, <2>4
<1> QED
  BY <1>8 DEF LeftBehind

LEMMA BeginKnows ==
  ASSUME SyncInv, SyncInv', NothingForgotten, NEW r \in Runs, NEW q \in Requests, Begin(r, q),
         \A t \in Txs : Onward(t)
  PROVE  Asking(r)' /\ Answering(r)'
<1>1. SyncTypeOK
  BY DEF SyncInv
<1>2. /\ run'[r].at = "ask" /\ run'[r].from = FromDate(q)
      /\ run'[r].since = (IF ~q.full /\ cursor # NoCursor THEN 0 ELSE q.since)
      /\ UNCHANGED <<now, created, stored>>
  BY <1>1 DEF Begin, IdleRun, sales, SyncTypeOK
<1>3. CASE ~q.full /\ cursor # NoCursor
  <2>1. run'[r].from = cursor - Overlap
    BY <1>2, <1>3 DEF FromDate
  <2>2. cursor - Overlap <= now
    BY <1>1, Dates
  <2>3. ASSUME NEW t \in Txs, created'[t] >= 0, created'[t] < cursor - Overlap
        PROVE  t \in stored' \/ PassedOver(t)'
    BY <1>2, <1>3, <2>3 DEF NothingForgotten, Forgotten, Onward
  <2> QED
    BY <1>2, <2>1, <2>2, <2>3 DEF Asking, Answering
<1>4. CASE ~ (~q.full /\ cursor # NoCursor)
  <2>1. run'[r].from = run'[r].since
    BY <1>2, <1>4 DEF FromDate
  <2> QED
    BY <1>2, <2>1 DEF Asking, Answering
<1> QED
  BY <1>3, <1>4

LEMMA FetchKnows ==
  ASSUME SyncInv, SyncInv', NEW r \in Runs, Asking(r), FetchPage(r), \A t \in Txs : Onward(t)
  PROVE  Asking(r)' /\ Answering(r)'
<1>1. SyncTypeOK
  BY DEF SyncInv
<1>2. PICK answer \in Answered(Matching(r)) :
          run' = [run EXCEPT ![r] = [IdleRun EXCEPT
               !.at = IF answer = {} THEN "commit" ELSE "insert",
               !.asked = now,
               !.batch = {t \in answer : validAt[t] >= 0},
               !.missed = Matching(r) \ answer,
               !.unasked = Unasked(r)]]
  BY DEF FetchPage
<1>3. /\ run'[r].at = (IF answer = {} THEN "commit" ELSE "insert")
      /\ run'[r].asked = now
      /\ run'[r].batch = {t \in answer : validAt[t] >= 0}
      /\ run'[r].missed = Matching(r) \ answer
      /\ run'[r].unasked = Unasked(r)
  BY <1>1, <1>2 DEF IdleRun, SyncTypeOK
<1>4. UNCHANGED <<now, created, validAt, stored>> /\ run[r].at = "ask"
  BY DEF FetchPage, sales
<1>5. /\ now \in Nat /\ run[r].from \in Int /\ run[r].until \in Nat /\ run[r].since \in Nat
  BY <1>1, Dates, RunDates
<1>6. ASSUME NEW t \in Txs, created[t] >= 0
      PROVE  Accounted(r, t)'
  <2>1. created[t] \in Int /\ Delay(t)' = Delay(t) /\ created'[t] = created[t]
    BY <1>1, <1>4, Dates DEF Delay
  <2>2. CASE ~ (validAt[t] >= 0)
    <3>1. Delay(t) = now - created[t]
      BY <1>1, <2>2, DelayIs
    <3> QED
      BY <1>3, <1>5, <2>1, <3>1 DEF Accounted
  <2>3. CASE validAt[t] >= 0
    <3>1. t \in returned
      BY <1>1, <2>3 DEF SyncTypeOK
    <3>2. CASE t \in Matching(r)
      <4>1. CASE t \in answer
        BY <1>3, <2>3, <4>1 DEF Accounted
      <4>2. CASE t \notin answer
        BY <1>3, <3>2, <4>2 DEF Accounted
      <4> QED
        BY <4>1, <4>2
    <3>3. CASE created[t] > run[r].until \/ created[t] < run[r].since
      BY <1>3, <3>1, <3>3 DEF Accounted, Unasked
    <3>4. CASE t \notin Matching(r) /\ ~ (created[t] > run[r].until) /\ ~ (created[t] < run[r].since)
      <4>1. created[t] < run[r].from
        BY <1>5, <2>1, <3>1, <3>4 DEF Matching
      <4>2. t \in stored \/ PassedOver(t)
        BY <1>4, <1>6, <3>4, <4>1 DEF Asking
      <4> QED
        BY <4>2 DEF Accounted, Onward
    <3> QED
      BY <3>2, <3>3, <3>4
  <2> QED
    BY <2>2, <2>3
<1>7. run'[r].asked <= now'
  BY <1>3, <1>4, <1>5
<1>8. run'[r].at # "ask"
  BY <1>3
<1> QED
  BY <1>4, <1>6, <1>7, <1>8 DEF Asking, Answering

LEMMA InsertKnows ==
  ASSUME SyncInv, SyncInv', NEW r \in Runs, Answering(r), InsertPage(r), \A t \in Txs : Onward(t)
  PROVE  Asking(r)' /\ Answering(r)'
<1>1. SyncTypeOK
  BY DEF SyncInv
<1>2. /\ run[r].at = "insert" /\ run'[r].at = "commit" /\ run'[r].asked = run[r].asked
      /\ run'[r].missed = run[r].missed /\ run'[r].unasked = run[r].unasked
      /\ stored' = stored \union (run[r].batch \ Unreadable)
      /\ UNCHANGED <<now, created, validAt>>
  BY <1>1 DEF InsertPage, SyncTypeOK, Run, sales
<1>3. ASSUME NEW t \in Txs, created[t] >= 0
      PROVE  Accounted(r, t)'
  <2>1. Accounted(r, t) /\ Onward(t) /\ Delay(t)' = Delay(t)
    BY <1>2, <1>3 DEF Answering, Delay
  <2>2. CASE t \in run[r].batch
    <3>1. t \in Unreadable => PassedOver(t)'
      BY DEF PassedOver
    <3> QED
      BY <1>2, <2>2, <3>1 DEF Accounted
  <2>3. CASE t \notin run[r].batch
    BY <1>2, <2>1, <2>3 DEF Accounted, Onward
  <2> QED
    BY <2>2, <2>3
<1> QED
  BY <1>2, <1>3 DEF Asking, Answering

\* A run that has ended knows nothing.
LEMMA IdleKnows ==
  ASSUME SyncInv, NEW r \in Runs, run' = [run EXCEPT ![r] = IdleRun]
  PROVE  Asking(r)' /\ Answering(r)'
<1>1. run'[r].at = "idle"
  BY DEF SyncInv, SyncTypeOK, IdleRun
<1> QED
  BY <1>1 DEF Asking, Answering

LEMMA NextKnows ==
  ASSUME SyncInv, SyncInv', LeftBehind, NothingForgotten, [SyncNext]_syncVars
  PROVE  LeftBehind'
<1>1. CASE \E u \in Txs : Sale(u)
  BY <1>1, SaleIsKnown
<1>2. CASE ~ \E u \in Txs : Sale(u)
  <2>1. \A t \in Txs : Onward(t)
    BY <1>2, StepsAreOnward
  <2>2. now <= now'
    <3>1. now \in Nat
      BY Dates DEF SyncInv
    <3>2. now' = now \/ now' = now + 1
      BY <1>2 DEF SyncNext, syncVars, Tick, Appear, Validate, Begin, FetchPage, InsertPage,
                  Commit, RunThrows, Reset
    <3> QED
      BY <3>1, <3>2
  <2> SUFFICES ASSUME NEW r \in Runs
               PROVE  Asking(r)' /\ Answering(r)'
    BY DEF LeftBehind
  <2>3. Asking(r) /\ Answering(r)
    BY DEF LeftBehind
  <2>4. CASE run'[r] = run[r]
    BY <2>1, <2>2, <2>3, <2>4, BystanderKnows
  <2>5. ASSUME NEW q \in Requests, Begin(r, q)
        PROVE  Asking(r)' /\ Answering(r)'
    BY <2>1, <2>5, BeginKnows
  <2>6. CASE FetchPage(r)
    BY <2>1, <2>3, <2>6, FetchKnows
  <2>7. CASE InsertPage(r)
    BY <2>1, <2>3, <2>7, InsertKnows
  <2>8. CASE Commit(r) \/ RunThrows(r)
    BY <2>8, IdleKnows DEF Commit, RunThrows
  <2>9. ASSUME NEW s \in Runs, s # r,
               (\E q \in Requests : Begin(s, q)) \/ FetchPage(s) \/ InsertPage(s) \/ Commit(s)
                   \/ RunThrows(s)
        PROVE  run'[r] = run[r]
    BY <2>9 DEF Begin, FetchPage, InsertPage, Commit, RunThrows, SyncInv, SyncTypeOK
  <2>10. CASE Tick \/ (\E t \in Txs : Appear(t) \/ Validate(t)) \/ Reset \/ UNCHANGED syncVars
    <3>1. run' = run
      BY <2>10 DEF Tick, Appear, Validate, Reset, syncVars
    <3> QED
      BY <2>4, <3>1
  <2> QED
    BY <1>2, <2>4, <2>5, <2>6, <2>7, <2>8, <2>9, <2>10 DEF SyncNext
<1> QED
  BY <1>1, <1>2

(***************************************************************************)
(* The commit: a sale that the new cursor leaves behind is accounted for   *)
(* by the run, and what the run remembers goes into the histories.         *)
(***************************************************************************)
LEMMA CommitForgetsNothing ==
  ASSUME SyncInv, SyncInv', LeftBehind, NEW r \in Runs, Commit(r), \A t \in Txs : Onward(t)
  PROVE  NothingForgotten'
<1>1. SyncTypeOK /\ SyncTypeOK'
  BY DEF SyncInv
<1>2. /\ run[r].at = "commit" /\ cursor' = now
      /\ cut' = cut \union run[r].missed /\ outside' = outside \union run[r].unasked
      /\ UNCHANGED <<now, created, validAt, stored>>
  BY DEF Commit, sales
<1>3. now - run[r].asked <= slowest'
  <2>1. now \in Nat /\ slowest \in Nat /\ run[r].asked \in Nat
    BY <1>1, Dates, RunDates
  <2> QED
    BY <2>1 DEF Commit
<1> SUFFICES ASSUME NEW t \in Txs, created[t] >= 0, t \notin stored, created[t] < now - Overlap
             PROVE  PassedOver(t)'
  BY <1>2 DEF NothingForgotten, Forgotten
<1>4. Accounted(r, t) /\ Onward(t)
  BY <1>2 DEF LeftBehind, Answering
<1>5. CASE run[r].asked <= created[t] + Delay(t)
  <2>1. /\ now \in Int /\ slowest' \in Int /\ run[r].asked \in Int /\ created[t] \in Int
        /\ Overlap \in Int /\ Delay(t) \in Int /\ Delay(t)' = Delay(t)
    BY <1>1, <1>2, Dates, DatesNext, RunDates, DelayIs DEF Delay
  <2>2. Delay(t)' + slowest' > Overlap
    BY <1>3, <1>5, <2>1
  <2> QED
    BY <2>2 DEF PassedOver
<1> QED
  BY <1>2, <1>4, <1>5 DEF Accounted, Onward, PassedOver

LEMMA NextForgetsNothing ==
  ASSUME SyncInv, SyncInv', LeftBehind, NothingForgotten, [SyncNext]_syncVars
  PROVE  NothingForgotten'
<1>1. CASE \E u \in Txs : Sale(u)
  <2> PICK u \in Txs : Sale(u)
    BY <1>1
  <2>1. SyncTypeOK /\ SyncTypeOK'
    BY DEF SyncInv
  <2>2. created' = [created EXCEPT ![u] = now]
    BY DEF Sale
  <2>3. /\ created'[u] = now /\ \A t \in Txs : t # u => created'[t] = created[t]
        /\ UNCHANGED <<now, validAt, stored, cursor, cut, outside, slowest>>
    BY <2>1, <2>2 DEF Sale, passed, SyncTypeOK
  <2>4. ~ (now < cursor - Overlap)
    BY <2>1, Dates
  <2>5. \A t \in Txs : t # u => (PassedOver(t) => PassedOver(t)')
    BY <2>3 DEF PassedOver, Delay
  <2> QED
    BY <2>3, <2>4, <2>5 DEF NothingForgotten, Forgotten
<1>2. CASE ~ \E u \in Txs : Sale(u)
  <2>1. \A t \in Txs : Onward(t)
    BY <1>2, StepsAreOnward
  <2>2. ASSUME NEW r \in Runs, Commit(r)
        PROVE  NothingForgotten'
    BY <2>1, <2>2, CommitForgetsNothing
  <2>3. CASE Reset
    BY <2>3 DEF Reset, NothingForgotten, Forgotten
  <2>4. ASSUME cursor' = cursor
        PROVE  NothingForgotten'
    BY <2>1, <2>4 DEF NothingForgotten, Forgotten, Onward
  <2>5. CASE ~Reset /\ ~ \E r \in Runs : Commit(r)
    <3>1. cursor' = cursor
      BY <1>2, <2>5 DEF SyncNext, syncVars, Tick, Appear, Validate, Begin, FetchPage,
                        InsertPage, RunThrows
    <3> QED
      BY <2>4, <3>1
  <2> QED
    BY <2>2, <2>3, <2>5
<1> QED
  BY <1>1, <1>2

LEMMA InitiallyKnown == SyncInit => LeftBehind /\ NothingForgotten
<1> SUFFICES ASSUME SyncInit
             PROVE  LeftBehind /\ NothingForgotten
  OBVIOUS
<1>1. cursor = NoCursor
  BY DEF SyncInit
<1>2. \A r \in Runs : run[r].at = "idle"
  BY DEF SyncInit, IdleRun
<1> QED
  BY <1>1, <1>2 DEF LeftBehind, Asking, Answering, NothingForgotten, Forgotten

(***************************************************************************)
(* A sale behind the cursor that is not stored was cut off by a full       *)
(* answer, excluded by the dates of a request, not readable, or validated  *)
(* too late for the overlap and the time that runs take, however many runs *)
(* interleave, throw or are undone by a reset                              *)
(* (syncTransactionsIncremental, resetSyncState).                          *)
(***************************************************************************)
THEOREM CursorForgetsNothing == SyncSpec => []NothingForgotten
<1> DEFINE All == SyncInv /\ LeftBehind /\ NothingForgotten
<1>1. SyncInit => All
  BY Initially, InitiallyKnown
<1>2. All /\ [SyncNext]_syncVars => All'
  <2> SUFFICES ASSUME All, [SyncNext]_syncVars
               PROVE  All'
    OBVIOUS
  <2>1. SyncInv'
    BY NextKeepsIInv
  <2> QED
    BY <2>1, NextKnows, NextForgetsNothing
<1>3. All => NothingForgotten
  OBVIOUS
<1> QED
  BY <1>1, <1>2, <1>3, PTL DEF SyncSpec

-----------------------------------------------------------------------------
(***************************************************************************)
(* Part two: TransactionWrite.                                             *)
(***************************************************************************)
USE TransactionWriteAssumption
USE DEF writtenTables, locals, writeVars, Goto, Idle, Version, ItemId, Item, Steps

-----------------------------------------------------------------------------
(* The inductive invariant, one named part per concern. *)

\* A writer past its fetch holds a version that Weezevent has returned.
Fetched(w) ==
    /\ step[w] # "idle" => rounds[w] >= 1
    /\ step[w] \in {"create", "check", "items", "row", "delete", "replace", "find", "pay"}
          => got[w] \in 1..remote
    /\ got[w] <= remote
    /\ step[w] = "existing" /\ ~InRun(w) => got[w] \in 1..remote

RowFromRemote == row <= remote

\* Without an overlap one writer at most is at work, and it holds nothing older than the row.
Alone ==
    ~overlapped =>
        /\ \A w, v \in Writers : ~Idle(w) /\ ~Idle(v) => w = v
        /\ \A w \in Writers : step[w] = "row" => row <= got[w]

\* As long as a stored transaction has no items, some writer is about to write them.
Inserts(w) == step[w] \in {"check", "items", "delete", "replace"}

ItemsOnTheWay ==
    throws = 0 /\ row # 0 => items # {} \/ \E w \in Writers : Inserts(w)

WInv ==
    /\ WriteTypeOK
    /\ \A w \in Writers : Fetched(w)
    /\ RowFromRemote
    /\ Alone
    /\ ItemsOnTheWay

-----------------------------------------------------------------------------
(* One lemma per step. *)

LEMMA WriteStart == ASSUME WInv, NEW w \in Writers, Start(w) PROVE WInv'
<1> USE DEF Start
<1>1. WriteTypeOK'
  <2>1. step' \in [Writers -> Steps]
    BY DEF WInv, WriteTypeOK
  <2>2. rounds' \in [Writers -> 0..MaxRounds]
    BY DEF WInv, WriteTypeOK
  <2>3. ASSUME NEW v \in Writers, step'[v] = "pay"
        PROVE  target'[v] \in ItemId
    <3>1. step[v] = "pay"
      BY <2>3 DEF WInv, WriteTypeOK
    <3> QED
      BY <3>1 DEF WInv, WriteTypeOK
  <2>4. overlapped' \in BOOLEAN
    BY DEF WInv, WriteTypeOK
  <2> QED
    BY <2>1, <2>2, <2>3, <2>4 DEF WInv, WriteTypeOK
<1>2. RowFromRemote'
  BY DEF WInv, WriteTypeOK, RowFromRemote, Fetched
<1>3. ASSUME NEW v \in Writers PROVE Fetched(v)'
  BY DEF WInv, WriteTypeOK, Fetched, InRun
<1>4. Alone'
  <2>1. CASE overlapped'
    BY <2>1 DEF Alone
  <2>2. CASE ~overlapped'
    <3>1. \A v \in Writers : step[v] = "idle"
      BY <2>2 DEF Quiet
    <3>2. /\ step'[w] \in {"existing", "fetch"}
          /\ \A v \in Writers : v # w => step'[v] = "idle"
      BY <3>1 DEF WInv, WriteTypeOK
    <3> QED
      BY <3>2 DEF Alone
  <2> QED
    BY <2>1, <2>2
<1>5. ItemsOnTheWay'
  BY DEF WInv, WriteTypeOK, ItemsOnTheWay, Inserts
<1> QED
  BY <1>1, <1>2, <1>3, <1>4, <1>5 DEF WInv

LEMMA WriteFetch == ASSUME WInv, NEW w \in Writers, Fetch(w) PROVE WInv'
<1> DEFINE to == CASE InRun(w) -> "create"
                   [] Kind[w] = "chunk" -> "existing"
                   [] Kind[w] = "upsert" -> "row"
<1>1. /\ step[w] = "fetch" /\ got' = [got EXCEPT ![w] = remote] /\ step' = [step EXCEPT ![w] = to]
      /\ UNCHANGED <<remote, writtenTables, known, target, rounds, throws, overlapped>>
  BY DEF Fetch
<1>2. to \in {"create", "existing", "row"} /\ (to = "existing" => ~InRun(w))
  <2>1. InRun(w) \/ (~InRun(w) /\ Kind[w] = "chunk") \/ (~InRun(w) /\ Kind[w] = "upsert")
    BY DEF InRun, Kinds
  <2>2. CASE InRun(w)
    BY <2>2 DEF InRun
  <2>3. CASE ~InRun(w) /\ Kind[w] = "chunk"
    BY <2>3
  <2>4. CASE ~InRun(w) /\ Kind[w] = "upsert"
    BY <2>4
  <2> QED
    BY <2>1, <2>2, <2>3, <2>4
<1> HIDE DEF to
<1>3. WriteTypeOK'
  BY <1>1, <1>2 DEF WInv, WriteTypeOK
<1>4. RowFromRemote'
  BY <1>1 DEF WInv, WriteTypeOK, RowFromRemote
<1>5. ASSUME NEW v \in Writers PROVE Fetched(v)'
  BY <1>1, <1>2 DEF WInv, WriteTypeOK, Fetched, InRun
<1>6. Alone'
  BY <1>1, <1>2 DEF WInv, WriteTypeOK, Alone, RowFromRemote
<1>7. ItemsOnTheWay'
  BY <1>1 DEF WInv, WriteTypeOK, ItemsOnTheWay, Inserts
<1> QED
  BY <1>3, <1>4, <1>5, <1>6, <1>7 DEF WInv

LEMMA WriteReadExisting == ASSUME WInv, NEW w \in Writers, ReadExisting(w) PROVE WInv'
<1> USE DEF ReadExisting
<1>1. WriteTypeOK'
  BY DEF WInv, WriteTypeOK, Fetched
<1>2. RowFromRemote'
  BY DEF WInv, WriteTypeOK, RowFromRemote, Fetched
<1>3. ASSUME NEW v \in Writers PROVE Fetched(v)'
  BY DEF WInv, WriteTypeOK, Fetched, InRun
<1>4. Alone'
  BY DEF WInv, WriteTypeOK, Alone, RowFromRemote, Quiet
<1>5. ItemsOnTheWay'
  BY DEF WInv, WriteTypeOK, ItemsOnTheWay, Inserts
<1> QED
  BY <1>1, <1>2, <1>3, <1>4, <1>5 DEF WInv

LEMMA WriteSkip == ASSUME WInv, NEW w \in Writers, Skip(w) PROVE WInv'
<1> USE DEF Skip, End
<1>1. WriteTypeOK'
  BY DEF WInv, WriteTypeOK, Fetched
<1>2. RowFromRemote'
  BY DEF WInv, WriteTypeOK, RowFromRemote, Fetched
<1>3. ASSUME NEW v \in Writers PROVE Fetched(v)'
  BY DEF WInv, WriteTypeOK, Fetched
<1>4. Alone'
  BY DEF WInv, WriteTypeOK, Alone, RowFromRemote, Quiet
<1>5. ItemsOnTheWay'
  BY DEF WInv, WriteTypeOK, ItemsOnTheWay, Inserts
<1> QED
  BY <1>1, <1>2, <1>3, <1>4, <1>5 DEF WInv

LEMMA WriteCreate == ASSUME WInv, NEW w \in Writers, Create(w) PROVE WInv'
<1> USE DEF Create
<1>1. WriteTypeOK'
  BY DEF WInv, WriteTypeOK, Fetched
<1>2. RowFromRemote'
  BY DEF WInv, WriteTypeOK, RowFromRemote, Fetched
<1>3. ASSUME NEW v \in Writers PROVE Fetched(v)'
  BY DEF WInv, WriteTypeOK, Fetched
<1>4. Alone'
  BY DEF WInv, WriteTypeOK, Alone, RowFromRemote, Quiet
<1>5. ItemsOnTheWay'
  BY DEF WInv, WriteTypeOK, ItemsOnTheWay, Inserts
<1> QED
  BY <1>1, <1>2, <1>3, <1>4, <1>5 DEF WInv

LEMMA WriteCheckItems == ASSUME WInv, NEW w \in Writers, CheckItems(w) PROVE WInv'
<1> USE DEF CheckItems, HasItems
<1>1. WriteTypeOK'
  BY DEF WInv, WriteTypeOK, Fetched
<1>2. RowFromRemote'
  BY DEF WInv, WriteTypeOK, RowFromRemote, Fetched
<1>3. ASSUME NEW v \in Writers PROVE Fetched(v)'
  BY DEF WInv, WriteTypeOK, Fetched
<1>4. Alone'
  BY DEF WInv, WriteTypeOK, Alone, RowFromRemote, Quiet
<1>5. ItemsOnTheWay'
  BY DEF WInv, WriteTypeOK, ItemsOnTheWay, Inserts
<1> QED
  BY <1>1, <1>2, <1>3, <1>4, <1>5 DEF WInv

LEMMA WriteKeepItems == ASSUME WInv, NEW w \in Writers, KeepItems(w) PROVE WInv'
<1> USE DEF KeepItems, HasItems, End
<1>1. WriteTypeOK'
  <2>1. /\ step' \in [Writers -> Steps] /\ got' \in [Writers -> 0..MaxVersion]
        /\ known' \in [Writers -> BOOLEAN] /\ target' \in [Writers -> ItemId \union {<<>>}]
    BY DEF WInv, WriteTypeOK
  <2>2. ASSUME NEW v \in Writers, step'[v] = "pay"
        PROVE  target'[v] \in ItemId
    <3>1. v # w
      BY <2>2 DEF WInv, WriteTypeOK
    <3>2. step[v] = "pay" /\ target'[v] = target[v]
      BY <2>2, <3>1 DEF WInv, WriteTypeOK
    <3> QED
      BY <3>2 DEF WInv, WriteTypeOK
  <2> QED
    BY <2>1, <2>2 DEF WInv, WriteTypeOK
<1>2. RowFromRemote'
  BY DEF WInv, WriteTypeOK, RowFromRemote, Fetched
<1>3. ASSUME NEW v \in Writers PROVE Fetched(v)'
  BY DEF WInv, WriteTypeOK, Fetched
<1>4. Alone'
  <2>1. /\ UNCHANGED <<overlapped, row>> /\ step'[w] = "idle"
        /\ \A v \in Writers : v # w => step'[v] = step[v] /\ got'[v] = got[v]
    BY DEF WInv, WriteTypeOK
  <2> QED
    BY <2>1 DEF WInv, Alone
<1>5. ItemsOnTheWay'
  BY DEF WInv, WriteTypeOK, ItemsOnTheWay, Inserts
<1> QED
  BY <1>1, <1>2, <1>3, <1>4, <1>5 DEF WInv

LEMMA WriteInsertItems == ASSUME WInv, NEW w \in Writers, InsertItems(w) PROVE WInv'
<1> USE DEF InsertItems, AddItem, End
<1>1. WriteTypeOK'
  BY DEF WInv, WriteTypeOK, Fetched
<1>2. RowFromRemote'
  BY DEF WInv, WriteTypeOK, RowFromRemote, Fetched
<1>3. ASSUME NEW v \in Writers PROVE Fetched(v)'
  BY DEF WInv, WriteTypeOK, Fetched
<1>4. Alone'
  BY DEF WInv, WriteTypeOK, Alone, RowFromRemote, Quiet
<1>5. ItemsOnTheWay'
  BY DEF WInv, WriteTypeOK, ItemsOnTheWay, Inserts
<1> QED
  BY <1>1, <1>2, <1>3, <1>4, <1>5 DEF WInv

LEMMA WriteUpsertRow == ASSUME WInv, NEW w \in Writers, UpsertRow(w) PROVE WInv'
<1> USE DEF UpsertRow
<1>1. WriteTypeOK'
  BY DEF WInv, WriteTypeOK, Fetched
<1>2. RowFromRemote'
  BY DEF WInv, WriteTypeOK, RowFromRemote, Fetched
<1>3. ASSUME NEW v \in Writers PROVE Fetched(v)'
  BY DEF WInv, WriteTypeOK, Fetched
<1>4. Alone'
  BY DEF WInv, WriteTypeOK, Alone, RowFromRemote, Quiet
<1>5. ItemsOnTheWay'
  BY DEF WInv, WriteTypeOK, ItemsOnTheWay, Inserts
<1> QED
  BY <1>1, <1>2, <1>3, <1>4, <1>5 DEF WInv

LEMMA WriteDeleteItems == ASSUME WInv, NEW w \in Writers, DeleteItems(w) PROVE WInv'
<1> USE DEF DeleteItems
<1>1. WriteTypeOK'
  BY DEF WInv, WriteTypeOK, Fetched
<1>2. RowFromRemote'
  BY DEF WInv, WriteTypeOK, RowFromRemote, Fetched
<1>3. ASSUME NEW v \in Writers PROVE Fetched(v)'
  BY DEF WInv, WriteTypeOK, Fetched
<1>4. Alone'
  BY DEF WInv, WriteTypeOK, Alone, RowFromRemote, Quiet
<1>5. ItemsOnTheWay'
  BY DEF WInv, WriteTypeOK, ItemsOnTheWay, Inserts
<1> QED
  BY <1>1, <1>2, <1>3, <1>4, <1>5 DEF WInv

LEMMA WriteReplaceItems == ASSUME WInv, NEW w \in Writers, ReplaceItems(w) PROVE WInv'
<1> USE DEF ReplaceItems, AddItem
<1>1. WriteTypeOK'
  <2>1. items' \in SUBSET Item
    BY DEF WInv, WriteTypeOK, Fetched
  <2>2. step' \in [Writers -> Steps]
    BY DEF WInv, WriteTypeOK
  <2>3. ASSUME NEW v \in Writers, step'[v] = "pay"
        PROVE  target'[v] \in ItemId
    BY <2>3 DEF WInv, WriteTypeOK
  <2> QED
    BY <2>1, <2>2, <2>3 DEF WInv, WriteTypeOK
<1>2. RowFromRemote'
  BY DEF WInv, WriteTypeOK, RowFromRemote, Fetched
<1>3. ASSUME NEW v \in Writers PROVE Fetched(v)'
  BY DEF WInv, WriteTypeOK, Fetched
<1>4. Alone'
  BY DEF WInv, WriteTypeOK, Alone, RowFromRemote, Quiet
<1>5. ItemsOnTheWay'
  BY DEF WInv, WriteTypeOK, ItemsOnTheWay, Inserts
<1> QED
  BY <1>1, <1>2, <1>3, <1>4, <1>5 DEF WInv

LEMMA WriteFindItems == ASSUME WInv, NEW w \in Writers, FindItems(w) PROVE WInv'
<1> USE DEF FindItems
<1>1. WriteTypeOK'
  <2>1. PICK i \in items : target' = [target EXCEPT ![w] = i.id]
    OBVIOUS
  <2>2. i.id \in ItemId
    BY DEF WInv, WriteTypeOK
  <2>3. ASSUME NEW v \in Writers, step'[v] = "pay" PROVE target'[v] \in ItemId
    <3>1. target \in [Writers -> ItemId \union {<<>>}]
      BY DEF WInv, WriteTypeOK
    <3>2. CASE v = w
      BY <2>1, <2>2, <3>1, <3>2
    <3>3. CASE v # w
      BY <2>1, <2>3, <3>1, <3>3 DEF WInv, WriteTypeOK
    <3> QED
      BY <3>2, <3>3
  <2>4. target' \in [Writers -> ItemId \union {<<>>}]
    BY <2>1, <2>2 DEF WInv, WriteTypeOK
  <2> QED
    BY <2>3, <2>4 DEF WInv, WriteTypeOK
<1>2. RowFromRemote'
  BY DEF WInv, WriteTypeOK, RowFromRemote, Fetched
<1>3. ASSUME NEW v \in Writers PROVE Fetched(v)'
  BY DEF WInv, WriteTypeOK, Fetched
<1>4. Alone'
  <2>1. /\ UNCHANGED <<overlapped, row, got>>
        /\ \A v \in Writers : /\ step'[v] = "idle" <=> step[v] = "idle"
                              /\ step'[v] = "row" => step[v] = "row"
    BY DEF WInv, WriteTypeOK
  <2> QED
    BY <2>1 DEF WInv, Alone
<1>5. ItemsOnTheWay'
  BY DEF WInv, WriteTypeOK, ItemsOnTheWay, Inserts
<1> QED
  BY <1>1, <1>2, <1>3, <1>4, <1>5 DEF WInv

LEMMA WriteFindNothing == ASSUME WInv, NEW w \in Writers, FindNothing(w) PROVE WInv'
<1> USE DEF FindNothing, End
<1>1. WriteTypeOK'
  BY DEF WInv, WriteTypeOK, Fetched
<1>2. RowFromRemote'
  BY DEF WInv, WriteTypeOK, RowFromRemote, Fetched
<1>3. ASSUME NEW v \in Writers PROVE Fetched(v)'
  BY DEF WInv, WriteTypeOK, Fetched
<1>4. Alone'
  BY DEF WInv, WriteTypeOK, Alone, RowFromRemote, Quiet
<1>5. ItemsOnTheWay'
  BY DEF WInv, WriteTypeOK, ItemsOnTheWay, Inserts
<1> QED
  BY <1>1, <1>2, <1>3, <1>4, <1>5 DEF WInv

LEMMA WritePay == ASSUME WInv, NEW w \in Writers, Pay(w) PROVE WInv'
<1> USE DEF Pay, End, Paid
<1>1. WriteTypeOK'
  <2>1. ASSUME NEW i \in Item PROVE Paid(i, target[w]) \in Item
    OBVIOUS
  <2> HIDE DEF Paid
  <2>2. items' \in SUBSET Item
    BY <2>1 DEF WInv, WriteTypeOK
  <2>3. /\ step' \in [Writers -> Steps] /\ got' \in [Writers -> 0..MaxVersion]
        /\ known' \in [Writers -> BOOLEAN] /\ target' \in [Writers -> ItemId \union {<<>>}]
    BY DEF WInv, WriteTypeOK
  <2>4. ASSUME NEW v \in Writers, step'[v] = "pay"
        PROVE  target'[v] \in ItemId
    <3>1. v # w
      BY <2>4 DEF WInv, WriteTypeOK
    <3>2. step[v] = "pay" /\ target'[v] = target[v]
      BY <2>4, <3>1 DEF WInv, WriteTypeOK
    <3> QED
      BY <3>2 DEF WInv, WriteTypeOK
  <2> QED
    BY <2>2, <2>3, <2>4 DEF WInv, WriteTypeOK
<1>2. RowFromRemote'
  BY DEF WInv, WriteTypeOK, RowFromRemote, Fetched
<1>3. ASSUME NEW v \in Writers PROVE Fetched(v)'
  <2>1. Fetched(v) /\ got \in [Writers -> 0..MaxVersion] /\ step \in [Writers -> Steps]
    BY DEF WInv, WriteTypeOK
  <2>2. UNCHANGED <<rounds, remote>>
    OBVIOUS
  <2>3. CASE v = w
    BY <2>1, <2>2, <2>3 DEF Fetched, WInv, WriteTypeOK
  <2>4. CASE v # w
    BY <2>1, <2>2, <2>4 DEF Fetched
  <2> QED
    BY <2>3, <2>4
<1>4. Alone'
  BY DEF WInv, WriteTypeOK, Alone, RowFromRemote, Quiet
<1>5. ItemsOnTheWay'
  <2> HIDE DEF Paid
  <2>1. items # {} => items' # {}
    OBVIOUS
  <2>2. UNCHANGED <<row, throws>> /\ (\A v \in Writers : Inserts(v) => Inserts(v)')
    BY DEF WInv, WriteTypeOK, Inserts
  <2> QED
    BY <2>1, <2>2 DEF WInv, ItemsOnTheWay
<1> QED
  BY <1>1, <1>2, <1>3, <1>4, <1>5 DEF WInv

LEMMA WriteThrow == ASSUME WInv, NEW w \in Writers, Throw(w) PROVE WInv'
<1> USE DEF Throw, End
<1>1. WriteTypeOK'
  BY DEF WInv, WriteTypeOK, Fetched
<1>2. RowFromRemote'
  BY DEF WInv, WriteTypeOK, RowFromRemote, Fetched
<1>3. ASSUME NEW v \in Writers PROVE Fetched(v)'
  BY DEF WInv, WriteTypeOK, Fetched
<1>4. Alone'
  BY DEF WInv, WriteTypeOK, Alone, RowFromRemote, Quiet
<1>5. ItemsOnTheWay'
  BY DEF WInv, WriteTypeOK, ItemsOnTheWay, Inserts
<1> QED
  BY <1>1, <1>2, <1>3, <1>4, <1>5 DEF WInv

LEMMA WriteChange == ASSUME WInv, Change PROVE WInv'
<1> USE DEF Change
<1>1. WriteTypeOK'
  BY DEF WInv, WriteTypeOK
<1>2. RowFromRemote'
  BY DEF WInv, WriteTypeOK, RowFromRemote
<1>3. ASSUME NEW v \in Writers PROVE Fetched(v)'
  BY DEF WInv, WriteTypeOK, Fetched, InRun
<1>4. Alone'
  BY DEF WInv, Alone
<1>5. ItemsOnTheWay'
  BY DEF WInv, ItemsOnTheWay, Inserts
<1> QED
  BY <1>1, <1>2, <1>3, <1>4, <1>5 DEF WInv

LEMMA WriteStutter == ASSUME WInv, UNCHANGED writeVars PROVE WInv'
BY DEF WInv, WriteTypeOK, Fetched, RowFromRemote, Alone, ItemsOnTheWay, Inserts, InRun

LEMMA WInvInitially == WriteInit => WInv
<1> SUFFICES ASSUME WriteInit PROVE WInv
  OBVIOUS
<1>1. WriteTypeOK
  <2>1. target \in [Writers -> ItemId \union {<<>>}]
    <3> HIDE DEF ItemId
    <3> QED
      BY DEF WriteInit
  <2>2. /\ remote \in Version /\ row \in 0..MaxVersion
        /\ got \in [Writers -> 0..MaxVersion]
    BY TransactionWriteAssumption DEF WriteInit
  <2>3. rounds \in [Writers -> 0..MaxRounds] /\ throws \in 0..MaxThrows
    BY TransactionWriteAssumption DEF WriteInit
  <2>4. known \in [Writers -> BOOLEAN] /\ overlapped \in BOOLEAN
    BY Zenon DEF WriteInit
  <2>5. step \in [Writers -> Steps] /\ \A w \in Writers : step[w] # "pay"
    BY DEF WriteInit
  <2>6. items \in SUBSET Item
    <3> HIDE DEF Item
    <3> QED
      BY DEF WriteInit
  <2> QED
    BY <2>1, <2>2, <2>3, <2>4, <2>5, <2>6 DEF WriteTypeOK
<1>2. \A w \in Writers : Fetched(w)
  BY DEF WriteInit, Fetched
<1>3. RowFromRemote /\ Alone /\ ItemsOnTheWay
  BY DEF WriteInit, RowFromRemote, Alone, ItemsOnTheWay
<1> QED
  BY <1>1, <1>2, <1>3 DEF WInv

LEMMA WriteStep == WInv /\ [WriteNext]_writeVars => WInv'
<1> SUFFICES ASSUME WInv, [WriteNext]_writeVars PROVE WInv'
  OBVIOUS
<1>1. CASE Change
  BY <1>1, WriteChange
<1>2. ASSUME NEW w \in Writers, Start(w) \/ Fetch(w) \/ Throw(w) PROVE WInv'
  BY <1>2, WriteStart, WriteFetch, WriteThrow
<1>3. ASSUME NEW w \in Writers, Batch(w) PROVE WInv'
  BY <1>3, WriteReadExisting, WriteSkip, WriteCreate, WriteCheckItems, WriteKeepItems,
     WriteInsertItems DEF Batch
<1>4. ASSUME NEW w \in Writers, Upsert(w) PROVE WInv'
  BY <1>4, WriteUpsertRow, WriteDeleteItems, WriteReplaceItems, WriteFindItems,
     WriteFindNothing, WritePay DEF Upsert
<1>5. CASE UNCHANGED writeVars
  BY <1>5, WriteStutter
<1> QED
  BY <1>1, <1>2, <1>3, <1>4, <1>5 DEF WriteNext

LEMMA WriteAlways == WriteSpec => []WInv
BY WInvInitially, WriteStep, PTL DEF WriteSpec

-----------------------------------------------------------------------------
(***************************************************************************)
(* Rows, items and the local variables of the writers stay in their range. *)
(***************************************************************************)
THEOREM WriteTypeCorrect == WriteSpec => []WriteTypeOK
<1>1. WInv => WriteTypeOK
  BY DEF WInv
<1> QED
  BY <1>1, WriteAlways, PTL

(***************************************************************************)
(* However many writers interleave, if no call throws a stored transaction *)
(* has items when they have all ended: whoever deletes them writes them    *)
(* again, and whoever finds some does so before the row is left alone.     *)
(***************************************************************************)
THEOREM WriteKeepsItems == WriteSpec => []ItemsNotLost
<1>1. WInv => ItemsNotLost
  BY DEF WInv, ItemsOnTheWay, ItemsNotLost, Quiet, Inserts
<1> QED
  BY <1>1, WriteAlways, PTL

(***************************************************************************)
(* Writers that take turns never put an older version back, for any number *)
(* of versions and faults.                                                 *)
(***************************************************************************)
THEOREM WriteNeverOlder == WriteSpec => RowNeverOlder
<1>1. WInv /\ [WriteNext]_writeVars => [~overlapped' => row' >= row]_writeVars
  <2> SUFFICES ASSUME WInv, WriteNext, ~overlapped' PROVE row' >= row
    OBVIOUS
  <2>1. row \in Nat
    BY DEF WInv, WriteTypeOK
  <2>2. ASSUME NEW w \in Writers, UpsertRow(w) PROVE row' >= row
    BY <2>2 DEF UpsertRow, WInv, WriteTypeOK, Alone
  <2>3. ASSUME NEW w \in Writers, Create(w) PROVE row' >= row
    BY <2>3 DEF Create, WInv, WriteTypeOK
  <2>4. ASSUME UNCHANGED row PROVE row' >= row
    BY <2>1, <2>4
  <2>5. CASE Change
    BY <2>4, <2>5 DEF Change
  <2>6. ASSUME NEW w \in Writers,
               \/ Start(w) \/ Fetch(w) \/ Throw(w)
               \/ ReadExisting(w) \/ Skip(w) \/ CheckItems(w) \/ KeepItems(w) \/ InsertItems(w)
               \/ DeleteItems(w) \/ ReplaceItems(w) \/ FindItems(w) \/ FindNothing(w) \/ Pay(w)
        PROVE  row' >= row
    BY <2>4, <2>6 DEF Start, Fetch, Throw, ReadExisting, Skip, CheckItems, KeepItems, InsertItems,
                      DeleteItems, ReplaceItems, FindItems, FindNothing, Pay
  <2> QED
    BY <2>2, <2>3, <2>5, <2>6 DEF WriteNext, Batch, Upsert
<1> QED
  BY <1>1, WriteAlways, PTL DEF WriteSpec, RowNeverOlder

-----------------------------------------------------------------------------
(***************************************************************************)
(* Writers that take turns.  While one of them is at work, the others are  *)
(* idle and the writtenTables are as its own steps have left them.                *)
(***************************************************************************)
\* Items are written below a row only, and no row is ever deleted.
Rooted(w) ==
    known[w] \/ step[w] \in {"check", "items", "delete", "replace", "find", "pay"} => row # 0

Rows == (row = 0 => items = {}) /\ \A w \in Writers : Rooted(w)

\* The only item, of the stored version.
Only(i) == items = {i} /\ i.of = row
Matched == \E i \in Item : Only(i)

\* Where an upsert stands, whatever it found in the tables.
Repairing(w) ==
    /\ step[w] \in {"delete", "replace"} => row = got[w]
    /\ step[w] = "replace" => items = {}
    /\ step[w] = "find" => \E i \in Item : Only(i) /\ i.paid = 0
    /\ step[w] = "pay" => \E i \in Item : Only(i) /\ i.paid = 0 /\ i.id = target[w]

\* Where a writer stands that found the tables in order.
Importing(w) ==
    /\ step[w] \in {"existing", "fetch", "create", "row"} /\ row # 0 => Matched
    /\ step[w] = "check" => Matched \/ (items = {} /\ row = got[w])
    /\ step[w] = "items" => items = {} /\ row = got[w]

Turns ==
    ~overlapped =>
        /\ \A w \in Writers : Repairing(w) /\ (throws = 0 => Importing(w))
        /\ Quiet /\ throws = 0 /\ row # 0 => Matched

LEMMA RowsInit == WriteInit => Rows
  BY DEF WriteInit, Rows, Rooted

LEMMA RowsStep == WInv /\ WInv' /\ Rows /\ [WriteNext]_writeVars => Rows'
<1> SUFFICES ASSUME WInv, WInv', Rows, [WriteNext]_writeVars
             PROVE  Rows'
  OBVIOUS
<1>1. step \in [Writers -> Steps] /\ known \in [Writers -> BOOLEAN]
  <2> HIDE DEF Steps
  <2> QED
    BY Zenon DEF WInv, WriteTypeOK
<1>2. ASSUME NEW w \in Writers, Create(w) \/ UpsertRow(w)
      PROVE  Rows'
  <2>1. row' # 0
    BY <1>2 DEF Create, UpsertRow, WInv, WriteTypeOK, Fetched, Rows, Rooted
  <2> QED
    BY <2>1 DEF Rows, Rooted
<1>3. ASSUME NEW w \in Writers, InsertItems(w) \/ ReplaceItems(w)
      PROVE  Rows'
  BY <1>1, <1>3 DEF InsertItems, ReplaceItems, End, Rows, Rooted
<1>4. ASSUME NEW w \in Writers, Pay(w) \/ DeleteItems(w)
      PROVE  Rows'
  BY <1>1, <1>4 DEF Pay, DeleteItems, End, Rows, Rooted
<1>5. ASSUME NEW w \in Writers,
             \/ ReadExisting(w) \/ Skip(w) \/ CheckItems(w) \/ KeepItems(w) \/ Throw(w)
             \/ FindItems(w) \/ FindNothing(w)
      PROVE  Rows'
  BY <1>1, <1>5 DEF ReadExisting, Skip, CheckItems, KeepItems, Throw, FindItems, FindNothing,
                    End, Rows, Rooted
<1>6. ASSUME NEW w \in Writers, Start(w) \/ Fetch(w)
      PROVE  Rows'
  <2>1. UNCHANGED <<row, items, known>>
    BY <1>6 DEF Start, Fetch
  <2>2. step'[w] \in {"existing", "fetch", "create", "row"}
        /\ \A v \in Writers : v # w => step'[v] = step[v]
    <3>1. CASE Start(w)
      BY <1>1, <3>1 DEF Start
    <3>2. CASE Fetch(w)
      <4>1. InRun(w) \/ (~InRun(w) /\ Kind[w] = "chunk") \/ (~InRun(w) /\ Kind[w] = "upsert")
        BY DEF InRun, Kinds
      <4>2. Kind[w] = "chunk" => Kind[w] # "upsert"
        OBVIOUS
      <4> QED
        BY <1>1, <3>2, <4>1, <4>2 DEF Fetch, InRun
    <3> QED
      BY <1>6, <3>1, <3>2
  <2> QED
    BY <2>1, <2>2 DEF Rows, Rooted
<1>7. CASE Change \/ UNCHANGED writeVars
  BY <1>7 DEF Change, Rows, Rooted
<1> QED
  BY <1>2, <1>3, <1>4, <1>5, <1>6, <1>7 DEF WriteNext, Batch, Upsert

\* What is left to show of a step of w: where it stands now, and, if it has ended, the tables.
LEMMA TurnOf ==
  ASSUME WInv, WInv', NEW w \in Writers, ~overlapped',
         \A v \in Writers : v # w => step'[v] = "idle",
         Repairing(w)', throws' = 0 => Importing(w)',
         step'[w] = "idle" /\ throws' = 0 /\ row' # 0 => Matched'
  PROVE  Turns'
<1>1. ASSUME NEW v \in Writers
      PROVE  Repairing(v)' /\ (throws' = 0 => Importing(v)')
  <2>1. CASE v # w
    <3>1. step'[v] = "idle"
      BY <2>1
    <3> QED
      BY <3>1 DEF Repairing, Importing
  <2> QED
    BY <2>1
<1>2. Quiet' => step'[w] = "idle"
  BY DEF Quiet
<1> QED
  BY <1>1, <1>2 DEF Turns

LEMMA OthersIdle ==
  ASSUME WInv, NEW w \in Writers, step[w] # "idle", ~overlapped,
         NEW s, step' = [step EXCEPT ![w] = s]
  PROVE  /\ step'[w] = s
         /\ \A v \in Writers : v # w => step'[v] = "idle"
  BY DEF WInv, WriteTypeOK, Alone

LEMMA TurnStart ==
  ASSUME WInv, WInv', Turns, NEW w \in Writers, Start(w), ~overlapped'
  PROVE  Turns'
<1>1. ~overlapped /\ Quiet /\ UNCHANGED <<writtenTables, throws>>
  BY DEF Start
<1>2. step'[w] \in {"existing", "fetch"} /\ \A v \in Writers : v # w => step'[v] = "idle"
  BY <1>1 DEF Start, Quiet, WInv, WriteTypeOK
<1>3. throws = 0 /\ row # 0 => Matched
  BY <1>1 DEF Turns
<1>4. Matched => Matched'
  BY <1>1 DEF Matched, Only
<1>5. Repairing(w)' /\ (throws' = 0 => Importing(w)')
  BY <1>1, <1>2, <1>3, <1>4 DEF Repairing, Importing
<1> QED
  BY <1>2, <1>5, TurnOf

\* Steps before the first write: the tables stay as they were found.
LEMMA TurnRead ==
  ASSUME WInv, WInv', Turns, NEW w \in Writers, ~overlapped',
         Fetch(w) \/ ReadExisting(w) \/ Skip(w)
  PROVE  Turns'
<1>1. ~overlapped /\ UNCHANGED <<writtenTables, throws>>
      /\ step[w] \in {"existing", "fetch", "create"}
  BY DEF Fetch, ReadExisting, Skip
<1>2. \A v \in Writers : v # w => step'[v] = "idle"
  BY <1>1, OthersIdle DEF Fetch, ReadExisting, Skip, End
<1>3. step'[w] \in {"idle", "existing", "fetch", "create", "row"}
  <2>1. CASE Fetch(w)
    <3>1. InRun(w) \/ (~InRun(w) /\ Kind[w] = "chunk") \/ (~InRun(w) /\ Kind[w] = "upsert")
      BY DEF InRun, Kinds
    <3>2. Kind[w] = "chunk" => Kind[w] # "upsert"
      OBVIOUS
    <3> QED
      BY <2>1, <3>1, <3>2 DEF Fetch, InRun, WInv, WriteTypeOK
  <2>2. CASE ReadExisting(w) \/ Skip(w)
    BY <2>2 DEF ReadExisting, Skip, End, WInv, WriteTypeOK
  <2> QED
    BY <2>1, <2>2
<1>4. throws = 0 /\ row # 0 => Matched
  BY <1>1 DEF Turns, Importing
<1>5. Matched => Matched'
  BY <1>1 DEF Matched, Only
<1>6. Repairing(w)' /\ (throws' = 0 => Importing(w)')
  BY <1>1, <1>3, <1>4, <1>5 DEF Repairing, Importing
<1> QED
  BY <1>1, <1>2, <1>4, <1>5, <1>6, TurnOf

LEMMA TurnCreate ==
  ASSUME WInv, WInv', Rows, Turns, NEW w \in Writers, Create(w), ~overlapped'
  PROVE  Turns'
<1>1. /\ ~overlapped /\ UNCHANGED <<items, got, throws>> /\ step[w] = "create"
      /\ row' = IF row = 0 /\ ~known[w] THEN got[w] ELSE row
      /\ step' = [step EXCEPT ![w] = "check"]
  BY DEF Create
<1>2. step'[w] = "check" /\ \A v \in Writers : v # w => step'[v] = "idle"
  BY <1>1, OthersIdle
<1>3. ASSUME throws = 0
      PROVE  Matched' \/ (items' = {} /\ row' = got'[w])
  <2>1. CASE row = 0
    <3>1. ~known[w] /\ items = {}
      BY <2>1 DEF Rows, Rooted
    <3> QED
      BY <1>1, <2>1, <3>1
  <2>2. CASE row # 0
    <3>1. Matched /\ row' = row
      BY <1>1, <1>3, <2>2 DEF Turns, Importing
    <3> QED
      BY <1>1, <3>1 DEF Matched, Only
  <2> QED
    BY <2>1, <2>2
<1>4. Repairing(w)' /\ (throws' = 0 => Importing(w)')
  BY <1>1, <1>2, <1>3 DEF Repairing, Importing
<1> QED
  BY <1>2, <1>4, TurnOf

LEMMA TurnCheck ==
  ASSUME WInv, WInv', Turns, NEW w \in Writers, CheckItems(w) \/ KeepItems(w), ~overlapped'
  PROVE  Turns'
<1>1. /\ ~overlapped /\ UNCHANGED <<writtenTables, throws>> /\ step[w] = "check"
  BY DEF CheckItems, KeepItems
<1>2. throws = 0 => Matched \/ (items = {} /\ row = got[w])
  BY <1>1 DEF Turns, Importing
<1>3. CASE CheckItems(w)
  <2>1. step'[w] = "items" /\ \A v \in Writers : v # w => step'[v] = "idle"
    BY <1>1, <1>3, OthersIdle DEF CheckItems
  <2>2. items = {} /\ ~Matched /\ got' = got
    BY <1>3 DEF CheckItems, HasItems, Matched, Only
  <2>3. Repairing(w)' /\ (throws' = 0 => Importing(w)')
    BY <1>1, <1>2, <2>1, <2>2 DEF Repairing, Importing
  <2> QED
    BY <2>1, <2>3, TurnOf
<1>4. CASE KeepItems(w)
  <2>1. step'[w] = "idle" /\ \A v \in Writers : v # w => step'[v] = "idle"
    BY <1>1, <1>4, OthersIdle DEF KeepItems, End
  <2>2. throws = 0 => Matched
    BY <1>2, <1>4 DEF KeepItems, HasItems
  <2>3. Matched => Matched'
    BY <1>1 DEF Matched, Only
  <2>4. Repairing(w)' /\ Importing(w)'
    BY <2>1 DEF Repairing, Importing
  <2> QED
    BY <1>1, <2>1, <2>2, <2>3, <2>4, TurnOf
<1> QED
  BY <1>3, <1>4

\* The item that w writes.
NewItem(w) == [id |-> <<w, rounds[w]>>, of |-> got[w], paid |-> 0]

LEMMA NewItemType ==
  ASSUME WInv, NEW w \in Writers, step[w] \in {"items", "replace"}
  PROVE  NewItem(w) \in Item /\ NewItem(w).of = got[w] /\ NewItem(w).paid = 0
<1>1. rounds[w] \in 1..MaxRounds /\ got[w] \in Version
  BY DEF WInv, WriteTypeOK, Fetched
<1> QED
  BY <1>1 DEF NewItem

LEMMA TurnInsert ==
  ASSUME WInv, WInv', Turns, NEW w \in Writers, InsertItems(w), ~overlapped'
  PROVE  Turns'
<1>1. /\ ~overlapped /\ UNCHANGED <<row, throws>> /\ step[w] = "items"
      /\ items' = items \union {NewItem(w)}
  BY DEF InsertItems, AddItem, NewItem
<1>2. step'[w] = "idle" /\ \A v \in Writers : v # w => step'[v] = "idle"
  BY <1>1, OthersIdle DEF InsertItems, End
<1>3. throws = 0 => items = {} /\ row = got[w]
  BY <1>1 DEF Turns, Importing
<1>4. throws = 0 => Matched'
  BY <1>1, <1>3, NewItemType DEF Matched, Only
<1>5. Repairing(w)' /\ Importing(w)'
  BY <1>2 DEF Repairing, Importing
<1> QED
  BY <1>1, <1>2, <1>4, <1>5, TurnOf

LEMMA TurnUpsertRow ==
  ASSUME WInv, WInv', Turns, NEW w \in Writers, UpsertRow(w) \/ DeleteItems(w), ~overlapped'
  PROVE  Turns'
<1>1. ~overlapped /\ step[w] \in {"row", "delete"} /\ got' = got
  BY DEF UpsertRow, DeleteItems
<1>2. step'[w] \in {"delete", "replace"} /\ \A v \in Writers : v # w => step'[v] = "idle"
  BY <1>1, OthersIdle DEF UpsertRow, DeleteItems
<1>3. row' = got'[w]
  BY <1>1 DEF UpsertRow, DeleteItems, Turns, Repairing
<1>4. step'[w] = "replace" => items' = {}
  BY <1>1, <1>2, OthersIdle DEF UpsertRow, DeleteItems
<1>5. Repairing(w)' /\ Importing(w)'
  BY <1>2, <1>3, <1>4 DEF Repairing, Importing
<1> QED
  BY <1>2, <1>5, TurnOf

LEMMA TurnReplace ==
  ASSUME WInv, WInv', Turns, NEW w \in Writers, ReplaceItems(w), ~overlapped'
  PROVE  Turns'
<1>1. /\ ~overlapped /\ UNCHANGED row /\ step[w] = "replace"
      /\ items' = items \union {NewItem(w)}
  BY DEF ReplaceItems, AddItem, NewItem
<1>2. step'[w] = "find" /\ \A v \in Writers : v # w => step'[v] = "idle"
  BY <1>1, OthersIdle DEF ReplaceItems
<1>3. items = {} /\ row = got[w]
  BY <1>1 DEF Turns, Repairing
<1>4. NewItem(w) \in Item /\ items' = {NewItem(w)} /\ NewItem(w).of = row'
      /\ NewItem(w).paid = 0
  BY <1>1, <1>3, NewItemType
<1>5. \E i \in Item : Only(i)' /\ i.paid = 0
  BY <1>4 DEF Only
<1>6. Repairing(w)' /\ Importing(w)'
  BY <1>2, <1>5 DEF Repairing, Importing
<1> QED
  BY <1>2, <1>6, TurnOf

LEMMA TurnFind ==
  ASSUME WInv, WInv', Turns, NEW w \in Writers, FindItems(w), ~overlapped'
  PROVE  Turns'
<1>1. ~overlapped /\ UNCHANGED writtenTables /\ step[w] = "find"
  BY DEF FindItems
<1>2. step'[w] = "pay" /\ \A v \in Writers : v # w => step'[v] = "idle"
  BY <1>1, OthersIdle DEF FindItems
<1>3. PICK i \in Item : Only(i) /\ i.paid = 0
  BY <1>1 DEF Turns, Repairing
<1>4. target'[w] = i.id
  BY <1>3 DEF FindItems, Only, WInv, WriteTypeOK
<1>5. \E j \in Item : Only(j)' /\ j.paid = 0 /\ j.id = target'[w]
  BY <1>1, <1>3, <1>4 DEF Only
<1>6. Repairing(w)' /\ Importing(w)'
  BY <1>2, <1>5 DEF Repairing, Importing
<1> QED
  BY <1>2, <1>6, TurnOf

\* The payment goes to the item that the same upsert has written.
LEMMA PayTheOnlyItem ==
  ASSUME WInv, Turns, NEW w \in Writers, Pay(w), ~overlapped
  PROVE  \E i \in Item : items' = {i} /\ i.of = row /\ i.paid = 1
<1>1. step[w] = "pay" /\ items' = {Paid(i, target[w]) : i \in items}
  BY DEF Pay
<1>2. PICK i \in Item : Only(i) /\ i.paid = 0 /\ i.id = target[w]
  BY <1>1 DEF Turns, Repairing
<1> DEFINE j == Paid(i, target[w])
<1>3. j = [i EXCEPT !.paid = 1]
  BY <1>2 DEF Paid
<1>4. j \in Item /\ j.of = i.of /\ j.paid = 1
  BY <1>3
<1>5. items' = {j}
  BY <1>1, <1>2 DEF Only
<1> HIDE DEF j
<1> QED
  BY <1>2, <1>4, <1>5 DEF Only

LEMMA TurnPay ==
  ASSUME WInv, WInv', Turns, NEW w \in Writers, Pay(w), ~overlapped'
  PROVE  Turns'
<1>1. ~overlapped /\ UNCHANGED row /\ step[w] = "pay"
  BY DEF Pay
<1>2. step'[w] = "idle" /\ \A v \in Writers : v # w => step'[v] = "idle"
  BY <1>1, OthersIdle DEF Pay, End
<1>3. Matched'
  BY <1>1, PayTheOnlyItem DEF Matched, Only
<1>4. Repairing(w)' /\ Importing(w)'
  BY <1>2 DEF Repairing, Importing
<1> QED
  BY <1>2, <1>3, <1>4, TurnOf

LEMMA TurnEnd ==
  ASSUME WInv, WInv', Turns, NEW w \in Writers, FindNothing(w) \/ Throw(w), ~overlapped'
  PROVE  Turns'
<1>1. ~overlapped /\ step[w] # "idle" /\ step' = [step EXCEPT ![w] = "idle"]
  BY DEF FindNothing, Throw, End
<1>2. step'[w] = "idle" /\ \A v \in Writers : v # w => step'[v] = "idle"
  BY <1>1, OthersIdle
<1>3. ~ (throws' = 0)
  <2>1. CASE FindNothing(w)
    <3>1. \E i \in Item : items = {i}
      BY <1>1, <2>1 DEF FindNothing, Turns, Repairing, Only
    <3> QED
      BY <2>1, <3>1 DEF FindNothing
  <2>2. CASE Throw(w)
    <3>1. throws \in Nat
      BY DEF WInv, WriteTypeOK
    <3> QED
      BY <2>2, <3>1 DEF Throw
  <2> QED
    BY <2>1, <2>2
<1>4. Repairing(w)' /\ Importing(w)'
  BY <1>2 DEF Repairing, Importing
<1> QED
  BY <1>2, <1>3, <1>4, TurnOf

LEMMA TurnsStep == WInv /\ WInv' /\ Rows /\ Turns /\ [WriteNext]_writeVars => Turns'
<1> SUFFICES ASSUME WInv, WInv', Rows, Turns, [WriteNext]_writeVars, ~overlapped'
             PROVE  Turns'
  BY DEF Turns
<1>1. ASSUME NEW w \in Writers, Start(w) \/ Fetch(w) \/ Throw(w)
      PROVE  Turns'
  BY <1>1, TurnStart, TurnRead, TurnEnd
<1>2. ASSUME NEW w \in Writers, Batch(w)
      PROVE  Turns'
  BY <1>2, TurnRead, TurnCreate, TurnCheck, TurnInsert DEF Batch
<1>3. ASSUME NEW w \in Writers, Upsert(w)
      PROVE  Turns'
  BY <1>3, TurnUpsertRow, TurnReplace, TurnFind, TurnPay, TurnEnd DEF Upsert
<1>4. CASE Change \/ UNCHANGED writeVars
  BY <1>4 DEF Change, Turns, Repairing, Importing, Matched, Only, Quiet
<1> QED
  BY <1>1, <1>2, <1>3, <1>4 DEF WriteNext

LEMMA TurnsInit == WriteInit => Turns
  BY DEF WriteInit, Turns, Repairing, Importing

LEMMA TurnsAlways == WriteSpec => [](WInv /\ Rows /\ Turns)
<1>1. WriteInit => WInv /\ Rows /\ Turns
  BY WInvInitially, RowsInit, TurnsInit
<1>2. WInv /\ Rows /\ Turns /\ [WriteNext]_writeVars => (WInv /\ Rows /\ Turns)'
  BY WriteStep, RowsStep, TurnsStep
<1> QED
  BY <1>1, <1>2, PTL DEF WriteSpec

(***************************************************************************)
(* Writers of any kinds that take turns leave the items of the stored      *)
(* version, once, if no call throws (processBatchTransactions,             *)
(* upsertTransaction).                                                     *)
(***************************************************************************)
THEOREM WriteItemsMatch == WriteSpec => []ItemsMatchRow
<1>1. Turns => ItemsMatchRow
  BY DEF Turns, Matched, Only, ItemsMatchRow
<1> QED
  BY <1>1, TurnsAlways, PTL

(***************************************************************************)
(* An upsert that is not disturbed repairs the items whatever it found,    *)
(* after any faults: one item of the stored version, paid once             *)
(* (upsertTransactionItems).                                               *)
(***************************************************************************)
THEOREM WriteRepairs == WriteSpec => UpsertRepairs
<1>1. WInv /\ Turns /\ [WriteNext]_writeVars =>
        [\A w \in Writers : Pay(w) /\ ~overlapped =>
            \E i \in items' : items' = {i} /\ i.of = row /\ i.paid = 1]_writeVars
  BY PayTheOnlyItem
<1> QED
  BY <1>1, TurnsAlways, PTL DEF WriteSpec, UpsertRepairs

HIDE TransactionWriteAssumption
HIDE DEF writtenTables, locals, writeVars, Goto, Idle, Version, ItemId, Item, Steps

-----------------------------------------------------------------------------
(***************************************************************************)
(* Part three: SyncJob.                                                    *)
(***************************************************************************)
USE SyncJobAssumption

-----------------------------------------------------------------------------
(* The inductive invariant, one named part per concern. *)

\* Before the request is accepted nothing of the job exists or runs.
NotStarted(j) ==
    request[j] # "accepted" =>
        /\ ~Exists(j)
        /\ collector[j] = "off"
        /\ watcher[j] = "off"
        /\ saved[j] = 0
        /\ delivered[j] = {}

\* The chunk rows are those the collector stored, as long as the job row is there.
ChunkRows(j) ==
    \A k \in ChunkNo : chunk[j][k] # "absent" <=> Exists(j) /\ k <= saved[j]

\* What the collector has stored and what it has counted.
CollectorCounts(j) ==
    /\ Exists(j) => job[j].total <= saved[j] /\ saved[j] <= job[j].total + 1
    /\ Exists(j) /\ collector[j] = "fetch" => job[j].total = saved[j]
    /\ Exists(j) /\ collector[j] = "tally" => job[j].total + 1 = saved[j]
    /\ collector[j] = "begin" => saved[j] = 0
    /\ Exists(j) /\ job[j].collectDone =>
          collector[j] = "off" /\ saved[j] > 0 /\ job[j].total = saved[j]

\* A worker lives inside a batch, on a stored chunk whose status it knows.
WorkerKnows(j) ==
    \A k \in ChunkNo :
        /\ worker[j][k] # "idle" => watcher[j] = "batch" /\ k <= saved[j]
        /\ worker[j][k] = "claim" => chunk[j][k] \in {"PENDING", "absent"}
        /\ worker[j][k] \in {"load", "insert", "done"} => chunk[j][k] \in {"PROCESSING", "absent"}
        /\ worker[j][k] = "count" => chunk[j][k] \in {"DONE", "absent"}
        /\ worker[j][k] \in {"done", "count"} => k \in delivered[j]
        /\ chunk[j][k] = "DONE" => k \in delivered[j]
        /\ k \in delivered[j] => k <= saved[j]

\* The chunks whose worker has nothing left to do about the counter.
Settled(j) == {k \in ChunkNo : chunk[j][k] = "DONE" /\ worker[j][k] \notin {"count", "abort"}}

ProcessedCount(j) == Exists(j) => job[j].processed <= Cardinality(Settled(j))

\* What the watcher has seen before it writes COMPLETED, and what stays true after.
Completion(j) ==
    /\ watcher[j] = "complete" /\ Exists(j) => AllCounted(j)
    /\ job[j].status = "COMPLETED" => AllCounted(j) /\ watcher[j] = "off"

JobInv(j) ==
    /\ NotStarted(j)
    /\ ChunkRows(j)
    /\ CollectorCounts(j)
    /\ WorkerKnows(j)
    /\ ProcessedCount(j)
    /\ Completion(j)

IInv == TypeOK /\ \A j \in Jobs : JobInv(j)

-----------------------------------------------------------------------------
(* Type correctness. *)

USE DEF vars, tables, handlers, workers, environment, ChunkNo

LEMMA NewRow == NoRow \in JobRow /\ [NoRow EXCEPT !.status = "PENDING"] \in JobRow
BY DEF NoRow, JobRow, JobStatus

LEMMA RowUpdate ==
    ASSUME NEW r \in JobRow
    PROVE  /\ \A s \in JobStatus : [r EXCEPT !.status = s] \in JobRow
           /\ [r EXCEPT !.total = @ + 1] \in JobRow
           /\ [r EXCEPT !.processed = @ + 1] \in JobRow
           /\ [r EXCEPT !.collectDone = TRUE] \in JobRow
<1>1. \A s \in JobStatus : [r EXCEPT !.status = s] \in JobRow
  BY DEF JobRow
<1>2. [r EXCEPT !.total = @ + 1] \in JobRow /\ [r EXCEPT !.processed = @ + 1] \in JobRow
  BY DEF JobRow
<1>3. [r EXCEPT !.collectDone = TRUE] \in JobRow
  BY DEF JobRow
<1> QED
  BY <1>1, <1>2, <1>3

LEMMA TypeInit == Init => TypeOK
BY NewRow DEF Init, TypeOK, ChunkStatus

LEMMA TypeStep == TypeOK /\ [Next]_vars => TypeOK'
<1> SUFFICES ASSUME TypeOK, [Next]_vars PROVE TypeOK'
  OBVIOUS
<1> USE DEF TypeOK, JobStatus, ChunkStatus
<1>1. ASSUME NEW j \in Jobs, StartRequest(j) PROVE TypeOK'
  BY <1>1 DEF StartRequest
<1>2. ASSUME NEW j \in Jobs, StartCreate(j) PROVE TypeOK'
  BY <1>2, NewRow, RowUpdate DEF StartCreate
<1>3. ASSUME NEW j \in Jobs, DeleteRequest(j) PROVE TypeOK'
  BY <1>3 DEF DeleteRequest
<1>4. ASSUME NEW j \in Jobs, DeleteRow(j) PROVE TypeOK'
  BY <1>4, NewRow, RowUpdate DEF DeleteRow
<1>5. ASSUME NEW j \in Jobs, CollectBegin(j) PROVE TypeOK'
  BY <1>5, NewRow, RowUpdate DEF CollectBegin
<1>6. ASSUME NEW j \in Jobs, CollectSave(j) PROVE TypeOK'
  BY <1>6 DEF CollectSave
<1>7. ASSUME NEW j \in Jobs, CollectTally(j) PROVE TypeOK'
  BY <1>7, NewRow, RowUpdate DEF CollectTally
<1>8. ASSUME NEW j \in Jobs, CollectClose(j) PROVE TypeOK'
  BY <1>8, NewRow, RowUpdate DEF CollectClose
<1>9. ASSUME NEW j \in Jobs, CollectGone(j) PROVE TypeOK'
  BY <1>9 DEF CollectGone
<1>10. ASSUME NEW j \in Jobs, CollectFail(j) PROVE TypeOK'
  BY <1>10, NewRow, RowUpdate DEF CollectFail, Fail
<1>11. ASSUME NEW j \in Jobs, CollectThrows(j) PROVE TypeOK'
  BY <1>11 DEF CollectThrows, Throws
<1>12. ASSUME NEW j \in Jobs, CollectFailThrows(j) PROVE TypeOK'
  BY <1>12 DEF CollectFailThrows, Throws
<1>13. ASSUME NEW j \in Jobs, WatchPoll(j) PROVE TypeOK'
  BY <1>13 DEF WatchPoll
<1>14. ASSUME NEW j \in Jobs, WatchJoin(j) PROVE TypeOK'
  BY <1>14 DEF WatchJoin
<1>15. ASSUME NEW j \in Jobs, WatchCheck(j) PROVE TypeOK'
  BY <1>15 DEF WatchCheck
<1>16. ASSUME NEW j \in Jobs, WatchComplete(j) PROVE TypeOK'
  BY <1>16, NewRow, RowUpdate DEF WatchComplete
<1>17. ASSUME NEW j \in Jobs, WatchGone(j) PROVE TypeOK'
  BY <1>17 DEF WatchGone
<1>18. ASSUME NEW j \in Jobs, WatchFail(j) PROVE TypeOK'
  BY <1>18, NewRow, RowUpdate DEF WatchFail, Fail
<1>19. ASSUME NEW j \in Jobs, WatchThrows(j) PROVE TypeOK'
  BY <1>19 DEF WatchThrows, Throws
<1>20. ASSUME NEW j \in Jobs, WatchFailThrows(j) PROVE TypeOK'
  BY <1>20 DEF WatchFailThrows, Throws
<1>21. ASSUME NEW j \in Jobs, TwoMinutesPass(j) PROVE TypeOK'
  BY <1>21 DEF TwoMinutesPass
<1>22. ASSUME NEW j \in Jobs, NEW k \in ChunkNo, Claim(j, k) PROVE TypeOK'
  BY <1>22 DEF Claim, WorkerTo
<1>23. ASSUME NEW j \in Jobs, NEW k \in ChunkNo, ClaimNothing(j, k) PROVE TypeOK'
  BY <1>23 DEF ClaimNothing, WorkerTo
<1>24. ASSUME NEW j \in Jobs, NEW k \in ChunkNo, Load(j, k) PROVE TypeOK'
  BY <1>24 DEF Load, WorkerTo
<1>25. ASSUME NEW j \in Jobs, NEW k \in ChunkNo, Insert(j, k) PROVE TypeOK'
  BY <1>25 DEF Insert, WorkerTo
<1>26. ASSUME NEW j \in Jobs, NEW k \in ChunkNo, MarkDone(j, k) PROVE TypeOK'
  BY <1>26 DEF MarkDone, WorkerTo
<1>27. ASSUME NEW j \in Jobs, NEW k \in ChunkNo, Count(j, k) PROVE TypeOK'
  BY <1>27, NewRow, RowUpdate DEF Count, WorkerTo
<1>28. ASSUME NEW j \in Jobs, NEW k \in ChunkNo, WorkerGone(j, k) PROVE TypeOK'
  BY <1>28 DEF WorkerGone, WorkerTo
<1>29. ASSUME NEW j \in Jobs, NEW k \in ChunkNo, Abort(j, k) PROVE TypeOK'
  BY <1>29 DEF Abort, WorkerTo
<1>30. ASSUME NEW j \in Jobs, NEW k \in ChunkNo, WorkerThrows(j, k) PROVE TypeOK'
  BY <1>30 DEF WorkerThrows, Throws, WorkerTo
<1>31. ASSUME NEW j \in Jobs, NEW k \in ChunkNo, AbortThrows(j, k) PROVE TypeOK'
  BY <1>31 DEF AbortThrows, Throws, WorkerTo
<1>32. ASSUME NEW i \in Integrations, Unconfigure(i) PROVE TypeOK'
  BY <1>32 DEF Unconfigure
<1>33. CASE Restart
  BY <1>33 DEF Restart
<1>34. CASE UNCHANGED vars
  BY <1>34
<1> QED
  BY <1>1, <1>2, <1>3, <1>4, <1>5, <1>6, <1>7, <1>8, <1>9, <1>10, <1>11, <1>12, <1>13, <1>14,
     <1>15, <1>16, <1>17, <1>18, <1>19, <1>20, <1>21, <1>22, <1>23, <1>24, <1>25, <1>26,
     <1>27, <1>28, <1>29, <1>30, <1>31, <1>32, <1>33, <1>34 DEF Next, Collector, Watcher,
     Worker

(***************************************************************************)
(* Every row, counter and promise of a job stays in its range.             *)
(***************************************************************************)
THEOREM TypeCorrect == Spec => []TypeOK
BY TypeInit, TypeStep, PTL DEF Spec

-----------------------------------------------------------------------------
(* The invariant is inductive. *)

LEMMA SettledFinite ==
    ASSUME NEW j \in Jobs
    PROVE  IsFiniteSet(Settled(j)) /\ Cardinality(Settled(j)) \in Nat
<1>1. IsFiniteSet(ChunkNo)
  BY FS_Interval, SyncJobAssumption
<1>2. Settled(j) \subseteq ChunkNo
  BY DEF Settled
<1> QED
  BY <1>1, <1>2, FS_Subset, FS_CardinalityType

LEMMA SettledFinitePrime ==
    ASSUME NEW j \in Jobs
    PROVE  IsFiniteSet(Settled(j)') /\ Cardinality(Settled(j)') \in Nat
<1>1. IsFiniteSet(ChunkNo)
  BY FS_Interval, SyncJobAssumption
<1>2. Settled(j)' \subseteq ChunkNo
  BY DEF Settled
<1> QED
  BY <1>1, <1>2, FS_Subset, FS_CardinalityType

LEMMA SettledKept ==
    ASSUME IInv, TypeOK', NEW j \in Jobs, Settled(j) \subseteq Settled(j)',
           Exists(j)' => Exists(j) /\ job'[j].processed = job[j].processed
    PROVE  ProcessedCount(j)'
<1>1. Cardinality(Settled(j)') \in Nat /\ Cardinality(Settled(j)) \in Nat
  BY SettledFinite, SettledFinitePrime
<1>2. Cardinality(Settled(j)) <= Cardinality(Settled(j)')
  BY SettledFinitePrime, FS_Subset
<1>3. Exists(j)' => job'[j].processed \in Nat /\ job[j].processed <= Cardinality(Settled(j))
  BY DEF IInv, JobInv, ProcessedCount, TypeOK, JobRow
<1> QED
  BY <1>1, <1>2, <1>3 DEF ProcessedCount

LEMMA InvStartRequest ==
    ASSUME IInv, TypeOK', NEW j \in Jobs, StartRequest(j), NEW i \in Jobs
    PROVE  JobInv(i)'
<1> USE DEF StartRequest
<1>1. NotStarted(i)' /\ ChunkRows(i)' /\ CollectorCounts(i)' /\ WorkerKnows(i)' /\ Completion(i)'
  <2>1. TypeOK /\ JobInv(i)
    BY DEF IInv
  <2>2. NotStarted(i)'
    BY <2>1 DEF JobInv, TypeOK, NotStarted, Exists, NoRow
  <2>3. ChunkRows(i)'
    BY <2>1 DEF JobInv, TypeOK, NotStarted, ChunkRows, CollectorCounts, Exists, NoRow
  <2>4. CollectorCounts(i)'
    BY <2>1 DEF JobInv, TypeOK, NotStarted, CollectorCounts, Exists, NoRow
  <2>5. WorkerKnows(i)'
    BY <2>1 DEF JobInv, TypeOK, NotStarted, ChunkRows, WorkerKnows, Exists
  <2>6. Completion(i)'
    BY <2>1 DEF JobInv, TypeOK, NotStarted, CollectorCounts, Completion, Exists, AllCounted, NoRow
  <2> QED
    BY <2>2, <2>3, <2>4, <2>5, <2>6
<1>2. ProcessedCount(i)'
  <2>1. Settled(i) \subseteq Settled(i)'
    BY DEF IInv, JobInv, TypeOK, WorkerKnows, Settled
  <2>2. Exists(i)' => Exists(i) /\ job'[i].processed = job[i].processed
    BY DEF IInv, TypeOK, JobRow, Exists, NoRow
  <2> QED
    BY <2>1, <2>2, SettledKept
<1> QED
  BY <1>1, <1>2 DEF JobInv

LEMMA InvStartCreate ==
    ASSUME IInv, TypeOK', NEW j \in Jobs, StartCreate(j), NEW i \in Jobs
    PROVE  JobInv(i)'
<1> USE DEF StartCreate
<1>1. NotStarted(i)' /\ ChunkRows(i)' /\ CollectorCounts(i)' /\ WorkerKnows(i)' /\ Completion(i)'
  <2>1. TypeOK /\ JobInv(i)
    BY DEF IInv
  <2>2. NotStarted(i)'
    BY <2>1 DEF JobInv, TypeOK, NotStarted, Exists, NoRow
  <2>3. ChunkRows(i)'
    BY <2>1 DEF JobInv, TypeOK, NotStarted, ChunkRows, CollectorCounts, Exists, NoRow
  <2>4. CollectorCounts(i)'
    BY <2>1 DEF JobInv, TypeOK, NotStarted, CollectorCounts, Exists, NoRow
  <2>5. WorkerKnows(i)'
    BY <2>1 DEF JobInv, TypeOK, NotStarted, ChunkRows, WorkerKnows, Exists
  <2>6. Completion(i)'
    BY <2>1 DEF JobInv, TypeOK, NotStarted, CollectorCounts, Completion, Exists, AllCounted, NoRow
  <2> QED
    BY <2>2, <2>3, <2>4, <2>5, <2>6
<1>2. ProcessedCount(i)'
  <2>1. CASE i = j
    <3>1. job'[i].processed = 0
      BY <2>1 DEF NoRow, IInv, TypeOK
    <3>2. Cardinality(Settled(i)') \in Nat
      BY SettledFinitePrime
    <3> QED
      BY <3>1, <3>2 DEF ProcessedCount
  <2>2. CASE i # j
    <3>1. Settled(i) \subseteq Settled(i)'
      BY DEF Settled
    <3>2. Exists(i)' => Exists(i) /\ job'[i].processed = job[i].processed
      BY <2>2 DEF IInv, TypeOK, Exists
    <3> QED
      BY <3>1, <3>2, SettledKept
  <2> QED
    BY <2>1, <2>2
<1> QED
  BY <1>1, <1>2 DEF JobInv

LEMMA InvDeleteRequest ==
    ASSUME IInv, TypeOK', NEW j \in Jobs, DeleteRequest(j), NEW i \in Jobs
    PROVE  JobInv(i)'
<1> USE DEF DeleteRequest
<1>1. NotStarted(i)' /\ ChunkRows(i)' /\ CollectorCounts(i)' /\ WorkerKnows(i)' /\ Completion(i)'
  <2>1. TypeOK /\ JobInv(i)
    BY DEF IInv
  <2>2. NotStarted(i)'
    BY <2>1 DEF JobInv, TypeOK, NotStarted, Exists, NoRow
  <2>3. ChunkRows(i)'
    BY <2>1 DEF JobInv, TypeOK, NotStarted, ChunkRows, CollectorCounts, Exists, NoRow
  <2>4. CollectorCounts(i)'
    BY <2>1 DEF JobInv, TypeOK, NotStarted, CollectorCounts, Exists, NoRow
  <2>5. WorkerKnows(i)'
    BY <2>1 DEF JobInv, TypeOK, NotStarted, ChunkRows, WorkerKnows, Exists
  <2>6. Completion(i)'
    BY <2>1 DEF JobInv, TypeOK, NotStarted, CollectorCounts, Completion, Exists, AllCounted, NoRow
  <2> QED
    BY <2>2, <2>3, <2>4, <2>5, <2>6
<1>2. ProcessedCount(i)'
  <2>1. Settled(i) \subseteq Settled(i)'
    BY DEF IInv, JobInv, TypeOK, WorkerKnows, Settled
  <2>2. Exists(i)' => Exists(i) /\ job'[i].processed = job[i].processed
    BY DEF IInv, TypeOK, JobRow, Exists, NoRow
  <2> QED
    BY <2>1, <2>2, SettledKept
<1> QED
  BY <1>1, <1>2 DEF JobInv

LEMMA InvDeleteRow ==
    ASSUME IInv, TypeOK', NEW j \in Jobs, DeleteRow(j), NEW i \in Jobs
    PROVE  JobInv(i)'
<1> USE DEF DeleteRow
<1>1. NotStarted(i)' /\ ChunkRows(i)' /\ CollectorCounts(i)' /\ WorkerKnows(i)' /\ Completion(i)'
  <2>1. TypeOK /\ JobInv(i)
    BY DEF IInv
  <2>2. NotStarted(i)'
    BY <2>1 DEF JobInv, TypeOK, NotStarted, Exists, NoRow
  <2>3. ChunkRows(i)'
    BY <2>1 DEF JobInv, TypeOK, NotStarted, ChunkRows, CollectorCounts, Exists, NoRow
  <2>4. CollectorCounts(i)'
    BY <2>1 DEF JobInv, TypeOK, NotStarted, CollectorCounts, Exists, NoRow
  <2>5. WorkerKnows(i)'
    BY <2>1 DEF JobInv, TypeOK, NotStarted, ChunkRows, WorkerKnows, Exists
  <2>6. Completion(i)'
    BY <2>1 DEF JobInv, TypeOK, NotStarted, CollectorCounts, Completion, Exists, AllCounted, NoRow
  <2> QED
    BY <2>2, <2>3, <2>4, <2>5, <2>6
<1>2. ProcessedCount(i)'
  <2>1. CASE i = j
    BY <2>1 DEF ProcessedCount, Exists, NoRow, IInv, TypeOK
  <2>2. CASE i # j
    <3>1. Settled(i) \subseteq Settled(i)'
      BY <2>2 DEF Settled, IInv, TypeOK
    <3>2. Exists(i)' => Exists(i) /\ job'[i].processed = job[i].processed
      BY <2>2 DEF IInv, TypeOK, Exists
    <3> QED
      BY <3>1, <3>2, SettledKept
  <2> QED
    BY <2>1, <2>2
<1> QED
  BY <1>1, <1>2 DEF JobInv

LEMMA InvCollectBegin ==
    ASSUME IInv, TypeOK', NEW j \in Jobs, CollectBegin(j), NEW i \in Jobs
    PROVE  JobInv(i)'
<1> USE DEF CollectBegin
<1>1. NotStarted(i)' /\ ChunkRows(i)' /\ WorkerKnows(i)' /\ Completion(i)'
  BY DEF IInv, JobInv, TypeOK, NotStarted, ChunkRows, CollectorCounts, WorkerKnows,
     Completion, Exists, AllCounted, NoRow
<1>2. CollectorCounts(i)'
  <2>1. CASE i = j
    \* Nothing is stored yet, so nothing is counted.
    <3>1. saved[j] = 0 /\ job[j].total \in Nat /\ job[j].total <= saved[j] /\ ~job[j].collectDone
      BY DEF IInv, JobInv, CollectorCounts, TypeOK, JobRow
    <3>2. /\ job'[j].total = job[j].total /\ job'[j].collectDone = job[j].collectDone
          /\ collector'[j] \in {"fetch", "fail"} /\ saved'[j] = saved[j]
      BY DEF IInv, TypeOK, JobRow
    <3> QED
      BY <2>1, <3>1, <3>2 DEF CollectorCounts
  <2>2. CASE i # j
    BY <2>2 DEF IInv, JobInv, TypeOK, CollectorCounts, Exists
  <2> QED
    BY <2>1, <2>2
<1>3. ProcessedCount(i)'
  <2>1. Settled(i) \subseteq Settled(i)'
    BY DEF Settled
  <2>2. Exists(i)' => Exists(i) /\ job'[i].processed = job[i].processed
    BY DEF IInv, TypeOK, JobRow, Exists
  <2> QED
    BY <2>1, <2>2, SettledKept
<1> QED
  BY <1>1, <1>2, <1>3 DEF JobInv

LEMMA InvCollectSave ==
    ASSUME IInv, TypeOK', NEW j \in Jobs, CollectSave(j), NEW i \in Jobs
    PROVE  JobInv(i)'
<1> USE DEF CollectSave
<1>1. NotStarted(i)' /\ ChunkRows(i)' /\ CollectorCounts(i)' /\ WorkerKnows(i)' /\ Completion(i)'
  <2>1. TypeOK /\ JobInv(i)
    BY DEF IInv
  <2>2. NotStarted(i)'
    BY <2>1 DEF JobInv, TypeOK, NotStarted, Exists, NoRow
  <2>3. ChunkRows(i)'
    BY <2>1 DEF JobInv, TypeOK, NotStarted, ChunkRows, CollectorCounts, Exists, NoRow
  <2>4. CollectorCounts(i)'
    BY <2>1 DEF JobInv, TypeOK, NotStarted, CollectorCounts, Exists, NoRow
  <2>5. WorkerKnows(i)'
    BY <2>1 DEF JobInv, TypeOK, NotStarted, ChunkRows, WorkerKnows, Exists
  <2>6. Completion(i)'
    BY <2>1 DEF JobInv, TypeOK, NotStarted, CollectorCounts, Completion, Exists, AllCounted, NoRow
  <2> QED
    BY <2>2, <2>3, <2>4, <2>5, <2>6
<1>2. ProcessedCount(i)'
  <2>1. Settled(i) \subseteq Settled(i)'
    BY DEF IInv, JobInv, TypeOK, WorkerKnows, Settled
  <2>2. Exists(i)' => Exists(i) /\ job'[i].processed = job[i].processed
    BY DEF IInv, TypeOK, JobRow, Exists, NoRow
  <2> QED
    BY <2>1, <2>2, SettledKept
<1> QED
  BY <1>1, <1>2 DEF JobInv

LEMMA InvCollectTally ==
    ASSUME IInv, TypeOK', NEW j \in Jobs, CollectTally(j), NEW i \in Jobs
    PROVE  JobInv(i)'
<1> USE DEF CollectTally
<1>1. NotStarted(i)' /\ ChunkRows(i)' /\ CollectorCounts(i)' /\ WorkerKnows(i)' /\ Completion(i)'
  <2>1. TypeOK /\ JobInv(i)
    BY DEF IInv
  <2>2. NotStarted(i)'
    BY <2>1 DEF JobInv, TypeOK, NotStarted, Exists, NoRow
  <2>3. ChunkRows(i)'
    BY <2>1 DEF JobInv, TypeOK, NotStarted, ChunkRows, CollectorCounts, Exists, NoRow
  <2>4. CollectorCounts(i)'
    BY <2>1 DEF JobInv, TypeOK, NotStarted, CollectorCounts, Exists, NoRow
  <2>5. WorkerKnows(i)'
    BY <2>1 DEF JobInv, TypeOK, NotStarted, ChunkRows, WorkerKnows, Exists
  <2>6. Completion(i)'
    BY <2>1 DEF JobInv, TypeOK, NotStarted, CollectorCounts, Completion, Exists, AllCounted, NoRow
  <2> QED
    BY <2>2, <2>3, <2>4, <2>5, <2>6
<1>2. ProcessedCount(i)'
  <2>1. Settled(i) \subseteq Settled(i)'
    BY DEF IInv, JobInv, TypeOK, WorkerKnows, Settled
  <2>2. Exists(i)' => Exists(i) /\ job'[i].processed = job[i].processed
    <3>1. job \in [Jobs -> JobRow] /\ Exists(j)
      BY DEF IInv, TypeOK
    <3>2. CASE i = j
      BY <3>1, <3>2 DEF JobRow
    <3>3. CASE i # j
      BY <3>1, <3>3 DEF Exists
    <3> QED
      BY <3>1, <3>2, <3>3
  <2> QED
    BY <2>1, <2>2, SettledKept
<1> QED
  BY <1>1, <1>2 DEF JobInv

LEMMA InvCollectClose ==
    ASSUME IInv, TypeOK', NEW j \in Jobs, CollectClose(j), NEW i \in Jobs
    PROVE  JobInv(i)'
<1> USE DEF CollectClose
<1>1. NotStarted(i)' /\ ChunkRows(i)' /\ CollectorCounts(i)' /\ WorkerKnows(i)' /\ Completion(i)'
  <2>1. TypeOK /\ JobInv(i)
    BY DEF IInv
  <2>2. NotStarted(i)'
    BY <2>1 DEF JobInv, TypeOK, NotStarted, Exists, NoRow
  <2>3. ChunkRows(i)'
    BY <2>1 DEF JobInv, TypeOK, NotStarted, ChunkRows, CollectorCounts, Exists, NoRow
  <2>4. CollectorCounts(i)'
    BY <2>1 DEF JobInv, TypeOK, NotStarted, CollectorCounts, Exists, NoRow
  <2>5. WorkerKnows(i)'
    BY <2>1 DEF JobInv, TypeOK, NotStarted, ChunkRows, WorkerKnows, Exists
  <2>6. Completion(i)'
    BY <2>1 DEF JobInv, TypeOK, NotStarted, CollectorCounts, Completion, Exists, AllCounted, NoRow
  <2> QED
    BY <2>2, <2>3, <2>4, <2>5, <2>6
<1>2. ProcessedCount(i)'
  <2>1. Settled(i) \subseteq Settled(i)'
    BY DEF IInv, JobInv, TypeOK, WorkerKnows, Settled
  <2>2. Exists(i)' => Exists(i) /\ job'[i].processed = job[i].processed
    BY DEF IInv, TypeOK, JobRow, Exists, NoRow
  <2> QED
    BY <2>1, <2>2, SettledKept
<1> QED
  BY <1>1, <1>2 DEF JobInv

LEMMA InvCollectGone ==
    ASSUME IInv, TypeOK', NEW j \in Jobs, CollectGone(j), NEW i \in Jobs
    PROVE  JobInv(i)'
<1> USE DEF CollectGone
<1>1. NotStarted(i)' /\ ChunkRows(i)' /\ CollectorCounts(i)' /\ WorkerKnows(i)' /\ Completion(i)'
  <2>1. TypeOK /\ JobInv(i)
    BY DEF IInv
  <2>2. NotStarted(i)'
    BY <2>1 DEF JobInv, TypeOK, NotStarted, Exists, NoRow
  <2>3. ChunkRows(i)'
    BY <2>1 DEF JobInv, TypeOK, NotStarted, ChunkRows, CollectorCounts, Exists, NoRow
  <2>4. CollectorCounts(i)'
    BY <2>1 DEF JobInv, TypeOK, NotStarted, CollectorCounts, Exists, NoRow
  <2>5. WorkerKnows(i)'
    BY <2>1 DEF JobInv, TypeOK, NotStarted, ChunkRows, WorkerKnows, Exists
  <2>6. Completion(i)'
    BY <2>1 DEF JobInv, TypeOK, NotStarted, CollectorCounts, Completion, Exists, AllCounted, NoRow
  <2> QED
    BY <2>2, <2>3, <2>4, <2>5, <2>6
<1>2. ProcessedCount(i)'
  <2>1. Settled(i) \subseteq Settled(i)'
    BY DEF IInv, JobInv, TypeOK, WorkerKnows, Settled
  <2>2. Exists(i)' => Exists(i) /\ job'[i].processed = job[i].processed
    BY DEF IInv, TypeOK, JobRow, Exists, NoRow
  <2> QED
    BY <2>1, <2>2, SettledKept
<1> QED
  BY <1>1, <1>2 DEF JobInv

LEMMA InvCollectFail ==
    ASSUME IInv, TypeOK', NEW j \in Jobs, CollectFail(j), NEW i \in Jobs
    PROVE  JobInv(i)'
<1> USE DEF CollectFail, Fail
<1>1. NotStarted(i)' /\ ChunkRows(i)' /\ CollectorCounts(i)' /\ WorkerKnows(i)' /\ Completion(i)'
  <2>1. TypeOK /\ JobInv(i)
    BY DEF IInv
  <2>2. NotStarted(i)'
    BY <2>1 DEF JobInv, TypeOK, NotStarted, Exists, NoRow
  <2>3. ChunkRows(i)'
    BY <2>1 DEF JobInv, TypeOK, NotStarted, ChunkRows, CollectorCounts, Exists, NoRow
  <2>4. CollectorCounts(i)'
    BY <2>1 DEF JobInv, TypeOK, NotStarted, CollectorCounts, Exists, NoRow
  <2>5. WorkerKnows(i)'
    BY <2>1 DEF JobInv, TypeOK, NotStarted, ChunkRows, WorkerKnows, Exists
  <2>6. Completion(i)'
    BY <2>1 DEF JobInv, TypeOK, NotStarted, CollectorCounts, Completion, Exists, AllCounted, NoRow
  <2> QED
    BY <2>2, <2>3, <2>4, <2>5, <2>6
<1>2. ProcessedCount(i)'
  <2>1. Settled(i) \subseteq Settled(i)'
    BY DEF IInv, JobInv, TypeOK, WorkerKnows, Settled
  <2>2. Exists(i)' => Exists(i) /\ job'[i].processed = job[i].processed
    BY DEF IInv, TypeOK, JobRow, Exists, NoRow
  <2> QED
    BY <2>1, <2>2, SettledKept
<1> QED
  BY <1>1, <1>2 DEF JobInv

LEMMA InvCollectThrows ==
    ASSUME IInv, TypeOK', NEW j \in Jobs, CollectThrows(j), NEW i \in Jobs
    PROVE  JobInv(i)'
<1> USE DEF CollectThrows, Throws
<1>1. NotStarted(i)' /\ ChunkRows(i)' /\ CollectorCounts(i)' /\ WorkerKnows(i)' /\ Completion(i)'
  <2>1. TypeOK /\ JobInv(i)
    BY DEF IInv
  <2>2. NotStarted(i)'
    BY <2>1 DEF JobInv, TypeOK, NotStarted, Exists, NoRow
  <2>3. ChunkRows(i)'
    BY <2>1 DEF JobInv, TypeOK, NotStarted, ChunkRows, CollectorCounts, Exists, NoRow
  <2>4. CollectorCounts(i)'
    BY <2>1 DEF JobInv, TypeOK, NotStarted, CollectorCounts, Exists, NoRow
  <2>5. WorkerKnows(i)'
    BY <2>1 DEF JobInv, TypeOK, NotStarted, ChunkRows, WorkerKnows, Exists
  <2>6. Completion(i)'
    BY <2>1 DEF JobInv, TypeOK, NotStarted, CollectorCounts, Completion, Exists, AllCounted, NoRow
  <2> QED
    BY <2>2, <2>3, <2>4, <2>5, <2>6
<1>2. ProcessedCount(i)'
  <2>1. Settled(i) \subseteq Settled(i)'
    BY DEF IInv, JobInv, TypeOK, WorkerKnows, Settled
  <2>2. Exists(i)' => Exists(i) /\ job'[i].processed = job[i].processed
    BY DEF IInv, TypeOK, JobRow, Exists, NoRow
  <2> QED
    BY <2>1, <2>2, SettledKept
<1> QED
  BY <1>1, <1>2 DEF JobInv

LEMMA InvCollectFailThrows ==
    ASSUME IInv, TypeOK', NEW j \in Jobs, CollectFailThrows(j), NEW i \in Jobs
    PROVE  JobInv(i)'
<1> USE DEF CollectFailThrows, Throws
<1>1. NotStarted(i)' /\ ChunkRows(i)' /\ CollectorCounts(i)' /\ WorkerKnows(i)' /\ Completion(i)'
  <2>1. TypeOK /\ JobInv(i)
    BY DEF IInv
  <2>2. NotStarted(i)'
    BY <2>1 DEF JobInv, TypeOK, NotStarted, Exists, NoRow
  <2>3. ChunkRows(i)'
    BY <2>1 DEF JobInv, TypeOK, NotStarted, ChunkRows, CollectorCounts, Exists, NoRow
  <2>4. CollectorCounts(i)'
    BY <2>1 DEF JobInv, TypeOK, NotStarted, CollectorCounts, Exists, NoRow
  <2>5. WorkerKnows(i)'
    BY <2>1 DEF JobInv, TypeOK, NotStarted, ChunkRows, WorkerKnows, Exists
  <2>6. Completion(i)'
    BY <2>1 DEF JobInv, TypeOK, NotStarted, CollectorCounts, Completion, Exists, AllCounted, NoRow
  <2> QED
    BY <2>2, <2>3, <2>4, <2>5, <2>6
<1>2. ProcessedCount(i)'
  <2>1. Settled(i) \subseteq Settled(i)'
    BY DEF IInv, JobInv, TypeOK, WorkerKnows, Settled
  <2>2. Exists(i)' => Exists(i) /\ job'[i].processed = job[i].processed
    BY DEF IInv, TypeOK, JobRow, Exists, NoRow
  <2> QED
    BY <2>1, <2>2, SettledKept
<1> QED
  BY <1>1, <1>2 DEF JobInv

LEMMA InvWatchPoll ==
    ASSUME IInv, TypeOK', NEW j \in Jobs, WatchPoll(j), NEW i \in Jobs
    PROVE  JobInv(i)'
<1> USE DEF WatchPoll
<1>1. NotStarted(i)' /\ ChunkRows(i)' /\ CollectorCounts(i)' /\ Completion(i)'
  BY DEF IInv, JobInv, TypeOK, NotStarted, ChunkRows, CollectorCounts, WorkerKnows,
     Completion, Exists, AllCounted, NoRow
<1>2. WorkerKnows(i)'
  <2>1. CASE i = j
    <3>1. \A k \in ChunkNo : k \in Oldest(Pending(j)) =>
              chunk[j][k] = "PENDING" /\ k <= saved[j] /\ Pending(j) # {}
      BY DEF Oldest, Pending, IInv, JobInv, ChunkRows
    <3>2. \A k \in ChunkNo :
              \/ worker'[j][k] = "idle"
              \/ worker'[j][k] = "claim" /\ k \in Oldest(Pending(j))
      BY DEF IInv, TypeOK
    <3>3. Pending(j) # {} => watcher'[j] = "batch"
      BY DEF IInv, TypeOK
    <3> QED
      BY <2>1, <3>1, <3>2, <3>3 DEF IInv, JobInv, WorkerKnows
  <2>2. CASE i # j
    BY <2>2 DEF IInv, JobInv, TypeOK, WorkerKnows
  <2> QED
    BY <2>1, <2>2
<1>3. ProcessedCount(i)'
  <2>1. Settled(i) \subseteq Settled(i)'
    BY DEF IInv, JobInv, TypeOK, WorkerKnows, Settled
  <2>2. Exists(i)' => Exists(i) /\ job'[i].processed = job[i].processed
    BY DEF Exists
  <2> QED
    BY <2>1, <2>2, SettledKept
<1> QED
  BY <1>1, <1>2, <1>3 DEF JobInv

LEMMA InvWatchJoin ==
    ASSUME IInv, TypeOK', NEW j \in Jobs, WatchJoin(j), NEW i \in Jobs
    PROVE  JobInv(i)'
<1> USE DEF WatchJoin
<1>1. NotStarted(i)' /\ ChunkRows(i)' /\ CollectorCounts(i)' /\ WorkerKnows(i)' /\ Completion(i)'
  <2>1. TypeOK /\ JobInv(i)
    BY DEF IInv
  <2>2. NotStarted(i)'
    BY <2>1 DEF JobInv, TypeOK, NotStarted, Exists, NoRow
  <2>3. ChunkRows(i)'
    BY <2>1 DEF JobInv, TypeOK, NotStarted, ChunkRows, CollectorCounts, Exists, NoRow
  <2>4. CollectorCounts(i)'
    BY <2>1 DEF JobInv, TypeOK, NotStarted, CollectorCounts, Exists, NoRow
  <2>5. WorkerKnows(i)'
    BY <2>1 DEF JobInv, TypeOK, NotStarted, ChunkRows, WorkerKnows, Exists
  <2>6. Completion(i)'
    BY <2>1 DEF JobInv, TypeOK, NotStarted, CollectorCounts, Completion, Exists, AllCounted, NoRow
  <2> QED
    BY <2>2, <2>3, <2>4, <2>5, <2>6
<1>2. ProcessedCount(i)'
  <2>1. Settled(i) \subseteq Settled(i)'
    BY DEF IInv, JobInv, TypeOK, WorkerKnows, Settled
  <2>2. Exists(i)' => Exists(i) /\ job'[i].processed = job[i].processed
    BY DEF IInv, TypeOK, JobRow, Exists, NoRow
  <2> QED
    BY <2>1, <2>2, SettledKept
<1> QED
  BY <1>1, <1>2 DEF JobInv

LEMMA InvWatchCheck ==
    ASSUME IInv, TypeOK', NEW j \in Jobs, WatchCheck(j), NEW i \in Jobs
    PROVE  JobInv(i)'
<1> USE DEF WatchCheck
<1>1. NotStarted(i)' /\ ChunkRows(i)' /\ CollectorCounts(i)' /\ WorkerKnows(i)' /\ Completion(i)'
  <2>1. TypeOK /\ JobInv(i)
    BY DEF IInv
  <2>2. NotStarted(i)'
    BY <2>1 DEF JobInv, TypeOK, NotStarted, Exists, NoRow
  <2>3. ChunkRows(i)'
    BY <2>1 DEF JobInv, TypeOK, NotStarted, ChunkRows, CollectorCounts, Exists, NoRow
  <2>4. CollectorCounts(i)'
    BY <2>1 DEF JobInv, TypeOK, NotStarted, CollectorCounts, Exists, NoRow
  <2>5. WorkerKnows(i)'
    BY <2>1 DEF JobInv, TypeOK, NotStarted, ChunkRows, WorkerKnows, Exists
  <2>6. Completion(i)'
    BY <2>1 DEF JobInv, TypeOK, NotStarted, CollectorCounts, Completion, Exists, AllCounted, NoRow
  <2> QED
    BY <2>2, <2>3, <2>4, <2>5, <2>6
<1>2. ProcessedCount(i)'
  <2>1. Settled(i) \subseteq Settled(i)'
    BY DEF IInv, JobInv, TypeOK, WorkerKnows, Settled
  <2>2. Exists(i)' => Exists(i) /\ job'[i].processed = job[i].processed
    BY DEF IInv, TypeOK, JobRow, Exists, NoRow
  <2> QED
    BY <2>1, <2>2, SettledKept
<1> QED
  BY <1>1, <1>2 DEF JobInv

LEMMA InvWatchComplete ==
    ASSUME IInv, TypeOK', NEW j \in Jobs, WatchComplete(j), NEW i \in Jobs
    PROVE  JobInv(i)'
<1> USE DEF WatchComplete
<1>1. NotStarted(i)' /\ ChunkRows(i)' /\ CollectorCounts(i)' /\ WorkerKnows(i)' /\ Completion(i)'
  <2>1. TypeOK /\ JobInv(i)
    BY DEF IInv
  <2>2. NotStarted(i)'
    BY <2>1 DEF JobInv, TypeOK, NotStarted, Exists, NoRow
  <2>3. ChunkRows(i)'
    BY <2>1 DEF JobInv, TypeOK, NotStarted, ChunkRows, CollectorCounts, Exists, NoRow
  <2>4. CollectorCounts(i)'
    BY <2>1 DEF JobInv, TypeOK, NotStarted, CollectorCounts, Exists, NoRow
  <2>5. WorkerKnows(i)'
    BY <2>1 DEF JobInv, TypeOK, NotStarted, ChunkRows, WorkerKnows, Exists
  <2>6. Completion(i)'
    BY <2>1 DEF JobInv, TypeOK, NotStarted, CollectorCounts, Completion, Exists, AllCounted, NoRow
  <2> QED
    BY <2>2, <2>3, <2>4, <2>5, <2>6
<1>2. ProcessedCount(i)'
  <2>1. Settled(i) \subseteq Settled(i)'
    BY DEF IInv, JobInv, TypeOK, WorkerKnows, Settled
  <2>2. Exists(i)' => Exists(i) /\ job'[i].processed = job[i].processed
    <3>1. job \in [Jobs -> JobRow] /\ Exists(j)
      BY DEF IInv, TypeOK
    <3>2. CASE i = j
      BY <3>1, <3>2 DEF JobRow
    <3>3. CASE i # j
      BY <3>1, <3>3 DEF Exists
    <3> QED
      BY <3>1, <3>2, <3>3
  <2> QED
    BY <2>1, <2>2, SettledKept
<1> QED
  BY <1>1, <1>2 DEF JobInv

LEMMA InvWatchGone ==
    ASSUME IInv, TypeOK', NEW j \in Jobs, WatchGone(j), NEW i \in Jobs
    PROVE  JobInv(i)'
<1> USE DEF WatchGone
<1>1. NotStarted(i)' /\ ChunkRows(i)' /\ CollectorCounts(i)' /\ WorkerKnows(i)' /\ Completion(i)'
  <2>1. TypeOK /\ JobInv(i)
    BY DEF IInv
  <2>2. NotStarted(i)'
    BY <2>1 DEF JobInv, TypeOK, NotStarted, Exists, NoRow
  <2>3. ChunkRows(i)'
    BY <2>1 DEF JobInv, TypeOK, NotStarted, ChunkRows, CollectorCounts, Exists, NoRow
  <2>4. CollectorCounts(i)'
    BY <2>1 DEF JobInv, TypeOK, NotStarted, CollectorCounts, Exists, NoRow
  <2>5. WorkerKnows(i)'
    BY <2>1 DEF JobInv, TypeOK, NotStarted, ChunkRows, WorkerKnows, Exists
  <2>6. Completion(i)'
    BY <2>1 DEF JobInv, TypeOK, NotStarted, CollectorCounts, Completion, Exists, AllCounted, NoRow
  <2> QED
    BY <2>2, <2>3, <2>4, <2>5, <2>6
<1>2. ProcessedCount(i)'
  <2>1. Settled(i) \subseteq Settled(i)'
    BY DEF IInv, JobInv, TypeOK, WorkerKnows, Settled
  <2>2. Exists(i)' => Exists(i) /\ job'[i].processed = job[i].processed
    BY DEF IInv, TypeOK, JobRow, Exists, NoRow
  <2> QED
    BY <2>1, <2>2, SettledKept
<1> QED
  BY <1>1, <1>2 DEF JobInv

LEMMA InvWatchFail ==
    ASSUME IInv, TypeOK', NEW j \in Jobs, WatchFail(j), NEW i \in Jobs
    PROVE  JobInv(i)'
<1> USE DEF WatchFail, Fail
<1>1. NotStarted(i)' /\ ChunkRows(i)' /\ CollectorCounts(i)' /\ WorkerKnows(i)' /\ Completion(i)'
  <2>1. TypeOK /\ JobInv(i)
    BY DEF IInv
  <2>2. NotStarted(i)'
    BY <2>1 DEF JobInv, TypeOK, NotStarted, Exists, NoRow
  <2>3. ChunkRows(i)'
    BY <2>1 DEF JobInv, TypeOK, NotStarted, ChunkRows, CollectorCounts, Exists, NoRow
  <2>4. CollectorCounts(i)'
    BY <2>1 DEF JobInv, TypeOK, NotStarted, CollectorCounts, Exists, NoRow
  <2>5. WorkerKnows(i)'
    BY <2>1 DEF JobInv, TypeOK, NotStarted, ChunkRows, WorkerKnows, Exists
  <2>6. Completion(i)'
    BY <2>1 DEF JobInv, TypeOK, NotStarted, CollectorCounts, Completion, Exists, AllCounted, NoRow
  <2> QED
    BY <2>2, <2>3, <2>4, <2>5, <2>6
<1>2. ProcessedCount(i)'
  <2>1. Settled(i) \subseteq Settled(i)'
    BY DEF IInv, JobInv, TypeOK, WorkerKnows, Settled
  <2>2. Exists(i)' => Exists(i) /\ job'[i].processed = job[i].processed
    BY DEF IInv, TypeOK, JobRow, Exists, NoRow
  <2> QED
    BY <2>1, <2>2, SettledKept
<1> QED
  BY <1>1, <1>2 DEF JobInv

LEMMA InvWatchThrows ==
    ASSUME IInv, TypeOK', NEW j \in Jobs, WatchThrows(j), NEW i \in Jobs
    PROVE  JobInv(i)'
<1> USE DEF WatchThrows, Throws
<1>1. NotStarted(i)' /\ ChunkRows(i)' /\ CollectorCounts(i)' /\ WorkerKnows(i)' /\ Completion(i)'
  <2>1. TypeOK /\ JobInv(i)
    BY DEF IInv
  <2>2. NotStarted(i)'
    BY <2>1 DEF JobInv, TypeOK, NotStarted, Exists, NoRow
  <2>3. ChunkRows(i)'
    BY <2>1 DEF JobInv, TypeOK, NotStarted, ChunkRows, CollectorCounts, Exists, NoRow
  <2>4. CollectorCounts(i)'
    BY <2>1 DEF JobInv, TypeOK, NotStarted, CollectorCounts, Exists, NoRow
  <2>5. WorkerKnows(i)'
    BY <2>1 DEF JobInv, TypeOK, NotStarted, ChunkRows, WorkerKnows, Exists
  <2>6. Completion(i)'
    BY <2>1 DEF JobInv, TypeOK, NotStarted, CollectorCounts, Completion, Exists, AllCounted, NoRow
  <2> QED
    BY <2>2, <2>3, <2>4, <2>5, <2>6
<1>2. ProcessedCount(i)'
  <2>1. Settled(i) \subseteq Settled(i)'
    BY DEF IInv, JobInv, TypeOK, WorkerKnows, Settled
  <2>2. Exists(i)' => Exists(i) /\ job'[i].processed = job[i].processed
    BY DEF IInv, TypeOK, JobRow, Exists, NoRow
  <2> QED
    BY <2>1, <2>2, SettledKept
<1> QED
  BY <1>1, <1>2 DEF JobInv

LEMMA InvWatchFailThrows ==
    ASSUME IInv, TypeOK', NEW j \in Jobs, WatchFailThrows(j), NEW i \in Jobs
    PROVE  JobInv(i)'
<1> USE DEF WatchFailThrows, Throws
<1>1. NotStarted(i)' /\ ChunkRows(i)' /\ CollectorCounts(i)' /\ WorkerKnows(i)' /\ Completion(i)'
  <2>1. TypeOK /\ JobInv(i)
    BY DEF IInv
  <2>2. NotStarted(i)'
    BY <2>1 DEF JobInv, TypeOK, NotStarted, Exists, NoRow
  <2>3. ChunkRows(i)'
    BY <2>1 DEF JobInv, TypeOK, NotStarted, ChunkRows, CollectorCounts, Exists, NoRow
  <2>4. CollectorCounts(i)'
    BY <2>1 DEF JobInv, TypeOK, NotStarted, CollectorCounts, Exists, NoRow
  <2>5. WorkerKnows(i)'
    BY <2>1 DEF JobInv, TypeOK, NotStarted, ChunkRows, WorkerKnows, Exists
  <2>6. Completion(i)'
    BY <2>1 DEF JobInv, TypeOK, NotStarted, CollectorCounts, Completion, Exists, AllCounted, NoRow
  <2> QED
    BY <2>2, <2>3, <2>4, <2>5, <2>6
<1>2. ProcessedCount(i)'
  <2>1. Settled(i) \subseteq Settled(i)'
    BY DEF IInv, JobInv, TypeOK, WorkerKnows, Settled
  <2>2. Exists(i)' => Exists(i) /\ job'[i].processed = job[i].processed
    BY DEF IInv, TypeOK, JobRow, Exists, NoRow
  <2> QED
    BY <2>1, <2>2, SettledKept
<1> QED
  BY <1>1, <1>2 DEF JobInv

LEMMA InvTwoMinutesPass ==
    ASSUME IInv, TypeOK', NEW j \in Jobs, TwoMinutesPass(j), NEW i \in Jobs
    PROVE  JobInv(i)'
<1> USE DEF TwoMinutesPass
<1>1. NotStarted(i)' /\ ChunkRows(i)' /\ CollectorCounts(i)' /\ WorkerKnows(i)' /\ Completion(i)'
  <2>1. TypeOK /\ JobInv(i)
    BY DEF IInv
  <2>2. NotStarted(i)'
    BY <2>1 DEF JobInv, TypeOK, NotStarted, Exists, NoRow
  <2>3. ChunkRows(i)'
    BY <2>1 DEF JobInv, TypeOK, NotStarted, ChunkRows, CollectorCounts, Exists, NoRow
  <2>4. CollectorCounts(i)'
    BY <2>1 DEF JobInv, TypeOK, NotStarted, CollectorCounts, Exists, NoRow
  <2>5. WorkerKnows(i)'
    BY <2>1 DEF JobInv, TypeOK, NotStarted, ChunkRows, WorkerKnows, Exists
  <2>6. Completion(i)'
    BY <2>1 DEF JobInv, TypeOK, NotStarted, CollectorCounts, Completion, Exists, AllCounted, NoRow
  <2> QED
    BY <2>2, <2>3, <2>4, <2>5, <2>6
<1>2. ProcessedCount(i)'
  <2>1. Settled(i) \subseteq Settled(i)'
    BY DEF IInv, JobInv, TypeOK, WorkerKnows, Settled
  <2>2. Exists(i)' => Exists(i) /\ job'[i].processed = job[i].processed
    BY DEF IInv, TypeOK, JobRow, Exists, NoRow
  <2> QED
    BY <2>1, <2>2, SettledKept
<1> QED
  BY <1>1, <1>2 DEF JobInv

LEMMA InvClaim ==
    ASSUME IInv, TypeOK', NEW j \in Jobs, NEW k \in ChunkNo, Claim(j, k), NEW i \in Jobs
    PROVE  JobInv(i)'
<1> USE DEF Claim, WorkerTo
<1>1. NotStarted(i)' /\ ChunkRows(i)' /\ CollectorCounts(i)' /\ WorkerKnows(i)' /\ Completion(i)'
  <2>1. TypeOK /\ JobInv(i)
    BY DEF IInv
  <2>2. NotStarted(i)'
    BY <2>1 DEF JobInv, TypeOK, NotStarted, Exists, NoRow
  <2>3. ChunkRows(i)'
    BY <2>1 DEF JobInv, TypeOK, NotStarted, ChunkRows, CollectorCounts, Exists, NoRow
  <2>4. CollectorCounts(i)'
    BY <2>1 DEF JobInv, TypeOK, NotStarted, CollectorCounts, Exists, NoRow
  <2>5. WorkerKnows(i)'
    BY <2>1 DEF JobInv, TypeOK, NotStarted, ChunkRows, WorkerKnows, Exists
  <2>6. Completion(i)'
    BY <2>1 DEF JobInv, TypeOK, NotStarted, CollectorCounts, Completion, Exists, AllCounted, NoRow
  <2> QED
    BY <2>2, <2>3, <2>4, <2>5, <2>6
<1>2. ProcessedCount(i)'
  <2>1. Settled(i) \subseteq Settled(i)'
    BY DEF IInv, JobInv, TypeOK, WorkerKnows, Settled
  <2>2. Exists(i)' => Exists(i) /\ job'[i].processed = job[i].processed
    BY DEF IInv, TypeOK, JobRow, Exists, NoRow
  <2> QED
    BY <2>1, <2>2, SettledKept
<1> QED
  BY <1>1, <1>2 DEF JobInv

LEMMA InvClaimNothing ==
    ASSUME IInv, TypeOK', NEW j \in Jobs, NEW k \in ChunkNo, ClaimNothing(j, k), NEW i \in Jobs
    PROVE  JobInv(i)'
<1> USE DEF ClaimNothing, WorkerTo
<1>1. NotStarted(i)' /\ ChunkRows(i)' /\ CollectorCounts(i)' /\ WorkerKnows(i)' /\ Completion(i)'
  <2>1. TypeOK /\ JobInv(i)
    BY DEF IInv
  <2>2. NotStarted(i)'
    BY <2>1 DEF JobInv, TypeOK, NotStarted, Exists, NoRow
  <2>3. ChunkRows(i)'
    BY <2>1 DEF JobInv, TypeOK, NotStarted, ChunkRows, CollectorCounts, Exists, NoRow
  <2>4. CollectorCounts(i)'
    BY <2>1 DEF JobInv, TypeOK, NotStarted, CollectorCounts, Exists, NoRow
  <2>5. WorkerKnows(i)'
    BY <2>1 DEF JobInv, TypeOK, NotStarted, ChunkRows, WorkerKnows, Exists
  <2>6. Completion(i)'
    BY <2>1 DEF JobInv, TypeOK, NotStarted, CollectorCounts, Completion, Exists, AllCounted, NoRow
  <2> QED
    BY <2>2, <2>3, <2>4, <2>5, <2>6
<1>2. ProcessedCount(i)'
  <2>1. Settled(i) \subseteq Settled(i)'
    BY DEF IInv, JobInv, TypeOK, WorkerKnows, Settled
  <2>2. Exists(i)' => Exists(i) /\ job'[i].processed = job[i].processed
    BY DEF IInv, TypeOK, JobRow, Exists, NoRow
  <2> QED
    BY <2>1, <2>2, SettledKept
<1> QED
  BY <1>1, <1>2 DEF JobInv

LEMMA InvLoad ==
    ASSUME IInv, TypeOK', NEW j \in Jobs, NEW k \in ChunkNo, Load(j, k), NEW i \in Jobs
    PROVE  JobInv(i)'
<1> USE DEF Load, WorkerTo
<1>1. NotStarted(i)' /\ ChunkRows(i)' /\ CollectorCounts(i)' /\ WorkerKnows(i)' /\ Completion(i)'
  <2>1. TypeOK /\ JobInv(i)
    BY DEF IInv
  <2>2. NotStarted(i)'
    BY <2>1 DEF JobInv, TypeOK, NotStarted, Exists, NoRow
  <2>3. ChunkRows(i)'
    BY <2>1 DEF JobInv, TypeOK, NotStarted, ChunkRows, CollectorCounts, Exists, NoRow
  <2>4. CollectorCounts(i)'
    BY <2>1 DEF JobInv, TypeOK, NotStarted, CollectorCounts, Exists, NoRow
  <2>5. WorkerKnows(i)'
    BY <2>1 DEF JobInv, TypeOK, NotStarted, ChunkRows, WorkerKnows, Exists
  <2>6. Completion(i)'
    BY <2>1 DEF JobInv, TypeOK, NotStarted, CollectorCounts, Completion, Exists, AllCounted, NoRow
  <2> QED
    BY <2>2, <2>3, <2>4, <2>5, <2>6
<1>2. ProcessedCount(i)'
  <2>1. Settled(i) \subseteq Settled(i)'
    BY DEF IInv, JobInv, TypeOK, WorkerKnows, Settled
  <2>2. Exists(i)' => Exists(i) /\ job'[i].processed = job[i].processed
    BY DEF IInv, TypeOK, JobRow, Exists, NoRow
  <2> QED
    BY <2>1, <2>2, SettledKept
<1> QED
  BY <1>1, <1>2 DEF JobInv

LEMMA InvInsert ==
    ASSUME IInv, TypeOK', NEW j \in Jobs, NEW k \in ChunkNo, Insert(j, k), NEW i \in Jobs
    PROVE  JobInv(i)'
<1> USE DEF Insert, WorkerTo
<1>1. NotStarted(i)' /\ ChunkRows(i)' /\ CollectorCounts(i)' /\ WorkerKnows(i)' /\ Completion(i)'
  <2>1. TypeOK /\ JobInv(i)
    BY DEF IInv
  <2>2. NotStarted(i)'
    BY <2>1 DEF JobInv, TypeOK, NotStarted, WorkerKnows, Exists
  <2>3. ChunkRows(i)'
    BY <2>1 DEF JobInv, TypeOK, NotStarted, ChunkRows, CollectorCounts, Exists, NoRow
  <2>4. CollectorCounts(i)'
    BY <2>1 DEF JobInv, TypeOK, NotStarted, CollectorCounts, Exists, NoRow
  <2>5. WorkerKnows(i)'
    BY <2>1 DEF JobInv, TypeOK, NotStarted, ChunkRows, WorkerKnows, Exists
  <2>6. Completion(i)'
    BY <2>1 DEF JobInv, TypeOK, NotStarted, CollectorCounts, Completion, Exists, AllCounted, NoRow
  <2> QED
    BY <2>2, <2>3, <2>4, <2>5, <2>6
<1>2. ProcessedCount(i)'
  <2>1. Settled(i) \subseteq Settled(i)'
    BY DEF IInv, JobInv, TypeOK, WorkerKnows, Settled
  <2>2. Exists(i)' => Exists(i) /\ job'[i].processed = job[i].processed
    BY DEF IInv, TypeOK, JobRow, Exists, NoRow
  <2> QED
    BY <2>1, <2>2, SettledKept
<1> QED
  BY <1>1, <1>2 DEF JobInv

LEMMA InvMarkDone ==
    ASSUME IInv, TypeOK', NEW j \in Jobs, NEW k \in ChunkNo, MarkDone(j, k), NEW i \in Jobs
    PROVE  JobInv(i)'
<1> USE DEF MarkDone, WorkerTo
<1>1. NotStarted(i)' /\ ChunkRows(i)' /\ CollectorCounts(i)' /\ WorkerKnows(i)' /\ Completion(i)'
  <2>1. TypeOK /\ JobInv(i)
    BY DEF IInv
  <2>2. NotStarted(i)'
    BY <2>1 DEF JobInv, TypeOK, NotStarted, Exists, NoRow
  <2>3. ChunkRows(i)'
    BY <2>1 DEF JobInv, TypeOK, ChunkRows, WorkerKnows, Exists
  <2>4. CollectorCounts(i)'
    BY <2>1 DEF JobInv, TypeOK, NotStarted, CollectorCounts, Exists, NoRow
  <2>5. WorkerKnows(i)'
    BY <2>1 DEF JobInv, TypeOK, NotStarted, ChunkRows, WorkerKnows, Exists
  <2>6. Completion(i)'
    BY <2>1 DEF JobInv, TypeOK, NotStarted, CollectorCounts, Completion, Exists, AllCounted, NoRow
  <2> QED
    BY <2>2, <2>3, <2>4, <2>5, <2>6
<1>2. ProcessedCount(i)'
  <2>1. Settled(i) \subseteq Settled(i)'
    BY DEF IInv, JobInv, TypeOK, WorkerKnows, Settled
  <2>2. Exists(i)' => Exists(i) /\ job'[i].processed = job[i].processed
    BY DEF IInv, TypeOK, JobRow, Exists, NoRow
  <2> QED
    BY <2>1, <2>2, SettledKept
<1> QED
  BY <1>1, <1>2 DEF JobInv

LEMMA InvCount ==
    ASSUME IInv, TypeOK', NEW j \in Jobs, NEW k \in ChunkNo, Count(j, k), NEW i \in Jobs
    PROVE  JobInv(i)'
<1> USE DEF Count, WorkerTo
<1>1. NotStarted(i)' /\ ChunkRows(i)' /\ CollectorCounts(i)' /\ WorkerKnows(i)' /\ Completion(i)'
  <2>1. job \in [Jobs -> JobRow] /\ \A x \in Jobs : JobInv(x)
    BY DEF IInv, TypeOK
  <2>2. /\ job'[i].status = job[i].status /\ job'[i].total = job[i].total
        /\ job'[i].collectDone = job[i].collectDone
        /\ job'[i].processed \in {job[i].processed, job[i].processed + 1}
        /\ job[i].processed \in Nat /\ job[i].total \in Nat
    BY <2>1 DEF JobRow
  <2>3. Exists(i)' <=> Exists(i)
    BY <2>2 DEF Exists
  <2>4. AllCounted(i) => AllCounted(i)'
    BY <2>2 DEF AllCounted
  <2>5. NotStarted(i)' /\ ChunkRows(i)' /\ CollectorCounts(i)' /\ Completion(i)'
    BY <2>1, <2>2, <2>3, <2>4 DEF JobInv, NotStarted, ChunkRows, CollectorCounts, Completion
  <2>6. \A x \in ChunkNo : worker'[i][x] = worker[i][x] \/ worker'[i][x] = "idle"
    BY DEF IInv, TypeOK
  <2>7. WorkerKnows(i)'
    BY <2>1, <2>6 DEF JobInv, WorkerKnows
  <2> QED
    BY <2>5, <2>7
<1>2. ProcessedCount(i)'
  <2>1. CASE i = j
    \* The worker's chunk becomes settled in the step that counts it.
    <3>1. k \notin Settled(j) /\ Settled(j)' = Settled(j) \union {k}
      BY DEF Settled, Exists, IInv, JobInv, TypeOK, WorkerKnows, ChunkRows
    <3>2. Cardinality(Settled(j)') = Cardinality(Settled(j)) + 1
      BY <3>1, SettledFinite, FS_AddElement
    <3>3. /\ job[j].processed \in Nat /\ job'[j].processed = job[j].processed + 1
          /\ job[j].processed <= Cardinality(Settled(j))
      BY DEF Exists, IInv, JobInv, ProcessedCount, TypeOK, JobRow
    <3> QED
      BY <2>1, <3>2, <3>3, SettledFinite DEF ProcessedCount
  <2>2. CASE i # j
    <3>1. Settled(i) \subseteq Settled(i)'
      BY <2>2 DEF Settled, IInv, TypeOK
    <3>2. Exists(i)' => Exists(i) /\ job'[i].processed = job[i].processed
      BY <2>2 DEF IInv, TypeOK, Exists
    <3> QED
      BY <3>1, <3>2, SettledKept
  <2> QED
    BY <2>1, <2>2
<1> QED
  BY <1>1, <1>2 DEF JobInv

LEMMA InvWorkerGone ==
    ASSUME IInv, TypeOK', NEW j \in Jobs, NEW k \in ChunkNo, WorkerGone(j, k), NEW i \in Jobs
    PROVE  JobInv(i)'
<1> USE DEF WorkerGone, WorkerTo
<1>1. NotStarted(i)' /\ ChunkRows(i)' /\ CollectorCounts(i)' /\ WorkerKnows(i)' /\ Completion(i)'
  <2>1. TypeOK /\ JobInv(i)
    BY DEF IInv
  <2>2. NotStarted(i)'
    BY <2>1 DEF JobInv, TypeOK, NotStarted, Exists, NoRow
  <2>3. ChunkRows(i)'
    BY <2>1 DEF JobInv, TypeOK, NotStarted, ChunkRows, CollectorCounts, Exists, NoRow
  <2>4. CollectorCounts(i)'
    BY <2>1 DEF JobInv, TypeOK, NotStarted, CollectorCounts, Exists, NoRow
  <2>5. WorkerKnows(i)'
    BY <2>1 DEF JobInv, TypeOK, NotStarted, ChunkRows, WorkerKnows, Exists
  <2>6. Completion(i)'
    BY <2>1 DEF JobInv, TypeOK, NotStarted, CollectorCounts, Completion, Exists, AllCounted, NoRow
  <2> QED
    BY <2>2, <2>3, <2>4, <2>5, <2>6
<1>2. ProcessedCount(i)'
  <2>1. CASE i = j
    BY <2>1 DEF ProcessedCount, Exists
  <2>2. CASE i # j
    <3>1. Settled(i) \subseteq Settled(i)'
      BY <2>2 DEF Settled, IInv, TypeOK
    <3>2. Exists(i)' => Exists(i) /\ job'[i].processed = job[i].processed
      BY DEF Exists
    <3> QED
      BY <3>1, <3>2, SettledKept
  <2> QED
    BY <2>1, <2>2
<1> QED
  BY <1>1, <1>2 DEF JobInv

LEMMA InvAbort ==
    ASSUME IInv, TypeOK', NEW j \in Jobs, NEW k \in ChunkNo, Abort(j, k), NEW i \in Jobs
    PROVE  JobInv(i)'
<1> USE DEF Abort, WorkerTo
<1>1. NotStarted(i)' /\ ChunkRows(i)' /\ CollectorCounts(i)' /\ WorkerKnows(i)' /\ Completion(i)'
  <2>1. NotStarted(i)' /\ ChunkRows(i)' /\ CollectorCounts(i)'
    BY DEF IInv, JobInv, TypeOK, NotStarted, ChunkRows, CollectorCounts, WorkerKnows, Exists
  <2>2. WorkerKnows(i)'
    BY DEF IInv, JobInv, TypeOK, WorkerKnows, Exists
  <2>3. Completion(i)'
    BY DEF IInv, JobInv, TypeOK, Completion, Exists, AllCounted
  <2> QED
    BY <2>1, <2>2, <2>3
<1>2. ProcessedCount(i)'
  <2>1. Settled(i) \subseteq Settled(i)'
    BY DEF IInv, JobInv, TypeOK, WorkerKnows, Settled
  <2>2. Exists(i)' => Exists(i) /\ job'[i].processed = job[i].processed
    BY DEF IInv, TypeOK, JobRow, Exists, NoRow
  <2> QED
    BY <2>1, <2>2, SettledKept
<1> QED
  BY <1>1, <1>2 DEF JobInv

LEMMA InvWorkerThrows ==
    ASSUME IInv, TypeOK', NEW j \in Jobs, NEW k \in ChunkNo, WorkerThrows(j, k), NEW i \in Jobs
    PROVE  JobInv(i)'
<1> USE DEF WorkerThrows, Throws, WorkerTo
<1>1. NotStarted(i)' /\ ChunkRows(i)' /\ CollectorCounts(i)' /\ WorkerKnows(i)' /\ Completion(i)'
  <2>1. TypeOK /\ JobInv(i)
    BY DEF IInv
  <2>2. NotStarted(i)'
    BY <2>1 DEF JobInv, TypeOK, NotStarted, Exists, NoRow
  <2>3. ChunkRows(i)'
    BY <2>1 DEF JobInv, TypeOK, NotStarted, ChunkRows, CollectorCounts, Exists, NoRow
  <2>4. CollectorCounts(i)'
    BY <2>1 DEF JobInv, TypeOK, NotStarted, CollectorCounts, Exists, NoRow
  <2>5. WorkerKnows(i)'
    BY <2>1 DEF JobInv, TypeOK, NotStarted, ChunkRows, WorkerKnows, Exists
  <2>6. Completion(i)'
    BY <2>1 DEF JobInv, TypeOK, NotStarted, CollectorCounts, Completion, Exists, AllCounted, NoRow
  <2> QED
    BY <2>2, <2>3, <2>4, <2>5, <2>6
<1>2. ProcessedCount(i)'
  <2>1. Settled(i) \subseteq Settled(i)'
    <3>1. \A x \in ChunkNo : chunk'[i][x] = chunk[i][x]
                             /\ (worker'[i][x] = worker[i][x] \/ (i = j /\ x = k))
      BY DEF IInv, TypeOK
    <3>2. chunk[j][k] # "DONE" \/ worker[j][k] = "count"
      BY DEF IInv, JobInv, WorkerKnows
    <3> QED
      BY <3>1, <3>2 DEF Settled
  <2>2. Exists(i)' => Exists(i) /\ job'[i].processed = job[i].processed
    BY DEF IInv, TypeOK, JobRow, Exists, NoRow
  <2> QED
    BY <2>1, <2>2, SettledKept
<1> QED
  BY <1>1, <1>2 DEF JobInv

LEMMA InvAbortThrows ==
    ASSUME IInv, TypeOK', NEW j \in Jobs, NEW k \in ChunkNo, AbortThrows(j, k), NEW i \in Jobs
    PROVE  JobInv(i)'
<1> USE DEF AbortThrows, Throws, WorkerTo
<1>1. NotStarted(i)' /\ ChunkRows(i)' /\ CollectorCounts(i)' /\ WorkerKnows(i)' /\ Completion(i)'
  <2>1. TypeOK /\ JobInv(i)
    BY DEF IInv
  <2>2. NotStarted(i)'
    BY <2>1 DEF JobInv, TypeOK, NotStarted, Exists, NoRow
  <2>3. ChunkRows(i)'
    BY <2>1 DEF JobInv, TypeOK, NotStarted, ChunkRows, CollectorCounts, Exists, NoRow
  <2>4. CollectorCounts(i)'
    BY <2>1 DEF JobInv, TypeOK, NotStarted, CollectorCounts, Exists, NoRow
  <2>5. WorkerKnows(i)'
    BY <2>1 DEF JobInv, TypeOK, NotStarted, ChunkRows, WorkerKnows, Exists
  <2>6. Completion(i)'
    BY <2>1 DEF JobInv, TypeOK, NotStarted, CollectorCounts, Completion, Exists, AllCounted, NoRow
  <2> QED
    BY <2>2, <2>3, <2>4, <2>5, <2>6
<1>2. ProcessedCount(i)'
  <2>1. Settled(i) \subseteq Settled(i)'
    BY DEF IInv, JobInv, TypeOK, WorkerKnows, Settled
  <2>2. Exists(i)' => Exists(i) /\ job'[i].processed = job[i].processed
    BY DEF IInv, TypeOK, JobRow, Exists, NoRow
  <2> QED
    BY <2>1, <2>2, SettledKept
<1> QED
  BY <1>1, <1>2 DEF JobInv

LEMMA InvInit == Init => IInv
<1> SUFFICES ASSUME Init, NEW j \in Jobs PROVE JobInv(j)
  BY TypeInit DEF IInv
<1>1. NotStarted(j) /\ ChunkRows(j) /\ CollectorCounts(j) /\ WorkerKnows(j) /\ Completion(j)
  BY DEF Init, NoRow, NotStarted, ChunkRows, CollectorCounts, WorkerKnows, Completion, Exists
<1>2. ProcessedCount(j)
  BY DEF Init, NoRow, ProcessedCount, Exists
<1> QED
  BY <1>1, <1>2 DEF JobInv

LEMMA InvUnconfigure ==
    ASSUME IInv, TypeOK', NEW n \in Integrations, Unconfigure(n), NEW i \in Jobs
    PROVE  JobInv(i)'
<1> USE DEF Unconfigure
<1>1. NotStarted(i)' /\ ChunkRows(i)' /\ CollectorCounts(i)' /\ WorkerKnows(i)' /\ Completion(i)'
  <2>1. TypeOK /\ JobInv(i)
    BY DEF IInv
  <2>2. NotStarted(i)'
    BY <2>1 DEF JobInv, TypeOK, NotStarted, Exists, NoRow
  <2>3. ChunkRows(i)'
    BY <2>1 DEF JobInv, TypeOK, NotStarted, ChunkRows, CollectorCounts, Exists, NoRow
  <2>4. CollectorCounts(i)'
    BY <2>1 DEF JobInv, TypeOK, NotStarted, CollectorCounts, Exists, NoRow
  <2>5. WorkerKnows(i)'
    BY <2>1 DEF JobInv, TypeOK, NotStarted, ChunkRows, WorkerKnows, Exists
  <2>6. Completion(i)'
    BY <2>1 DEF JobInv, TypeOK, NotStarted, CollectorCounts, Completion, Exists, AllCounted, NoRow
  <2> QED
    BY <2>2, <2>3, <2>4, <2>5, <2>6
<1>2. ProcessedCount(i)'
  BY DEF ProcessedCount, Settled, Exists, IInv, JobInv
<1> QED
  BY <1>1, <1>2 DEF JobInv

\* No worker survives, so every chunk that is DONE is settled.
LEMMA InvRestart ==
    ASSUME IInv, TypeOK', Restart, NEW i \in Jobs
    PROVE  JobInv(i)'
<1> USE DEF Restart
<1>1. NotStarted(i)' /\ ChunkRows(i)' /\ CollectorCounts(i)' /\ WorkerKnows(i)' /\ Completion(i)'
  <2>1. TypeOK /\ JobInv(i)
    BY DEF IInv
  <2>2. NotStarted(i)'
    BY <2>1 DEF JobInv, TypeOK, NotStarted, Exists, NoRow
  <2>3. ChunkRows(i)'
    BY <2>1 DEF JobInv, TypeOK, NotStarted, ChunkRows, CollectorCounts, Exists, NoRow
  <2>4. CollectorCounts(i)'
    BY <2>1 DEF JobInv, TypeOK, NotStarted, CollectorCounts, Exists, NoRow
  <2>5. WorkerKnows(i)'
    BY <2>1 DEF JobInv, TypeOK, NotStarted, ChunkRows, WorkerKnows, Exists
  <2>6. Completion(i)'
    BY <2>1 DEF JobInv, TypeOK, NotStarted, CollectorCounts, Completion, Exists, AllCounted, NoRow
  <2> QED
    BY <2>2, <2>3, <2>4, <2>5, <2>6
<1>2. ProcessedCount(i)'
  <2>1. Settled(i) \subseteq Settled(i)'
    BY DEF IInv, TypeOK, Settled
  <2>2. Exists(i)' => Exists(i) /\ job'[i].processed = job[i].processed
    BY DEF Exists
  <2> QED
    BY <2>1, <2>2, SettledKept
<1> QED
  BY <1>1, <1>2 DEF JobInv

LEMMA InvStutter ==
    ASSUME IInv, UNCHANGED vars, NEW i \in Jobs
    PROVE  JobInv(i)'
<1>1. NotStarted(i)' /\ ChunkRows(i)' /\ CollectorCounts(i)' /\ WorkerKnows(i)' /\ Completion(i)'
  <2>1. TypeOK /\ JobInv(i)
    BY DEF IInv
  <2>2. NotStarted(i)'
    BY <2>1 DEF JobInv, TypeOK, NotStarted, Exists, NoRow
  <2>3. ChunkRows(i)'
    BY <2>1 DEF JobInv, TypeOK, NotStarted, ChunkRows, CollectorCounts, Exists, NoRow
  <2>4. CollectorCounts(i)'
    BY <2>1 DEF JobInv, TypeOK, NotStarted, CollectorCounts, Exists, NoRow
  <2>5. WorkerKnows(i)'
    BY <2>1 DEF JobInv, TypeOK, NotStarted, ChunkRows, WorkerKnows, Exists
  <2>6. Completion(i)'
    BY <2>1 DEF JobInv, TypeOK, NotStarted, CollectorCounts, Completion, Exists, AllCounted, NoRow
  <2> QED
    BY <2>2, <2>3, <2>4, <2>5, <2>6
<1>2. ProcessedCount(i)'
  BY DEF ProcessedCount, Settled, Exists, IInv, JobInv
<1> QED
  BY <1>1, <1>2 DEF JobInv

LEMMA InvStep == IInv /\ [Next]_vars => IInv'
<1> SUFFICES ASSUME IInv, [Next]_vars PROVE IInv'
  OBVIOUS
<1>1. TypeOK'
  BY TypeStep DEF IInv
<1> SUFFICES ASSUME NEW i \in Jobs PROVE JobInv(i)'
  BY <1>1 DEF IInv
<1>2. ASSUME NEW j \in Jobs,
             \/ StartRequest(j) \/ StartCreate(j) \/ DeleteRequest(j) \/ DeleteRow(j)
             \/ TwoMinutesPass(j)
      PROVE  JobInv(i)'
  BY <1>1, <1>2, InvStartRequest, InvStartCreate, InvDeleteRequest, InvDeleteRow,
     InvTwoMinutesPass
<1>3. ASSUME NEW j \in Jobs, Collector(j) \/ CollectThrows(j) \/ CollectFailThrows(j)
      PROVE  JobInv(i)'
  BY <1>1, <1>3, InvCollectBegin, InvCollectSave, InvCollectTally, InvCollectClose,
     InvCollectGone, InvCollectFail, InvCollectThrows, InvCollectFailThrows DEF Collector
<1>4. ASSUME NEW j \in Jobs, Watcher(j) \/ WatchThrows(j) \/ WatchFailThrows(j)
      PROVE  JobInv(i)'
  BY <1>1, <1>4, InvWatchPoll, InvWatchJoin, InvWatchCheck, InvWatchComplete, InvWatchGone,
     InvWatchFail, InvWatchThrows, InvWatchFailThrows DEF Watcher
<1>5. ASSUME NEW j \in Jobs, NEW k \in ChunkNo,
             Worker(j, k) \/ WorkerThrows(j, k) \/ AbortThrows(j, k)
      PROVE  JobInv(i)'
  BY <1>1, <1>5, InvClaim, InvClaimNothing, InvLoad, InvInsert, InvMarkDone, InvCount,
     InvWorkerGone, InvAbort, InvWorkerThrows, InvAbortThrows DEF Worker
<1>6. ASSUME NEW n \in Integrations, Unconfigure(n) PROVE JobInv(i)'
  BY <1>1, <1>6, InvUnconfigure
<1>7. CASE Restart
  BY <1>1, <1>7, InvRestart
<1>8. CASE UNCHANGED vars
  BY <1>8, InvStutter
<1> QED
  BY <1>1, <1>2, <1>3, <1>4, <1>5, <1>6, <1>7, <1>8 DEF Next

LEMMA InvAlways == Spec => []IInv
BY InvInit, InvStep, PTL DEF Spec

-----------------------------------------------------------------------------
(* Consequences of the invariant. *)

LEMMA UpTo == ASSUME NEW n \in Nat PROVE IsFiniteSet(1..n) /\ Cardinality(1..n) = n
BY FS_Interval

LEMMA StoredCardinality ==
    ASSUME IInv, NEW j \in Jobs, Exists(j)
    PROVE  /\ Settled(j) \subseteq Done(j) /\ Done(j) \subseteq 1..saved[j]
           /\ IsFiniteSet(1..saved[j]) /\ Cardinality(1..saved[j]) = saved[j]
           /\ IsFiniteSet(Done(j)) /\ Cardinality(Done(j)) \in Nat
           /\ Cardinality(Settled(j)) <= Cardinality(Done(j))
           /\ Cardinality(Done(j)) <= saved[j]
<1>1. saved[j] \in 0..MaxChunks
  BY DEF IInv, TypeOK
<1>2. Settled(j) \subseteq Done(j)
  BY DEF Settled, Done
<1>3. Done(j) \subseteq 1..saved[j]
  BY <1>1 DEF Done, IInv, JobInv, ChunkRows
<1>4. IsFiniteSet(1..saved[j]) /\ Cardinality(1..saved[j]) = saved[j]
  BY <1>1, UpTo
<1>5. IsFiniteSet(Done(j)) /\ Cardinality(Done(j)) <= saved[j]
  BY <1>3, <1>4, FS_Subset
<1>6. Cardinality(Settled(j)) <= Cardinality(Done(j))
  BY <1>2, <1>5, FS_Subset
<1> QED
  BY <1>2, <1>3, <1>4, <1>5, <1>6, FS_CardinalityType

\* The comparison in watch() finds what it is meant to find.
LEMMA AllCountedMeansDelivered ==
    ASSUME IInv, NEW j \in Jobs, Exists(j), AllCounted(j)
    PROVE  /\ saved[j] > 0 /\ collector[j] = "off"
           /\ \A k \in 1..saved[j] : chunk[j][k] = "DONE" /\ k \in delivered[j]
<1>1. saved[j] > 0 /\ collector[j] = "off" /\ job[j].total = saved[j]
  BY DEF IInv, JobInv, CollectorCounts, AllCounted
<1>2. job[j].processed \in Nat /\ saved[j] \in 0..MaxChunks
  BY DEF IInv, TypeOK, JobRow
<1>3. saved[j] <= job[j].processed /\ job[j].processed <= Cardinality(Settled(j))
  BY <1>1 DEF IInv, JobInv, ProcessedCount, AllCounted
<1>4. Cardinality(Done(j)) = Cardinality(1..saved[j])
  BY <1>2, <1>3, StoredCardinality, SettledFinite
<1>5. Done(j) = 1..saved[j]
  BY <1>4, StoredCardinality, FS_Subset
<1>6. \A k \in Done(j) : chunk[j][k] = "DONE" /\ k \in delivered[j]
  BY DEF Done, IInv, JobInv, WorkerKnows
<1> QED
  BY <1>1, <1>5, <1>6

(***************************************************************************)
(* A completed job has delivered every chunk it stored, for any number of  *)
(* chunks, workers, faults and restarts (insert-worker 46-54).             *)
(***************************************************************************)
THEOREM CompletedIsDelivered == Spec => []CompletedMeansDelivered
<1>1. IInv => CompletedMeansDelivered
  <2> SUFFICES ASSUME IInv, NEW j \in Jobs, job[j].status = "COMPLETED"
               PROVE  /\ collector[j] = "off"
                      /\ saved[j] > 0
                      /\ \A k \in 1..saved[j] : chunk[j][k] = "DONE" /\ k \in delivered[j]
    BY DEF CompletedMeansDelivered
  <2>1. Exists(j) /\ AllCounted(j)
    BY DEF Exists, IInv, JobInv, Completion
  <2> QED
    BY <2>1, AllCountedMeansDelivered
<1> QED
  BY <1>1, InvAlways, PTL

(***************************************************************************)
(* No chunk is counted twice, and the collector is at most one count       *)
(* behind the watcher (getSyncJobStatus divides these counters).           *)
(***************************************************************************)
THEOREM CountersAreSound == Spec => []CountersSound
<1>1. IInv => CountersSound
  <2> SUFFICES ASSUME IInv, NEW j \in Jobs, Exists(j)
               PROVE  /\ job[j].processed <= Cardinality(Done(j))
                      /\ job[j].total <= saved[j]
                      /\ job[j].processed <= job[j].total + 1
                      /\ job[j].collectDone => job[j].total = saved[j]
    BY DEF CountersSound
  <2>1. job[j].processed \in Nat /\ job[j].total \in Nat /\ saved[j] \in Nat
    BY DEF IInv, TypeOK, JobRow
  <2>2. job[j].processed <= Cardinality(Settled(j))
    BY DEF IInv, JobInv, ProcessedCount
  <2>3. /\ job[j].total <= saved[j] /\ saved[j] <= job[j].total + 1
        /\ job[j].collectDone => job[j].total = saved[j]
    BY DEF IInv, JobInv, CollectorCounts
  <2> QED
    BY <2>1, <2>2, <2>3, StoredCardinality, SettledFinite
<1> QED
  BY <1>1, InvAlways, PTL

-----------------------------------------------------------------------------
(* The workers implement the abstract import. *)

LEMMA ImportInit == Init => Import!Init
BY DEF Init, Import!Init, ImportState, Exists, NoRow

\* A step that leaves these four alone is a stuttering step of the import.
LEMMA ImportStutter ==
    ASSUME UNCHANGED <<delivered, saved>>,
           \A j \in Jobs : ImportState(j)' = ImportState(j)
    PROVE  UNCHANGED Import!vars
BY DEF Import!vars

\* One job changes its import state and nothing else.
LEMMA ImportMove ==
    ASSUME NEW j \in Jobs, NEW st, ImportState(j)' = st, UNCHANGED <<delivered, saved>>,
           \A i \in Jobs : i # j => ImportState(i)' = ImportState(i)
    PROVE  /\ [i \in Jobs |-> ImportState(i)]' = [[i \in Jobs |-> ImportState(i)] EXCEPT ![j] = st]
           /\ UNCHANGED <<[i \in Jobs |-> 1..saved[i]], delivered>>
OBVIOUS

LEMMA ImportHandlers ==
    ASSUME IInv, NEW j \in Jobs,
           \/ StartRequest(j) \/ StartCreate(j) \/ DeleteRequest(j) \/ DeleteRow(j)
           \/ TwoMinutesPass(j)
    PROVE  [Import!Next]_(Import!vars)
<1>1. CASE StartCreate(j)
  <2>1. ImportState(j) = "none" /\ ImportState(j)' = "open"
    BY <1>1 DEF StartCreate, ImportState, IInv, JobInv, NotStarted, TypeOK, Exists, NoRow
  <2>2. \A i \in Jobs : i # j => ImportState(i)' = ImportState(i)
    BY <1>1 DEF StartCreate, ImportState, IInv, TypeOK, Exists
  <2>3. UNCHANGED <<delivered, saved>>
    BY <1>1 DEF StartCreate
  <2>4. Import!Open(j)
    BY <2>1, <2>2, <2>3, ImportMove DEF Import!Open
  <2> QED
    BY <2>4 DEF Import!Next
<1>2. CASE DeleteRow(j)
  <2>1. ImportState(j)' = IF request[j] = "accepted" THEN "dropped" ELSE "none"
    BY <1>2 DEF DeleteRow, ImportState, IInv, TypeOK, Exists, NoRow
  <2>2. \A i \in Jobs : i # j => ImportState(i)' = ImportState(i)
    BY <1>2 DEF DeleteRow, ImportState, IInv, TypeOK, Exists
  <2>3. UNCHANGED <<delivered, saved>>
    BY <1>2 DEF DeleteRow
  <2>4. CASE Exists(j)
    <3>1. ImportState(j) \in {"open", "closed", "completed"} /\ ImportState(j)' = "dropped"
      BY <2>1, <2>4 DEF ImportState, IInv, JobInv, NotStarted
    <3>2. Import!Drop(j)
      BY <3>1, <2>2, <2>3, ImportMove DEF Import!Drop
    <3> QED
      BY <3>2 DEF Import!Next
  <2>5. CASE ~Exists(j)
    <3>1. ImportState(j) = IF request[j] = "accepted" THEN "dropped" ELSE "none"
      BY <2>5 DEF ImportState, Exists
    <3>2. \A i \in Jobs : ImportState(i)' = ImportState(i)
      BY <2>1, <2>2, <3>1
    <3> QED
      BY <2>3, <3>2, ImportStutter
  <2> QED
    BY <2>4, <2>5
<1>3. CASE StartRequest(j) \/ DeleteRequest(j) \/ TwoMinutesPass(j)
  <2>1. \A i \in Jobs : ImportState(i)' = ImportState(i)
    BY <1>3 DEF StartRequest, DeleteRequest, TwoMinutesPass, ImportState, Exists, IInv, JobInv,
                NotStarted, TypeOK
  <2> QED
    BY <1>3, <2>1, ImportStutter DEF StartRequest, DeleteRequest, TwoMinutesPass
<1> QED
  BY <1>1, <1>2, <1>3

LEMMA ImportCollector ==
    ASSUME IInv, NEW j \in Jobs, Collector(j) \/ CollectThrows(j) \/ CollectFailThrows(j)
    PROVE  [Import!Next]_(Import!vars)
<1>1. CASE CollectSave(j)
  <2>1. saved[j] \in Nat /\ saved[j] + 1 \in ChunkNo
    BY <1>1 DEF CollectSave, IInv, TypeOK
  <2>2. \A i \in Jobs : ImportState(i)' = ImportState(i)
    BY <1>1 DEF CollectSave, ImportState, Exists
  <2>3. ImportState(j) = "open"
    BY <1>1 DEF CollectSave, ImportState, IInv, JobInv, CollectorCounts, Completion, AllCounted
  <2>4. PICK p \in ChunkNo : p = saved[j] + 1
    BY <2>1
  <2>5. [i \in Jobs |-> 1..saved[i]]'
            = [[i \in Jobs |-> 1..saved[i]] EXCEPT ![j] = @ \union {p}]
    <3>1. 1..(saved[j] + 1) = (1..saved[j]) \union {p}
      BY <2>1, <2>4
    <3> QED
      BY <1>1, <3>1 DEF CollectSave, IInv, TypeOK
  <2>6. Import!Collect(j, p)
    BY <1>1, <2>1, <2>2, <2>3, <2>4, <2>5 DEF Import!Collect, CollectSave
  <2> QED
    BY <2>6 DEF Import!Next
<1>2. CASE CollectClose(j)
  <2>1. ImportState(j) = "open" /\ ImportState(j)' = "closed"
    BY <1>2 DEF CollectClose, ImportState, IInv, JobInv, CollectorCounts, Completion, AllCounted,
                TypeOK, JobRow, Exists
  <2>2. \A i \in Jobs : i # j => ImportState(i)' = ImportState(i)
    BY <1>2 DEF CollectClose, ImportState, IInv, TypeOK, Exists
  <2>3. UNCHANGED <<delivered, saved>>
    BY <1>2 DEF CollectClose
  <2>4. 1..saved[j] # {}
    BY <1>2 DEF CollectClose, IInv, TypeOK
  <2>5. Import!Close(j)
    BY <2>1, <2>2, <2>3, <2>4, ImportMove DEF Import!Close
  <2> QED
    BY <2>5 DEF Import!Next
<1>3. CASE \/ CollectBegin(j) \/ CollectTally(j) \/ CollectGone(j) \/ CollectFail(j)
           \/ CollectThrows(j) \/ CollectFailThrows(j)
  <2>1. UNCHANGED <<delivered, saved, request>>
    BY <1>3 DEF CollectBegin, CollectTally, CollectGone, CollectFail, CollectThrows,
                CollectFailThrows, Throws
  <2>2. /\ Exists(j)' <=> Exists(j)
        /\ job'[j].collectDone = job[j].collectDone
        /\ job'[j].status = "COMPLETED" <=> job[j].status = "COMPLETED"
    <3>1. job[j].status # "COMPLETED" \/ UNCHANGED job
      BY <1>3 DEF IInv, JobInv, Completion, AllCounted, CollectorCounts, CollectBegin, CollectTally,
                  CollectGone, CollectFail, CollectThrows, CollectFailThrows, Throws, Exists
    <3> QED
      BY <1>3, <3>1 DEF CollectBegin, CollectTally, CollectGone, CollectFail, CollectThrows,
                        CollectFailThrows, Throws, Fail, Exists, IInv, TypeOK, JobRow
  <2>3. \A i \in Jobs : i # j => job'[i] = job[i]
    BY <1>3 DEF CollectBegin, CollectTally, CollectGone, CollectFail, CollectThrows,
                CollectFailThrows, Throws, Fail, IInv, TypeOK
  <2>4. \A i \in Jobs : ImportState(i)' = ImportState(i)
    BY <2>1, <2>2, <2>3 DEF ImportState, Exists
  <2> QED
    BY <2>1, <2>4, ImportStutter
<1> QED
  BY <1>1, <1>2, <1>3 DEF Collector

\* What watch() compares before it writes COMPLETED is the abstract guard.
LEMMA ImportWatcher ==
    ASSUME IInv, NEW j \in Jobs, Watcher(j) \/ WatchThrows(j) \/ WatchFailThrows(j)
    PROVE  [Import!Next]_(Import!vars)
<1>1. CASE WatchComplete(j)
  <2>1. Exists(j) /\ AllCounted(j)
    BY <1>1 DEF WatchComplete, IInv, JobInv, Completion
  <2>2. job[j].status # "COMPLETED"
    BY <1>1 DEF WatchComplete, IInv, JobInv, Completion
  <2>3. delivered[j] = 1..saved[j]
    <3>1. \A k \in delivered[j] : k \in 1..saved[j]
      <4>1. delivered[j] \subseteq ChunkNo /\ saved[j] \in 0..MaxChunks
        BY DEF IInv, TypeOK
      <4>2. \A k \in ChunkNo : k \in delivered[j] => k <= saved[j]
        BY DEF IInv, JobInv, WorkerKnows
      <4> QED
        BY <4>1, <4>2
    <3>2. \A k \in 1..saved[j] : k \in delivered[j]
      BY <2>1, AllCountedMeansDelivered
    <3> QED
      BY <3>1, <3>2
  <2>4. ImportState(j) = "closed" /\ ImportState(j)' = "completed"
    BY <1>1, <2>1, <2>2 DEF WatchComplete, ImportState, AllCounted, Exists, IInv, TypeOK, JobRow
  <2>5. \A i \in Jobs : i # j => ImportState(i)' = ImportState(i)
    BY <1>1 DEF WatchComplete, ImportState, IInv, TypeOK, Exists
  <2>6. UNCHANGED <<delivered, saved>>
    BY <1>1 DEF WatchComplete
  <2>7. Import!Complete(j)
    BY <2>3, <2>4, <2>5, <2>6, ImportMove DEF Import!Complete
  <2> QED
    BY <2>7 DEF Import!Next
<1>2. CASE \/ WatchPoll(j) \/ WatchJoin(j) \/ WatchCheck(j) \/ WatchGone(j) \/ WatchFail(j)
           \/ WatchThrows(j) \/ WatchFailThrows(j)
  <2>1. UNCHANGED <<delivered, saved, request>>
    BY <1>2 DEF WatchPoll, WatchJoin, WatchCheck, WatchGone, WatchFail, WatchThrows,
                WatchFailThrows, Throws
  <2>2. /\ Exists(j)' <=> Exists(j)
        /\ job'[j].collectDone = job[j].collectDone
        /\ job'[j].status = "COMPLETED" <=> job[j].status = "COMPLETED"
    <3>1. job[j].status # "COMPLETED" \/ UNCHANGED job
      BY <1>2 DEF IInv, JobInv, Completion, WatchPoll, WatchJoin, WatchCheck, WatchGone, WatchFail,
                  WatchThrows, WatchFailThrows, Throws
    <3> QED
      BY <1>2, <3>1 DEF WatchPoll, WatchJoin, WatchCheck, WatchGone, WatchFail, WatchThrows,
                        WatchFailThrows, Throws, Fail, Exists, IInv, TypeOK, JobRow
  <2>3. \A i \in Jobs : i # j => job'[i] = job[i]
    BY <1>2 DEF WatchPoll, WatchJoin, WatchCheck, WatchGone, WatchFail, WatchThrows,
                WatchFailThrows, Throws, Fail, IInv, TypeOK
  <2>4. \A i \in Jobs : ImportState(i)' = ImportState(i)
    BY <2>1, <2>2, <2>3 DEF ImportState, Exists
  <2> QED
    BY <2>1, <2>4, ImportStutter
<1> QED
  BY <1>1, <1>2 DEF Watcher

\* A chunk is delivered by its insertion, once: a second insertion upserts the same rows.
LEMMA ImportWorker ==
    ASSUME IInv, NEW j \in Jobs, NEW k \in ChunkNo,
           Worker(j, k) \/ WorkerThrows(j, k) \/ AbortThrows(j, k)
    PROVE  [Import!Next]_(Import!vars)
<1>1. CASE Insert(j, k)
  <2>1. \A i \in Jobs : ImportState(i)' = ImportState(i)
    BY <1>1 DEF Insert, ImportState, Exists
  <2>2. CASE k \in delivered[j]
    <3>1. UNCHANGED <<delivered, saved>>
      BY <1>1, <2>2 DEF Insert, IInv, TypeOK
    <3> QED
      BY <2>1, <3>1, ImportStutter
  <2>3. CASE k \notin delivered[j]
    <3>1. k \in 1..saved[j] /\ watcher[j] = "batch"
      BY <1>1 DEF Insert, IInv, JobInv, WorkerKnows, TypeOK
    <3>2. ImportState(j) # "completed"
      BY <3>1 DEF ImportState, IInv, JobInv, Completion, Exists
    <3>3. Import!Deliver(j, k)
      BY <1>1, <2>1, <2>3, <3>1, <3>2 DEF Insert, Import!Deliver
    <3> QED
      BY <3>3 DEF Import!Next
  <2> QED
    BY <2>2, <2>3
<1>2. CASE \/ Claim(j, k) \/ ClaimNothing(j, k) \/ Load(j, k) \/ MarkDone(j, k) \/ Count(j, k)
           \/ WorkerGone(j, k) \/ Abort(j, k) \/ WorkerThrows(j, k) \/ AbortThrows(j, k)
  <2>1. UNCHANGED <<delivered, saved, request>>
    BY <1>2 DEF Claim, ClaimNothing, Load, MarkDone, Count, WorkerGone, Abort, WorkerThrows,
                AbortThrows, Throws
  <2>2. /\ job'[j].status = job[j].status
        /\ job'[j].collectDone = job[j].collectDone
    BY <1>2 DEF Claim, ClaimNothing, Load, MarkDone, Count, WorkerGone, Abort, WorkerThrows,
                AbortThrows, Throws, IInv, TypeOK, JobRow
  <2>3. \A i \in Jobs : i # j => job'[i] = job[i]
    BY <1>2 DEF Claim, ClaimNothing, Load, MarkDone, Count, WorkerGone, Abort, WorkerThrows,
                AbortThrows, Throws, IInv, TypeOK
  <2>4. \A i \in Jobs : ImportState(i)' = ImportState(i)
    BY <2>1, <2>2, <2>3 DEF ImportState, Exists
  <2> QED
    BY <2>1, <2>4, ImportStutter
<1> QED
  BY <1>1, <1>2 DEF Worker

LEMMA ImportStep == IInv /\ [Next]_vars => [Import!Next]_(Import!vars)
<1> SUFFICES ASSUME IInv, [Next]_vars PROVE [Import!Next]_(Import!vars)
  OBVIOUS
<1>1. ASSUME NEW j \in Jobs,
             \/ StartRequest(j) \/ StartCreate(j) \/ DeleteRequest(j) \/ DeleteRow(j)
             \/ TwoMinutesPass(j)
      PROVE  [Import!Next]_(Import!vars)
  BY <1>1, ImportHandlers
<1>2. ASSUME NEW j \in Jobs, Collector(j) \/ CollectThrows(j) \/ CollectFailThrows(j)
      PROVE  [Import!Next]_(Import!vars)
  BY <1>2, ImportCollector
<1>3. ASSUME NEW j \in Jobs, Watcher(j) \/ WatchThrows(j) \/ WatchFailThrows(j)
      PROVE  [Import!Next]_(Import!vars)
  BY <1>3, ImportWatcher
<1>4. ASSUME NEW j \in Jobs, NEW k \in ChunkNo,
             Worker(j, k) \/ WorkerThrows(j, k) \/ AbortThrows(j, k)
      PROVE  [Import!Next]_(Import!vars)
  BY <1>4, ImportWorker
<1>5. ASSUME NEW n \in Integrations, Unconfigure(n) PROVE [Import!Next]_(Import!vars)
  BY <1>5, ImportStutter DEF Unconfigure, ImportState, Exists
<1>6. CASE Restart
  <2>1. \A i \in Jobs : ImportState(i)' = ImportState(i)
    BY <1>6 DEF Restart, ImportState, Exists, IInv, TypeOK
  <2> QED
    BY <1>6, <2>1, ImportStutter DEF Restart
<1>7. CASE UNCHANGED vars
  BY <1>7, ImportStutter DEF ImportState, Exists
<1> QED
  BY <1>1, <1>2, <1>3, <1>4, <1>5, <1>6, <1>7 DEF Next

(***************************************************************************)
(* The handlers, the collector, the watcher and the workers implement the  *)
(* import that SyncImport promises: a page is collected while the job is   *)
(* open, and COMPLETED is written only when every page is delivered.       *)
(***************************************************************************)
THEOREM SyncJobImplementsImport == Spec => ImplementsImport
BY ImportInit, ImportStep, InvAlways, PTL DEF Spec, ImplementsImport, Import!Spec

-----------------------------------------------------------------------------
(* FAILED and COMPLETED, at two moments: once a job has failed, one of the *)
(* two actors that would have to agree on its completion is gone for good. *)

Doomed(j) ==
    /\ request[j] = "accepted"
    /\ job[j].status # "COMPLETED"
    /\ watcher[j] = "off" \/ (collector[j] = "off" /\ ~job[j].collectDone)

FailedIsDoomed(j) == job[j].status = "FAILED" => Doomed(j)

\* What the three actors may do to the status of a job.
LEMMA CollectorRow ==
    ASSUME TypeOK, NEW i \in Jobs, NEW j \in Jobs,
           Collector(j) \/ CollectThrows(j) \/ CollectFailThrows(j)
    PROVE  \/ job'[i].status = job[i].status
           \/ i = j /\ job'[i].status = "COLLECTING"
           \/ i = j /\ CollectFail(j) /\ job'[i].status = "FAILED"
<1>1. job \in [Jobs -> JobRow]
  BY DEF TypeOK
<1>2. CASE CollectBegin(j)
  BY <1>1, <1>2 DEF CollectBegin, JobRow
<1>3. CASE CollectTally(j)
  BY <1>1, <1>3 DEF CollectTally, JobRow
<1>4. CASE CollectClose(j)
  BY <1>1, <1>4 DEF CollectClose, JobRow
<1>5. CASE CollectFail(j)
  BY <1>1, <1>5 DEF CollectFail, Fail, JobRow
<1>6. CASE \/ CollectSave(j) \/ CollectGone(j) \/ CollectThrows(j) \/ CollectFailThrows(j)
  <2>1. UNCHANGED job
    BY <1>6 DEF CollectSave, CollectGone, CollectThrows, CollectFailThrows, Throws
  <2> QED
    BY <2>1
<1> QED
  BY <1>2, <1>3, <1>4, <1>5, <1>6 DEF Collector

LEMMA WatcherRow ==
    ASSUME TypeOK, NEW i \in Jobs, NEW j \in Jobs,
           Watcher(j) \/ WatchThrows(j) \/ WatchFailThrows(j)
    PROVE  /\ \/ job'[i].status = job[i].status
              \/ i = j /\ WatchComplete(j) /\ job'[i].status = "COMPLETED"
              \/ i = j /\ WatchFail(j) /\ job'[i].status = "FAILED"
           /\ job'[i].collectDone = job[i].collectDone
<1>1. job \in [Jobs -> JobRow]
  BY DEF TypeOK
<1>2. CASE WatchComplete(j)
  BY <1>1, <1>2 DEF WatchComplete, JobRow
<1>3. CASE WatchFail(j)
  BY <1>1, <1>3 DEF WatchFail, Fail, JobRow
<1>4. CASE \/ WatchPoll(j) \/ WatchJoin(j) \/ WatchCheck(j) \/ WatchGone(j)
           \/ WatchThrows(j) \/ WatchFailThrows(j)
  <2>1. UNCHANGED job
    BY <1>4 DEF WatchPoll, WatchJoin, WatchCheck, WatchGone, WatchThrows, WatchFailThrows, Throws
  <2> QED
    BY <2>1
<1> QED
  BY <1>2, <1>3, <1>4 DEF Watcher

LEMMA WorkerRow ==
    ASSUME TypeOK, NEW i \in Jobs, NEW j \in Jobs, NEW k \in ChunkNo,
           Worker(j, k) \/ WorkerThrows(j, k) \/ AbortThrows(j, k)
    PROVE  /\ job'[i].status = job[i].status
           /\ job'[i].collectDone = job[i].collectDone
<1>1. job \in [Jobs -> JobRow]
  BY DEF TypeOK
<1>2. CASE Count(j, k)
  BY <1>1, <1>2 DEF Count, JobRow
<1>3. CASE \/ Claim(j, k) \/ ClaimNothing(j, k) \/ Load(j, k) \/ Insert(j, k) \/ MarkDone(j, k)
           \/ WorkerGone(j, k) \/ Abort(j, k) \/ WorkerThrows(j, k) \/ AbortThrows(j, k)
  <2>1. UNCHANGED job
    BY <1>3 DEF Claim, ClaimNothing, Load, Insert, MarkDone, WorkerGone, Abort, WorkerThrows,
                AbortThrows, Throws
  <2> QED
    BY <2>1
<1> QED
  BY <1>2, <1>3 DEF Worker

\* FAILED is the last act of the actor that writes it.
LEMMA FailureDooms ==
    ASSUME IInv, TypeOK', NEW j \in Jobs, CollectFail(j) \/ WatchFail(j), Exists(j),
           job[j].status # "COMPLETED"
    PROVE  Doomed(j)'
<1>1. request[j] = "accepted"
  BY DEF IInv, JobInv, NotStarted
<1>2. CASE CollectFail(j)
  <2>1. ~job[j].collectDone
    BY <1>2 DEF CollectFail, IInv, JobInv, CollectorCounts
  <2> QED
    BY <1>1, <1>2, <2>1 DEF CollectFail, Fail, Doomed, IInv, TypeOK, JobRow
<1>3. CASE WatchFail(j)
  BY <1>1, <1>3 DEF WatchFail, Fail, Doomed, IInv, TypeOK, JobRow
<1> QED
  BY <1>2, <1>3

\* The comparison of the watcher cannot succeed for a doomed job.
LEMMA DoomedNotCompleted ==
    ASSUME IInv, NEW j \in Jobs, Doomed(j), watcher[j] = "complete"
    PROVE  ~Exists(j)
BY DEF Doomed, IInv, JobInv, Completion, AllCounted

LEMMA DoomedHandlers ==
    ASSUME IInv, TypeOK', NEW i \in Jobs, NEW j \in Jobs, Doomed(i),
           \/ StartRequest(j) \/ StartCreate(j) \/ DeleteRequest(j) \/ DeleteRow(j)
           \/ TwoMinutesPass(j)
    PROVE  Doomed(i)'
<1>1. CASE StartRequest(j) \/ StartCreate(j)
  BY <1>1 DEF StartRequest, StartCreate, Doomed, IInv, TypeOK
<1>2. CASE DeleteRow(j)
  BY <1>2 DEF DeleteRow, NoRow, Doomed, IInv, TypeOK
<1>3. CASE DeleteRequest(j) \/ TwoMinutesPass(j)
  BY <1>3 DEF DeleteRequest, TwoMinutesPass, Doomed
<1> QED
  BY <1>1, <1>2, <1>3

LEMMA DoomedCollector ==
    ASSUME IInv, TypeOK', NEW i \in Jobs, NEW j \in Jobs, Doomed(i),
           Collector(j) \/ CollectThrows(j) \/ CollectFailThrows(j)
    PROVE  Doomed(i)'
<1>1. UNCHANGED <<request, watcher>>
  BY DEF Collector, CollectBegin, CollectSave, CollectTally, CollectClose, CollectGone,
         CollectFail, CollectThrows, CollectFailThrows
<1>2. CASE i # j
  <2>1. job'[i] = job[i] /\ collector'[i] = collector[i]
    <3>1. job \in [Jobs -> JobRow] /\ collector \in [Jobs -> {"off", "begin", "fetch", "tally", "fail"}]
      BY DEF IInv, TypeOK
    <3>2. CASE CollectBegin(j) \/ CollectSave(j) \/ CollectTally(j)
      BY <1>2, <3>1, <3>2 DEF CollectBegin, CollectSave, CollectTally
    <3>3. CASE CollectClose(j) \/ CollectGone(j)
      BY <1>2, <3>1, <3>3 DEF CollectClose, CollectGone
    <3>4. CASE CollectFail(j)
      BY <1>2, <3>1, <3>4 DEF CollectFail, Fail
    <3>5. CASE CollectThrows(j) \/ CollectFailThrows(j)
      BY <1>2, <3>1, <3>5 DEF CollectThrows, CollectFailThrows, Throws
    <3> QED
      BY <3>2, <3>3, <3>4, <3>5 DEF Collector
  <2> QED
    BY <1>1, <2>1 DEF Doomed
<1>3. CASE i = j
  <2>1. collector[j] # "off"
    BY DEF Collector, CollectBegin, CollectSave, CollectTally, CollectClose, CollectGone,
           CollectFail, CollectThrows, CollectFailThrows
  <2>2. watcher[j] = "off"
    BY <1>3, <2>1 DEF Doomed
  <2>3. job'[j].status # "COMPLETED"
    BY <1>3, CollectorRow DEF Doomed, IInv
  <2> QED
    BY <1>1, <1>3, <2>2, <2>3 DEF Doomed
<1> QED
  BY <1>2, <1>3

LEMMA DoomedWatcher ==
    ASSUME IInv, TypeOK', NEW i \in Jobs, NEW j \in Jobs, Doomed(i),
           Watcher(j) \/ WatchThrows(j) \/ WatchFailThrows(j)
    PROVE  Doomed(i)'
<1>1. UNCHANGED <<request, collector>>
  BY DEF Watcher, WatchPoll, WatchJoin, WatchCheck, WatchComplete, WatchGone, WatchFail,
         WatchThrows, WatchFailThrows
<1>2. CASE i # j
  <2>1. job'[i] = job[i] /\ watcher'[i] = watcher[i]
    <3>1. job \in [Jobs -> JobRow]
          /\ watcher \in [Jobs -> {"off", "poll", "batch", "check", "complete", "fail"}]
      BY DEF IInv, TypeOK
    <3>2. CASE WatchPoll(j) \/ WatchJoin(j) \/ WatchGone(j)
      BY <1>2, <3>1, <3>2 DEF WatchPoll, WatchJoin, WatchGone
    <3>3. CASE WatchCheck(j)
      BY <1>2, <3>1, <3>3 DEF WatchCheck
    <3>4. CASE WatchComplete(j)
      BY <1>2, <3>1, <3>4 DEF WatchComplete
    <3>5. CASE WatchFail(j)
      BY <1>2, <3>1, <3>5 DEF WatchFail, Fail
    <3>6. CASE WatchThrows(j) \/ WatchFailThrows(j)
      BY <1>2, <3>1, <3>6 DEF WatchThrows, WatchFailThrows, Throws
    <3> QED
      BY <3>2, <3>3, <3>4, <3>5, <3>6 DEF Watcher
  <2> QED
    BY <1>1, <2>1 DEF Doomed
<1>3. CASE i = j
  <2>1. watcher[j] # "off"
    BY DEF Watcher, WatchPoll, WatchJoin, WatchCheck, WatchComplete, WatchGone, WatchFail,
           WatchThrows, WatchFailThrows
  <2>2. collector[j] = "off" /\ ~job[j].collectDone
    BY <1>3, <2>1 DEF Doomed
  <2>3. ~WatchComplete(j)
    BY <1>3, DoomedNotCompleted DEF WatchComplete
  <2>4. job'[j].status # "COMPLETED" /\ job'[j].collectDone = job[j].collectDone
    BY <1>3, <2>3, WatcherRow DEF Doomed, IInv
  <2> QED
    BY <1>1, <1>3, <2>2, <2>4 DEF Doomed
<1> QED
  BY <1>2, <1>3

LEMMA DoomedWorker ==
    ASSUME IInv, TypeOK', NEW i \in Jobs, NEW j \in Jobs, NEW k \in ChunkNo, Doomed(i),
           Worker(j, k) \/ WorkerThrows(j, k) \/ AbortThrows(j, k)
    PROVE  Doomed(i)'
<1>1. UNCHANGED <<request, collector, watcher>>
  BY DEF Worker, Claim, ClaimNothing, Load, Insert, MarkDone, Count, WorkerGone, Abort,
         WorkerThrows, AbortThrows
<1>2. job'[i].status = job[i].status /\ job'[i].collectDone = job[i].collectDone
  BY WorkerRow DEF IInv
<1> QED
  BY <1>1, <1>2 DEF Doomed

LEMMA DoomedStep ==
    ASSUME NEW i \in Jobs
    PROVE  IInv /\ Doomed(i) /\ [Next]_vars => Doomed(i)'
<1> SUFFICES ASSUME IInv, Doomed(i), [Next]_vars PROVE Doomed(i)'
  OBVIOUS
<1>1. TypeOK'
  BY TypeStep DEF IInv
<1>2. ASSUME NEW j \in Jobs,
             \/ StartRequest(j) \/ StartCreate(j) \/ DeleteRequest(j) \/ DeleteRow(j)
             \/ TwoMinutesPass(j)
      PROVE  Doomed(i)'
  BY <1>1, <1>2, DoomedHandlers
<1>3. ASSUME NEW j \in Jobs, Collector(j) \/ CollectThrows(j) \/ CollectFailThrows(j)
      PROVE  Doomed(i)'
  BY <1>1, <1>3, DoomedCollector
<1>4. ASSUME NEW j \in Jobs, Watcher(j) \/ WatchThrows(j) \/ WatchFailThrows(j)
      PROVE  Doomed(i)'
  BY <1>1, <1>4, DoomedWatcher
<1>5. ASSUME NEW j \in Jobs, NEW k \in ChunkNo,
             Worker(j, k) \/ WorkerThrows(j, k) \/ AbortThrows(j, k)
      PROVE  Doomed(i)'
  BY <1>1, <1>5, DoomedWorker
<1>6. ASSUME NEW n \in Integrations, Unconfigure(n) PROVE Doomed(i)'
  BY <1>6 DEF Unconfigure, Doomed
<1>7. CASE Restart
  BY <1>7 DEF Restart, Doomed, IInv, TypeOK
<1>8. CASE UNCHANGED vars
  BY <1>8 DEF Doomed, vars, tables, handlers, workers
<1> QED
  BY <1>2, <1>3, <1>4, <1>5, <1>6, <1>7, <1>8 DEF Next

LEMMA FailedStep ==
    ASSUME NEW i \in Jobs
    PROVE  IInv /\ FailedIsDoomed(i) /\ [Next]_vars => FailedIsDoomed(i)'
<1> SUFFICES ASSUME IInv, FailedIsDoomed(i), [Next]_vars, job'[i].status = "FAILED"
             PROVE  Doomed(i)'
  BY DEF FailedIsDoomed
<1>1. TypeOK'
  BY TypeStep DEF IInv
<1>2. CASE job[i].status = "FAILED"
  BY <1>2, DoomedStep DEF FailedIsDoomed
<1>3. CASE job[i].status # "FAILED"
  <2>1. \E j \in Jobs : CollectFail(j) \/ WatchFail(j)
    <3>1. ASSUME NEW j \in Jobs,
                 \/ StartRequest(j) \/ StartCreate(j) \/ DeleteRequest(j) \/ DeleteRow(j)
                 \/ TwoMinutesPass(j)
          PROVE  FALSE
      <4>1. CASE StartCreate(j) \/ DeleteRow(j)
        <5>1. NoRow.status = "absent" /\ [NoRow EXCEPT !.status = "PENDING"].status = "PENDING"
          BY DEF NoRow
        <5>2. job \in [Jobs -> JobRow]
          BY DEF IInv, TypeOK
        <5> QED
          BY <1>3, <4>1, <5>1, <5>2 DEF StartCreate, DeleteRow
      <4>2. CASE StartRequest(j) \/ DeleteRequest(j) \/ TwoMinutesPass(j)
        BY <1>3, <4>2 DEF StartRequest, DeleteRequest, TwoMinutesPass
      <4> QED
        BY <3>1, <4>1, <4>2
    <3>2. ASSUME NEW j \in Jobs, Collector(j) \/ CollectThrows(j) \/ CollectFailThrows(j)
          PROVE  CollectFail(j)
      BY <1>3, <3>2, CollectorRow DEF IInv
    <3>3. ASSUME NEW j \in Jobs, Watcher(j) \/ WatchThrows(j) \/ WatchFailThrows(j)
          PROVE  WatchFail(j)
      BY <1>3, <3>3, WatcherRow DEF IInv
    <3>4. ASSUME NEW j \in Jobs, NEW k \in ChunkNo,
                 Worker(j, k) \/ WorkerThrows(j, k) \/ AbortThrows(j, k)
          PROVE  FALSE
      BY <1>3, <3>4, WorkerRow DEF IInv
    <3>5. UNCHANGED job => FALSE
      BY <1>3
    <3>6. ASSUME NEW n \in Integrations, Unconfigure(n) PROVE UNCHANGED job
      BY <3>6 DEF Unconfigure
    <3>7. Restart \/ UNCHANGED vars => UNCHANGED job
      BY DEF Restart
    <3> QED
      BY <3>1, <3>2, <3>3, <3>4, <3>5, <3>6, <3>7 DEF Next
  <2>2. PICK j \in Jobs : CollectFail(j) \/ WatchFail(j)
    BY <2>1
  <2>3. i = j /\ Exists(j)
    BY <1>3, <2>2 DEF CollectFail, WatchFail, Fail, Exists, IInv, TypeOK
  <2>4. job[j].status # "COMPLETED"
    BY <2>2 DEF CollectFail, WatchFail, AllCounted, IInv, JobInv, Completion, CollectorCounts, Exists
  <2> QED
    BY <1>1, <2>2, <2>3, <2>4, FailureDooms
<1> QED
  BY <1>2, <1>3

(***************************************************************************)
(* A job that has been FAILED at one moment is COMPLETED at no later one,  *)
(* although the collector may overwrite FAILED with COLLECTING meanwhile.  *)
(***************************************************************************)
THEOREM FailedStaysFailed == Spec => FailedNeverCompletes
<1>1. ASSUME NEW i \in Jobs
      PROVE  Spec => FailureIsFinal(i)
  <2>1. Init => FailedIsDoomed(i)
    BY DEF Init, FailedIsDoomed, NoRow
  <2>2. FailedIsDoomed(i) /\ job[i].status = "FAILED" => Doomed(i)
    BY DEF FailedIsDoomed
  <2>3. Doomed(i) => job[i].status # "COMPLETED"
    BY DEF Doomed
  <2> QED
    BY <2>1, <2>2, <2>3, DoomedStep, FailedStep, InvAlways, PTL DEF Spec, FailureIsFinal
<1> QED
  BY <1>1 DEF FailedNeverCompletes

-----------------------------------------------------------------------------
(***************************************************************************)
(* Part four: Bisection.                                                   *)
(***************************************************************************)
USE BisectionAssumption

-----------------------------------------------------------------------------
(* The inductive invariant, one named part per concern. *)

\* A range that ends before it begins is fetched once and never cut.
EmptyRange ==
    From > To =>
        \/ chunks = <<>> /\ todo = <<[lo |-> From, hi |-> To]>>
        \/ Len(chunks) = 1 /\ todo = <<>>

\* Any two chunks are apart, not only neighbours; all end before the frontier.
Apart ==
    /\ \A i, k \in 1..Len(chunks) : i < k => chunks[i].hi < chunks[k].lo
    /\ From <= To => \A i \in 1..Len(chunks) : chunks[i].hi < Frontier

\* A chunk holds transactions of its range only.
InRange ==
    \A i \in 1..Len(chunks) : \A t \in chunks[i].held : Covers(chunks[i], t)

Kept(t) ==
    \E i \in 1..Len(chunks) :
        /\ Covers(chunks[i], t)
        /\ t \in chunks[i].held \/ Truncated(chunks[i])

\* What the recursion has gone past is kept.
PastKept ==
    \A t \in early :
        From <= CreatedAt[t] /\ CreatedAt[t] <= To /\ CreatedAt[t] < Frontier => Kept(t)

FinishedEmpty == phase = "collected" => todo = <<>>

FetchInv ==
    /\ FetchTypeOK
    /\ Tiling
    /\ EmptyRange
    /\ Apart
    /\ InRange
    /\ PastKept
    /\ FinishedEmpty

-----------------------------------------------------------------------------
(* Facts about the sequences, the cut and the answers. *)

LEMMA EmptyByLen == ASSUME NEW S, NEW s \in Seq(S) PROVE s = <<>> <=> Len(s) = 0
BY EmptySeq

LEMMA TodoHead ==
    ASSUME FetchTypeOK, todo # <<>>
    PROVE  /\ Len(todo) \in Nat \ {0} /\ Len(chunks) \in Nat
           /\ Head(todo) = todo[1]
           /\ todo[1] \in DateRange
           /\ todo[1].lo \in Int /\ todo[1].hi \in Int
<1>1. todo \in Seq(DateRange) /\ chunks \in Seq(Chunk)
  BY DEF FetchTypeOK
<1>2. Len(todo) \in Nat \ {0} /\ Len(chunks) \in Nat
  BY <1>1, EmptySeq, LenProperties
<1>3. todo[1] \in DateRange
  BY <1>1, <1>2, ElementOfSeq
<1>4. todo[1].lo \in Int /\ todo[1].hi \in Int
  BY <1>3 DEF DateRange
<1> QED
  BY <1>1, <1>2, <1>3, <1>4

\* The middle of a range that can be cut lies strictly inside it.
LEMMA MidInside ==
    ASSUME NEW r \in DateRange, ~Irreducible(r)
    PROVE  Mid(r) \in Int /\ r.lo < Mid(r) /\ Mid(r) <= r.hi
BY DEF DateRange, Irreducible, Mid

\* Below the cap an answer is complete.
LEMMA CompleteAnswer ==
    ASSUME NEW r, NEW held \in Answers(r), ~CapReached(held)
    PROVE  held = Within(r)
BY DEF Answers, CapReached

LEMMA AnswerMatches ==
    ASSUME FetchTypeOK, NEW r, NEW held \in Answers(r)
    PROVE  /\ held \in SUBSET AllTxs
           /\ \A t \in held : Covers(r, t)
BY DEF Answers, Within, FetchTypeOK

\* What appending a chunk and returning from a range do to the two sequences.
LEMMA StoreEffect ==
    ASSUME FetchTypeOK, todo # <<>>, NEW held \in Answers(todo[1]), Store(todo[1], held)
    PROVE  /\ chunks' \in Seq(Chunk)
           /\ Len(chunks') = Len(chunks) + 1
           /\ \A i \in 1..Len(chunks) : chunks'[i] = chunks[i]
           /\ chunks'[Len(chunks) + 1] = [lo |-> todo[1].lo, hi |-> todo[1].hi, held |-> held]
           /\ todo' \in Seq(DateRange)
           /\ Len(todo') = Len(todo) - 1
           /\ \A i \in 1..Len(todo') : todo'[i] = todo[i + 1]
<1> DEFINE c == [lo |-> todo[1].lo, hi |-> todo[1].hi, held |-> held]
<1>1. c \in Chunk
  BY TodoHead, AnswerMatches DEF Chunk
<1>2. chunks \in Seq(Chunk) /\ todo \in Seq(DateRange)
  BY DEF FetchTypeOK
<1>3. chunks' = Append(chunks, c) /\ todo' = Tail(todo)
  BY DEF Store
<1>4. /\ Append(chunks, c) \in Seq(Chunk)
      /\ Len(Append(chunks, c)) = Len(chunks) + 1
      /\ \A i \in 1..Len(chunks) : Append(chunks, c)[i] = chunks[i]
      /\ Append(chunks, c)[Len(chunks) + 1] = c
  <2> HIDE DEF c
  <2> QED
    BY <1>1, <1>2, AppendProperties
<1>5. /\ Tail(todo) \in Seq(DateRange)
      /\ Len(Tail(todo)) = Len(todo) - 1
      /\ \A i \in 1..Len(Tail(todo)) : Tail(todo)[i] = todo[i + 1]
  BY <1>2, HeadTailProperties
<1> QED
  BY <1>3, <1>4, <1>5

-----------------------------------------------------------------------------
LEMMA FetchInvInit == FetchInit => FetchInv
<1> SUFFICES ASSUME FetchInit PROVE FetchInv
  OBVIOUS
<1> DEFINE r0 == [lo |-> From, hi |-> To]
<1>1. todo = <<r0>> /\ chunks = <<>> /\ phase = "collecting" /\ early = offered
  BY DEF FetchInit
<1>2. r0 \in DateRange
  BY DEF DateRange
<1>3. Len(chunks) = 0 /\ Len(todo) = 1 /\ todo[1] = r0 /\ todo # <<>>
  BY <1>1
<1>4. FetchTypeOK
  BY <1>1, <1>2, EmptySeq DEF FetchInit, FetchTypeOK
<1>5. Frontier = From
  BY <1>3 DEF Frontier
<1>6. Tiling
  BY <1>1, <1>3, <1>5 DEF Tiling, StoredTile, TodoTile
<1>7. EmptyRange /\ Apart /\ InRange /\ FinishedEmpty
  BY <1>1, <1>3 DEF EmptyRange, Apart, InRange, FinishedEmpty
<1>8. PastKept
  BY <1>4, <1>5 DEF PastKept, FetchTypeOK
<1> QED
  BY <1>4, <1>6, <1>7, <1>8 DEF FetchInv

-----------------------------------------------------------------------------
(* Storing a range that was answered completely or that cannot be cut. *)

LEMMA InvStore ==
    ASSUME FetchInv, todo # <<>>, UNCHANGED <<offered, early, phase>>, phase = "collecting",
           NEW held \in Answers(Head(todo)), Store(Head(todo), held),
           ~CapReached(held) \/ Irreducible(Head(todo))
    PROVE  FetchInv'
<1> DEFINE n == Len(chunks)
           r == todo[1]
           c == [lo |-> r.lo, hi |-> r.hi, held |-> held]
<1>1. /\ Len(todo) \in Nat \ {0} /\ n \in Nat /\ Head(todo) = r
      /\ r.lo \in Int /\ r.hi \in Int
  BY TodoHead DEF FetchInv
<1>2. held \in Answers(r) /\ Store(r, held)
  BY <1>1
<1>3. /\ chunks' \in Seq(Chunk) /\ Len(chunks') = n + 1
      /\ \A i \in 1..n : chunks'[i] = chunks[i]
      /\ chunks'[n + 1] = c
      /\ todo' \in Seq(DateRange) /\ Len(todo') = Len(todo) - 1
      /\ \A i \in 1..Len(todo') : todo'[i] = todo[i + 1]
  BY <1>2, StoreEffect DEF FetchInv
<1>4. /\ todo' = <<>> <=> Len(todo') = 0
      /\ todo = <<>> <=> Len(todo) = 0
      /\ chunks = <<>> <=> n = 0
      /\ chunks' # <<>>
  <2>1. todo \in Seq(DateRange) /\ chunks \in Seq(Chunk)
    BY DEF FetchInv, FetchTypeOK
  <2>2. (todo = <<>> <=> Len(todo) = 0) /\ (chunks = <<>> <=> n = 0)
    BY <2>1, EmptyByLen
  <2>3. (todo' = <<>> <=> Len(todo') = 0) /\ (chunks' = <<>> <=> Len(chunks') = 0)
    BY <1>3, EmptyByLen
  <2> QED
    BY <1>1, <1>3, <2>2, <2>3
<1>5. c.lo = r.lo /\ c.hi = r.hi /\ c.held = held
  OBVIOUS
<1>6. FetchTypeOK'
  BY <1>3 DEF FetchInv, FetchTypeOK
<1>7. From <= To => Frontier = r.lo /\ r.lo <= r.hi /\ Frontier' = r.hi + 1
  <2> SUFFICES ASSUME From <= To PROVE Frontier = r.lo /\ r.lo <= r.hi /\ Frontier' = r.hi + 1
    OBVIOUS
  <2>1. TodoTile
    BY DEF FetchInv, Tiling
  <2>2. 1 \in 1..Len(todo)
    BY <1>1
  <2>3. Frontier = r.lo /\ r.lo <= r.hi
    BY <1>1, <1>4, <2>1, <2>2 DEF TodoTile, Frontier
  <2>4. CASE Len(todo) = 1
    <3>1. r.hi = To
      BY <2>1, <2>2, <2>4 DEF TodoTile
    <3>2. Frontier' = To + 1
      BY <1>3, <1>4, <2>4 DEF Frontier
    <3> QED
      BY <2>3, <3>1, <3>2
  <2>5. CASE Len(todo) # 1
    <3>1. r.hi + 1 = todo[2].lo
      <4>1. 1 < Len(todo)
        <5>1. \A k \in Nat \ {0} : k # 1 => 1 < k
          OBVIOUS
        <5> QED
          BY <1>1, <2>5, <5>1
      <4>2. todo[1].hi + 1 = todo[1 + 1].lo
        BY <2>1, <2>2, <4>1 DEF TodoTile
      <4> QED
        BY <4>2
    <3>2. Len(todo') # 0 /\ 1 \in 1..Len(todo')
      BY <1>1, <1>3, <2>5
    <3>3. Frontier' = todo'[1].lo /\ todo'[1] = todo[2]
      BY <1>3, <1>4, <3>2 DEF Frontier
    <3> QED
      BY <2>3, <3>1, <3>3
  <2> QED
    BY <2>4, <2>5
<1> HIDE DEF n, r, c
<1>8. Tiling'
  <2> SUFFICES ASSUME From <= To PROVE StoredTile' /\ TodoTile'
    BY DEF Tiling
  <2>1. StoredTile /\ TodoTile
    BY DEF FetchInv, Tiling
  <2>2. ASSUME NEW i \in 1..n + 1
        PROVE  /\ chunks'[i].lo <= chunks'[i].hi
               /\ i = 1 => chunks'[i].lo = From
               /\ i > 1 => chunks'[i].lo = chunks'[i - 1].hi + 1
               /\ i = n + 1 => chunks'[i].hi + 1 = Frontier'
    <3>1. CASE i = n + 1
      <4>1. chunks'[i].lo <= chunks'[i].hi /\ chunks'[i].hi + 1 = Frontier'
        BY <1>3, <1>5, <1>7, <3>1
      <4>2. i = 1 => chunks'[i].lo = From
        BY <1>1, <1>3, <1>4, <1>5, <1>7, <2>1, <3>1 DEF StoredTile
      <4>3. i > 1 => chunks'[i].lo = chunks'[i - 1].hi + 1
        BY <1>1, <1>3, <1>4, <1>5, <1>7, <2>1, <3>1 DEF StoredTile, n
      <4> QED
        BY <4>1, <4>2, <4>3, <3>1
    <3>2. CASE i # n + 1
      <4>1. i \in 1..n /\ chunks'[i] = chunks[i]
        BY <1>1, <1>3, <3>2
      <4>2. i > 1 => i - 1 \in 1..n /\ chunks'[i - 1] = chunks[i - 1]
        BY <1>1, <1>3, <4>1
      <4>3. /\ chunks[i].lo <= chunks[i].hi
            /\ i = 1 => chunks[i].lo = From
            /\ i > 1 => chunks[i].lo = chunks[i - 1].hi + 1
        BY <2>1, <4>1 DEF StoredTile, n
      <4> QED
        BY <3>2, <4>1, <4>2, <4>3
    <3> QED
      BY <3>1, <3>2
  <2>3. StoredTile'
    BY <1>3, <1>4, <2>2 DEF StoredTile
  <2>4. ASSUME NEW i \in 1..Len(todo')
        PROVE  /\ todo'[i].lo <= todo'[i].hi
               /\ i < Len(todo') => todo'[i].hi + 1 = todo'[i + 1].lo
               /\ i = Len(todo') => todo'[i].hi = To
    <3>1. i + 1 \in 1..Len(todo) /\ todo'[i] = todo[i + 1]
      BY <1>1, <1>3
    <3>2. i < Len(todo') => todo'[i + 1] = todo[i + 1 + 1] /\ i + 1 < Len(todo)
      BY <1>1, <1>3
    <3>3. i = Len(todo') => i + 1 = Len(todo)
      BY <1>1, <1>3
    <3> QED
      BY <2>1, <3>1, <3>2, <3>3 DEF TodoTile
  <2>5. TodoTile'
    BY <2>4 DEF TodoTile
  <2> QED
    BY <2>3, <2>5
<1>9. EmptyRange'
  BY <1>1, <1>3, <1>4 DEF FetchInv, EmptyRange, n
<1>10. Apart'
  <2>1. From > To => n = 0
    BY <1>1, <1>4 DEF FetchInv, EmptyRange, n
  <2>2. \A i \in 1..n : chunks[i].lo \in Int /\ chunks[i].hi \in Int
    <3>1. chunks \in Seq(Chunk)
      BY DEF FetchInv, FetchTypeOK
    <3>2. \A i \in 1..n : chunks[i] \in Chunk
      BY <3>1, ElementOfSeq DEF n
    <3> QED
      BY <3>2 DEF Chunk
  <2>3. \A i \in 1..n : chunks[i].hi < r.lo
    BY <1>7, <2>1 DEF FetchInv, Apart, n
  <2>4. \A i, k \in 1..n + 1 : i < k => chunks'[i].hi < chunks'[k].lo
    <3> TAKE i, k \in 1..n + 1
    <3> HAVE i < k
    <3>1. i \in 1..n /\ chunks'[i] = chunks[i]
      BY <1>1, <1>3
    <3>2. CASE k = n + 1
      BY <1>3, <1>5, <2>3, <3>1, <3>2
    <3>3. CASE k # n + 1
      <4>1. k \in 1..n /\ chunks'[k] = chunks[k]
        BY <1>1, <1>3, <3>3
      <4> QED
        BY <3>1, <4>1 DEF FetchInv, Apart, n
    <3> QED
      BY <3>2, <3>3
  <2>5. From <= To => \A i \in 1..n + 1 : chunks'[i].hi < Frontier'
    <3> SUFFICES ASSUME From <= To, NEW i \in 1..n + 1 PROVE chunks'[i].hi < Frontier'
      OBVIOUS
    <3>1. r.lo \in Int /\ r.hi \in Int /\ r.lo <= r.hi /\ Frontier' = r.hi + 1
      BY <1>1, <1>7 DEF r
    <3>2. CASE i = n + 1
      BY <1>3, <1>5, <3>1, <3>2
    <3>3. CASE i # n + 1
      <4>1. i \in 1..n /\ chunks'[i] = chunks[i]
        BY <1>1, <1>3, <3>3
      <4>2. chunks[i].hi \in Int /\ chunks[i].hi < r.lo
        BY <2>2, <2>3, <4>1
      <4> QED
        BY <3>1, <4>1, <4>2
    <3> QED
      BY <3>2, <3>3
  <2> QED
    BY <1>3, <2>4, <2>5 DEF Apart
<1>11. InRange'
  <2>1. \A t \in held : Covers(c, t)
    BY <1>2, <1>5, AnswerMatches DEF FetchInv, Covers
  <2>2. ASSUME NEW i \in 1..n + 1, NEW t \in chunks'[i].held
        PROVE  Covers(chunks'[i], t)
    <3>1. CASE i = n + 1
      BY <1>3, <1>5, <2>1, <2>2, <3>1
    <3>2. CASE i # n + 1
      <4>1. i \in 1..n /\ chunks'[i] = chunks[i]
        BY <1>1, <1>3, <3>2
      <4> QED
        BY <2>2, <4>1 DEF FetchInv, InRange, n
    <3> QED
      BY <3>1, <3>2
  <2> QED
    BY <1>3, <2>2 DEF InRange, Covers
<1>12. PastKept'
  <2> SUFFICES ASSUME NEW t \in early, From <= CreatedAt[t], CreatedAt[t] <= To,
                      CreatedAt[t] < Frontier'
               PROVE  Kept(t)'
    BY DEF PastKept
  <2>1. CreatedAt[t] \in Nat /\ t \in offered /\ From <= To
    BY DEF FetchInv, FetchTypeOK
  <2>2. CASE CreatedAt[t] < Frontier
    <3>1. PICK i \in 1..n : /\ Covers(chunks[i], t)
                            /\ t \in chunks[i].held \/ Truncated(chunks[i])
      BY <2>2 DEF FetchInv, PastKept, Kept, n
    <3>2. i \in 1..n + 1 /\ chunks'[i] = chunks[i]
      BY <1>1, <1>3
    <3> QED
      BY <1>3, <3>1, <3>2 DEF Kept, Covers, Truncated, Irreducible, CapReached, n
  <2>3. CASE ~(CreatedAt[t] < Frontier)
    <3>1. r.lo <= CreatedAt[t] /\ CreatedAt[t] <= r.hi
      BY <1>1, <1>7, <2>1, <2>3
    <3>2. Covers(c, t)
      BY <1>5, <3>1 DEF Covers
    <3>3. t \in held \/ Truncated(c)
      <4>1. CASE ~CapReached(held)
        BY <1>2, <2>1, <3>1, <4>1, CompleteAnswer DEF Within, Covers
      <4>2. CASE CapReached(held)
        BY <1>1, <1>5, <4>2 DEF Truncated, Irreducible
      <4> QED
        BY <4>1, <4>2
    <3>4. n + 1 \in 1..Len(chunks')
      BY <1>1, <1>3
    <3> QED
      BY <1>3, <1>5, <3>2, <3>3, <3>4 DEF Kept, Covers, Truncated, Irreducible, CapReached
  <2> QED
    BY <2>2, <2>3
<1>13. FinishedEmpty'
  BY DEF FinishedEmpty
<1> QED
  BY <1>6, <1>8, <1>9, <1>10, <1>11, <1>12, <1>13 DEF FetchInv

-----------------------------------------------------------------------------
(* Cutting a range: the frontier and the chunks stay where they are. *)

LEMMA InvCut == ASSUME FetchInv, Cut PROVE FetchInv'
<1> DEFINE r == todo[1]
           two == <<Left(r), Right(r)>>
           m == Len(todo)
<1>1. /\ m \in Nat \ {0} /\ Head(todo) = r /\ r \in DateRange
      /\ r.lo \in Int /\ r.hi \in Int
  BY TodoHead DEF FetchInv, Cut
<1>2. /\ todo # <<>> /\ ~Irreducible(r) /\ todo' = two \o Tail(todo)
      /\ UNCHANGED <<offered, early, chunks, phase>> /\ phase = "collecting"
  BY <1>1 DEF Cut
<1>3. Mid(r) \in Int /\ r.lo < Mid(r) /\ Mid(r) <= r.hi
  BY <1>1, <1>2, MidInside
<1>4. /\ Left(r).lo = r.lo /\ Left(r).hi = Mid(r) - 1 /\ Left(r) \in DateRange
      /\ Right(r).lo = Mid(r) /\ Right(r).hi = r.hi /\ Right(r) \in DateRange
  BY <1>1, <1>3 DEF Left, Right, DateRange
<1>5. two \in Seq(DateRange) /\ Len(two) = 2 /\ two[1] = Left(r) /\ two[2] = Right(r)
  BY <1>4
<1>6. /\ Tail(todo) \in Seq(DateRange) /\ Len(Tail(todo)) = m - 1
      /\ \A i \in 1..m - 1 : Tail(todo)[i] = todo[i + 1]
  BY <1>2, HeadTailProperties DEF FetchInv, FetchTypeOK
<1> HIDE DEF two
<1>7. /\ todo' \in Seq(DateRange) /\ Len(todo') = m + 1
      /\ todo'[1] = Left(r) /\ todo'[2] = Right(r)
      /\ \A i \in 3..m + 1 : todo'[i] = todo[i - 1]
  <2>1. /\ two \o Tail(todo) \in Seq(DateRange)
        /\ Len(two \o Tail(todo)) = 2 + (m - 1)
        /\ \A i \in 1..2 + (m - 1) : (two \o Tail(todo))[i] =
              IF i <= 2 THEN two[i] ELSE Tail(todo)[i - 2]
    <3>1. /\ two \o Tail(todo) \in Seq(DateRange)
          /\ Len(two \o Tail(todo)) = Len(two) + Len(Tail(todo))
          /\ \A i \in 1..Len(two) + Len(Tail(todo)) : (two \o Tail(todo))[i] =
                IF i <= Len(two) THEN two[i] ELSE Tail(todo)[i - Len(two)]
      BY <1>5, <1>6, ConcatProperties
    <3> QED
      BY <1>5, <1>6, <3>1
  <2>2. ASSUME NEW i \in 3..m + 1 PROVE Tail(todo)[i - 2] = todo[i - 1]
    <3>1. i - 2 \in 1..m - 1 /\ (i - 2) + 1 = i - 1
      BY <1>1
    <3> QED
      BY <1>6, <3>1
  <2> QED
    BY <1>1, <1>2, <1>5, <2>1, <2>2
<1>8. todo' # <<>>
  BY <1>1, <1>7, EmptyByLen
<1>9. Frontier' = r.lo /\ Frontier = r.lo
  BY <1>2, <1>4, <1>7, <1>8 DEF Frontier
<1>10. From <= To
  <2> SUFFICES ASSUME From > To PROVE FALSE
    OBVIOUS
  <2>1. todo = <<[lo |-> From, hi |-> To]>>
    BY <1>2 DEF FetchInv, EmptyRange
  <2>2. r.lo = From /\ r.hi = To
    BY <2>1
  <2> QED
    BY <1>3, <2>2
<1> HIDE DEF r, m
<1>11. FetchTypeOK'
  BY <1>2, <1>7 DEF FetchInv, FetchTypeOK
<1>12. Tiling'
  <2>1. StoredTile /\ TodoTile
    BY <1>10 DEF FetchInv, Tiling
  <2>2. StoredTile'
    BY <1>2, <1>9, <2>1 DEF StoredTile
  <2>3. 1 \in 1..m /\ (1 < m => r.hi + 1 = todo[1 + 1].lo) /\ (m = 1 => r.hi = To)
    BY <1>1, <2>1 DEF TodoTile, r, m
  <2>4. ASSUME NEW i \in 1..m + 1
        PROVE  /\ todo'[i].lo <= todo'[i].hi
               /\ i < m + 1 => todo'[i].hi + 1 = todo'[i + 1].lo
               /\ i = m + 1 => todo'[i].hi = To
    <3>1. CASE i = 1
      BY <1>1, <1>3, <1>4, <1>7, <3>1
    <3>2. CASE i = 2
      <4>1. todo'[i].lo <= todo'[i].hi
        BY <1>3, <1>4, <1>7, <3>2
      <4>2. i = m + 1 => todo'[i].hi = To
        BY <1>1, <1>4, <1>7, <2>3, <3>2
      <4>3. ASSUME i < m + 1 PROVE todo'[i].hi + 1 = todo'[i + 1].lo
        <5>1. 3 \in 3..m + 1 /\ 3 - 1 = 2 /\ 1 < m /\ i + 1 = 3
          BY <1>1, <3>2, <4>3
        <5>2. todo'[3] = todo[2]
          BY <1>7, <5>1
        <5> QED
          BY <1>4, <1>7, <2>3, <3>2, <5>1, <5>2
      <4> QED
        BY <4>1, <4>2, <4>3
    <3>3. CASE i \in 3..m + 1
      <4>1. i - 1 \in 1..m /\ todo'[i] = todo[i - 1]
        BY <1>1, <1>7, <3>3
      <4>2. i < m + 1 => todo'[i + 1] = todo[i] /\ i - 1 < m /\ (i - 1) + 1 = i
        BY <1>1, <1>7, <3>3
      <4>3. i = m + 1 => i - 1 = m
        BY <1>1
      <4> QED
        BY <2>1, <4>1, <4>2, <4>3 DEF TodoTile, m
    <3> QED
      BY <1>1, <3>1, <3>2, <3>3
  <2>5. TodoTile'
    BY <1>7, <2>4 DEF TodoTile
  <2> QED
    BY <2>2, <2>5 DEF Tiling
<1>13. EmptyRange'
  BY <1>10 DEF EmptyRange
<1>14. Apart'
  BY <1>2, <1>9 DEF FetchInv, Apart
<1>15. InRange'
  BY <1>2 DEF FetchInv, InRange, Covers
<1>16. PastKept'
  BY <1>2, <1>9 DEF FetchInv, PastKept, Kept, Covers, Truncated, Irreducible, CapReached
<1>17. FinishedEmpty'
  BY <1>2 DEF FinishedEmpty
<1> QED
  BY <1>11, <1>12, <1>13, <1>14, <1>15, <1>16, <1>17 DEF FetchInv

-----------------------------------------------------------------------------
(* The remaining steps leave the sequences alone. *)

LEMMA InvFinish == ASSUME FetchInv, Finish PROVE FetchInv'
<1>1. UNCHANGED <<offered, early, todo, chunks>> /\ todo = <<>> /\ phase' = "collected"
  BY DEF Finish
<1> QED
  BY <1>1 DEF FetchInv, FetchTypeOK, Tiling, StoredTile, TodoTile, Frontier, EmptyRange, Apart, InRange,
              PastKept, Kept, Covers, Truncated, Irreducible, CapReached, FinishedEmpty

LEMMA InvThrow == ASSUME FetchInv, FetchThrows PROVE FetchInv'
<1>1. UNCHANGED <<offered, early, todo, chunks>> /\ phase' = "failed"
  BY DEF FetchThrows
<1> QED
  BY <1>1 DEF FetchInv, FetchTypeOK, Tiling, StoredTile, TodoTile, Frontier, EmptyRange, Apart, InRange,
              PastKept, Kept, Covers, Truncated, Irreducible, CapReached, FinishedEmpty

LEMMA InvSale == ASSUME FetchInv, NEW t \in AllTxs, SaleMade(t) PROVE FetchInv'
<1>1. UNCHANGED <<early, todo, chunks, phase>> /\ offered' = offered \union {t}
  BY DEF SaleMade
<1> QED
  BY <1>1 DEF FetchInv, FetchTypeOK, Tiling, StoredTile, TodoTile, Frontier, EmptyRange, Apart, InRange,
              PastKept, Kept, Covers, Truncated, Irreducible, CapReached, FinishedEmpty

LEMMA FetchInvStutter == ASSUME FetchInv, UNCHANGED fetchVars PROVE FetchInv'
BY DEF fetchVars, FetchInv, FetchTypeOK, Tiling, StoredTile, TodoTile, Frontier, EmptyRange, Apart, InRange,
       PastKept, Kept, Covers, Truncated, Irreducible, CapReached, FinishedEmpty

LEMMA FetchInvStep == FetchInv /\ [FetchNext]_fetchVars => FetchInv'
<1> SUFFICES ASSUME FetchInv, [FetchNext]_fetchVars PROVE FetchInv'
  OBVIOUS
<1>1. CASE FetchComplete
  <2>1. PICK held \in Answers(Head(todo)) : ~CapReached(held) /\ Store(Head(todo), held)
    BY <1>1 DEF FetchComplete
  <2>2. phase = "collecting" /\ todo # <<>> /\ UNCHANGED <<offered, early, phase>>
    BY <1>1 DEF FetchComplete
  <2> QED
    BY <2>1, <2>2, InvStore
<1>2. CASE FetchTruncated
  <2>1. PICK held \in Answers(Head(todo)) : CapReached(held) /\ Store(Head(todo), held)
    BY <1>2 DEF FetchTruncated
  <2>2. /\ phase = "collecting" /\ todo # <<>> /\ UNCHANGED <<offered, early, phase>>
        /\ Irreducible(Head(todo))
    BY <1>2 DEF FetchTruncated
  <2> QED
    BY <2>1, <2>2, InvStore
<1>3. CASE Cut
  BY <1>3, InvCut
<1>4. CASE Finish
  BY <1>4, InvFinish
<1>5. CASE FetchThrows
  BY <1>5, InvThrow
<1>6. ASSUME NEW t \in AllTxs, SaleMade(t) PROVE FetchInv'
  BY <1>6, InvSale
<1>7. CASE UNCHANGED fetchVars
  BY <1>7, FetchInvStutter
<1> QED
  BY <1>1, <1>2, <1>3, <1>4, <1>5, <1>6, <1>7 DEF FetchNext, Collect

LEMMA FetchInvAlways == FetchSpec => []FetchInv
BY FetchInvInit, FetchInvStep, PTL DEF FetchSpec

-----------------------------------------------------------------------------
(***************************************************************************)
(* The stack and the stored chunks stay sequences of ranges and chunks.    *)
(***************************************************************************)
THEOREM BisectionTypeCorrect == FetchSpec => []FetchTypeOK
<1>1. FetchInv => FetchTypeOK
  BY DEF FetchInv
<1> QED
  BY <1>1, FetchInvAlways, PTL

(***************************************************************************)
(* The halves of fetchChunk meet without gap or overlap, for any range and *)
(* any cap (lines 104-106).                                                *)
(***************************************************************************)
THEOREM BisectionTiles == FetchSpec => []Tiling
<1>1. FetchInv => Tiling
  BY DEF FetchInv
<1> QED
  BY <1>1, FetchInvAlways, PTL

(***************************************************************************)
(* No transaction is handed to two chunks: Apart separates the ranges and  *)
(* InRange keeps each transaction inside its own.                          *)
(***************************************************************************)
THEOREM BisectionWithoutDuplicates == FetchSpec => []NoTransactionTwice
<1>1. FetchInv => NoTransactionTwice
  <2> SUFFICES ASSUME FetchInv, NEW i \in 1..Len(chunks), NEW k \in 1..Len(chunks), i < k
               PROVE  chunks[i].held \intersect chunks[k].held = {}
    <3>1. Len(chunks) \in Nat
      BY LenProperties DEF FetchInv, FetchTypeOK
    <3> QED
      BY <3>1 DEF NoTransactionTwice
  <2>1. chunks[i] \in Chunk /\ chunks[k] \in Chunk
    BY ElementOfSeq DEF FetchInv, FetchTypeOK
  <2>2. chunks[i].hi \in Int /\ chunks[k].lo \in Int /\ chunks[i].held \in SUBSET AllTxs
    BY <2>1 DEF Chunk
  <2>3. chunks[i].hi < chunks[k].lo
    BY DEF FetchInv, Apart
  <2>4. ASSUME NEW t \in chunks[i].held, t \in chunks[k].held PROVE FALSE
    <3>1. CreatedAt[t] <= chunks[i].hi /\ chunks[k].lo <= CreatedAt[t]
      BY <2>4 DEF FetchInv, InRange, Covers
    <3>2. CreatedAt[t] \in Nat
      BY <2>2
    <3> QED
      BY <2>2, <2>3, <3>1, <3>2
  <2> QED
    BY <2>4
<1> QED
  BY <1>1, FetchInvAlways, PTL

(***************************************************************************)
(* A finished collection has kept every transaction that existed when it   *)
(* began, except where Weezevent truncated an irreducible window.          *)
(***************************************************************************)
THEOREM BisectionLosesNothing == FetchSpec => []NothingEarlyLost
<1>1. FetchInv => NothingEarlyLost
  <2> SUFFICES ASSUME FetchInv, phase = "collected", NEW t \in early,
                      Covers([lo |-> From, hi |-> To], t)
               PROVE  Kept(t)
    BY DEF NothingEarlyLost, Kept
  <2>1. From <= CreatedAt[t] /\ CreatedAt[t] <= To /\ CreatedAt[t] \in Nat
    BY DEF Covers, FetchInv, FetchTypeOK
  <2>2. Frontier = To + 1
    BY DEF FetchInv, FinishedEmpty, Frontier
  <2> QED
    BY <2>1, <2>2 DEF FetchInv, PastKept
<1> QED
  BY <1>1, FetchInvAlways, PTL
=============================================================================
