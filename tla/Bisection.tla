----------------------------- MODULE Bisection ------------------------------
(***************************************************************************)
(* WeezeventCollectWorkerService.fetchChunk: Weezevent answers any request *)
(* for a range of dates with at most Cap transactions and cannot be paged, *)
(* so the collector asks for a range, stores it as a chunk if the answer   *)
(* is below the cap, and cuts it in two otherwise, down to windows shorter *)
(* than MinSpan, which are stored as they are.                             *)
(*                                                                         *)
(* The recursion is a stack of ranges still to fetch, leftmost first.  One *)
(* action is one call to Weezevent and what follows it until the next one; *)
(* transactions may be made at Weezevent between two calls.  How the       *)
(* chunks are counted and inserted is in SyncJob.                          *)
(***************************************************************************)
EXTENDS Integers, Sequences, FiniteSets

CONSTANTS
    AllTxs,     \* transactions of the organization
    CreatedAt,  \* [AllTxs -> Nat]: their created_at, in milliseconds
    From, To,   \* job.fromDate, job.toDate
    Cap,        \* WEEZEVENT_CAP
    MinSpan     \* 1000: a shorter window is irreducible

\* A cut leaves a shorter range on both sides as soon as MinSpan is at least 2.
ASSUME BisectionAssumption ==
    /\ CreatedAt \in [AllTxs -> Nat]
    /\ IsFiniteSet(AllTxs)
    /\ From \in Nat /\ To \in Nat
    /\ Cap \in Nat \ {0}
    /\ MinSpan \in Nat /\ MinSpan >= 2

VARIABLES
    offered, \* transactions that exist at Weezevent
    early,   \* those that existed when the collection began
    todo,    \* ranges to fetch: the call stack of fetchChunk
    chunks,  \* chunks stored, in order
    phase    \* progress of start()

fetchVars == <<offered, early, todo, chunks, phase>>

DateRange == [lo : Int, hi : Int]
Chunk == [lo : Int, hi : Int, held : SUBSET AllTxs]

FetchTypeOK ==
    /\ offered \in SUBSET AllTxs
    /\ early \in SUBSET offered
    /\ todo \in Seq(DateRange)
    /\ chunks \in Seq(Chunk)
    /\ phase \in {"collecting", "collected", "failed"}

FetchInit ==
    /\ offered \in SUBSET AllTxs
    /\ early = offered
    /\ todo = <<[lo |-> From, hi |-> To]>>
    /\ chunks = <<>>
    /\ phase = "collecting"

Covers(r, t) == r.lo <= CreatedAt[t] /\ CreatedAt[t] <= r.hi

\* created_at__gte, created_at__lte
Within(r) == {t \in offered : Covers(r, t)}

\* What Weezevent may answer for r: everything, or any Cap of the matching ones.
Answers(r) ==
    {S \in SUBSET Within(r) :
        \/ S = Within(r) /\ Cardinality(S) < Cap
        \/ Cardinality(S) = Cap}

\* MUTANT of CapReached: the cap itself is taken for a complete answer.
CapExceeded(held) == Cardinality(held) > Cap

CapReached(held) == Cardinality(held) >= Cap

Irreducible(r) == r.hi - r.lo < MinSpan

Mid(r) == (r.lo + r.hi) \div 2

\* MUTANT of Left: both halves hold the middle instant.
LeftWithMid(r) == [lo |-> r.lo, hi |-> Mid(r)]

Left(r) == [lo |-> r.lo, hi |-> Mid(r) - 1]
Right(r) == [lo |-> Mid(r), hi |-> r.hi]

Store(r, held) ==
    /\ chunks' = Append(chunks, [lo |-> r.lo, hi |-> r.hi, held |-> held])
    /\ todo' = Tail(todo)

FetchComplete ==
    /\ phase = "collecting"
    /\ todo # <<>>
    /\ \E held \in Answers(Head(todo)) : ~CapReached(held) /\ Store(Head(todo), held)
    /\ UNCHANGED <<offered, early, phase>>

\* MUTANT of FetchTruncated: an irreducible window is asked for again.
FetchAgain ==
    /\ phase = "collecting"
    /\ todo # <<>>
    /\ Irreducible(Head(todo))
    /\ \E held \in Answers(Head(todo)) : CapReached(held)
    /\ UNCHANGED fetchVars

\* Warned about and stored all the same.
FetchTruncated ==
    /\ phase = "collecting"
    /\ todo # <<>>
    /\ Irreducible(Head(todo))
    /\ \E held \in Answers(Head(todo)) : CapReached(held) /\ Store(Head(todo), held)
    /\ UNCHANGED <<offered, early, phase>>

Cut ==
    /\ phase = "collecting"
    /\ todo # <<>>
    /\ ~Irreducible(Head(todo))
    /\ \E held \in Answers(Head(todo)) : CapReached(held)
    /\ todo' = <<Left(Head(todo)), Right(Head(todo))>> \o Tail(todo)
    /\ UNCHANGED <<offered, early, chunks, phase>>

Finish ==
    /\ phase = "collecting"
    /\ todo = <<>>
    /\ phase' = "collected"
    /\ UNCHANGED <<offered, early, todo, chunks>>

\* A call throws: the recursion unwinds, the chunks stored so far remain.
FetchThrows ==
    /\ phase = "collecting"
    /\ phase' = "failed"
    /\ UNCHANGED <<offered, early, todo, chunks>>

\* A sale at a till, or a till that comes back online with an older one.
SaleMade(t) ==
    /\ t \notin offered
    /\ offered' = offered \union {t}
    /\ UNCHANGED <<early, todo, chunks, phase>>

Collect == FetchComplete \/ FetchTruncated \/ Cut \/ Finish

FetchNext == Collect \/ FetchThrows \/ \E t \in AllTxs : SaleMade(t)

FetchSpec == FetchInit /\ [][FetchNext]_fetchVars
FairFetchSpec == FetchSpec /\ WF_fetchVars(Collect)

-----------------------------------------------------------------------------
(***************************************************************************)
(* The stored chunks followed by the ranges to fetch tile From..To without *)
(* a gap or an overlap, at every moment: the -1 of the left half and the   *)
(* floor of the middle agree for odd and even spans (fetchChunk 104-106).  *)
(***************************************************************************)
Frontier == IF todo = <<>> THEN To + 1 ELSE todo[1].lo

StoredTile ==
    /\ chunks = <<>> => Frontier = From
    /\ \A i \in 1..Len(chunks) :
         /\ chunks[i].lo <= chunks[i].hi
         /\ i = 1 => chunks[i].lo = From
         /\ i > 1 => chunks[i].lo = chunks[i - 1].hi + 1
         /\ i = Len(chunks) => chunks[i].hi + 1 = Frontier

TodoTile ==
    \A i \in 1..Len(todo) :
        /\ todo[i].lo <= todo[i].hi
        /\ i < Len(todo) => todo[i].hi + 1 = todo[i + 1].lo
        /\ i = Len(todo) => todo[i].hi = To

Tiling == From <= To => StoredTile /\ TodoTile

(***************************************************************************)
(* A transaction is handed to the insert workers in one chunk at most,     *)
(* whatever is sold between two calls.                                     *)
(***************************************************************************)
NoTransactionTwice ==
    \A i, k \in 1..Len(chunks) :
        i # k => chunks[i].held \intersect chunks[k].held = {}

(***************************************************************************)
(* When the collection is over, a transaction of the range that existed    *)
(* when it began is in a chunk, unless Weezevent truncated a window that   *)
(* could not be cut any further (WEEZEVENT_TRANSACTION_FETCH.md section 5, *)
(* "Plage < 1 seconde avec 500 résultats").                                *)
(***************************************************************************)
Truncated(c) == Irreducible(c) /\ CapReached(c.held)

NothingEarlyLost ==
    phase = "collected" =>
        \A t \in early : Covers([lo |-> From, hi |-> To], t) =>
            \E i \in 1..Len(chunks) :
                /\ Covers(chunks[i], t)
                /\ t \in chunks[i].held \/ Truncated(chunks[i])

(***************************************************************************)
(* The recursion ends: every cut leaves two shorter ranges.                *)
(***************************************************************************)
CollectionEnds == <>(phase # "collecting")
=============================================================================
