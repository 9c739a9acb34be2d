---------------------------- MODULE CacheProofs ----------------------------
(***************************************************************************)
(* Proofs about what the program keeps beside its tables, in two parts:    *)
(* the rows of users that AuthCache holds, and the costs that RecipeCosts  *)
(* stores.                                                                 *)
(*                                                                         *)
(* AuthCache, for any pods, requests, lifetimes and bounds, whatever       *)
(* interleaves and fails: type correctness, one lookup per pod, one holder *)
(* of the lock, and a bound on staleness; and, when nothing raced and      *)
(* nothing failed, what an invalidation achieves.                          *)
(*                                                                         *)
(* RecipeCosts, for any recipes, costs, requests and changes: the types,   *)
(* and that a stored cost is that of its recipe unless a change has marked *)
(* it or it was written blindly.                                           *)
(***************************************************************************)
EXTENDS AuthCache, RecipeCosts, FiniteSetTheorems, WellFoundedInduction, TLAPS

-----------------------------------------------------------------------------
(***************************************************************************)
(* Part one: AuthCache.                                                    *)
(*                                                                         *)
(* None of these is inductive alone.  A value about to be cached           *)
(* has been read (Carried); the promise of a pod is that of the one        *)
(* request that looks up (Led); and, when lookups end before the lock      *)
(* expires, whoever acquired the lock still holds it, because what the     *)
(* lock has left and the age of its holder add up to LockTTL (Locked).     *)
(* The bound on staleness needs the same kind of sum for every entry and   *)
(* every request (Aged).  What an invalidation achieves is proved from     *)
(* where old versions may still be while it goes on: nowhere but in Redis, *)
(* in requests that just read it, and in pods the broadcast has yet to     *)
(* reach (Undisturbed), given that a lookup hands on nothing it did not    *)
(* read itself (Reads).                                                    *)
(***************************************************************************)

LookupSteps == {"lock", "db", "read", "wait", "again", "store", "unlock"}

\* Who carries a value has read it; who is idle is on no pod.
Carried ==
    \A r \in Requests :
        /\ step[r] \in {"read", "store"} => val[r] # None
        /\ pod[r] = NoPod <=> step[r] = "idle"

\* A pod's promise is that of the requests that look up, one at most, and
\* whoever shares it shares it with one of them.
Led ==
    /\ \A p \in Pods, r \in Requests :
          r \in pending[p] <=> pod[r] = p /\ step[r] \in LookupSteps
    /\ \A p \in Pods : \A r, q \in pending[p] : r = q
    /\ \A r \in Requests : step[r] = "join" => pending[pod[r]] # {}

Locked ==
    \A r \in acquired :
        /\ step[r] \in {"db", "read", "store", "unlock"}
        /\ MaxCall < LockTTL => lock.by = {r} /\ lock.ttl + age[r] >= LockTTL

IInv == TypeOK /\ Carried /\ Led /\ Locked

LEMMA Numbers ==
  /\ LocalTTL \in Nat /\ RedisTTL \in Nat /\ LockTTL \in Nat
  /\ LocalTTL > 0 /\ RedisTTL > 0 /\ LockTTL > 0
  /\ MaxCall \in Nat /\ MaxVersion \in Nat /\ MaxFaults \in Nat /\ Horizon \in Nat
  /\ NoPod \notin Pods
  BY AuthCacheAssumption DEF Horizon

LEMMA Initially == Init => IInv
<1> SUFFICES ASSUME Init
             PROVE  TypeOK /\ Carried /\ Led /\ Locked
  BY DEF IInv
<1>1. TypeOK
  <2>1. None \in None..MaxVersion /\ 0 \in 0..MaxVersion /\ 0 \in 0..MaxFaults
        /\ 0 \in 0..MaxCall /\ 0 \in 0..Horizon + 1
    BY Numbers DEF None
  <2> QED
    BY <2>1 DEF Init, TypeOK, Entry, Lock, Empty, Steps
<1>2. Carried /\ Led /\ Locked
  BY Numbers DEF Init, Carried, Led, Locked, LookupSteps
<1> QED
  BY <1>1, <1>2

----------------------------------------------------------------------------
(* Type correctness. *)

\* The smaller of two numbers, as Tick takes it.
LEMMA MinOfTwo ==
  ASSUME NEW a \in Nat, NEW b \in Nat
  PROVE  Min({a, b}) \in 0..b
<1> DEFINE m == IF a <= b THEN a ELSE b
<1>1. m \in {a, b} /\ \A y \in {a, b} : m <= y
  OBVIOUS
<1>2. Min({a, b}) \in {a, b} /\ \A y \in {a, b} : Min({a, b}) <= y
  BY <1>1 DEF Min
<1> QED
  BY <1>2

LEMMA OlderEntry ==
  ASSUME NEW ttl \in Nat, NEW e \in Entry(ttl)
  PROVE  Older(e) \in Entry(ttl)
<1>1. CASE e.ttl <= 1
  BY <1>1 DEF Older, Entry
<1>2. CASE ~(e.ttl <= 1)
  <2>1. e \in [v : 0..MaxVersion, ttl : 1..ttl]
    BY <1>2 DEF Entry, Empty
  <2>2. e.ttl - 1 \in 1..ttl
    BY <1>2, <2>1
  <2> QED
    BY <1>2, <2>1, <2>2 DEF Older, Entry
<1> QED
  BY <1>1, <1>2

LEMMA NewEntry ==
  ASSUME NEW v \in 0..MaxVersion, NEW ttl \in Nat, ttl > 0
  PROVE  [v |-> v, ttl |-> ttl] \in Entry(ttl) /\ Empty \in Entry(ttl)
  BY DEF Entry

\* The version an entry says, or none.
LEMMA EntryVersion ==
  ASSUME NEW ttl \in Nat, NEW e \in Entry(ttl)
  PROVE  e.v \in None..MaxVersion /\ (e # Empty => e.v \in 0..MaxVersion)
  BY Numbers DEF Entry, Empty, None

LEMMA ValidateKeepsTypeOK ==
  ASSUME TypeOK, Carried, NEW r \in Requests, Validate(r)
  PROVE  TypeOK'
<1> USE Numbers
<1>1. faults < MaxFaults => faults + 1 \in 0..MaxFaults
  BY DEF TypeOK
<1>2. /\ redis.v \in None..MaxVersion
      /\ \A p \in Pods : local[p].v \in None..MaxVersion
      /\ version \in None..MaxVersion /\ None \in None..MaxVersion
  BY EntryVersion DEF TypeOK, None
<1>3. ASSUME NEW p \in Pods, LocalHit(r, p)
      PROVE  TypeOK'
  <2>1. pod' \in [Requests -> Pods \union {NoPod}] /\ step' \in [Requests -> Steps]
        /\ val' \in [Requests -> None..MaxVersion]
    BY <1>2, <1>3 DEF LocalHit, TypeOK, Goto, Read, Steps
  <2> QED
    BY <1>3, <2>1 DEF LocalHit, TypeOK, world, writer, caches
<1>18. ASSUME NEW p \in Pods, LocalMiss(r, p)
       PROVE  TypeOK'
  <2>1. pod' \in [Requests -> Pods \union {NoPod}] /\ step' \in [Requests -> Steps]
    BY <1>18 DEF LocalMiss, TypeOK, Goto, Steps
  <2> QED
    BY <1>18, <2>1 DEF LocalMiss, TypeOK, world, writer, caches
<1>4. ASSUME GetRedis(r) \/ GetFails(r) \/ GetAgain(r) \/ ReadRow(r)
      PROVE  TypeOK'
  <2>1. PICK s \in Steps, v \in None..MaxVersion :
           step' = [step EXCEPT ![r] = s] /\ val' = [val EXCEPT ![r] = v]
    BY <1>2, <1>4 DEF GetRedis, GetFails, GetAgain, ReadRow, Goto, Read, Steps
  <2>3. step' \in [Requests -> Steps] /\ val' \in [Requests -> None..MaxVersion]
    BY <2>1 DEF TypeOK
  <2>4. faults' \in 0..MaxFaults
    BY <1>1, <1>4 DEF GetRedis, GetFails, GetAgain, ReadRow, TypeOK
  <2>2. UNCHANGED <<world, caches, pod, age, acquired>>
    BY <1>4 DEF GetRedis, GetFails, GetAgain, ReadRow
  <2> QED
    BY <2>2, <2>3, <2>4 DEF TypeOK, world, writer, caches
<1>5. ASSUME val[r] # None
      PROVE  /\ [v |-> val[r], ttl |-> LocalTTL] \in Entry(LocalTTL)
             /\ [v |-> val[r], ttl |-> RedisTTL] \in Entry(RedisTTL)
  <2>1. val[r] \in 0..MaxVersion
    BY <1>5 DEF TypeOK, None
  <2> QED
    BY <2>1, NewEntry
<1>6. ASSUME RedisHit(r)
      PROVE  TypeOK'
  <2>1. step' \in [Requests -> Steps] /\ local' \in [Pods -> Entry(LocalTTL)]
    BY <1>5, <1>6 DEF RedisHit, Remember, TypeOK, Goto, Steps
  <2> QED
    BY <1>6, <2>1 DEF RedisHit, TypeOK, world, writer
<1>7. ASSUME Join(r) \/ Lead(r) \/ LockHeld(r) \/ NotFoundAgain(r) \/ ReadRowThrows(r)
      PROVE  TypeOK'
  <2>1. PICK s \in Steps : step' = [step EXCEPT ![r] = s]
    BY <1>7 DEF Join, Lead, LockHeld, NotFoundAgain, ReadRowThrows, Goto, Steps
  <2>3. step' \in [Requests -> Steps]
    BY <2>1 DEF TypeOK
  <2>4. pending' \in [Pods -> SUBSET Requests]
    <3>1. pending' = pending \/ pending' = [pending EXCEPT ![pod[r]] = {r}]
      BY <1>7 DEF Join, Lead, LockHeld, NotFoundAgain, ReadRowThrows, caches
    <3>2. pending \in [Pods -> SUBSET Requests] /\ {r} \in SUBSET Requests
      BY DEF TypeOK
    <3>3. [pending EXCEPT ![pod[r]] = {r}] \in [Pods -> SUBSET Requests]
      BY <3>2
    <3> QED
      BY <3>1, <3>2, <3>3
  <2>2. UNCHANGED <<world, redis, lock, local, pod, val, age, acquired, faults>>
    BY <1>7 DEF Join, Lead, LockHeld, NotFoundAgain, ReadRowThrows, caches
  <2> QED
    BY <2>2, <2>3, <2>4 DEF TypeOK, world, writer
<1>8. ASSUME AcquireLock(r)
      PROVE  TypeOK'
  <2>1. step' \in [Requests -> Steps]
    BY <1>8 DEF AcquireLock, TypeOK, Goto, Steps
  <2>2. lock' \in [by : {{q} : q \in Requests}, ttl : 1..LockTTL]
    BY <1>8 DEF AcquireLock
  <2>3. acquired' \in SUBSET Requests
    BY <1>8 DEF AcquireLock, TypeOK
  <2>4. lock' \in Lock
    BY <2>2 DEF Lock
  <2>5. UNCHANGED <<world, redis, local, pending, pod, val, age, faults>>
    BY <1>8 DEF AcquireLock
  <2> QED
    BY <2>1, <2>3, <2>4, <2>5 DEF TypeOK, world, writer
<1>9. ASSUME NEW v \in None..MaxVersion, Settle(r, v)
      PROVE  /\ pending' \in [Pods -> SUBSET Requests]
             /\ step' \in [Requests -> Steps] /\ val' \in [Requests -> None..MaxVersion]
  BY <1>9 DEF Settle, TypeOK, Steps
<1>10. CASE AcquireLockThrows(r) \/ ReleaseLockThrows(r)
  BY <1>1, <1>2, <1>9, <1>10 DEF AcquireLockThrows, ReleaseLockThrows, TypeOK, world, writer
<1>11. val[r] \in None..MaxVersion
  BY DEF TypeOK
<1>12. CASE FoundAgain(r)
  BY <1>5, <1>9, <1>11, <1>12 DEF FoundAgain, Remember, TypeOK, world, writer
<1>13. CASE CacheLocally(r)
  BY <1>5, <1>13 DEF CacheLocally, Carried, Remember, TypeOK, Goto, world, writer, Steps
<1>14. CASE CacheInRedis(r)
  BY <1>5, <1>14 DEF CacheInRedis, Carried, TypeOK, Goto, world, writer, Steps
<1>15. CASE CacheInRedisFails(r)
  BY <1>1, <1>15 DEF CacheInRedisFails, TypeOK, Goto, world, writer, caches, Steps
<1>16. ASSUME ReleaseLock(r)
       PROVE  TypeOK'
  <2>1. lock' \in Lock /\ acquired' \in SUBSET Requests
    BY <1>16 DEF ReleaseLock, TypeOK, Lock
  <2>2. Settle(r, val[r]) /\ UNCHANGED <<world, redis, local, pod, age, faults>>
    BY <1>16 DEF ReleaseLock
  <2> QED
    BY <1>9, <1>11, <2>1, <2>2 DEF TypeOK, world, writer
<1>17. CASE Leave(r)
  <2>1. /\ step' = [step EXCEPT ![r] = "idle"] /\ val' = [val EXCEPT ![r] = None]
        /\ pod' = [pod EXCEPT ![r] = NoPod] /\ age' = [age EXCEPT ![r] = 0]
        /\ UNCHANGED <<world, caches, acquired, faults>>
    BY <1>17 DEF Leave, Goto, Read
  <2>2. step' \in [Requests -> Steps] /\ pod' \in [Requests -> Pods \union {NoPod}]
    BY <2>1 DEF TypeOK, Steps
  <2>3. val \in [Requests -> None..MaxVersion] /\ age \in [Requests -> 0..MaxCall]
    BY DEF TypeOK
  <2>4. val' \in [Requests -> None..MaxVersion] /\ age' \in [Requests -> 0..MaxCall]
    BY <1>2, <2>1, <2>3
  <2> QED
    BY <2>1, <2>2, <2>4 DEF TypeOK, world, writer, caches
<1> QED
  BY <1>3, <1>18, <1>4, <1>6, <1>7, <1>8, <1>10, <1>12, <1>13, <1>14, <1>15, <1>16, <1>17 DEF Validate

LEMMA WriterKeepsTypeOK ==
  ASSUME TypeOK,
         Invalidate \/ ChangeTenant \/ ChangeSilently
           \/ \E p \in Pods : ChangeUser(p) \/ Deliver(p) \/ Lose(p)
  PROVE  TypeOK'
<1> USE Numbers
<1>1. Empty \in Entry(LocalTTL) /\ Empty \in Entry(RedisTTL)
  BY DEF Entry
<1>2. faults < MaxFaults => faults + 1 \in 0..MaxFaults
  BY DEF TypeOK
<1>3. CASE PurgeLocal
  BY <1>1, <1>3 DEF PurgeLocal, TypeOK, request
<1>4. ASSUME NEW from, NEW next \in {"publish", "muted"}, Purge(from, next)
      PROVE  TypeOK'
  BY <1>1, <1>4 DEF Purge, TypeOK, request
<1>5. ASSUME NEW from, NEW next \in {"publish", "muted"}, PurgeFails(from, next)
      PROVE  TypeOK'
  BY <1>2, <1>5 DEF PurgeFails, TypeOK, request, caches
<1>6. CASE Publish
  BY <1>6 DEF Publish, TypeOK, request, caches
<1>7. ASSUME NEW p \in Pods, Deliver(p)
      PROVE  TypeOK'
  BY <1>1, <1>7 DEF Deliver, TypeOK, request
<1>8. ASSUME NEW p \in Pods, Lose(p)
      PROVE  TypeOK'
  BY <1>2, <1>8 DEF Lose, TypeOK, request, caches
<1>9. ASSUME Changes
      PROVE  /\ version' \in 0..MaxVersion
             /\ UNCHANGED <<since, caches, request, inbox, raced>>
  BY <1>9 DEF Changes, TypeOK
<1>10. ASSUME NEW p \in Pods, ChangeUser(p)
       PROVE  TypeOK'
  BY <1>9, <1>10 DEF ChangeUser, TypeOK, request, caches
<1>11. CASE ChangeTenant
  BY <1>9, <1>11 DEF ChangeTenant, TypeOK, request, caches
<1>12. CASE ChangeSilently
  BY <1>2, <1>9, <1>12 DEF ChangeSilently, TypeOK, request, caches
<1> QED
  BY <1>3, <1>4, <1>5, <1>6, <1>7, <1>8, <1>10, <1>11, <1>12
     DEF Invalidate, PurgeRedis, PurgeRedisFails, PurgeKey, PurgeKeyFails

LEMMA TickKeepsTypeOK ==
  ASSUME TypeOK, Tick
  PROVE  TypeOK'
<1> USE Numbers
<1>1. since' \in [0..MaxVersion -> 0..Horizon + 1]
  <2>1. \A v \in 0..MaxVersion : Min({since[v] + 1, Horizon + 1}) \in 0..Horizon + 1
    <3>1. ASSUME NEW v \in 0..MaxVersion
          PROVE  since[v] + 1 \in Nat /\ Horizon + 1 \in Nat
      BY DEF TypeOK
    <3> QED
      BY <3>1, MinOfTwo
  <2>2. 0 \in 0..Horizon + 1
    OBVIOUS
  <2> QED
    BY <2>1, <2>2 DEF Tick
<1>2. redis' \in Entry(RedisTTL) /\ local' \in [Pods -> Entry(LocalTTL)]
  BY OlderEntry DEF Tick, TypeOK
<1>3. lock' \in Lock
  <2>1. CASE lock.ttl <= 1
    BY <2>1 DEF Tick, Lock
  <2>2. CASE ~(lock.ttl <= 1)
    <3>1. lock \in [by : {{r} : r \in Requests}, ttl : 1..LockTTL]
      BY <2>2 DEF TypeOK, Lock, Free
    <3>2. lock.ttl - 1 \in 1..LockTTL
      BY <2>2, <3>1
    <3> QED
      BY <2>2, <3>1, <3>2 DEF Tick, Lock
  <2> QED
    BY <2>1, <2>2
<1>4. age' \in [Requests -> 0..MaxCall]
  <2>1. ASSUME NEW r \in Requests, step[r] # "idle"
        PROVE  age[r] + 1 \in 0..MaxCall
    <3>1. age[r] \in 0..MaxCall /\ age[r] < MaxCall
      BY <2>1 DEF Tick, TypeOK
    <3> QED
      BY <3>1
  <2>2. 0 \in 0..MaxCall
    OBVIOUS
  <2> QED
    BY <2>1, <2>2 DEF Tick
<1> QED
  BY <1>1, <1>2, <1>3, <1>4 DEF Tick, TypeOK, writer

LEMMA NextKeepsTypeOK == TypeOK /\ Carried /\ Next => TypeOK'
  BY ValidateKeepsTypeOK, WriterKeepsTypeOK, TickKeepsTypeOK DEF Next

----------------------------------------------------------------------------
(* The requests of a pod, and the lock. *)

\* The parts the other two invariants read do not change.
LEMMA WriterKeepsRest ==
  ASSUME IInv, UNCHANGED <<step, pod, val, pending, lock, acquired, age>>
  PROVE  (Carried /\ Led /\ Locked)'
  BY DEF IInv, Carried, Led, Locked

LEMMA TickKeepsRest ==
  ASSUME IInv, Tick
  PROVE  (Carried /\ Led /\ Locked)'
<1> USE Numbers
<1>1. UNCHANGED <<step, pod, val, pending, acquired>>
  BY DEF Tick
<1>2. (Carried /\ Led)'
  BY <1>1 DEF IInv, Carried, Led
<1>3. ASSUME NEW r \in acquired, MaxCall < LockTTL
      PROVE  lock'.by = {r} /\ lock'.ttl + age'[r] >= LockTTL
  <2>1. /\ r \in Requests /\ step[r] \notin {"idle", "answer"}
        /\ lock.by = {r} /\ lock.ttl + age[r] >= LockTTL
    BY <1>3 DEF IInv, TypeOK, Locked
  <2>2. age[r] \in Nat /\ age[r] < MaxCall /\ age'[r] = age[r] + 1
    BY <2>1 DEF Tick, IInv, TypeOK
  <2>3. lock # Free
    BY <2>1 DEF Free
  <2>4. lock \in [by : {{q} : q \in Requests}, ttl : 1..LockTTL]
    BY <2>3 DEF IInv, TypeOK, Lock
  <2>5. ~(lock.ttl <= 1)
    BY <1>3, <2>1, <2>2, <2>4
  <2>6. lock' = [lock EXCEPT !.ttl = lock.ttl - 1]
    BY <2>5 DEF Tick
  <2>7. lock'.by = lock.by /\ lock'.ttl = lock.ttl - 1
    BY <2>4, <2>6
  <2> QED
    BY <2>1, <2>2, <2>4, <2>7
<1>4. Locked'
  BY <1>1, <1>3 DEF IInv, Locked
<1> QED
  BY <1>2, <1>4

\* A request goes on to another step; the steps in which a request looks up
\* begin with Lead and end with Settle.
LEMMA GotoKeepsLed ==
  ASSUME IInv, NEW r \in Requests, NEW s \in Steps,
         step' = [step EXCEPT ![r] = s],
         pod' = pod, pending' = pending,
         step[r] \in LookupSteps <=> s \in LookupSteps,
         s = "join" => pending[pod[r]] # {}
  PROVE  Led'
<1>1. \A q \in Requests : step'[q] = IF q = r THEN s ELSE step[q]
  BY DEF IInv, TypeOK
<1>2. ASSUME NEW p \in Pods, NEW q \in Requests
      PROVE  q \in pending'[p] <=> pod'[q] = p /\ step'[q] \in LookupSteps
  BY <1>1 DEF IInv, Led
<1>3. ASSUME NEW q \in Requests, step'[q] = "join"
      PROVE  pending'[pod'[q]] # {}
  BY <1>1, <1>3 DEF IInv, Led
<1> QED
  BY <1>2, <1>3 DEF IInv, Led

LEMMA SettleKeepsLed ==
  ASSUME IInv, NEW r \in Requests, NEW v, step[r] \in LookupSteps, Settle(r, v), pod' = pod
  PROVE  Led'
<1> DEFINE p == pod[r]
<1>1. p \in Pods /\ pending[p] = {r}
  <2>1. p \in Pods
    BY DEF IInv, TypeOK, Carried, LookupSteps
  <2>2. r \in pending[p] /\ \A q \in pending[p] : q = r
    BY <2>1 DEF IInv, Led
  <2>3. pending[p] = {r}
    BY <2>2
  <2> QED
    BY <2>1, <2>3
<1>2. pending' = [pending EXCEPT ![p] = {}]
  BY DEF Settle
<1>3. step' = [q \in Requests |-> IF q = r \/ (step[q] = "join" /\ pod[q] = p)
                                  THEN "answer" ELSE step[q]]
  BY DEF Settle
<1> HIDE DEF p
<1>4. ASSUME NEW o \in Pods, NEW q \in Requests
      PROVE  q \in pending'[o] <=> pod'[q] = o /\ step'[q] \in LookupSteps
  <2>0. q \in pending[o] <=> pod[q] = o /\ step[q] \in LookupSteps
    BY DEF IInv, Led
  <2>1. CASE o = p
    <3>1. pending'[o] = {}
      BY <1>1, <1>2, <2>1 DEF IInv, TypeOK
    <3>2. CASE q = r
      BY <1>3, <3>1, <3>2 DEF LookupSteps
    <3>3. CASE q # r
      <4>1. ~(pod[q] = o /\ step[q] \in LookupSteps)
        BY <1>1, <2>0, <2>1, <3>3
      <4> QED
        BY <1>3, <3>1, <3>3, <4>1 DEF LookupSteps
    <3> QED
      BY <3>2, <3>3
  <2>2. CASE o # p
    <3>1. pending'[o] = pending[o]
      BY <1>2, <2>2 DEF IInv, TypeOK
    <3>2. CASE pod[q] = o
      <4>1. step'[q] = step[q]
        BY <1>3, <2>2, <3>2 DEF p
      <4> QED
        BY <2>0, <3>1, <4>1
    <3>3. CASE pod[q] # o
      BY <2>0, <3>1, <3>3
    <3> QED
      BY <3>2, <3>3
  <2> QED
    BY <2>1, <2>2
<1>5. ASSUME NEW o \in Pods, NEW q \in pending'[o], NEW q2 \in pending'[o]
      PROVE  q = q2
  <2>1. pending'[o] \subseteq pending[o]
    BY <1>1, <1>2 DEF IInv, TypeOK
  <2> QED
    BY <1>5, <2>1 DEF IInv, Led
<1>6. ASSUME NEW q \in Requests, step'[q] = "join"
      PROVE  pending'[pod'[q]] # {}
  <2>1. step[q] = "join" /\ pod[q] # p
    BY <1>3, <1>6
  <2>2. pending[pod[q]] # {}
    BY <2>1 DEF IInv, Led
  <2> QED
    BY <1>2, <2>1, <2>2 DEF IInv, TypeOK
<1> QED
  BY <1>4, <1>5, <1>6 DEF Led

LEMMA ValidateKeepsLed ==
  ASSUME IInv, NEW r \in Requests, Validate(r)
  PROVE  Led'
<1> USE DEF LookupSteps
<1>1. step[r] \in Steps
  BY DEF IInv, TypeOK
<1>2. ASSUME NEW p \in Pods, LocalHit(r, p) \/ LocalMiss(r, p) \/ Leave(r)
      PROVE  Led'
  <2>1. /\ pending' = pending /\ step[r] \notin LookupSteps /\ step[r] # "join"
        /\ step'[r] \notin LookupSteps /\ step'[r] # "join"
        /\ \A q \in Requests \ {r} : step'[q] = step[q] /\ pod'[q] = pod[q]
    BY <1>2 DEF LocalHit, LocalMiss, Leave, Goto, caches, IInv, TypeOK
  <2>2. ASSUME NEW o \in Pods, NEW q \in Requests
        PROVE  q \in pending'[o] <=> pod'[q] = o /\ step'[q] \in LookupSteps
    BY <2>1 DEF IInv, Led
  <2>3. ASSUME NEW q \in Requests, step'[q] = "join"
        PROVE  pending'[pod'[q]] # {}
    BY <2>1, <2>3 DEF IInv, Led
  <2> QED
    BY <2>1, <2>2, <2>3 DEF IInv, Led
<1>3. CASE GetRedis(r) \/ GetFails(r) \/ GetAgain(r) \/ ReadRow(r) \/ RedisHit(r)
  <2>1. PICK s \in Steps :
           /\ step' = [step EXCEPT ![r] = s] /\ s # "join"
           /\ step[r] \in LookupSteps <=> s \in LookupSteps
    BY <1>3 DEF GetRedis, GetFails, GetAgain, ReadRow, RedisHit, Goto, Steps
  <2>2. pod' = pod /\ pending' = pending
    BY <1>3 DEF GetRedis, GetFails, GetAgain, ReadRow, RedisHit, caches
  <2> QED
    BY <2>1, <2>2, GotoKeepsLed
<1>4. CASE AcquireLock(r) \/ LockHeld(r) \/ NotFoundAgain(r) \/ ReadRowThrows(r)
           \/ CacheLocally(r) \/ CacheInRedis(r) \/ CacheInRedisFails(r)
  <2>1. PICK s \in Steps :
           /\ step' = [step EXCEPT ![r] = s] /\ s # "join"
           /\ step[r] \in LookupSteps <=> s \in LookupSteps
    BY <1>4 DEF AcquireLock, LockHeld, NotFoundAgain, ReadRowThrows, CacheLocally, CacheInRedis,
                CacheInRedisFails, Goto, Steps
  <2>2. pod' = pod /\ pending' = pending
    BY <1>4 DEF AcquireLock, LockHeld, NotFoundAgain, ReadRowThrows, CacheLocally, CacheInRedis,
                CacheInRedisFails, caches
  <2> QED
    BY <2>1, <2>2, GotoKeepsLed
<1>5. CASE Join(r)
  BY <1>5, GotoKeepsLed DEF Join, Goto, caches, Steps
<1>6. CASE Lead(r)
  <2> DEFINE p == pod[r]
  <2>1. p \in Pods /\ pending[p] = {} /\ step[r] = "got"
    BY <1>6 DEF Lead, IInv, TypeOK, Carried
  <2>2. /\ pending' = [pending EXCEPT ![p] = {r}] /\ step' = [step EXCEPT ![r] = "lock"]
        /\ pod' = pod
    BY <1>6 DEF Lead, Goto
  <2>3. \A q \in Requests : step'[q] = IF q = r THEN "lock" ELSE step[q]
    BY <2>2 DEF IInv, TypeOK
  <2>4. \A o \in Pods : pending'[o] = IF o = p THEN {r} ELSE pending[o]
    BY <2>1, <2>2 DEF IInv, TypeOK
  <2>5. ASSUME NEW o \in Pods, NEW q \in Requests
        PROVE  q \in pending'[o] <=> pod'[q] = o /\ step'[q] \in LookupSteps
    BY <2>1, <2>2, <2>3, <2>4 DEF IInv, Led
  <2>6. ASSUME NEW o \in Pods, NEW q \in pending'[o], NEW q2 \in pending'[o]
        PROVE  q = q2
    BY <2>4, <2>6 DEF IInv, Led
  <2>7. ASSUME NEW q \in Requests, step'[q] = "join"
        PROVE  pending'[pod'[q]] # {}
    <3>1. q # r /\ step[q] = "join" /\ pod[q] \in Pods
      BY <2>3, <2>7 DEF IInv, TypeOK, Carried
    <3>2. pending[pod[q]] # {}
      BY <3>1 DEF IInv, Led
    <3> QED
      BY <2>2, <2>4, <3>1, <3>2
  <2> QED
    BY <2>5, <2>6, <2>7 DEF Led
<1>7. CASE AcquireLockThrows(r) \/ FoundAgain(r) \/ ReleaseLock(r) \/ ReleaseLockThrows(r)
  <2>1. PICK v : step[r] \in LookupSteps /\ Settle(r, v) /\ pod' = pod
    BY <1>7 DEF AcquireLockThrows, FoundAgain, ReleaseLock, ReleaseLockThrows
  <2> QED
    BY <2>1, SettleKeepsLed
<1>8. CASE Leave(r)
  <2>1. pod[r] \in Pods
    BY <1>8 DEF Leave, IInv, TypeOK, Carried
  <2> QED
    BY <1>2, <1>8, <2>1
<1> QED
  BY <1>2, <1>3, <1>4, <1>5, <1>6, <1>7, <1>8 DEF Validate

LEMMA ValidateKeepsCarried ==
  ASSUME IInv, NEW r \in Requests, Validate(r)
  PROVE  Carried'
<1> USE Numbers
<1>1. ASSUME NEW q \in Requests
      PROVE  /\ step'[q] \in {"read", "store"} => val'[q] # None
             /\ pod'[q] = NoPod <=> step'[q] = "idle"
  <2>0. /\ step[q] \in {"read", "store"} => val[q] # None
        /\ pod[q] = NoPod <=> step[q] = "idle"
    BY DEF IInv, Carried
  <2>1. version # None
    BY DEF IInv, TypeOK, None
  <2>2. ASSUME NEW p \in Pods, LocalHit(r, p) \/ LocalMiss(r, p)
        PROVE  /\ step'[q] \in {"read", "store"} => val'[q] # None
               /\ pod'[q] = NoPod <=> step'[q] = "idle"
    BY <2>0, <2>2 DEF LocalHit, LocalMiss, Goto, Read, IInv, TypeOK
  <2>3. CASE GetRedis(r) \/ GetFails(r) \/ GetAgain(r) \/ ReadRow(r)
    BY <2>0, <2>1, <2>3 DEF GetRedis, GetFails, GetAgain, ReadRow, Goto, Read, IInv, TypeOK
  <2>4. CASE RedisHit(r) \/ Join(r) \/ Lead(r) \/ AcquireLock(r) \/ LockHeld(r)
    BY <2>0, <2>4 DEF RedisHit, Join, Lead, AcquireLock, LockHeld, Goto, IInv, TypeOK
  <2>5. CASE NotFoundAgain(r) \/ ReadRowThrows(r) \/ CacheLocally(r) \/ CacheInRedis(r) \/ CacheInRedisFails(r)
    BY <2>0, <2>5 DEF NotFoundAgain, ReadRowThrows, CacheLocally, CacheInRedis, CacheInRedisFails, Goto, IInv, TypeOK
  <2>6. ASSUME NEW v, Settle(r, v), pod' = pod, step[r] # "idle"
        PROVE  /\ step'[q] \in {"read", "store"} => val'[q] # None
               /\ pod'[q] = NoPod <=> step'[q] = "idle"
    BY <2>0, <2>6 DEF Settle, IInv, TypeOK
  <2>7. CASE AcquireLockThrows(r) \/ FoundAgain(r) \/ ReleaseLock(r) \/ ReleaseLockThrows(r)
    BY <2>6, <2>7 DEF AcquireLockThrows, FoundAgain, ReleaseLock, ReleaseLockThrows
  <2>8. CASE Leave(r)
    BY <2>0, <2>8 DEF Leave, Goto, Read, IInv, TypeOK
  <2> QED
    BY <2>2, <2>3, <2>4, <2>5, <2>7, <2>8 DEF Validate
<1> QED
  BY <1>1 DEF Carried

\* Whoever goes on with the lock as it was keeps what Locked says of it.
LEMMA StepKeepsLocked ==
  ASSUME IInv, NEW r \in Requests,
         lock' = lock, acquired' = acquired,
         \A q \in Requests : q # r => \/ step'[q] = step[q]
                                     \/ step[q] = "join",
         r \in acquired => step'[r] \in {"db", "read", "store", "unlock"},
         \A q \in acquired : age'[q] = age[q]
  PROVE  Locked'
<1>1. acquired \subseteq Requests
  BY DEF IInv, TypeOK
<1>2. \A q \in acquired : step'[q] \in {"db", "read", "store", "unlock"}
  BY <1>1 DEF IInv, Locked
<1> QED
  BY <1>2 DEF IInv, Locked

LEMMA ValidateKeepsLocked ==
  ASSUME IInv, NEW r \in Requests, Validate(r)
  PROVE  Locked'
<1>1. acquired \subseteq Requests /\ step \in [Requests -> Steps] /\ age \in [Requests -> 0..MaxCall]
  BY DEF IInv, TypeOK
<1>2. r \in acquired => step[r] \in {"db", "read", "store", "unlock"}
  BY DEF IInv, Locked
<1>3. ASSUME NEW p \in Pods, LocalHit(r, p) \/ LocalMiss(r, p)
      PROVE  Locked'
  BY <1>1, <1>2, <1>3, StepKeepsLocked DEF LocalHit, LocalMiss, Goto, caches
<1>4. CASE GetRedis(r) \/ GetFails(r) \/ GetAgain(r) \/ ReadRow(r) \/ RedisHit(r)
  BY <1>1, <1>2, <1>4, StepKeepsLocked DEF GetRedis, GetFails, GetAgain, ReadRow, RedisHit, Goto, caches
<1>5. CASE Join(r) \/ Lead(r) \/ LockHeld(r) \/ NotFoundAgain(r) \/ ReadRowThrows(r)
  BY <1>1, <1>2, <1>5, StepKeepsLocked DEF Join, Lead, LockHeld, NotFoundAgain, ReadRowThrows, Goto, caches
<1>6. CASE CacheLocally(r) \/ CacheInRedis(r) \/ CacheInRedisFails(r)
  BY <1>1, <1>2, <1>6, StepKeepsLocked DEF CacheLocally, CacheInRedis, CacheInRedisFails, Goto, caches
<1>7. ASSUME AcquireLock(r)
      PROVE  Locked'
  <2>1. /\ lock = Free /\ lock' = [by |-> {r}, ttl |-> LockTTL]
        /\ acquired' = acquired \union {r} /\ step' = [step EXCEPT ![r] = "db"] /\ age' = age
    BY <1>7 DEF AcquireLock, Goto
  <2>2. ASSUME MaxCall < LockTTL
        PROVE  acquired = {}
    <3> SUFFICES ASSUME NEW q \in acquired
                 PROVE  FALSE
      OBVIOUS
    <3>1. lock.by = {q}
      BY <2>2 DEF IInv, Locked
    <3> QED
      BY <2>1, <3>1 DEF Free
  <2>3. ASSUME NEW q \in acquired'
        PROVE  /\ step'[q] \in {"db", "read", "store", "unlock"}
               /\ MaxCall < LockTTL => lock'.by = {q} /\ lock'.ttl + age'[q] >= LockTTL
    <3>1. step'[q] \in {"db", "read", "store", "unlock"}
      BY <1>1, <2>1, <2>3 DEF IInv, Locked
    <3>2. ASSUME MaxCall < LockTTL
          PROVE  lock'.by = {q} /\ lock'.ttl + age'[q] >= LockTTL
      <4>1. q = r
        BY <2>1, <2>2, <2>3, <3>2
      <4>2. LockTTL \in Nat /\ age[r] \in Nat
        BY <1>1, Numbers
      <4> QED
        BY <2>1, <4>1, <4>2
    <3> QED
      BY <3>1, <3>2
  <2> QED
    BY <2>3 DEF Locked
<1>8. ASSUME NEW v, Settle(r, v)
      PROVE  \A q \in Requests : q # r => step'[q] = step[q] \/ step[q] = "join"
  BY <1>8 DEF Settle
<1>9. CASE AcquireLockThrows(r) \/ FoundAgain(r)
  <2>1. /\ lock' = lock /\ acquired' = acquired /\ age' = age /\ r \notin acquired
        /\ \E v : Settle(r, v)
    BY <1>2, <1>9 DEF AcquireLockThrows, FoundAgain
  <2> QED
    BY <1>8, <2>1, StepKeepsLocked
<1>10. ASSUME ReleaseLock(r) \/ ReleaseLockThrows(r)
       PROVE  Locked'
  <2>1. /\ acquired' = acquired \ {r} /\ age' = age
        /\ lock' = lock \/ (r \in acquired /\ lock.by = {r})
        /\ \E v : Settle(r, v)
    BY <1>10 DEF ReleaseLock, ReleaseLockThrows
  <2>2. ASSUME NEW q \in acquired'
        PROVE  /\ step'[q] \in {"db", "read", "store", "unlock"}
               /\ MaxCall < LockTTL => lock'.by = {q} /\ lock'.ttl + age'[q] >= LockTTL
    <3>1. q \in acquired /\ q # r /\ q \in Requests
      BY <1>1, <2>1, <2>2
    <3>2. /\ step[q] \in {"db", "read", "store", "unlock"}
          /\ MaxCall < LockTTL => lock.by = {q} /\ lock.ttl + age[q] >= LockTTL
      BY <3>1 DEF IInv, Locked
    <3>3. step'[q] = step[q]
      BY <1>8, <2>1, <3>1, <3>2
    <3>4. MaxCall < LockTTL => lock' = lock
      BY <2>1, <3>1, <3>2
    <3> QED
      BY <2>1, <3>2, <3>3, <3>4
  <2> QED
    BY <2>2 DEF Locked
<1>11. CASE Leave(r)
  BY <1>1, <1>2, <1>11, StepKeepsLocked DEF Leave, Goto, caches
<1> QED
  BY <1>3, <1>4, <1>5, <1>6, <1>7, <1>9, <1>10, <1>11 DEF Validate

LEMMA NextKeepsIInv == IInv /\ [Next]_vars => IInv'
<1> SUFFICES ASSUME IInv, [Next]_vars
             PROVE  IInv'
  OBVIOUS
<1>1. ASSUME NEW r \in Requests, Validate(r)
      PROVE  IInv'
  BY <1>1, ValidateKeepsTypeOK, ValidateKeepsCarried, ValidateKeepsLed, ValidateKeepsLocked DEF IInv
<1>2. CASE Tick
  BY <1>2, TickKeepsTypeOK, TickKeepsRest DEF IInv
<1>3. ASSUME Invalidate \/ ChangeTenant \/ ChangeSilently
               \/ \E p \in Pods : ChangeUser(p) \/ Deliver(p) \/ Lose(p)
      PROVE  IInv'
  <2>1. UNCHANGED <<step, pod, val, pending, lock, acquired, age>>
    BY <1>3 DEF Invalidate, PurgeLocal, Purge, PurgeFails, PurgeRedis, PurgeRedisFails, PurgeKey,
                PurgeKeyFails, Publish, ChangeTenant, ChangeSilently, Changes, ChangeUser, Deliver,
                Lose, request, caches
  <2> QED
    BY <1>3, <2>1, WriterKeepsTypeOK, WriterKeepsRest DEF IInv
<1>4. CASE UNCHANGED vars
  <2>1. UNCHANGED <<redis, lock, local, pending, pod, step, val, age, acquired>>
        /\ UNCHANGED <<version, since, change, changer, inbox, raced, faults>>
    BY <1>4 DEF vars, caches, request, writer
  <2>2. TypeOK'
    BY <2>1 DEF IInv, TypeOK
  <2>3. Carried' /\ Locked'
    BY <2>1 DEF IInv, Carried, Locked
  <2>4. Led'
    BY <2>1 DEF IInv, Led
  <2> QED
    BY <2>2, <2>3, <2>4 DEF IInv
<1> QED
  BY <1>1, <1>2, <1>3, <1>4 DEF Next

LEMMA AtMostOne ==
  ASSUME NEW S, \A x, y \in S : x = y
  PROVE  Cardinality(S) <= 1
<1>1. CASE S = {}
  <2>1. Cardinality(S) = 0
    BY <1>1, FS_EmptySet
  <2> QED
    BY <2>1
<1>2. ASSUME NEW x \in S
      PROVE  Cardinality(S) <= 1
  <2>1. S = {x}
    OBVIOUS
  <2>2. Cardinality(S) = 1
    BY <2>1, FS_Singleton
  <2> QED
    BY <2>2
<1> QED
  BY <1>1, <1>2

\* The inductive invariant holds in every reachable state.
THEOREM IInvHolds == Spec => []IInv
  BY Initially, NextKeepsIInv, PTL DEF Spec

\* Every variable of the cache stays in its type: no entry outlives its
\* lifetime and no value that is cached is empty.
THEOREM CacheTypeCorrect == Spec => []TypeOK
<1>1. IInv => TypeOK
  BY DEF IInv
<1> QED
  BY <1>1, IInvHolds, PTL

\* validate 104-118, for any number of pods and requests: a pod looks the
\* user up once at a time, and nobody shares a lookup that has ended.
THEOREM LookupsAreShared == Spec => []OneLookupPerPod
<1>1. IInv => OneLookupPerPod
  <2> SUFFICES ASSUME IInv, NEW p \in Pods
               PROVE  /\ pending[p] = Looking(p) /\ Cardinality(Looking(p)) <= 1
                      /\ (\E r \in Requests : pod[r] = p /\ step[r] = "join") => Looking(p) # {}
    BY DEF OneLookupPerPod
  <2>1. pending[p] = Looking(p)
    BY DEF IInv, TypeOK, Led, LookupSteps, Looking
  <2>2. Cardinality(pending[p]) <= 1
    <3>1. \A x, y \in pending[p] : x = y
      BY DEF IInv, Led
    <3> QED
      BY <3>1, AtMostOne
  <2>3. \A r \in Requests : pod[r] = p /\ step[r] = "join" => pending[p] # {}
    BY DEF IInv, Led
  <2> QED
    BY <2>1, <2>2, <2>3
<1> QED
  BY <1>1, IInvHolds, PTL

\* lookupWithDistributedLock 147-156: as long as lookups end before the lock
\* expires, two requests never hold it, though some look up without it.
THEOREM LockIsExclusive == Spec => []OneLockHolder
<1>1. IInv => OneLockHolder
  <2> SUFFICES ASSUME IInv, MaxCall < LockTTL
               PROVE  Cardinality(acquired) <= 1
    BY DEF OneLockHolder
  <2>1. \A q, r \in acquired : q = r
    BY DEF IInv, Locked
  <2> QED
    BY <2>1, AtMostOne
<1> QED
  BY <1>1, IInvHolds, PTL

----------------------------------------------------------------------------
(* Staleness.  What an entry has left and the time since its version was   *)
(* replaced add up to a bound: a value just read from the row is no older  *)
(* than its request, what Redis holds no older than one request and the    *)
(* time it was there, and what a pod holds one request and a local         *)
(* lifetime more.                                                          *)

InRedis == MaxCall + RedisTTL
AsOldAs(r) == IF step[r] = "answer" THEN Horizon
              ELSE IF step[r] \in {"read", "store"} THEN age[r]
              ELSE InRedis + age[r]

Aged ==
    /\ \A v \in 0..MaxVersion : v >= version => since[v] = 0
    /\ redis # Empty => since[redis.v] + redis.ttl <= InRedis
    /\ \A p \in Pods : local[p] # Empty => since[local[p].v] + local[p].ttl <= Horizon
    /\ \A r \in Requests : /\ step[r] = "idle" => val[r] = None
                           /\ val[r] # None => since[val[r]] <= AsOldAs(r)

LEMMA AgedInitially == Init => Aged
  BY Numbers DEF Init, Aged, AsOldAs, InRedis, None, Empty

\* The numbers Aged speaks of.
LEMMA AgedTypes ==
  ASSUME TypeOK
  PROVE  /\ InRedis \in Nat /\ Horizon = InRedis + MaxCall + LocalTTL
         /\ \A v \in 0..MaxVersion : since[v] \in Nat
         /\ redis # Empty => redis.v \in 0..MaxVersion /\ redis.ttl \in 1..RedisTTL
         /\ \A p \in Pods : local[p] # Empty =>
               local[p].v \in 0..MaxVersion /\ local[p].ttl \in 1..LocalTTL
         /\ \A r \in Requests : /\ age[r] \in 0..MaxCall
                                /\ val[r] # None => val[r] \in 0..MaxVersion
                                /\ AsOldAs(r) \in 0..Horizon
<1> USE Numbers
<1>1. InRedis \in Nat /\ Horizon = InRedis + MaxCall + LocalTTL
  BY DEF InRedis, Horizon
<1>2. ASSUME NEW ttl \in Nat, NEW e \in Entry(ttl), e # Empty
      PROVE  e.v \in 0..MaxVersion /\ e.ttl \in 1..ttl
  BY <1>2 DEF Entry
<1>3. redis \in Entry(RedisTTL) /\ \A p \in Pods : local[p] \in Entry(LocalTTL)
  BY DEF TypeOK
<1>4. \A v \in 0..MaxVersion : since[v] \in Nat
  BY DEF TypeOK
<1>5. ASSUME NEW r \in Requests
      PROVE  /\ age[r] \in 0..MaxCall
             /\ val[r] # None => val[r] \in 0..MaxVersion
             /\ AsOldAs(r) \in 0..Horizon
  <2>1. age[r] \in 0..MaxCall /\ val[r] \in None..MaxVersion
    BY DEF TypeOK
  <2> QED
    BY <1>1, <2>1 DEF AsOldAs, None
<1> QED
  BY <1>1, <1>2, <1>3, <1>4, <1>5

\* The requests go on while the row, the caches and the clock stay.
LEMMA RequestsKeepAged ==
  ASSUME TypeOK, Aged,
         UNCHANGED <<version, since, redis>>,
         \A p \in Pods : local'[p] # local[p] /\ local'[p] # Empty =>
            since[local'[p].v] + local'[p].ttl <= Horizon,
         \A q \in Requests :
            /\ step'[q] = "idle" => val'[q] = None
            /\ val'[q] # None => since[val'[q]] <= AsOldAs(q)'
  PROVE  Aged'
  BY DEF Aged

\* One request goes on, with the value it had.
LEMMA OneKeepsAged ==
  ASSUME TypeOK, Aged, NEW r \in Requests, NEW s \in Steps \ {"idle"}, step[r] # "answer",
         step' = [step EXCEPT ![r] = s],
         UNCHANGED <<version, since, redis, age, val>>,
         s \in {"read", "store"} => step[r] \in {"read", "store"},
         \A p \in Pods : local'[p] # local[p] /\ local'[p] # Empty =>
            since[local'[p].v] + local'[p].ttl <= Horizon
  PROVE  Aged'
<1>1. ASSUME NEW q \in Requests
      PROVE  /\ step'[q] = "idle" => val'[q] = None
             /\ val'[q] # None => since[val'[q]] <= AsOldAs(q)'
  <2>1. step'[q] = IF q = r THEN s ELSE step[q]
    BY DEF TypeOK
  <2>2. /\ step[q] = "idle" => val[q] = None
        /\ val[q] # None => since[val[q]] <= AsOldAs(q)
    BY DEF Aged
  <2>3. CASE q # r
    BY <2>1, <2>2, <2>3 DEF AsOldAs
  <2>4. CASE q = r
    <3> DEFINE old == AsOldAs(r)
               new == IF s = "answer" THEN Horizon
                      ELSE IF s \in {"read", "store"} THEN age[r] ELSE InRedis + age[r]
    <3>0. /\ InRedis \in Nat /\ age[r] \in 0..MaxCall /\ LocalTTL \in Nat /\ MaxCall \in Nat
          /\ Horizon = InRedis + MaxCall + LocalTTL
      BY AgedTypes, Numbers
    <3>4. AsOldAs(r)' = new
      BY <2>1, <2>4 DEF AsOldAs, Horizon, InRedis
    <3>1. old <= new
      BY <3>0 DEF AsOldAs
    <3>5. new \in Nat
      BY <3>0
    <3> HIDE DEF old, new
    <3>2. val[r] # None => since[val[r]] \in Nat
      BY AgedTypes
    <3>3. old \in Nat /\ (val[r] # None => since[val[r]] <= old)
      BY <2>2, <2>4, AgedTypes DEF old
    <3>6. val[r] # None => since[val[r]] <= new
      BY <3>1, <3>2, <3>3, <3>5
    <3>7. step'[q] # "idle" /\ val' = val /\ AsOldAs(q)' = new
      BY <2>1, <2>4, <3>4
    <3> QED
      BY <2>4, <3>6, <3>7
  <2> QED
    BY <2>3, <2>4
<1> QED
  BY <1>1, RequestsKeepAged

\* One request goes on with a value it has just read.
LEMMA ReadKeepsAged ==
  ASSUME TypeOK, Aged, NEW r \in Requests, NEW s \in Steps \ {"idle"}, NEW v,
         step' = [step EXCEPT ![r] = s],
         val' = [val EXCEPT ![r] = v],
         UNCHANGED <<version, since, redis, local, age>>,
         v # None => since[v] <= IF s = "answer" THEN Horizon
                                 ELSE IF s \in {"read", "store"} THEN age[r] ELSE InRedis + age[r]
  PROVE  Aged'
<1>1. ASSUME NEW q \in Requests
      PROVE  /\ step'[q] = "idle" => val'[q] = None
             /\ val'[q] # None => since[val'[q]] <= AsOldAs(q)'
  <2>1. step'[q] = (IF q = r THEN s ELSE step[q]) /\ val'[q] = IF q = r THEN v ELSE val[q]
    BY DEF TypeOK
  <2>2. /\ step[q] = "idle" => val[q] = None
        /\ val[q] # None => since[val[q]] <= AsOldAs(q)
    BY DEF Aged
  <2>3. AsOldAs(q)' = IF step'[q] = "answer" THEN Horizon
                      ELSE IF step'[q] \in {"read", "store"} THEN age[q] ELSE InRedis + age[q]
    BY DEF AsOldAs, Horizon, InRedis
  <2> QED
    BY <2>1, <2>2, <2>3 DEF AsOldAs
<1> QED
  BY <1>1, RequestsKeepAged

\* Whatever a request read, a pod may remember it.
LEMMA MayRemember ==
  ASSUME TypeOK, Aged, NEW r \in Requests, step[r] # "answer", val[r] # None
  PROVE  since[val[r]] + LocalTTL <= Horizon /\ since[val[r]] \in Nat
<1>1. /\ InRedis \in Nat /\ age[r] \in 0..MaxCall /\ LocalTTL \in Nat /\ MaxCall \in Nat
      /\ Horizon = InRedis + MaxCall + LocalTTL /\ since[val[r]] \in Nat
  BY AgedTypes, Numbers
<1>2. since[val[r]] <= InRedis + MaxCall
  BY <1>1 DEF Aged, AsOldAs
<1> QED
  BY <1>1, <1>2

LEMMA RememberedEntry ==
  ASSUME TypeOK, Aged, NEW r \in Requests, step[r] # "answer", val[r] # None,
         Remember(r, val[r])
  PROVE  \A p \in Pods : local'[p] # local[p] /\ local'[p] # Empty =>
            since[local'[p].v] + local'[p].ttl <= Horizon
<1>1. \A p \in Pods : local'[p] # local[p] => local'[p] = [v |-> val[r], ttl |-> LocalTTL]
  BY DEF Remember, TypeOK
<1> QED
  BY <1>1, MayRemember

LEMMA SettleKeepsAged ==
  ASSUME TypeOK, Aged, NEW r \in Requests, NEW v,
         step[r] \notin {"answer", "idle"}, v \in {val[r], None}, Settle(r, v),
         UNCHANGED <<version, since, redis, age>>,
         local' = local \/ (val[r] # None /\ Remember(r, val[r]))
  PROVE  Aged'
<1>1. \A p \in Pods : local'[p] # local[p] /\ local'[p] # Empty =>
         since[local'[p].v] + local'[p].ttl <= Horizon
  BY RememberedEntry
<1>2. ASSUME NEW q \in Requests
      PROVE  /\ step'[q] = "idle" => val'[q] = None
             /\ val'[q] # None => since[val'[q]] <= AsOldAs(q)'
  <2>1. CASE q = r \/ (step[q] = "join" /\ pod[q] = pod[r])
    <3>1. step'[q] = "answer" /\ val'[q] = v
      BY <2>1 DEF Settle
    <3>2. AsOldAs(q)' = Horizon
      BY <3>1 DEF AsOldAs, Horizon, InRedis
    <3>3. v # None => since[v] <= Horizon
      BY MayRemember, AgedTypes, Numbers
    <3> QED
      BY <3>1, <3>2, <3>3
  <2>2. CASE ~(q = r \/ (step[q] = "join" /\ pod[q] = pod[r]))
    <3>1. step'[q] = step[q] /\ val'[q] = val[q]
      BY <2>2 DEF Settle
    <3> QED
      BY <3>1 DEF Aged, AsOldAs
  <2> QED
    BY <2>1, <2>2
<1> QED
  BY <1>1, <1>2, RequestsKeepAged

LEMMA ValidateKeepsAged ==
  ASSUME TypeOK, Carried, Aged, NEW r \in Requests, Validate(r)
  PROVE  Aged'
<1> USE Numbers
<1>1. /\ InRedis \in Nat /\ Horizon = InRedis + MaxCall + LocalTTL /\ age[r] \in 0..MaxCall
      /\ val[r] # None => val[r] \in 0..MaxVersion /\ since[val[r]] \in Nat
  BY AgedTypes
<1>2. ASSUME NEW p \in Pods, LocalHit(r, p)
      PROVE  Aged'
  <2>1. since[local[p].v] <= Horizon
    <3>1. since[local[p].v] + local[p].ttl <= Horizon
      BY <1>2 DEF LocalHit, Aged
    <3> QED
      BY <1>1, <1>2, <3>1, AgedTypes DEF LocalHit
  <2>2. "answer" \in Steps \ {"idle"}
    BY DEF Steps
  <2> QED
    BY <1>2, <2>1, <2>2, ReadKeepsAged DEF LocalHit, Goto, Read, world, caches
<1>3. ASSUME NEW p \in Pods, LocalMiss(r, p)
      PROVE  Aged'
  BY <1>3, OneKeepsAged DEF LocalMiss, Goto, Steps, world, caches
<1>4. redis.v # None => since[redis.v] <= InRedis + age[r]
  <2>1. redis # Empty => since[redis.v] + redis.ttl <= InRedis
    BY DEF Aged
  <2>2. redis # Empty => since[redis.v] \in Nat /\ redis.ttl \in Nat
    BY AgedTypes
  <2>3. redis.v # None => redis # Empty
    BY DEF Empty
  <2> QED
    BY <1>1, <2>1, <2>2, <2>3
<1>5. CASE GetRedis(r) \/ GetAgain(r)
  <2>1. PICK s \in {"got", "again"} : step' = [step EXCEPT ![r] = s]
    BY <1>5 DEF GetRedis, GetAgain, Goto
  <2>2. val' = [val EXCEPT ![r] = redis.v] /\ UNCHANGED <<version, since, redis, local, age>>
    BY <1>5 DEF GetRedis, GetAgain, Read, world, caches
  <2>3. s \in Steps \ {"idle"} /\ s \notin {"answer", "read", "store"}
    BY DEF Steps
  <2> QED
    BY <1>4, <2>1, <2>2, <2>3, ReadKeepsAged
<1>6. CASE GetFails(r)
  <2>1. PICK s \in {"got", "again"} : step' = [step EXCEPT ![r] = s]
    BY <1>6 DEF GetFails, Goto
  <2>2. val' = [val EXCEPT ![r] = None] /\ UNCHANGED <<version, since, redis, local, age>>
    BY <1>6 DEF GetFails, Read, world, caches
  <2>3. s \in Steps \ {"idle"}
    BY DEF Steps
  <2> QED
    BY <2>1, <2>2, <2>3, ReadKeepsAged
<1>7. CASE ReadRow(r)
  <2>1. since[version] <= age[r]
    BY <1>1 DEF Aged, TypeOK
  <2>2. "read" \in Steps \ {"idle"}
    BY DEF Steps
  <2> QED
    BY <1>7, <2>1, <2>2, ReadKeepsAged DEF ReadRow, Goto, Read, world, caches
<1>8. CASE RedisHit(r) \/ CacheLocally(r)
  <2>1. val[r] # None /\ step[r] # "answer" /\ Remember(r, val[r])
    BY <1>8 DEF RedisHit, CacheLocally, Carried
  <2>2. PICK s \in {"answer", "store"} :
           step' = [step EXCEPT ![r] = s] /\ (s = "store" => step[r] = "read")
    BY <1>8 DEF RedisHit, CacheLocally, Goto
  <2>3. s \in Steps \ {"idle"}
    BY DEF Steps
  <2>4. UNCHANGED <<version, since, redis, age, val>>
    BY <1>8 DEF RedisHit, CacheLocally, world
  <2> QED
    BY <2>1, <2>2, <2>3, <2>4, RememberedEntry, OneKeepsAged
<1>9. CASE \/ Join(r) \/ Lead(r) \/ AcquireLock(r) \/ LockHeld(r) \/ NotFoundAgain(r)
           \/ ReadRowThrows(r) \/ CacheInRedisFails(r)
  <2>1. PICK s \in {"join", "lock", "db", "wait", "unlock"} : step' = [step EXCEPT ![r] = s]
    BY <1>9 DEF Join, Lead, AcquireLock, LockHeld, NotFoundAgain, ReadRowThrows,
       CacheInRedisFails, Goto
  <2>2. UNCHANGED <<version, since, redis, local, age, val>> /\ step[r] # "answer"
    BY <1>9 DEF Join, Lead, AcquireLock, LockHeld, NotFoundAgain, ReadRowThrows,
       CacheInRedisFails, world, caches
  <2>3. s \in Steps \ {"idle"} /\ s \notin {"read", "store"}
    BY DEF Steps
  <2> QED
    BY <2>1, <2>2, <2>3, OneKeepsAged
<1>10. CASE CacheInRedis(r)
  <2>1. val[r] # None /\ since[val[r]] <= age[r]
    BY <1>10 DEF CacheInRedis, Carried, Aged, AsOldAs
  <2>2. redis' = [v |-> val[r], ttl |-> RedisTTL] /\ step' = [step EXCEPT ![r] = "unlock"]
        /\ UNCHANGED <<version, since, local, age, val>>
    BY <1>10 DEF CacheInRedis, Goto, world
  <2>3. since[redis'.v] + redis'.ttl <= InRedis
    BY <1>1, <2>1, <2>2 DEF InRedis
  <2>4. ASSUME NEW q \in Requests
        PROVE  /\ step'[q] = "idle" => val'[q] = None
               /\ val'[q] # None => since[val'[q]] <= AsOldAs(q)'
    <3>1. CASE q = r
      <4>1. step'[q] = "unlock" /\ val'[q] = val[r]
        BY <2>2, <3>1 DEF TypeOK
      <4>2. AsOldAs(q)' = InRedis + age[r]
        BY <2>2, <3>1, <4>1 DEF AsOldAs, Horizon, InRedis
      <4> QED
        BY <1>1, <2>1, <4>1, <4>2
    <3>2. CASE q # r
      BY <2>2, <3>2 DEF TypeOK, Aged, AsOldAs
    <3> QED
      BY <3>1, <3>2
  <2> QED
    BY <2>2, <2>3, <2>4 DEF Aged, InRedis, Horizon
<1>11. CASE AcquireLockThrows(r) \/ ReleaseLockThrows(r) \/ ReleaseLock(r) \/ FoundAgain(r)
  <2>1. PICK v \in {val[r], None} : Settle(r, v)
    BY <1>11 DEF AcquireLockThrows, ReleaseLockThrows, ReleaseLock, FoundAgain
  <2>2. step[r] \notin {"answer", "idle"}
    BY <1>11 DEF AcquireLockThrows, ReleaseLockThrows, ReleaseLock, FoundAgain
  <2>3. UNCHANGED <<version, since, redis, age>>
        /\ (local' = local \/ (val[r] # None /\ Remember(r, val[r])))
    BY <1>11 DEF AcquireLockThrows, ReleaseLockThrows, ReleaseLock, FoundAgain, world
  <2> QED
    BY <2>1, <2>2, <2>3, SettleKeepsAged
<1>12. CASE Leave(r)
  <2>1. ASSUME NEW q \in Requests
        PROVE  /\ step'[q] = "idle" => val'[q] = None
               /\ val'[q] # None => since[val'[q]] <= AsOldAs(q)'
    <3>1. CASE q = r
      BY <1>12, <3>1 DEF Leave, Goto, Read, TypeOK
    <3>2. CASE q # r
      BY <1>12, <3>2 DEF Leave, Goto, Read, TypeOK, Aged, AsOldAs, Horizon, InRedis
    <3> QED
      BY <3>1, <3>2
  <2> QED
    BY <1>12, <2>1, RequestsKeepAged DEF Leave, world, caches
<1> QED
  BY <1>2, <1>3, <1>5, <1>6, <1>7, <1>8, <1>9, <1>10, <1>11, <1>12 DEF Validate

\* Whoever changes the row or invalidates only empties entries, and the
\* requests go on as they were.
LEMMA WriterEmpties ==
  ASSUME TypeOK,
         \/ \E p \in Pods : ChangeUser(p) \/ Deliver(p) \/ Lose(p)
         \/ ChangeTenant \/ ChangeSilently \/ Invalidate
  PROVE  /\ UNCHANGED <<since, request>> /\ version' \in {version, version + 1}
         /\ redis' \in {redis, Empty}
         /\ \A p \in Pods : local'[p] \in {local[p], Empty}
<1>1. UNCHANGED <<since, request>> /\ version' \in {version, version + 1}
  BY DEF ChangeUser, Deliver, Lose, ChangeTenant, ChangeSilently, Changes, Invalidate,
     PurgeLocal, PurgeRedis, PurgeRedisFails, Publish, PurgeKey, PurgeKeyFails, Purge,
     PurgeFails, request, caches
<1>2. redis' \in {redis, Empty}
  BY DEF ChangeUser, Deliver, Lose, ChangeTenant, ChangeSilently, Changes, Invalidate,
     PurgeLocal, PurgeRedis, PurgeRedisFails, Publish, PurgeKey, PurgeKeyFails, Purge,
     PurgeFails, caches
<1>3. \A p \in Pods : local'[p] \in {local[p], Empty}
  <2>1. local' = local \/ \E p \in Pods \union {NoPod} : local' = [local EXCEPT ![p] = Empty]
    BY DEF ChangeUser, Deliver, Lose, ChangeTenant, ChangeSilently, Changes, Invalidate,
       PurgeLocal, PurgeRedis, PurgeRedisFails, Publish, PurgeKey, PurgeKeyFails, Purge,
       PurgeFails, caches, TypeOK
  <2> QED
    BY <2>1 DEF TypeOK
<1> QED
  BY <1>1, <1>2, <1>3

\* A change of the row makes the version before it start to age; whoever
\* purges or delivers only empties entries.
LEMMA WriterKeepsAged ==
  ASSUME TypeOK, Aged,
         \/ \E p \in Pods : ChangeUser(p) \/ Deliver(p) \/ Lose(p)
         \/ ChangeTenant \/ ChangeSilently \/ Invalidate
  PROVE  Aged'
<1>1. UNCHANGED <<since, request>> /\ version' \in {version, version + 1}
  BY WriterEmpties
<1>2. redis' \in {redis, Empty}
  BY WriterEmpties
<1>3. \A p \in Pods : local'[p] \in {local[p], Empty}
  BY WriterEmpties
<1>4. \A v \in 0..MaxVersion : v >= version' => since[v] = 0
  BY <1>1, Numbers DEF Aged, TypeOK
<1>5. \A r \in Requests : AsOldAs(r)' = AsOldAs(r)
  BY <1>1 DEF AsOldAs, request, InRedis, Horizon
<1>6. UNCHANGED <<since, val, step>>
  BY <1>1 DEF request
<1>7. redis' # Empty => since'[redis'.v] + redis'.ttl <= InRedis
  BY <1>2, <1>6 DEF Aged
<1>8. \A p \in Pods : local'[p] # Empty => since'[local'[p].v] + local'[p].ttl <= Horizon
  BY <1>3, <1>6 DEF Aged
<1>9. \A r \in Requests : /\ step'[r] = "idle" => val'[r] = None
                          /\ val'[r] # None => since'[val'[r]] <= AsOldAs(r)
  BY <1>6 DEF Aged
<1> QED
  BY <1>4, <1>5, <1>6, <1>7, <1>8, <1>9 DEF Aged, InRedis, Horizon

LEMMA OlderAges ==
  ASSUME NEW ttl \in Nat, NEW e \in Entry(ttl), Older(e) # Empty
  PROVE  e # Empty /\ Older(e).v = e.v /\ Older(e).ttl = e.ttl - 1 /\ e.ttl \in Nat
<1>1. ~(e.ttl <= 1)
  BY DEF Older
<1>2. e \in [v : 0..MaxVersion, ttl : 1..ttl]
  BY <1>1 DEF Entry, Empty
<1> QED
  BY <1>1, <1>2 DEF Older, Empty

LEMMA SecondsPass ==
  ASSUME TypeOK, Tick, NEW v \in 0..MaxVersion
  PROVE  since[v] \in Nat /\ since'[v] \in Nat /\ since'[v] <= since[v] + 1
<1>1. since[v] \in Nat
  BY AgedTypes
<1>2. since'[v] = IF v < version THEN Min({since[v] + 1, Horizon + 1}) ELSE 0
  BY DEF Tick
<1>3. Min({Horizon + 1, since[v] + 1}) \in 0..since[v] + 1
  BY <1>1, MinOfTwo, Numbers
<1>4. {since[v] + 1, Horizon + 1} = {Horizon + 1, since[v] + 1}
  OBVIOUS
<1> QED
  BY <1>1, <1>2, <1>3, <1>4

\* A second later every entry has a second less and every version is at
\* most a second older, and so is every request that reads.
LEMMA TickKeepsAged ==
  ASSUME TypeOK, Aged, Tick
  PROVE  Aged'
<1> USE Numbers
<1>1. \A v \in 0..MaxVersion : since[v] \in Nat /\ since'[v] \in Nat /\ since'[v] <= since[v] + 1
  BY SecondsPass
<1>2. UNCHANGED <<version, val, step>>
  BY DEF Tick
<1>3. \A v \in 0..MaxVersion : v >= version' => since'[v] = 0
  BY <1>2 DEF Tick, TypeOK
<1>4. redis' # Empty => since'[redis'.v] + redis'.ttl <= InRedis
  <2> SUFFICES ASSUME redis' # Empty
               PROVE  since'[redis'.v] + redis'.ttl <= InRedis
    OBVIOUS
  <2>1. redis' = Older(redis) /\ redis \in Entry(RedisTTL)
    BY DEF Tick, TypeOK
  <2>2. redis # Empty /\ redis'.v = redis.v /\ redis'.ttl = redis.ttl - 1 /\ redis.ttl \in Nat
    BY <2>1, OlderAges
  <2>3. redis.v \in 0..MaxVersion /\ since[redis.v] + redis.ttl <= InRedis
    BY <2>2, AgedTypes DEF Aged
  <2>4. InRedis \in Nat
    BY AgedTypes
  <2> QED
    BY <1>1, <2>2, <2>3, <2>4
<1>5. ASSUME NEW p \in Pods, local'[p] # Empty
      PROVE  since'[local'[p].v] + local'[p].ttl <= Horizon
  <2>1. local'[p] = Older(local[p]) /\ local[p] \in Entry(LocalTTL)
    BY DEF Tick, TypeOK
  <2>2. local[p] # Empty /\ local'[p].v = local[p].v /\ local'[p].ttl = local[p].ttl - 1
        /\ local[p].ttl \in Nat
    BY <1>5, <2>1, OlderAges
  <2>3. local[p].v \in 0..MaxVersion /\ since[local[p].v] + local[p].ttl <= Horizon
    BY <2>2, AgedTypes DEF Aged
  <2> QED
    BY <1>1, <2>2, <2>3
<1>6. ASSUME NEW r \in Requests
      PROVE  /\ step'[r] = "idle" => val'[r] = None
             /\ val'[r] # None => since'[val'[r]] <= AsOldAs(r)'
  <2>1. step[r] # "answer" /\ (step[r] = "idle" => val[r] = None)
    BY DEF Tick, Aged
  <2>2. CASE val[r] = None
    BY <1>2, <2>2
  <2>3. CASE val[r] # None
    <3>1. step[r] # "idle" /\ age'[r] = age[r] + 1
      BY <2>1, <2>3 DEF Tick
    <3>2. AsOldAs(r)' = AsOldAs(r) + 1
      <4>1. AsOldAs(r)' = IF step[r] \in {"read", "store"} THEN age[r] + 1
                          ELSE InRedis + (age[r] + 1)
        BY <1>2, <2>1, <3>1 DEF AsOldAs, InRedis, Horizon
      <4>2. AsOldAs(r) = IF step[r] \in {"read", "store"} THEN age[r] ELSE InRedis + age[r]
        BY <2>1 DEF AsOldAs
      <4>3. InRedis \in Nat /\ age[r] \in Nat
        BY AgedTypes
      <4> QED
        BY <4>1, <4>2, <4>3
    <3>3. val[r] \in 0..MaxVersion /\ since[val[r]] <= AsOldAs(r) /\ AsOldAs(r) \in Nat
      BY <2>3, AgedTypes DEF Aged
    <3> QED
      BY <1>1, <1>2, <2>1, <2>3, <3>2, <3>3
  <2> QED
    BY <2>2, <2>3
<1> QED
  BY <1>3, <1>4, <1>5, <1>6 DEF Aged, InRedis, Horizon

\* validate, invalidateUserCache: whatever races, fails or is never
\* invalidated, no request is answered with a version that was replaced
\* longer ago than the lifetimes and calls add up to.
THEOREM StalenessIsBounded == Spec => []StalenessBounded
<1>1. Init => IInv /\ Aged
  BY Initially, AgedInitially
<1>2. (IInv /\ Aged) /\ [Next]_vars => (IInv /\ Aged)'
  <2> SUFFICES ASSUME IInv, Aged, [Next]_vars
               PROVE  Aged'
    BY NextKeepsIInv
  <2>1. TypeOK /\ Carried
    BY DEF IInv
  <2>2. CASE \E r \in Requests : Validate(r)
    BY <2>1, <2>2, ValidateKeepsAged
  <2>3. CASE \/ \E p \in Pods : ChangeUser(p) \/ Deliver(p) \/ Lose(p)
             \/ ChangeTenant \/ ChangeSilently \/ Invalidate
    BY <2>1, <2>3, WriterKeepsAged
  <2>4. CASE Tick
    BY <2>1, <2>4, TickKeepsAged
  <2>5. CASE UNCHANGED vars
    BY <2>5 DEF vars, Aged, AsOldAs, caches, request, InRedis, Horizon
  <2> QED
    BY <2>2, <2>3, <2>4, <2>5 DEF Next
<1>3. IInv /\ Aged => StalenessBounded
  <2> SUFFICES ASSUME IInv, Aged
               PROVE  StalenessBounded
    OBVIOUS
  <2> QED
    BY DEF StalenessBounded, Answered, Aged, AsOldAs
<1> QED
  BY <1>1, <1>2, <1>3, PTL DEF Spec

----------------------------------------------------------------------------
(***************************************************************************)
(* Invalidation.  As long as no request carried an old version across the  *)
(* deletion of the Redis key and no call failed, old versions are handed   *)
(* out by Redis only until the key is deleted, and what the pods still     *)
(* hold then is on its way out: its age and what it has left add up to     *)
(* MaxCall + LocalTTL.                                                     *)
(***************************************************************************)
\* No copy is ahead of the row.
NotAhead ==
    /\ redis.v <= version
    /\ \A p \in Pods : local[p].v <= version
    /\ \A r \in Requests : val[r] <= version

\* A lookup starts with nothing, and what it hands on when it ends is as old
\* as the request at most.
Reads ==
    \A r \in Requests :
        /\ step[r] \in {"join", "lock", "db", "wait"} => val[r] = None
        /\ step[r] = "unlock" /\ val[r] # None => since[val[r]] <= age[r]

\* The row has been changed and the Redis key has not been deleted yet.
Exposed == change \in {"local", "redis", "key"}

Old(v) == v \in 0..version - 1

Undisturbed ==
    ~raced /\ faults = 0 =>
        /\ change \notin {"none", "muted"} => version > 0 /\ since[version - 1] <= MaxCall
        /\ Old(redis.v) => Exposed /\ redis.v = version - 1
        /\ \A r \in Requests : Reading(r) => Exposed /\ val[r] = version - 1
        /\ \A p \in Pods : local[p] # Empty =>
              since[local[p].v] + local[p].ttl <= MaxCall + LocalTTL
        /\ \A p \in Pods : Old(local[p].v) => change # "none" \/ p \in inbox
        /\ Fresh

\* All that validate can do to a request.
Answering(q) ==
    /\ step'[q] = "answer"
    /\ \/ val'[q] = None
       \/ \E p \in Pods : local[p] # Empty /\ val'[q] = local[p].v
       \/ \E r \in Requests : step[r] \in {"got", "again", "unlock"} /\ val'[q] = val[r]

Moves(q) ==
    \/ step'[q] = step[q] /\ val'[q] = val[q]
    \/ step'[q] = "get" /\ val'[q] = val[q]
    \/ step'[q] \in {"idle", "join", "lock", "db", "wait"} /\ val'[q] = None
    \/ step'[q] \in {"got", "again"} /\ val'[q] \in {redis.v, None}
    \/ step'[q] = "read" /\ val'[q] = version
    \/ step'[q] = "store" /\ step[q] = "read" /\ val'[q] = val[q]
    \/ step'[q] = "unlock" /\ step[q] = "store" /\ val'[q] = val[q]
    \/ step'[q] = "unlock" /\ val'[q] = None
    \/ Answering(q)

\* ... and to the caches.
Fills ==
    /\ redis' = redis \/ \E r \in Requests :
          step[r] = "store" /\ redis' = [v |-> val[r], ttl |-> RedisTTL]
    /\ \A p \in Pods : local'[p] = local[p] \/ \E r \in Requests :
          /\ step[r] \in {"got", "again", "read"} /\ val[r] # None
          /\ local'[p] = [v |-> val[r], ttl |-> LocalTTL]

LEMMA MovesOne ==
  ASSUME TypeOK, NEW r \in Requests, NEW s, NEW v,
         step' = [step EXCEPT ![r] = s], val' = [val EXCEPT ![r] = v]
  PROVE  /\ step'[r] = s /\ val'[r] = v
         /\ \A q \in Requests : q # r => step'[q] = step[q] /\ val'[q] = val[q]
  BY DEF TypeOK

LEMMA StaysOne ==
  ASSUME TypeOK, NEW r \in Requests, NEW s, step' = [step EXCEPT ![r] = s], val' = val
  PROVE  /\ step'[r] = s /\ val'[r] = val[r]
         /\ \A q \in Requests : q # r => step'[q] = step[q] /\ val'[q] = val[q]
  BY DEF TypeOK
\* A request has read Redis or the database.
LEMMA ReadMoves ==
  ASSUME TypeOK, NEW r \in Requests, NEW s, NEW v, Goto(r, s), Read(r, v),
         \/ s \in {"got", "again"} /\ v \in {redis.v, None}
         \/ s = "read" /\ v = version
  PROVE  \A q \in Requests : Moves(q)
<1>1. step' = [step EXCEPT ![r] = s] /\ val' = [val EXCEPT ![r] = v]
  BY DEF Goto, Read
<1>2. /\ step'[r] = s /\ val'[r] = v
      /\ \A q \in Requests : q # r => step'[q] = step[q] /\ val'[q] = val[q]
  BY <1>1, MovesOne
<1>3. Moves(r)
  BY <1>2 DEF Moves
<1>4. ASSUME NEW q \in Requests, q # r
      PROVE  Moves(q)
  BY <1>2, <1>4 DEF Moves
<1> QED
  BY <1>3, <1>4
LEMMA FillsOne ==
  ASSUME TypeOK, NEW r \in Requests, Remember(r, val[r]), val[r] # None,
         step[r] \in {"got", "again", "read"}, redis' = redis
  PROVE  Fills
  BY DEF Remember, Fills, TypeOK

LEMMA SettleMoves ==
  ASSUME TypeOK, NEW r \in Requests, NEW v, Settle(r, v),
         v = None \/ (v = val[r] /\ step[r] \in {"again", "unlock"})
  PROVE  \A q \in Requests : Moves(q)
<1> SUFFICES ASSUME NEW q \in Requests
             PROVE  Moves(q)
  OBVIOUS
<1>1. CASE q = r \/ (step[q] = "join" /\ pod[q] = pod[r])
  <2>1. step'[q] = "answer" /\ val'[q] = v
    BY <1>1 DEF Settle
  <2> QED
    BY <2>1 DEF Moves, Answering
<1>2. CASE ~(q = r \/ (step[q] = "join" /\ pod[q] = pod[r]))
  BY <1>2 DEF Settle, Moves
<1> QED
  BY <1>1, <1>2

LEMMA ValidateMoves ==
  ASSUME IInv, Aged, Reads, NEW r \in Requests, Validate(r)
  PROVE  /\ UNCHANGED world
         /\ \A q \in Requests : Moves(q)
         /\ \A q \in Requests : age'[q] = age[q] \/ step'[q] = "idle"
         /\ Fills
<1>1. TypeOK
  BY DEF IInv
<1>2. /\ step[r] \in {"join", "lock", "db", "wait"} => val[r] = None
  BY DEF Reads
<1>3. ASSUME UNCHANGED caches
      PROVE  Fills
  BY <1>3 DEF caches, Fills
<1>4. UNCHANGED world
  BY DEF Validate, LocalHit, LocalMiss, GetRedis, GetFails, RedisHit, Join, Lead, AcquireLock,
     AcquireLockThrows, LockHeld, GetAgain, FoundAgain, NotFoundAgain, ReadRow, ReadRowThrows,
     CacheLocally, CacheInRedis, CacheInRedisFails, ReleaseLock, ReleaseLockThrows, Leave
<1>5. \A q \in Requests : age'[q] = age[q] \/ step'[q] = "idle"
  <2>1. CASE Leave(r)
    BY <1>1, <2>1 DEF Leave, Goto, TypeOK
  <2>2. age' = age \/ Leave(r)
    BY DEF Validate, LocalHit, LocalMiss, GetRedis, GetFails, RedisHit, Join, Lead,
       AcquireLock, AcquireLockThrows, LockHeld, GetAgain, FoundAgain, NotFoundAgain, ReadRow,
       ReadRowThrows, CacheLocally, CacheInRedis, CacheInRedisFails, ReleaseLock,
       ReleaseLockThrows
  <2>3. CASE age' = age
    BY <2>3
  <2> QED
    BY <2>1, <2>2, <2>3
<1>6. ASSUME NEW p \in Pods, LocalHit(r, p)
      PROVE  (\A q \in Requests : Moves(q)) /\ Fills
  <2>1. /\ step' = [step EXCEPT ![r] = "answer"] /\ val' = [val EXCEPT ![r] = local[p].v]
        /\ UNCHANGED caches /\ local[p] # Empty
    BY <1>6 DEF LocalHit, Goto, Read
  <2>2. /\ step'[r] = "answer" /\ val'[r] = local[p].v
        /\ \A q \in Requests : q # r => step'[q] = step[q] /\ val'[q] = val[q]
    BY <1>1, <2>1, MovesOne
  <2>3. Moves(r)
    BY <2>1, <2>2 DEF Moves, Answering
  <2>4. ASSUME NEW q \in Requests, q # r
        PROVE  Moves(q)
    BY <2>2, <2>4 DEF Moves
  <2> QED
    BY <1>3, <2>1, <2>3, <2>4
<1>7. ASSUME NEW p \in Pods, LocalMiss(r, p)
      PROVE  (\A q \in Requests : Moves(q)) /\ Fills
  BY <1>1, <1>3, <1>7, StaysOne DEF LocalMiss, Goto, Moves
<1>8. CASE GetRedis(r)
  <2>1. UNCHANGED caches /\ Goto(r, "got") /\ Read(r, redis.v)
    BY <1>8 DEF GetRedis
  <2>2. \A q \in Requests : Moves(q)
    BY <1>1, <2>1, ReadMoves
  <2> QED
    BY <1>3, <1>4, <1>5, <2>1, <2>2
<1>9. CASE GetFails(r)
  <2> DEFINE s == IF step[r] = "get" THEN "got" ELSE "again"
  <2>1. s \in {"got", "again"} /\ step' = [step EXCEPT ![r] = s]
        /\ val' = [val EXCEPT ![r] = None] /\ UNCHANGED caches
    BY <1>9 DEF GetFails, Goto, Read
  <2> HIDE DEF s
  <2>2. /\ step'[r] = s /\ val'[r] = None
        /\ \A q \in Requests : q # r => step'[q] = step[q] /\ val'[q] = val[q]
    BY <1>1, <2>1, MovesOne
  <2>3. \A q \in Requests : Moves(q)
    BY <2>1, <2>2 DEF Moves
  <2> QED
    BY <1>3, <1>4, <1>5, <2>1, <2>3
<1>10. CASE GetAgain(r)
  <2>1. UNCHANGED caches /\ Goto(r, "again") /\ Read(r, redis.v)
    BY <1>10 DEF GetAgain
  <2>2. \A q \in Requests : Moves(q)
    BY <1>1, <2>1, ReadMoves
  <2> QED
    BY <1>3, <1>4, <1>5, <2>1, <2>2
<1>11. CASE ReadRow(r)
  <2>1. UNCHANGED caches /\ Goto(r, "read") /\ Read(r, version)
    BY <1>11 DEF ReadRow
  <2>2. \A q \in Requests : Moves(q)
    BY <1>1, <2>1, ReadMoves
  <2> QED
    BY <1>3, <1>4, <1>5, <2>1, <2>2
<1>12. CASE RedisHit(r)
  <2>1. Fills
    BY <1>1, <1>12, FillsOne DEF RedisHit
  <2> QED
    BY <1>1, <1>12, <2>1, StaysOne DEF RedisHit, Goto, Moves, Answering
<1>13. CASE CacheLocally(r)
  <2>1. Fills
    BY <1>1, <1>13, FillsOne DEF CacheLocally, IInv, Carried
  <2> QED
    BY <1>1, <1>13, <2>1, StaysOne DEF CacheLocally, Goto, Moves
<1>14. CASE Join(r) \/ LockHeld(r) \/ NotFoundAgain(r)
  BY <1>1, <1>2, <1>3, <1>14, StaysOne DEF Join, LockHeld, NotFoundAgain, Goto, Moves
<1>15. CASE Lead(r) \/ AcquireLock(r)
  BY <1>1, <1>2, <1>15, StaysOne DEF Lead, AcquireLock, Goto, Moves, Fills
<1>16. CASE ReadRowThrows(r)
  BY <1>1, <1>2, <1>3, <1>16, StaysOne DEF ReadRowThrows, Goto, Moves
<1>17. CASE CacheInRedisFails(r)
  BY <1>1, <1>3, <1>17, StaysOne DEF CacheInRedisFails, Goto, Moves
<1>18. CASE CacheInRedis(r)
  BY <1>1, <1>18, StaysOne DEF CacheInRedis, Goto, Moves, Fills
<1>19. CASE AcquireLockThrows(r)
  BY <1>1, <1>19, SettleMoves DEF AcquireLockThrows, Fills
<1>20. CASE FoundAgain(r)
  <2>1. Fills
    BY <1>1, <1>20, FillsOne DEF FoundAgain
  <2> QED
    BY <1>1, <1>20, <2>1, SettleMoves DEF FoundAgain
<1>21. CASE ReleaseLock(r)
  BY <1>1, <1>21, SettleMoves DEF ReleaseLock, Fills
<1>22. CASE ReleaseLockThrows(r)
  BY <1>1, <1>22, SettleMoves DEF ReleaseLockThrows, Fills
<1>23. CASE Leave(r)
  <2>1. /\ step' = [step EXCEPT ![r] = "idle"] /\ val' = [val EXCEPT ![r] = None]
        /\ UNCHANGED caches
    BY <1>23 DEF Leave, Goto, Read
  <2>2. /\ step'[r] = "idle" /\ val'[r] = None
        /\ \A q \in Requests : q # r => step'[q] = step[q] /\ val'[q] = val[q]
    BY <1>1, <2>1, MovesOne
  <2>3. \A q \in Requests : Moves(q)
    BY <2>2 DEF Moves
  <2> QED
    BY <1>3, <1>4, <1>5, <2>1, <2>3
<1> QED
  BY <1>4, <1>5, <1>6, <1>7, <1>8, <1>9, <1>10, <1>11, <1>12, <1>13, <1>14, <1>15, <1>16, <1>17,
     <1>18, <1>19, <1>20, <1>21, <1>22, <1>23 DEF Validate
\* What may still be handed out is none of the versions replaced long ago.
LEMMA Youth ==
  ASSUME TypeOK, Aged, NotAhead, Undisturbed, ~raced, faults = 0
  PROVE  /\ redis.v # None => since[redis.v] <= MaxCall
         /\ \A r \in Requests : step[r] \in {"got", "again", "read", "store"} /\ val[r] # None =>
               since[val[r]] <= MaxCall
<1> USE Numbers
<1>1. version \in 0..MaxVersion /\ \A v \in 0..MaxVersion : since[v] \in Nat
  BY DEF TypeOK
<1>2. ASSUME NEW v \in None..MaxVersion, v # None, v <= version,
             Old(v) => Exposed /\ v = version - 1
      PROVE  since[v] <= MaxCall
  <2>1. v \in 0..MaxVersion
    BY <1>2 DEF None
  <2>2. CASE Old(v)
    BY <1>2, <2>2 DEF Undisturbed, Exposed
  <2>3. CASE ~Old(v)
    <3>1. v >= version
      BY <1>1, <2>1, <2>3 DEF Old
    <3> QED
      BY <2>1, <3>1 DEF Aged
  <2> QED
    BY <2>2, <2>3
<1>3. redis.v \in None..MaxVersion
  BY EntryVersion DEF TypeOK
<1>4. redis.v # None => since[redis.v] <= MaxCall
  BY <1>2, <1>3 DEF NotAhead, Undisturbed
<1>5. ASSUME NEW r \in Requests, step[r] \in {"got", "again", "read", "store"}, val[r] # None
      PROVE  since[val[r]] <= MaxCall
  <2>1. val[r] \in None..MaxVersion
    BY DEF TypeOK
  <2>2. Old(val[r]) => Exposed /\ val[r] = version - 1
    BY <1>5 DEF Undisturbed, Old, Reading
  <2> QED
    BY <1>2, <1>5, <2>1, <2>2 DEF NotAhead
<1> QED
  BY <1>4, <1>5

LEMMA ValidateKeepsReads ==
  ASSUME IInv, Aged, NotAhead, Reads, NEW r \in Requests, Validate(r)
  PROVE  (NotAhead /\ Reads)'
<1>1. TypeOK
  BY DEF IInv
<1>2. /\ UNCHANGED world
      /\ \A q \in Requests : Moves(q)
      /\ \A q \in Requests : age'[q] = age[q] \/ step'[q] = "idle"
      /\ Fills
  BY ValidateMoves
<1>3. version' = version /\ since' = since
  BY <1>2 DEF world
<1>4. version \in Nat /\ None <= version
  BY <1>1 DEF TypeOK, None
<1>5. redis'.v <= version /\ \A p \in Pods : local'[p].v <= version
  <2>1. ASSUME NEW e, e = redis \/ \E q \in Requests : e = [v |-> val[q], ttl |-> RedisTTL]
        PROVE  e.v <= version
    BY <2>1 DEF NotAhead
  <2>2. ASSUME NEW p \in Pods
        PROVE  local'[p].v <= version
    <3>1. CASE local'[p] = local[p]
      BY <3>1 DEF NotAhead
    <3>2. ASSUME NEW q \in Requests, local'[p] = [v |-> val[q], ttl |-> LocalTTL]
          PROVE  local'[p].v <= version
      BY <3>2 DEF NotAhead
    <3> QED
      BY <1>2, <3>1, <3>2 DEF Fills
  <2> QED
    BY <1>2, <2>1, <2>2 DEF Fills
<1>6. ASSUME NEW q \in Requests
      PROVE  val'[q] <= version
  <2>1. Moves(q)
    BY <1>2
  <2> QED
    BY <1>4, <2>1 DEF Moves, Answering, NotAhead
<1>7. ASSUME NEW q \in Requests
      PROVE  /\ step'[q] \in {"join", "lock", "db", "wait"} => val'[q] = None
             /\ step'[q] = "unlock" /\ val'[q] # None => since[val'[q]] <= age'[q]
  <2>1. Moves(q) /\ (age'[q] = age[q] \/ step'[q] = "idle")
    BY <1>2
  <2>2. step[q] = "store" /\ val[q] # None => since[val[q]] <= age[q]
    BY DEF Aged, AsOldAs
  <2> QED
    BY <2>1, <2>2 DEF Moves, Answering, Reads
<1> QED
  BY <1>3, <1>5, <1>6, <1>7 DEF NotAhead, Reads

LEMMA ValidateKeepsUndisturbed ==
  ASSUME IInv, Aged, NotAhead, Reads, Undisturbed, NEW r \in Requests, Validate(r)
  PROVE  Undisturbed'
<1> USE Numbers
<1>1. TypeOK
  BY DEF IInv
<1>2. /\ UNCHANGED world
      /\ \A q \in Requests : Moves(q)
      /\ Fills
  BY ValidateMoves
<1>3. UNCHANGED <<version, since, change, inbox, raced>>
  BY <1>2 DEF world, writer
<1>4. faults' \in {faults, faults + 1} /\ faults \in Nat
  BY <1>1 DEF Validate, LocalHit, LocalMiss, GetRedis, GetFails, RedisHit, Join, Lead,
     AcquireLock, AcquireLockThrows, LockHeld, GetAgain, FoundAgain, NotFoundAgain, ReadRow,
     ReadRowThrows, CacheLocally, CacheInRedis, CacheInRedisFails, ReleaseLock,
     ReleaseLockThrows, Leave, TypeOK
<1> SUFFICES ASSUME ~raced', faults' = 0
             PROVE  Undisturbed'
  BY DEF Undisturbed
<1>5. ~raced /\ faults = 0
  BY <1>3, <1>4
<1>6. version \in Nat /\ (\A v \in 0..MaxVersion : since[v] \in Nat)
      /\ None \notin 0..version - 1 /\ version \notin 0..version - 1
  BY <1>1 DEF TypeOK, None
<1>7. ASSUME NEW q \in Requests, step[q] \in {"got", "again", "read", "store"}, Old(val[q])
      PROVE  Exposed /\ val[q] = version - 1
  BY <1>5, <1>7 DEF Undisturbed, Old, Reading
<1>8. Old(redis'.v) => Exposed /\ redis'.v = version - 1
  BY <1>2, <1>5, <1>7 DEF Fills, Undisturbed
<1>9. ASSUME NEW q \in Requests, Reading(q)'
      PROVE  Exposed /\ val'[q] = version - 1
  <2>1. step'[q] \in {"got", "again", "read", "store"} /\ Old(val'[q])
    BY <1>3, <1>9 DEF Reading, Old
  <2>2. Moves(q)
    BY <1>2
  <2>3. CASE step'[q] = step[q] /\ val'[q] = val[q]
    BY <1>7, <2>1, <2>3
  <2>4. CASE step'[q] \in {"got", "again"} /\ val'[q] \in {redis.v, None}
    BY <1>5, <1>6, <2>1, <2>4 DEF Undisturbed, Old
  <2>5. CASE step'[q] = "read" /\ val'[q] = version
    BY <1>6, <2>1, <2>5 DEF Old
  <2>6. CASE step'[q] = "store" /\ step[q] = "read" /\ val'[q] = val[q]
    BY <1>7, <2>1, <2>6
  <2> QED
    BY <2>1, <2>2, <2>3, <2>4, <2>5, <2>6 DEF Moves, Answering
<1>10. ASSUME NEW p \in Pods
       PROVE  /\ local'[p] # Empty => since[local'[p].v] + local'[p].ttl <= MaxCall + LocalTTL
              /\ Old(local'[p].v) => change # "none" \/ p \in inbox
  <2>1. CASE local'[p] = local[p]
    BY <1>5, <2>1 DEF Undisturbed
  <2>2. ASSUME NEW q \in Requests, step[q] \in {"got", "again", "read"}, val[q] # None,
               local'[p] = [v |-> val[q], ttl |-> LocalTTL]
        PROVE  /\ since[local'[p].v] + local'[p].ttl <= MaxCall + LocalTTL
               /\ Old(local'[p].v) => change # "none"
    <3>1. since[val[q]] <= MaxCall /\ since[val[q]] \in Nat
      BY <1>1, <1>5, <2>2, Youth, AgedTypes
    <3>2. Old(val[q]) => Exposed
      BY <1>7, <2>2
    <3> QED
      BY <2>2, <3>1, <3>2 DEF Exposed
  <2> QED
    BY <1>2, <2>1, <2>2 DEF Fills
<1>11. ASSUME NEW q \in Requests, step'[q] = "answer", val'[q] # None
       PROVE  since[val'[q]] <= MaxCall + LocalTTL
  <2>1. Moves(q)
    BY <1>2
  <2>2. CASE step[q] = "answer" /\ val'[q] = val[q]
    BY <1>5, <1>11, <2>2 DEF Undisturbed, Fresh, Answered
  <2>3. ASSUME NEW p \in Pods, local[p] # Empty, val'[q] = local[p].v
        PROVE  since[val'[q]] <= MaxCall + LocalTTL
    <3>1. since[local[p].v] + local[p].ttl <= MaxCall + LocalTTL
      BY <1>5, <2>3 DEF Undisturbed
    <3>2. since[local[p].v] \in Nat /\ local[p].ttl \in Nat
      BY <1>1, <2>3, AgedTypes
    <3> QED
      BY <2>3, <3>1, <3>2
  <2>4. ASSUME NEW o \in Requests, step[o] \in {"got", "again", "unlock"}, val'[q] = val[o]
        PROVE  since[val'[q]] <= MaxCall + LocalTTL
    <3>1. since[val[o]] \in Nat /\ age[o] \in 0..MaxCall
      BY <1>1, <1>11, <2>4, AgedTypes
    <3>2. since[val[o]] <= MaxCall
      BY <1>1, <1>5, <1>11, <2>4, <3>1, Youth DEF Reads
    <3> QED
      BY <2>4, <3>1, <3>2
  <2> QED
    BY <1>11, <2>1, <2>2, <2>3, <2>4 DEF Moves, Answering
<1>12. change \notin {"none", "muted"} => version > 0 /\ since[version - 1] <= MaxCall
  BY <1>5 DEF Undisturbed
<1> QED
  BY <1>3, <1>8, <1>9, <1>10, <1>11, <1>12 DEF Undisturbed, Exposed, Old, Fresh, Answered
LEMMA WriterKeepsReads ==
  ASSUME TypeOK, NotAhead, Reads,
         \/ \E p \in Pods : ChangeUser(p) \/ Deliver(p) \/ Lose(p)
         \/ ChangeTenant \/ ChangeSilently \/ Invalidate
  PROVE  (NotAhead /\ Reads)'
<1>1. UNCHANGED <<since, request>> /\ version' \in {version, version + 1}
  BY WriterEmpties
<1>2. redis' \in {redis, Empty}
  BY WriterEmpties
<1>3. \A p \in Pods : local'[p] \in {local[p], Empty}
  BY WriterEmpties
<1>4. version \in Nat /\ redis.v \in Int /\ (\A p \in Pods : local[p].v \in Int)
      /\ (\A r \in Requests : val[r] \in Int)
  BY EntryVersion, Numbers DEF TypeOK, None
<1>5. Empty.v <= version'
  BY <1>1, <1>4 DEF Empty, None
<1>6. redis'.v <= version'
  BY <1>1, <1>2, <1>4, <1>5 DEF NotAhead
<1>7. \A p \in Pods : local'[p].v <= version'
  BY <1>1, <1>3, <1>4, <1>5 DEF NotAhead
<1>8. \A r \in Requests : val'[r] <= version'
  BY <1>1, <1>4 DEF NotAhead, request
<1> QED
  BY <1>1, <1>6, <1>7, <1>8 DEF NotAhead, Reads, request

\* Before the row is changed no version is old, so afterwards only one is.
LEMMA ChangesKeepUndisturbed ==
  ASSUME TypeOK, Aged, NotAhead, Undisturbed, Changes, change' \in {"local", "key"},
         faults' = faults
  PROVE  Undisturbed'
<1> USE Numbers
<1>1. /\ UNCHANGED <<since, redis, local, step, val, inbox, raced>>
      /\ version' = version + 1 /\ version \in 0..MaxVersion
      /\ change \in {"none", "muted"} /\ inbox = {}
  BY DEF Changes, caches, request, TypeOK
<1> SUFFICES ASSUME ~raced, faults = 0
             PROVE  Undisturbed'
  BY <1>1 DEF Undisturbed
<1>2. since[version] = 0
  BY <1>1 DEF Aged
<1>3. ~Old(redis.v) /\ \A r \in Requests : ~Reading(r)
  BY <1>1 DEF Undisturbed, Exposed
<1>4. \A v \in Int : v \in 0..version /\ ~Old(v) => v = version
  BY <1>1 DEF Old
<1>5. redis.v \in Int /\ \A r \in Requests : val[r] \in Int
  BY EntryVersion DEF TypeOK, None
<1>6. 0..version' - 1 = 0..version /\ version' - 1 = version /\ version' > 0
  BY <1>1
<1>7. Old(redis.v)' => redis'.v = version' - 1
  BY <1>1, <1>3, <1>4, <1>5, <1>6 DEF Old
<1>8. ASSUME NEW r \in Requests, Reading(r)'
      PROVE  val'[r] = version' - 1
  <2>1. step[r] \in {"got", "again", "read", "store"} /\ val[r] \in 0..version
    BY <1>1, <1>6, <1>8 DEF Reading
  <2>2. ~Old(val[r])
    BY <1>3, <2>1 DEF Reading, Old
  <2> QED
    BY <1>1, <1>4, <1>5, <1>6, <2>1, <2>2
<1>9. \A p \in Pods : local'[p] # Empty =>
         since'[local'[p].v] + local'[p].ttl <= MaxCall + LocalTTL
  BY <1>1 DEF Undisturbed
<1>10. Fresh'
  BY <1>1 DEF Undisturbed, Fresh, Answered
<1> QED
  BY <1>1, <1>2, <1>6, <1>7, <1>8, <1>9, <1>10 DEF Undisturbed, Exposed

LEMMA InvalidateKeepsUndisturbed ==
  ASSUME TypeOK, Undisturbed,
         Invalidate \/ ChangeSilently \/ \E p \in Pods : Deliver(p) \/ Lose(p)
  PROVE  Undisturbed'
<1> USE Numbers
<1>1. UNCHANGED <<step, val, since>>
  BY DEF Deliver, Lose, ChangeSilently, Changes, Invalidate, PurgeLocal, PurgeRedis,
     PurgeRedisFails, Publish, PurgeKey, PurgeKeyFails, Purge, PurgeFails, request, caches
<1>2. CASE ChangeSilently \/ PurgeRedisFails \/ PurgeKeyFails \/ \E p \in Pods : Lose(p)
  <2>1. faults' = faults + 1 /\ faults \in Nat
    BY <1>2 DEF ChangeSilently, PurgeRedisFails, PurgeKeyFails, PurgeFails, Lose, TypeOK
  <2> QED
    BY <2>1 DEF Undisturbed
<1>3. CASE PurgeLocal
  <2>1. \A p \in Pods : local'[p] \in {local[p], Empty}
    BY <1>3 DEF PurgeLocal, TypeOK
  <2>2. ~Old(Empty.v)
    BY DEF Old, Empty, None
  <2> QED
    BY <1>1, <1>3, <2>1, <2>2
    DEF PurgeLocal, Undisturbed, Exposed, Old, Reading, Fresh, Answered
<1>4. CASE PurgeRedis \/ PurgeKey
  <2>1. /\ UNCHANGED <<version, local, inbox, faults>> /\ redis' = Empty
        /\ change' \in {"publish", "muted"} /\ change \in {"redis", "key"}
        /\ raced' = (raced \/ \E r \in Requests : Reading(r))
    BY <1>4 DEF PurgeRedis, PurgeKey, Purge
  <2>2. ~Old(Empty.v)
    BY DEF Old, Empty, None
  <2> QED
    BY <1>1, <2>1, <2>2 DEF Undisturbed, Exposed, Old, Reading, Fresh, Answered
<1>5. CASE Publish
  BY <1>1, <1>5 DEF Publish, caches, Undisturbed, Exposed, Old, Reading, Fresh, Answered
<1>6. ASSUME NEW p \in Pods, Deliver(p)
      PROVE  Undisturbed'
  <2>1. /\ UNCHANGED <<version, redis, change, raced, faults>>
        /\ local'[p] = Empty
        /\ \A o \in Pods : o # p => local'[o] = local[o] /\ (o \in inbox => o \in inbox')
    BY <1>6 DEF Deliver, TypeOK
  <2>2. ~Old(Empty.v)
    BY DEF Old, Empty, None
  <2> QED
    BY <1>1, <2>1, <2>2 DEF Undisturbed, Exposed, Old, Reading, Fresh, Answered
<1> QED
  BY <1>2, <1>3, <1>4, <1>5, <1>6 DEF Invalidate

LEMMA TickAges ==
  ASSUME TypeOK, Tick
  PROVE  /\ UNCHANGED <<version, step, val, change, inbox, raced, faults>>
         /\ \A v \in 0..MaxVersion : /\ since[v] \in Nat /\ since'[v] \in Nat
                                     /\ since'[v] <= since[v] + 1
         /\ redis'.v \in {redis.v, None}
         /\ \A p \in Pods : local'[p] # Empty =>
               /\ local[p] # Empty /\ local'[p].v = local[p].v /\ local[p].v \in 0..MaxVersion
               /\ local'[p].ttl = local[p].ttl - 1 /\ local[p].ttl \in Nat
<1> USE Numbers
<1>1. UNCHANGED <<version, step, val, change, inbox, raced, faults>>
  BY DEF Tick, writer
<1>2. \A v \in 0..MaxVersion : since[v] \in Nat /\ since'[v] \in Nat /\ since'[v] <= since[v] + 1
  BY SecondsPass
<1>3. redis'.v \in {redis.v, None}
  <2>1. redis' = Older(redis) /\ redis \in Entry(RedisTTL)
    BY DEF Tick, TypeOK
  <2>2. Older(redis) = Empty \/ Older(redis).v = redis.v
    BY <2>1, OlderAges
  <2> QED
    BY <2>1, <2>2 DEF Empty
<1>4. ASSUME NEW p \in Pods, local'[p] # Empty
      PROVE  /\ local[p] # Empty /\ local'[p].v = local[p].v /\ local[p].v \in 0..MaxVersion
             /\ local'[p].ttl = local[p].ttl - 1 /\ local[p].ttl \in Nat
  <2>1. local'[p] = Older(local[p]) /\ local[p] \in Entry(LocalTTL)
    BY DEF Tick, TypeOK
  <2> QED
    BY <1>4, <2>1, OlderAges, EntryVersion
<1> QED
  BY <1>1, <1>2, <1>3, <1>4

LEMMA TickKeepsReads ==
  ASSUME TypeOK, NotAhead, Reads, Tick
  PROVE  (NotAhead /\ Reads)'
<1>1. version \in Nat /\ None <= version
  BY DEF TypeOK, None
<1>2. /\ UNCHANGED <<version, step, val>>
      /\ \A v \in 0..MaxVersion : /\ since[v] \in Nat /\ since'[v] \in Nat
                                  /\ since'[v] <= since[v] + 1
      /\ redis'.v \in {redis.v, None}
  BY TickAges
<1>3. ASSUME NEW p \in Pods
      PROVE  local'[p].v <= version
  BY <1>1, TickAges DEF NotAhead, Empty
<1>4. ASSUME NEW r \in Requests, step[r] = "unlock", val[r] # None
      PROVE  since'[val[r]] <= age'[r]
  <2>1. age'[r] = age[r] + 1
    BY <1>4 DEF Tick
  <2>2. since[val[r]] <= age[r]
    BY <1>4 DEF Reads
  <2>3. val[r] \in 0..MaxVersion /\ age[r] \in Nat
    BY <1>4, AgedTypes
  <2> QED
    BY <1>2, <2>1, <2>2, <2>3
<1> QED
  BY <1>1, <1>2, <1>3, <1>4 DEF NotAhead, Reads

LEMMA TickKeepsUndisturbed ==
  ASSUME TypeOK, NotAhead, Undisturbed, Tick
  PROVE  Undisturbed'
<1> USE Numbers
<1>1. version \in 0..MaxVersion /\ ~Old(None)
  BY DEF TypeOK, Old, None
<1>2. /\ UNCHANGED <<version, step, val, change, inbox, raced, faults>>
      /\ \A v \in 0..MaxVersion : /\ since[v] \in Nat /\ since'[v] \in Nat
                                  /\ since'[v] <= since[v] + 1
      /\ redis'.v \in {redis.v, None}
  BY TickAges
<1> SUFFICES ASSUME ~raced, faults = 0
             PROVE  Undisturbed'
  BY <1>2 DEF Undisturbed
<1>3. ASSUME change \notin {"none", "muted"}
      PROVE  version > 0 /\ since'[version - 1] <= MaxCall
  <2>1. version > 0 /\ since[version - 1] < MaxCall
    BY <1>3 DEF Tick, Undisturbed
  <2>2. version - 1 \in 0..MaxVersion
    BY <1>1, <2>1
  <2> QED
    BY <1>2, <2>1, <2>2
<1>4. Old(redis'.v) => Exposed /\ redis'.v = version - 1
  BY <1>1, <1>2 DEF Undisturbed
<1>5. ASSUME NEW p \in Pods, local'[p] # Empty
      PROVE  since'[local'[p].v] + local'[p].ttl <= MaxCall + LocalTTL
  <2>1. /\ local[p] # Empty /\ local'[p].v = local[p].v /\ local[p].v \in 0..MaxVersion
        /\ local'[p].ttl = local[p].ttl - 1 /\ local[p].ttl \in Nat
    BY <1>5, TickAges
  <2>2. since[local[p].v] + local[p].ttl <= MaxCall + LocalTTL
    BY <2>1 DEF Undisturbed
  <2> QED
    BY <1>2, <2>1, <2>2
<1>6. ASSUME NEW p \in Pods, Old(local'[p].v)
      PROVE  change # "none" \/ p \in inbox
  <2>1. local'[p] # Empty
    BY <1>1, <1>6 DEF Empty
  <2>2. local'[p].v = local[p].v
    BY <2>1, TickAges
  <2> QED
    BY <1>6, <2>2 DEF Undisturbed
<1>7. Fresh'
  BY <1>2 DEF Tick, Fresh, Answered
<1> QED
  BY <1>2, <1>3, <1>4, <1>5, <1>6, <1>7 DEF Undisturbed, Exposed, Old, Reading

LEMMA InvalidationInvariant ==
  Spec => [](IInv /\ Aged /\ NotAhead /\ Reads /\ Undisturbed)
<1>1. Init => IInv /\ Aged /\ NotAhead /\ Reads /\ Undisturbed
  <2> SUFFICES ASSUME Init
               PROVE  NotAhead /\ Reads /\ Undisturbed
    BY Initially, AgedInitially
  <2>1. NotAhead /\ Reads
    BY DEF Init, NotAhead, Reads, Empty, None
  <2>2. Undisturbed
    BY DEF Init, Undisturbed, Old, Reading, Fresh, Answered, Empty, None
  <2> QED
    BY <2>1, <2>2
<1>2. IInv /\ Aged /\ NotAhead /\ Reads /\ Undisturbed /\ [Next]_vars =>
         (IInv /\ Aged /\ NotAhead /\ Reads /\ Undisturbed)'
  <2> SUFFICES ASSUME IInv, Aged, NotAhead, Reads, Undisturbed, [Next]_vars
               PROVE  (Aged /\ NotAhead /\ Reads /\ Undisturbed)'
    BY NextKeepsIInv
  <2>1. TypeOK /\ Carried
    BY DEF IInv
  <2>2. CASE \E r \in Requests : Validate(r)
    BY <2>1, <2>2, ValidateKeepsAged, ValidateKeepsReads, ValidateKeepsUndisturbed
  <2>3. CASE \/ \E p \in Pods : ChangeUser(p) \/ Deliver(p) \/ Lose(p)
             \/ ChangeTenant \/ ChangeSilently \/ Invalidate
    <3>1. (Aged /\ NotAhead /\ Reads)'
      BY <2>1, <2>3, WriterKeepsAged, WriterKeepsReads
    <3>2. CASE ChangeTenant \/ \E p \in Pods : ChangeUser(p)
      <4>1. Changes /\ change' \in {"local", "key"} /\ faults' = faults
        BY <3>2 DEF ChangeTenant, ChangeUser
      <4> QED
        BY <2>1, <3>1, <4>1, ChangesKeepUndisturbed
    <3>3. CASE Invalidate \/ ChangeSilently \/ \E p \in Pods : Deliver(p) \/ Lose(p)
      BY <2>1, <3>1, <3>3, InvalidateKeepsUndisturbed
    <3> QED
      BY <2>3, <3>2, <3>3
  <2>4. CASE Tick
    BY <2>1, <2>4, TickKeepsAged, TickKeepsReads, TickKeepsUndisturbed
  <2>5. CASE UNCHANGED vars
    BY <2>5 DEF vars, Aged, AsOldAs, caches, request, writer, InRedis, Horizon, NotAhead,
       Reads, Undisturbed, Exposed, Old, Reading, Fresh, Answered
  <2> QED
    BY <2>2, <2>3, <2>4, <2>5 DEF Next
<1> QED
  BY <1>1, <1>2, PTL DEF Spec

\* invalidateUserCache (comment 278-279): as long as no request carried an old
\* version across the deletion of the Redis key and no call failed, a request
\* is answered with a version that was replaced no longer ago than the time the
\* invalidation may take and the lifetime of the local cache.
THEOREM StalenessAfterInvalidation == Spec => []UndisturbedStaleness
<1>1. Undisturbed => UndisturbedStaleness
  BY DEF Undisturbed, UndisturbedStaleness
<1> QED
  BY <1>1, InvalidationInvariant, PTL

\* invalidateUserCache 281-287: under the same conditions, once the broadcast
\* has been handled neither Redis nor any pod holds an old version, and after a
\* suspension Redis does not.
THEOREM InvalidationLeavesNothing == Spec => []InvalidationWorks
<1>1. TypeOK /\ NotAhead /\ Undisturbed => InvalidationWorks
  <2> SUFFICES ASSUME TypeOK, NotAhead, Undisturbed, ~raced, faults = 0, inbox = {}
               PROVE  /\ change \in {"none", "muted"} => redis.v \in {None, version}
                      /\ change = "none" => \A p \in Pods : local[p].v \in {None, version}
    BY DEF InvalidationWorks
  <2>1. ASSUME NEW v \in None..MaxVersion, v <= version, ~Old(v)
        PROVE  v \in {None, version}
    BY <2>1, Numbers DEF Old, None, TypeOK
  <2>2. redis.v \in None..MaxVersion /\ \A p \in Pods : local[p].v \in None..MaxVersion
    BY EntryVersion, Numbers DEF TypeOK
  <2> QED
    BY <2>1, <2>2 DEF NotAhead, Undisturbed, Exposed
<1>2. IInv => TypeOK
  BY DEF IInv
<1> QED
  BY <1>1, <1>2, InvalidationInvariant, PTL

-----------------------------------------------------------------------------
(***************************************************************************)
(* Part two: RecipeCosts.                                                  *)
(*                                                                         *)
(* What a request is about to write is not in the tables yet, so the       *)
(* invariant (Current) speaks of the stored costs, of the result of every  *)
(* request and of the totals it has read, each with its excuse: an input   *)
(* has changed since (stale, unseen), or lines were replaced (Touched).  It *)
(* rests on what a cost depends on: the rows below a component (UnitKept), *)
(* the things an item counts (TotalKept).  That a cost is a natural needs  *)
(* induction over sets, by least counterexamples (LeastNatural).           *)
(***************************************************************************)
LEMMA LeastNatural ==
  ASSUME NEW N \in SUBSET Nat, N # {}
  PROVE  \E m \in N : \A n \in N : m <= n
<1>1. PICK m \in N : \A n \in N : ~ (<<n, m>> \in OpToRel(<, Nat))
  <2> HIDE DEF OpToRel
  <2> QED
    BY NatLessThanWellFounded, WFMin
<1>2. \A n \in N : ~ (n < m)
  BY <1>1 DEF OpToRel
<1> QED
  BY <1>2

-----------------------------------------------------------------------------
(* Sums of naturals are naturals. *)

Pick(s) == CHOOSE x \in s : TRUE

\* g sums f over each of the sets in T.
Sums(f, T, g) ==
    g = [s \in T |-> IF s = {} THEN 0 ELSE f[Pick(s)] + g[s \ {Pick(s)}]]

LEMMA SumIs ==
  ASSUME NEW f
  PROVE  SumFunction(f) = (CHOOSE g : Sums(f, SUBSET DOMAIN f, g))[DOMAIN f]
BY DEF SumFunction, SumFunctionOnSet, FoldFunctionOnSet, MapThenFoldSet, Sums, Pick

Small(S, n) == {s \in SUBSET S : Cardinality(s) <= n}

LEMMA SumsSmall ==
  ASSUME NEW S, IsFiniteSet(S), NEW f, NEW n \in Nat
  PROVE  \E g : Sums(f, Small(S, n), g)
<1> DEFINE N == {k \in Nat : ~ \E g : Sums(f, Small(S, k), g)}
<1> SUFFICES ASSUME N # {}
             PROVE  FALSE
  OBVIOUS
<1>1. PICK m \in N : \A k \in N : m <= k
  BY LeastNatural
<1>2. \A s \in SUBSET S : IsFiniteSet(s) /\ Cardinality(s) \in Nat
  BY FS_Subset, FS_CardinalityType
<1>3. \A s \in SUBSET S : s # {} =>
          Pick(s) \in s /\ Cardinality(s \ {Pick(s)}) = Cardinality(s) - 1
  BY <1>2, FS_RemoveElement DEF Pick
<1>4. CASE m = 0
  <2> DEFINE g == [s \in Small(S, m) |-> 0]
  <2>1. \A s \in Small(S, m) : s = {}
    BY <1>2, <1>4, FS_EmptySet DEF Small
  <2>2. Sums(f, Small(S, m), g)
    BY <2>1 DEF Sums
  <2> QED
    BY <1>1, <2>2
<1>5. CASE m # 0
  <2>1. m - 1 \in Nat /\ m - 1 \notin N
    BY <1>1, <1>5
  <2>2. PICK g : Sums(f, Small(S, m - 1), g)
    BY <2>1
  <2> DEFINE h == [s \in Small(S, m) |-> IF s = {} THEN 0 ELSE f[Pick(s)] + g[s \ {Pick(s)}]]
  <2>3. \A s \in Small(S, m) : s # {} => s \ {Pick(s)} \in Small(S, m - 1)
    BY <1>2, <1>3 DEF Small
  <2>4. \A s \in Small(S, m - 1) : s \in Small(S, m) /\ h[s] = g[s]
    <3>1. \A s \in Small(S, m - 1) : s \in Small(S, m)
      BY <1>2 DEF Small
    <3> QED
      BY <3>1, <2>2 DEF Sums
  <2>5. \A s \in Small(S, m) : s # {} => h[s \ {Pick(s)}] = g[s \ {Pick(s)}]
    BY <2>3, <2>4
  <2>6. Sums(f, Small(S, m), h)
    <3>1. \A s \in Small(S, m) :
              h[s] = IF s = {} THEN 0 ELSE f[Pick(s)] + h[s \ {Pick(s)}]
      BY <2>5
    <3> HIDE DEF h
    <3>2. h = [s \in Small(S, m) |-> h[s]]
      BY DEF h
    <3> QED
      BY <3>1, <3>2 DEF Sums
  <2> HIDE DEF h
  <2> QED
    BY <1>1, <2>6
<1> QED
  BY <1>4, <1>5

LEMMA SumIsNatural ==
  ASSUME NEW S, IsFiniteSet(S), NEW f \in [S -> Nat]
  PROVE  SumFunction(f) \in Nat
<1>1. \A s \in SUBSET S : IsFiniteSet(s) /\ Cardinality(s) \in Nat /\ Cardinality(s) <= Cardinality(S)
  BY FS_Subset, FS_CardinalityType
<1>2. Small(S, Cardinality(S)) = SUBSET S
  BY <1>1 DEF Small
<1>3. \E g : Sums(f, SUBSET S, g)
  <2>1. Cardinality(S) \in Nat
    BY <1>1
  <2>2. \E g : Sums(f, Small(S, Cardinality(S)), g)
    BY <2>1, SumsSmall
  <2> QED
    BY <1>2, <2>2
<1>4. PICK g : Sums(f, SUBSET S, g) /\ SumFunction(f) = g[S]
  BY <1>3, SumIs
<1> DEFINE N == {n \in Nat : \E s \in SUBSET S : n = Cardinality(s) /\ g[s] \notin Nat}
<1>5. CASE N = {}
  BY <1>1, <1>4, <1>5
<1>6. CASE N # {}
  <2>1. PICK m \in N : \A k \in N : m <= k
    BY <1>6, LeastNatural
  <2>2. PICK s \in SUBSET S : m = Cardinality(s) /\ g[s] \notin Nat
    BY <2>1
  <2>3. g[s] = IF s = {} THEN 0 ELSE f[Pick(s)] + g[s \ {Pick(s)}]
    BY <1>4 DEF Sums
  <2>4. s # {}
    BY <2>2, <2>3
  <2>5. Pick(s) \in s /\ Cardinality(s \ {Pick(s)}) = Cardinality(s) - 1
    BY <1>1, <2>4, FS_RemoveElement DEF Pick
  <2>6. g[s \ {Pick(s)}] \in Nat
    <3>1. s \ {Pick(s)} \in SUBSET S /\ Cardinality(s \ {Pick(s)}) \in Nat
      BY <1>1
    <3>2. Cardinality(s \ {Pick(s)}) \notin N
      <4> HIDE DEF N
      <4>1. m \in Nat
        BY <1>1, <2>2
      <4> QED
        BY <4>1, <2>1, <2>2, <2>5
    <3> QED
      BY <3>1, <3>2
  <2>7. f[Pick(s)] \in Nat
    BY <2>5
  <2> QED
    BY <2>2, <2>3, <2>4, <2>6, <2>7
<1> QED
  BY <1>5, <1>6

-----------------------------------------------------------------------------
(* The cost of a component. *)

Rows(D) ==
    [D -> [there : BOOLEAN, children : SUBSET D,
           own : UNION {[I -> Nat \union {Fail}] : I \in SUBSET Ingredients}]]

\* What a component costs when those in stack are above it, given u for
\* those with more above them.
UnitIn(r, u, stack, d) ==
    LET below == [e \in r[d].children |-> u[stack \union {d}][e]]
    IN  IF \/ d \in stack \/ ~r[d].there
           \/ \E i \in DOMAIN r[d].own : r[d].own[i] = Fail
           \/ \E e \in DOMAIN below : below[e] = Fail
        THEN Fail
        ELSE SumFunction(r[d].own) + SumFunction(below)

Units(r, T, u) == u = [stack \in T |-> [d \in DOMAIN r |-> UnitIn(r, u, stack, d)]]

LEMMA UnitOfIs ==
  ASSUME NEW r, NEW c
  PROVE  UnitOf(r, c) = (CHOOSE u : Units(r, SUBSET DOMAIN r, u))[{}][c]
BY DEF UnitOf, Units, UnitIn

Remaining(D, stack) == Cardinality(D \ stack)

LEMMA FreeIs ==
  ASSUME NEW D, IsFiniteSet(D), NEW s \in SUBSET D
  PROVE  /\ Remaining(D, s) \in Nat
         /\ Remaining(D, s) = 0 => s = D
         /\ \A d \in D : d \notin s => /\ Remaining(D, s) # 0
                                       /\ Remaining(D, s \union {d}) = Remaining(D, s) - 1
<1> DEFINE t == D \ s
<1>1. IsFiniteSet(t) /\ Cardinality(t) = Remaining(D, s)
  BY FS_Difference DEF Remaining
<1>2. ASSUME NEW d \in D, d \notin s
      PROVE  Remaining(D, s \union {d}) = Remaining(D, s) - 1
  <2>1. t \ {d} = D \ (s \union {d}) /\ d \in t
    BY <1>2
  <2>2. Remaining(D, s \union {d}) = Cardinality(t \ {d})
    BY <2>1 DEF Remaining
  <2> HIDE DEF t
  <2> QED
    BY <1>1, <2>1, <2>2, FS_RemoveElement
<1>3. Cardinality(t) = 0 => t = {}
  <2> HIDE DEF t
  <2> QED
    BY <1>1, FS_EmptySet
<1>4. Cardinality(t) \in Nat
  <2> HIDE DEF t
  <2> QED
    BY <1>1, FS_CardinalityType
<1>5. (t = {} => s = D) /\ \A d \in D : d \notin s => t # {}
  OBVIOUS
<1>6. t = {} => Cardinality(t) = 0
  BY FS_EmptySet
<1>7. \A d \in D : d \notin s => Cardinality(t) # 0
  <2> HIDE DEF t
  <2> QED
    BY <1>3, <1>5
<1> HIDE DEF t
<1> QED
  BY <1>1, <1>2, <1>3, <1>4, <1>5, <1>7

\* Stacks that at most n of D are not on.
High(D, n) == {s \in SUBSET D : Remaining(D, s) <= n}

LEMMA UnitsHigh ==
  ASSUME NEW D, IsFiniteSet(D), NEW r \in Rows(D), NEW n \in Nat
  PROVE  \E u : Units(r, High(D, n), u)
<1> DEFINE N == {k \in Nat : ~ \E u : Units(r, High(D, k), u)}
<1> SUFFICES ASSUME N # {}
             PROVE  FALSE
  OBVIOUS
<1>1. PICK m \in N : \A k \in N : m <= k
  BY LeastNatural
<1>2. \A s \in SUBSET D : Remaining(D, s) \in Nat /\ (Remaining(D, s) = 0 => s = D)
  BY FreeIs
<1>3. \A s \in SUBSET D : \A d \in D :
          d \notin s => /\ s \union {d} \in SUBSET D
                        /\ Remaining(D, s \union {d}) = Remaining(D, s) - 1
  BY FreeIs
<1>4. DOMAIN r = D
  BY DEF Rows
<1>5. CASE m = 0
  <2> DEFINE u == [s \in High(D, m) |-> [d \in D |-> Fail]]
  <2>1. \A s \in High(D, m), d \in D : d \in s
    BY <1>2, <1>5 DEF High
  <2>2. \A s \in High(D, m), d \in D : UnitIn(r, u, s, d) = Fail
    BY <2>1 DEF UnitIn
  <2>3. Units(r, High(D, m), u)
    BY <1>4, <2>2 DEF Units
  <2> QED
    BY <1>1, <2>3
<1>6. CASE m # 0
  <2>1. m - 1 \in Nat /\ m - 1 \notin N
    BY <1>1, <1>6
  <2>2. PICK u : Units(r, High(D, m - 1), u)
    BY <2>1
  <2> DEFINE v == [s \in High(D, m) |-> [d \in D |-> UnitIn(r, u, s, d)]]
  <2>3. \A s \in High(D, m) : \A d \in D : d \notin s => s \union {d} \in High(D, m - 1)
    <3> SUFFICES ASSUME NEW s \in High(D, m), NEW d \in D, d \notin s
                 PROVE  s \union {d} \in High(D, m - 1)
      OBVIOUS
    <3>1. s \in SUBSET D /\ Remaining(D, s) \in Nat /\ Remaining(D, s) <= m
      BY <1>2 DEF High
    <3>2. /\ s \union {d} \in SUBSET D
          /\ Remaining(D, s \union {d}) = Remaining(D, s) - 1
      BY <1>3, <3>1
    <3> QED
      BY <3>1, <3>2, <1>1 DEF High
  <2>4. \A s \in High(D, m - 1) : s \in High(D, m) /\ v[s] = u[s]
    <3>1. \A s \in High(D, m - 1) : s \in High(D, m)
      BY <1>2 DEF High
    <3> QED
      BY <3>1, <2>2, <1>4 DEF Units
  <2>5. \A s \in High(D, m), d \in D : UnitIn(r, v, s, d) = UnitIn(r, u, s, d)
    <3> SUFFICES ASSUME NEW s \in High(D, m), NEW d \in D
                 PROVE  UnitIn(r, v, s, d) = UnitIn(r, u, s, d)
      OBVIOUS
    <3>1. CASE d \in s
      BY <3>1 DEF UnitIn
    <3>2. CASE d \notin s
      <4>1. v[s \union {d}] = u[s \union {d}]
        BY <3>2, <2>3, <2>4
      <4> HIDE DEF v
      <4> QED
        BY <4>1 DEF UnitIn
    <3> QED
      BY <3>1, <3>2
  <2>6. Units(r, High(D, m), v)
    <3>1. v = [s \in High(D, m) |-> [d \in D |-> UnitIn(r, v, s, d)]]
      BY <2>5
    <3> HIDE DEF v
    <3> QED
      BY <3>1, <1>4 DEF Units
  <2> HIDE DEF v
  <2> QED
    BY <1>1, <2>6
<1> QED
  BY <1>5, <1>6

LEMMA SumIsCost ==
  ASSUME NEW r, NEW u, NEW stack, NEW d, NEW I, NEW C, IsFiniteSet(I), IsFiniteSet(C),
         r[d].own \in [I -> Nat \union {Fail}], r[d].children = C,
         d \notin stack => \A e \in C : u[stack \union {d}][e] \in Nat \union {Fail}
  PROVE  UnitIn(r, u, stack, d) \in Nat \union {Fail}
<1> DEFINE below == [e \in C |-> u[stack \union {d}][e]]
<1> DEFINE own == r[d].own
<1> DEFINE fails == \/ d \in stack \/ ~r[d].there
                    \/ \E i \in DOMAIN own : own[i] = Fail
                    \/ \E e \in DOMAIN below : below[e] = Fail
<1>1. UnitIn(r, u, stack, d) = IF fails THEN Fail ELSE SumFunction(own) + SumFunction(below)
  BY DEF UnitIn
<1>2. CASE fails
  BY <1>1, <1>2
<1>3. CASE ~fails
  <2>1. own \in [I -> Nat]
    <3>1. own \in [I -> Nat \union {Fail}] /\ \A i \in I : own[i] # Fail
      BY <1>3
    <3> HIDE DEF own
    <3> QED
      BY <3>1
  <2>2. below \in [C -> Nat]
    BY <1>3
  <2>3. SumFunction(own) \in Nat /\ SumFunction(below) \in Nat
    <3> HIDE DEF own, below
    <3> QED
      BY <2>1, <2>2, SumIsNatural
  <2> HIDE DEF own, below, fails
  <2> QED
    BY <1>1, <1>3, <2>3
<1> QED
  BY <1>2, <1>3

LEMMA UnitOfIsCost ==
  ASSUME NEW D, IsFiniteSet(D), NEW r \in Rows(D), NEW c \in D
  PROVE  UnitOf(r, c) \in Nat \union {Fail}
<1>1. \A s \in SUBSET D : Remaining(D, s) \in Nat /\ Remaining(D, s) <= Cardinality(D)
  <2> SUFFICES ASSUME NEW s \in SUBSET D
               PROVE  Remaining(D, s) \in Nat /\ Remaining(D, s) <= Cardinality(D)
    OBVIOUS
  <2> DEFINE t == D \ s
  <2>1. t \subseteq D /\ Remaining(D, s) = Cardinality(t)
    BY DEF Remaining
  <2> HIDE DEF t
  <2> QED
    BY <2>1, FS_Subset, FS_CardinalityType
<1>2. High(D, Cardinality(D)) = SUBSET D
  BY <1>1 DEF High
<1>3. \E u : Units(r, SUBSET D, u)
  <2> DEFINE n == Cardinality(D)
  <2>1. n \in Nat
    BY FS_CardinalityType
  <2>2. \E u : Units(r, High(D, n), u)
    <3> HIDE DEF n
    <3> QED
      BY <2>1, UnitsHigh
  <2> QED
    BY <1>2, <2>2
<1>4. DOMAIN r = D
  BY DEF Rows
<1>5. PICK u : Units(r, SUBSET D, u) /\ UnitOf(r, c) = u[{}][c]
  BY <1>3, <1>4, UnitOfIs
<1> DEFINE N == {n \in Nat : \E s \in SUBSET D, d \in D :
                                 n = Remaining(D, s) /\ u[s][d] \notin Nat \union {Fail}}
<1>6. CASE N = {}
  <2>1. {} \in SUBSET D /\ Remaining(D, {}) \in Nat
    BY <1>1
  <2> QED
    BY <1>5, <1>6, <2>1
<1>7. CASE N # {}
  <2>1. PICK m \in N : \A k \in N : m <= k
    BY <1>7, LeastNatural
  <2>2. PICK s \in SUBSET D, d \in D : m = Remaining(D, s) /\ u[s][d] \notin Nat \union {Fail}
    BY <2>1
  <2>3. u[s][d] = UnitIn(r, u, s, d)
    BY <1>4, <1>5 DEF Units
  <2>4. d \notin s => \A e \in D : u[s \union {d}][e] \in Nat \union {Fail}
    <3> SUFFICES ASSUME d \notin s
                 PROVE  \A e \in D : u[s \union {d}][e] \in Nat \union {Fail}
      OBVIOUS
    <3>1. s \union {d} \in SUBSET D /\ Remaining(D, s \union {d}) \in Nat
      BY <1>1
    <3>2. Remaining(D, s \union {d}) = m - 1
      BY <2>2, FreeIs
    <3>3. m \in Nat /\ ~ (m <= m - 1)
      BY <1>1, <2>2
    <3>4. Remaining(D, s \union {d}) \notin N
      <4> HIDE DEF N
      <4> QED
        BY <2>1, <3>2, <3>3
    <3> QED
      BY <3>1, <3>4
  <2>5. PICK I \in SUBSET Ingredients : r[d].own \in [I -> Nat \union {Fail}]
    <3>1. r[d].own \in UNION {[I -> Nat \union {Fail}] : I \in SUBSET Ingredients}
      BY DEF Rows
    <3> QED
      BY <3>1
  <2>6. r[d].children \subseteq D
    BY DEF Rows
  <2>7. IsFiniteSet(I) /\ IsFiniteSet(r[d].children)
    BY <2>5, <2>6, FS_Subset, RecipeCostsAssumption
  <2>8. UnitIn(r, u, s, d) \in Nat \union {Fail}
    BY <2>4, <2>5, <2>6, <2>7, SumIsCost
  <2> QED
    BY <2>2, <2>3, <2>8
<1> QED
  BY <1>6, <1>7
-----------------------------------------------------------------------------
(* What holds of the stored costs and of those that are about to be.       *)

\* What a request has read and computed fits what it refreshes.
Shape(x) ==
    /\ kind[x] = "repair" => at[x] = "read" /\ DOMAIN todo[x] \subseteq DOMAIN Legacy
    /\ kind[x] = "components" => DOMAIN todo[x] \subseteq Components
    /\ kind[x] = "items" => DOMAIN todo[x] \subseteq Items
    /\ at[x] \in {"next", "write"} =>
           /\ kind[x] = "components" => \A c \in DOMAIN todo[x] : todo[x][c].kept \in LineCosts
           /\ kind[x] = "items" => \A m \in DOMAIN todo[x] : todo[x][m].total \in Nat
    /\ at[x] = "write" =>
           /\ result[x].id \in (IF kind[x] = "components" THEN Components ELSE Items)
           /\ result[x].id \notin DOMAIN todo[x]
           /\ result[x].cost \in Nat
           /\ kind[x] = "components" => result[x].own \in LineCosts

\* Lines are of things that exist, or did.
Known ==
    /\ \A c \in Components : /\ \A i \in DOMAIN lines[c] : life[i] # "new"
                             /\ \A d \in children[c] : life[d] # "new"
    /\ \A m \in Items : \A p \in parts[m] : life[p] # "new"

CostOf(y) == IF y \in Items THEN Total(y) ELSE UnitCost(y)

\* Lines of y have been replaced since request x read them.
Touched(x, y) == \E l \in replaced[x] : l[1] = y

StoredCurrent ==
    /\ \A c \in Components : life[c] = "there" /\ c \notin stale /\ c \notin blind =>
           cost[c] = CostOf(c)
    /\ \A m \in Items : m \notin stale /\ m \notin blind => cost[m] = CostOf(m)

ResultCurrent(x) ==
    at[x] = "write" /\ result[x].id \notin unseen[x] /\ ~Touched(x, result[x].id) =>
        result[x].cost = CostOf(result[x].id)

TodoCurrent(x) ==
    at[x] \in {"next", "write"} /\ kind[x] = "items" =>
        \A m \in DOMAIN todo[x] :
            m \notin unseen[x] /\ ~Touched(x, m) => todo[x][m].total = CostOf(m)

RecipeInv ==
    /\ RecipeTypeOK
    /\ \A x \in Clients : Shape(x)
    /\ Known

Current ==
    /\ StoredCurrent
    /\ \A x \in Clients : ResultCurrent(x) /\ TodoCurrent(x)


-----------------------------------------------------------------------------
(* What costs depend on. *)


LEMMA LineCostsAre ==
  ASSUME NEW own
  PROVE  /\ own \in LineCosts => /\ own = [i \in DOMAIN own |-> own[i]]
                                 /\ DOMAIN own \subseteq Ingredients
                                 /\ \A i \in DOMAIN own : own[i] \in Costs \union {Unknown}
         /\ /\ own = [i \in DOMAIN own |-> own[i]]
            /\ DOMAIN own \subseteq Ingredients
            /\ \A i \in DOMAIN own : own[i] \in Costs \union {Unknown}
            => own \in LineCosts
<1>1. ASSUME own \in LineCosts
      PROVE  /\ own = [i \in DOMAIN own |-> own[i]]
             /\ DOMAIN own \subseteq Ingredients
             /\ \A i \in DOMAIN own : own[i] \in Costs \union {Unknown}
  <2>1. PICK I \in SUBSET Ingredients : own \in [I -> Costs \union {Unknown}]
    BY <1>1 DEF LineCosts
  <2> QED
    BY <2>1
<1>2. ASSUME own = [i \in DOMAIN own |-> own[i]],
             DOMAIN own \subseteq Ingredients,
             \A i \in DOMAIN own : own[i] \in Costs \union {Unknown}
      PROVE  own \in LineCosts
  <2>1. own \in [DOMAIN own -> Costs \union {Unknown}]
    BY <1>2
  <2> QED
    BY <1>2, <2>1 DEF LineCosts
<1> QED
  BY <1>1, <1>2

LEMMA BelowIs ==
  ASSUME NEW c \in Components, children \in [Components -> SUBSET Components]
  PROVE  /\ c \in Below(c)
         /\ Below(c) \subseteq Components
         /\ \A d \in Below(c) : children[d] \subseteq Below(c)
BY DEF Below

LEMMA BelowKept ==
  ASSUME NEW c \in Components,
         children \in [Components -> SUBSET Components],
         children' \in [Components -> SUBSET Components],
         \A d \in Below(c) : children'[d] = children[d]
  PROVE  Below(c)' = Below(c)
<1> DEFINE B == Below(c)
<1>1. c \in B /\ B \subseteq Components /\ \A d \in B : children'[d] \subseteq B
  BY BelowIs
<1>2. \A d \in Below(c)' : d \in B
  <2> HIDE DEF B
  <2> QED
    BY <1>1 DEF Below
<1>3. ASSUME NEW d \in B, NEW S \in SUBSET Components,
             c \in S, \A e \in S : children'[e] \subseteq S
      PROVE  d \in S
  <2> DEFINE T == S \intersect B
  <2>1. c \in T /\ T \in SUBSET Components /\ \A e \in T : children[e] \subseteq T
    BY <1>1, <1>3
  <2>2. d \in T
    <3> HIDE DEF T
    <3> QED
      BY <2>1 DEF Below
  <2> QED
    BY <2>2
<1>4. \A d \in B : d \in Below(c)'
  <2> HIDE DEF B
  <2> QED
    BY <1>1, <1>3 DEF Below
<1> QED
  BY <1>2, <1>4

LEMMA UnitKept ==
  ASSUME NEW S, NEW c \in Components,
         children \in [Components -> SUBSET Components],
         children' \in [Components -> SUBSET Components],
         \A d \in Components : d \notin S => Row(d)' = Row(d),
         c \notin Above(S)
  PROVE  UnitCost(c)' = UnitCost(c)
<1>1. \A d \in Below(c) : d \in Components /\ d \notin S
  BY BelowIs DEF Above
<1>2. \A d \in Components : d \notin S => children'[d] = children[d]
  <2> SUFFICES ASSUME NEW d \in Components, d \notin S
               PROVE  children'[d] = children[d]
    OBVIOUS
  <2>1. Row(d)' = Row(d)
    OBVIOUS
  <2>2. Row(d).children = children[d] /\ (Row(d)').children = children'[d]
    BY DEF Row
  <2> QED
    BY <2>1, <2>2
<1>3. Below(c)' = Below(c)
  BY <1>1, <1>2, BelowKept
<1> DEFINE r == [d \in Below(c) |-> Row(d)]
<1>4. r' = r
  <2>1. \A d \in Below(c) : Row(d)' = Row(d)
    BY <1>1
  <2> QED
    BY <1>3, <2>1
<1>5. UnitCost(c) = UnitOf(r, c) /\ UnitCost(c)' = UnitOf(r', c)
  BY DEF UnitCost
<1> QED
  BY <1>4, <1>5

LEMMA TotalKept ==
  ASSUME NEW m,
         parts'[m] = parts[m],
         \A p \in parts[m] : life'[p] = "there" <=> life[p] = "there",
         \A p \in parts[m] : life[p] = "there" =>
             IF p \in Ingredients THEN price'[p] = price[p] ELSE cost'[p] = cost[p]
  PROVE  Total(m)' = Total(m)
<1>1. Counted(m)' = Counted(m)
  BY DEF Counted, There
<1> DEFINE f == [p \in Counted(m) |-> IF p \in Ingredients THEN price[p] ELSE cost[p]]
<1>2. f' = f
  BY <1>1 DEF Counted, There
<1>3. Total(m) = SumFunction(f) /\ Total(m)' = SumFunction(f')
  BY DEF Total
<1> QED
  BY <1>2, <1>3

LEMMA CostsAreNaturals == \A k \in Costs \union {Unknown} : k \in Nat
<1>1. Costs \subseteq Nat
  BY RecipeCostsAssumption
<1> QED
  BY <1>1 DEF Unknown

LEMMA TotalIsNatural ==
  ASSUME RecipeTypeOK, NEW m \in Items
  PROVE  Total(m) \in Nat
<1> DEFINE C == Counted(m)
<1> DEFINE f == [p \in C |-> IF p \in Ingredients THEN price[p] ELSE cost[p]]
<1>1. C \subseteq Ingredients \union Components
  BY DEF Counted, There, RecipeTypeOK
<1>2. IsFiniteSet(C)
  <2> HIDE DEF C
  <2> QED
    BY <1>1, FS_Union, FS_Subset, RecipeCostsAssumption
<1>3. \A p \in C : (IF p \in Ingredients THEN price[p] ELSE cost[p]) \in Nat
  <2>1. \A p \in Ingredients : price[p] \in Nat
    BY CostsAreNaturals DEF RecipeTypeOK
  <2>2. \A p \in Components : cost[p] \in Nat
    BY DEF RecipeTypeOK, Priced
  <2> HIDE DEF C
  <2> QED
    BY <1>1, <2>1, <2>2
<1>4. f \in [C -> Nat]
  <2> HIDE DEF C
  <2> QED
    BY <1>3
<1>5. SumFunction(f) \in Nat
  <2> HIDE DEF C, f
  <2> QED
    BY <1>2, <1>4, SumIsNatural
<1> QED
  BY <1>5 DEF Total

LEMMA LineCostIs ==
  ASSUME RecipeTypeOK, NEW own \in LineCosts, NEW i \in DOMAIN own
  PROVE  LineCost(own, i) \in Costs \union {Unknown, Fail}
<1>1. own[i] \in Costs \union {Unknown} /\ i \in Ingredients
  BY LineCostsAre
<1>2. price[i] \in Costs \union {Unknown}
  BY <1>1 DEF RecipeTypeOK
<1> QED
  BY <1>1, <1>2 DEF LineCost

LEMMA UnitCostIs ==
  ASSUME RecipeTypeOK, NEW c \in Components
  PROVE  UnitCost(c) \in Nat \union {Fail}
<1> DEFINE B == Below(c)
<1>1. c \in B /\ B \subseteq Components /\ \A d \in B : children[d] \subseteq B
  BY BelowIs DEF RecipeTypeOK
<1>2. IsFiniteSet(B)
  BY <1>1, FS_Subset, RecipeCostsAssumption
<1>3. ASSUME NEW d \in B
      PROVE  Row(d) \in [there : BOOLEAN, children : SUBSET B,
                         own : UNION {[I -> Nat \union {Fail}] : I \in SUBSET Ingredients}]
  <2> DEFINE own == [i \in DOMAIN lines[d] |-> LineCost(lines[d], i)]
  <2>1. lines[d] \in LineCosts
    BY <1>1, <1>3 DEF RecipeTypeOK
  <2>2. DOMAIN lines[d] \in SUBSET Ingredients
    BY <2>1, LineCostsAre
  <2>3. \A i \in DOMAIN lines[d] : LineCost(lines[d], i) \in Costs \union {Unknown, Fail}
    BY <2>1, LineCostIs
  <2>4. \A i \in DOMAIN lines[d] : LineCost(lines[d], i) \in Nat \union {Fail}
    BY <2>3, CostsAreNaturals
  <2>5. own \in [DOMAIN lines[d] -> Nat \union {Fail}]
    BY <2>4
  <2>6. own \in UNION {[I -> Nat \union {Fail}] : I \in SUBSET Ingredients}
    <3> HIDE DEF own
    <3> QED
      BY <2>2, <2>5
  <2>7. children[d] \in SUBSET B
    BY <1>1, <1>3
  <2>8. Row(d) = [there |-> life[d] = "there", own |-> own, children |-> children[d]]
    BY DEF Row
  <2> HIDE DEF own
  <2>9. (life[d] = "there") \in BOOLEAN
    OBVIOUS
  <2> QED
    BY <2>6, <2>7, <2>8, <2>9
<1> DEFINE r == [d \in B |-> Row(d)]
<1>4. r \in Rows(B)
  <2> HIDE DEF B
  <2> QED
    BY <1>3 DEF Rows
<1>5. UnitOf(r, c) \in Nat \union {Fail}
  <2> HIDE DEF r, B
  <2> QED
    BY <1>1, <1>2, <1>4, UnitOfIsCost
<1> QED
  BY <1>5 DEF UnitCost

-----------------------------------------------------------------------------
(* Types, and shapes of what a request holds. *)

RecipesOK ==
    /\ life \in [Things -> {"new", "there", "deleted"}]
    /\ price \in [Ingredients -> Costs \union {Unknown}]
    /\ lines \in [Components -> LineCosts]
    /\ children \in [Components -> SUBSET Components]
    /\ parts \in [Items -> SUBSET (Ingredients \union Components)]
    /\ cost \in [Priced -> Nat]
    /\ Known

RequestsOK ==
    /\ at \in [Clients -> {"idle", "read", "next", "write"}]
    /\ \A x \in Clients : at[x] # "idle" <=> kind[x] # "none"
    /\ kind \in [Clients -> {"none", "components", "items", "repair"}]
    /\ DOMAIN todo = Clients /\ DOMAIN result = Clients
    /\ \A x \in Clients : DOMAIN todo[x] \subseteq Priced
    /\ replaced \in [Clients -> SUBSET Lists]
    /\ \A x \in Clients : Shape(x)

HistoryOK ==
    /\ requests \in 0..MaxRequests
    /\ stale \subseteq Priced
    /\ unseen \in [Clients -> SUBSET Priced]
    /\ blind \subseteq Priced

LEMMA InvParts ==
  /\ RecipeInv => RecipesOK /\ RequestsOK /\ HistoryOK
  /\ RecipesOK' /\ RequestsOK' /\ HistoryOK' => RecipeInv'
BY DEF RecipeInv, RecipeTypeOK, RecipesOK, RequestsOK, HistoryOK

LEMMA Sorts ==
  /\ Ingredients \subseteq Things /\ Components \subseteq Things /\ Items \subseteq Things
  /\ Components \subseteq Priced /\ Items \subseteq Priced /\ Priced = Components \union Items
  /\ Components \intersect Items = {}
  /\ Ingredients \intersect Components = {} /\ Ingredients \intersect Items = {}
<1>1. Components \intersect Items = {} /\ Ingredients \intersect (Components \union Items) = {}
  BY RecipeCostsAssumption
<1> QED
  BY <1>1 DEF Things, Priced

LEMMA AboveAre ==
  /\ \A S : S \subseteq Components => Above(S) \subseteq Components /\ S \subseteq Above(S)
  /\ \A S : HoldersOf(S) \subseteq Items
  /\ \A i : Using(i) \subseteq Components
BY DEF Above, HoldersOf, Using

LEMMA OneMoreRequest ==
  ASSUME requests \in 0..MaxRequests, OneRequest
  PROVE  requests' \in 0..MaxRequests
<1>1. MaxRequests \in Nat
  BY RecipeCostsAssumption
<1> QED
  BY <1>1 DEF OneRequest

LEMMA ChangedIsTyped ==
  ASSUME HistoryOK, NEW own \in SUBSET Priced, NEW S \in SUBSET Priced, Changed(own, S)
  PROVE  stale' \subseteq Priced /\ unseen' \in [Clients -> SUBSET Priced]
BY DEF HistoryOK, Changed

LEMMA ReplaceIsTyped ==
  ASSUME replaced \in [Clients -> SUBSET Lists], NEW L \in SUBSET Lists, Replace(L)
  PROVE  replaced' \in [Clients -> SUBSET Lists]
BY DEF Replace

LEMMA ListsAre ==
  ASSUME NEW y \in Priced
  PROVE  /\ {y} \X Kinds(y) \subseteq Lists
         /\ \A k \in Kinds(y) : <<y, k>> \in Lists
BY DEF Lists

LEMMA RequestIsTyped ==
  ASSUME RequestsOK, NEW x \in Clients, NEW what, NEW S, Request(x, what, S),
         \/ what = "components" /\ S \subseteq Components
         \/ what = "items" /\ S \subseteq Items
         \/ what = "repair" /\ S \subseteq DOMAIN Legacy,
         result' = result, replaced' \in [Clients -> SUBSET Lists]
  PROVE  RequestsOK'
<1>1. S \subseteq Priced
  BY Sorts, RecipeCostsAssumption
<1>2. /\ at' \in [Clients -> {"idle", "read", "next", "write"}]
      /\ kind' \in [Clients -> {"none", "components", "items", "repair"}]
      /\ DOMAIN todo' = Clients
  BY DEF RequestsOK, Request, StepTo
<1>3. at'[x] = "read" /\ kind'[x] = what /\ DOMAIN todo'[x] = S
  BY DEF RequestsOK, Request, StepTo
<1>4. \A z \in Clients : z # x => at'[z] = at[z] /\ kind'[z] = kind[z] /\ todo'[z] = todo[z]
  BY DEF RequestsOK, Request, StepTo
<1>5. ASSUME NEW z \in Clients
      PROVE  Shape(z)'
  <2>1. CASE z = x
    BY <1>3, <2>1 DEF Shape
  <2>2. CASE z # x
    BY <1>4, <2>2 DEF Shape, RequestsOK
  <2> QED
    BY <2>1, <2>2
<1>6. \A z \in Clients : DOMAIN todo'[z] \subseteq Priced
  BY <1>1, <1>3, <1>4 DEF RequestsOK
<1>7. \A z \in Clients : at'[z] # "idle" <=> kind'[z] # "none"
  BY <1>3, <1>4 DEF RequestsOK
<1> QED
  BY <1>2, <1>5, <1>6, <1>7 DEF RequestsOK

LEMMA RequestsUnchanged ==
  ASSUME RequestsOK, UNCHANGED <<at, refresh>>
  PROVE  RequestsOK'
BY DEF RequestsOK, refresh, Shape

LEMMA RecipesUnchanged ==
  ASSUME RecipesOK, UNCHANGED <<recipes, cost>>
  PROVE  RecipesOK'
BY DEF RecipesOK, recipes, Known

\* Clients other than x keep what they hold.
Others(x) ==
    /\ DOMAIN at' = Clients /\ DOMAIN kind' = Clients
    /\ DOMAIN todo' = Clients /\ DOMAIN result' = Clients
    /\ \A z \in Clients : z # x =>
           at'[z] = at[z] /\ kind'[z] = kind[z] /\ todo'[z] = todo[z] /\ result'[z] = result[z]

LEMMA OneMoves ==
  ASSUME RequestsOK, NEW x \in Clients, Others(x),
         at' = [at EXCEPT ![x] = at'[x]], kind' = [kind EXCEPT ![x] = kind'[x]],
         at'[x] \in {"idle", "read", "next", "write"},
         kind'[x] \in {"none", "components", "items", "repair"},
         at'[x] # "idle" <=> kind'[x] # "none",
         DOMAIN todo'[x] \subseteq Priced,
         Shape(x)',
         replaced' \in [Clients -> SUBSET Lists]
  PROVE  RequestsOK'
<1>1. \A z \in Clients : Shape(z)'
  <2> SUFFICES ASSUME NEW z \in Clients, z # x
               PROVE  Shape(z)'
    OBVIOUS
  <2> QED
    BY DEF Others, Shape, RequestsOK
<1>2. at' \in [Clients -> {"idle", "read", "next", "write"}]
  BY DEF RequestsOK
<1>3. kind' \in [Clients -> {"none", "components", "items", "repair"}]
  BY DEF RequestsOK
<1>4. \A z \in Clients : DOMAIN todo'[z] \subseteq Priced
  BY DEF RequestsOK, Others
<1>5. \A z \in Clients : at'[z] # "idle" <=> kind'[z] # "none"
  BY DEF RequestsOK, Others
<1> QED
  BY <1>1, <1>2, <1>3, <1>4, <1>5 DEF RequestsOK, Others

LEMMA EndIsTyped ==
  ASSUME RequestsOK, NEW x \in Clients, End(x)
  PROVE  RequestsOK' /\ Others(x) /\ at'[x] = "idle"
<1>1. /\ at' = [at EXCEPT ![x] = "idle"] /\ kind' = [kind EXCEPT ![x] = "none"]
      /\ todo' = [todo EXCEPT ![x] = <<>>] /\ result' = [result EXCEPT ![x] = NoResult]
      /\ replaced' = [replaced EXCEPT ![x] = {}]
  BY DEF End, StepTo
<1>2. at'[x] = "idle" /\ kind'[x] = "none" /\ todo'[x] = <<>>
  BY <1>1 DEF RequestsOK
<1>3. Others(x)
  BY <1>1 DEF RequestsOK, Others
<1>4. DOMAIN todo'[x] \subseteq Priced
  BY <1>2
<1>5. Shape(x)'
  BY <1>2 DEF Shape
<1>6. replaced' \in [Clients -> SUBSET Lists]
  BY <1>1 DEF RequestsOK
<1>7. at' = [at EXCEPT ![x] = at'[x]] /\ kind' = [kind EXCEPT ![x] = kind'[x]]
  BY <1>1, <1>2
<1> QED
  BY <1>2, <1>3, <1>4, <1>5, <1>6, <1>7, OneMoves

-----------------------------------------------------------------------------
(* Every action keeps them. *)

LEMMA NeverNewAgain ==
  ASSUME RecipesOK, life' \in [Things -> {"new", "there", "deleted"}],
         \A y \in Things : life[y] # "new" => life'[y] # "new"
  PROVE  /\ \A c \in Components : /\ \A i \in DOMAIN lines[c] : life'[i] # "new"
                                  /\ \A d \in children[c] : life'[d] # "new"
         /\ \A m \in Items : \A p \in parts[m] : life'[p] # "new"
<1>1. /\ \A c \in Components : DOMAIN lines[c] \subseteq Things /\ children[c] \subseteq Things
      /\ \A m \in Items : parts[m] \subseteq Things
  <2>1. \A c \in Components : DOMAIN lines[c] \subseteq Ingredients
    BY LineCostsAre DEF RecipesOK
  <2>2. \A c \in Components : children[c] \subseteq Components
    BY DEF RecipesOK
  <2>3. \A m \in Items : parts[m] \subseteq Ingredients \union Components
    BY DEF RecipesOK
  <2> QED
    BY <2>1, <2>2, <2>3, Sorts
<1> QED
  BY <1>1 DEF RecipesOK, Known

LEMMA IngredientsKeepInv ==
  ASSUME RecipeInv, NEW i \in Ingredients,
         \/ \E k \in Costs : CreateIngredient(i, k) \/ UpdateIngredient(i, k)
         \/ RemoveIngredient(i)
  PROVE  RecipeInv'
<1>1. RecipesOK /\ RequestsOK /\ HistoryOK
  BY InvParts
<1>2. /\ OneRequest /\ UNCHANGED <<lines, children, parts, cost, blind>>
      /\ UNCHANGED <<at, refresh>>
      /\ \/ life' = [life EXCEPT ![i] = "there"] \/ UNCHANGED life
         \/ life' = [life EXCEPT ![i] = "deleted"]
      /\ UNCHANGED price \/ \E k \in Costs : price' = [price EXCEPT ![i] = k]
      /\ UNCHANGED changes \/ Changed({}, Above(Using(i)) \union HoldersOf({i}))
  BY DEF CreateIngredient, UpdateIngredient, RemoveIngredient
<1>3. life' \in [Things -> {"new", "there", "deleted"}]
  BY <1>1, <1>2 DEF RecipesOK
<1>4. \A y \in Things : life[y] # "new" => life'[y] # "new"
  <2>1. i \in Things /\ life \in [Things -> {"new", "there", "deleted"}]
    BY <1>1, Sorts DEF RecipesOK
  <2> QED
    BY <1>2, <2>1
<1>5. RecipesOK'
  <2>1. Known'
    BY <1>1, <1>2, <1>3, <1>4, NeverNewAgain DEF Known
  <2> QED
    BY <1>1, <1>2, <1>3, <2>1 DEF RecipesOK
<1>6. RequestsOK'
  BY <1>1, <1>2, RequestsUnchanged
<1>7. stale' \subseteq Priced /\ unseen' \in [Clients -> SUBSET Priced]
  <2>1. CASE UNCHANGED changes
    BY <1>1, <2>1 DEF changes, HistoryOK
  <2>2. CASE Changed({}, Above(Using(i)) \union HoldersOf({i}))
    <3>1. Above(Using(i)) \union HoldersOf({i}) \in SUBSET Priced
      BY AboveAre, Sorts
    <3> QED
      BY <1>1, <2>2, <3>1, ChangedIsTyped
  <2> QED
    BY <1>2, <2>1, <2>2
<1>8. HistoryOK'
  BY <1>1, <1>2, <1>7, OneMoreRequest DEF HistoryOK
<1> QED
  BY <1>5, <1>6, <1>8, InvParts

LEMMA NewLinesAre ==
  ASSUME NEW S \in SUBSET Ingredients
  PROVE  [i \in S |-> Unknown] \in LineCosts
<1>1. [i \in S |-> Unknown] \in [S -> Costs \union {Unknown}]
  OBVIOUS
<1> QED
  BY <1>1 DEF LineCosts

\* The items that hold component c, when its stored cost moves.
Shifted(c) == IF cost'[c] = cost[c] THEN {} ELSE HoldersOf({c})

\* What the three requests on the lines of a component have in common.
ComponentSaved(x, c, lists) ==
    /\ Request(x, "components", {c})
    /\ life[c] \in {"new", "there"}
    /\ life' = [life EXCEPT ![c] = "there"]
    /\ \/ UNCHANGED lines
       \/ \E S \in SUBSET There(Ingredients) : NewLines(c, S)
    /\ \/ UNCHANGED children
       \/ \E D \in SUBSET There(Components) : children' = [children EXCEPT ![c] = D]
    /\ lists # {} /\ lists \subseteq {c} \X Kinds(c)
    /\ Replace(lists)
    /\ \E k \in Nat : cost' = [cost EXCEPT ![c] = k]
    /\ Changed({c}, (Above({c}) \ {c}) \union Shifted(c))
    /\ UNCHANGED <<price, parts, result, blind>>

LEMMA ComponentRequests ==
  ASSUME RecipesOK, NEW x \in Clients, NEW c \in Components,
         NEW S \in SUBSET Ingredients, NEW D \in SUBSET Components,
         \/ \E k \in Costs \union {cost[c]} : SaveComponent(x, c, S, D, k)
         \/ ReplaceComponentIngredients(x, c, S)
         \/ ReplaceChildren(x, c, D)
  PROVE  \E lists : ComponentSaved(x, c, lists)
<1>1. c \notin Items /\ c \in Things
  BY Sorts
<1>2. Kinds(c) = {"ingredients", "children"}
  BY <1>1 DEF Kinds
<1>3. life[c] = "there" => life = [life EXCEPT ![c] = "there"]
  BY <1>1 DEF RecipesOK
<1>4. cost \in [Priced -> Nat] /\ c \in Priced
  BY Sorts DEF RecipesOK
<1>5. ASSUME cost' = cost, Changed({c}, Above({c}) \ {c})
      PROVE  /\ \E k \in Nat : cost' = [cost EXCEPT ![c] = k]
             /\ Changed({c}, (Above({c}) \ {c}) \union Shifted(c))
  <2>1. cost' = [cost EXCEPT ![c] = cost[c]] /\ cost[c] \in Nat
    BY <1>4, <1>5
  <2>2. (Above({c}) \ {c}) \union Shifted(c) = Above({c}) \ {c}
    BY <1>5 DEF Shifted
  <2> QED
    BY <1>5, <2>1, <2>2
<1>6. ASSUME NEW k \in Costs \union {cost[c]}, SaveComponent(x, c, S, D, k)
      PROVE  \E lists : ComponentSaved(x, c, lists)
  <2> DEFINE lists == {c} \X Kinds(c)
  <2>1. lists # {}
    <3>1. <<c, "children">> \in lists
      BY <1>2
    <3> QED
      BY <3>1
  <2> HIDE DEF lists
  <2>2. Replace(lists)
    BY <1>6 DEF SaveComponent, lists
  <2>3. k \in Nat /\ cost' = [cost EXCEPT ![c] = k]
    BY <1>6, <1>4, CostsAreNaturals DEF SaveComponent
  <2>4. cost'[c] = k
    BY <1>4, <2>3
  <2>5. Shifted(c) = IF k = cost[c] THEN {} ELSE HoldersOf({c})
    BY <2>4 DEF Shifted
  <2>6. Changed({c}, (Above({c}) \ {c}) \union Shifted(c))
    BY <1>6, <2>5 DEF SaveComponent
  <2>7. lists \subseteq {c} \X Kinds(c)
    BY DEF lists
  <2>8. ComponentSaved(x, c, lists)
    BY <1>6, <2>1, <2>2, <2>3, <2>6, <2>7 DEF SaveComponent, ComponentSaved
  <2> QED
    BY <2>8
<1>7. CASE ReplaceComponentIngredients(x, c, S)
  <2>1. ComponentSaved(x, c, {<<c, "ingredients">>})
    <3>1. cost' = cost /\ Changed({c}, Above({c}) \ {c})
      BY <1>7 DEF ReplaceComponentIngredients
    <3> QED
      BY <1>2, <1>3, <1>7, <1>5, <3>1 DEF ReplaceComponentIngredients, ComponentSaved
  <2> QED
    BY <2>1
<1>8. CASE ReplaceChildren(x, c, D)
  <2> DEFINE lists == {<<c, "children">>}
  <2>1. lists # {} /\ lists \subseteq {c} \X Kinds(c)
    BY <1>2
  <2> HIDE DEF lists
  <2>2. Replace(lists)
    BY <1>8 DEF ReplaceChildren, lists
  <2>3. \E E \in SUBSET There(Components) : children' = [children EXCEPT ![c] = E]
    BY <1>8 DEF ReplaceChildren
  <2>4. life[c] \in {"new", "there"} /\ life' = [life EXCEPT ![c] = "there"]
    BY <1>3, <1>8 DEF ReplaceChildren
  <2>5. cost' = cost /\ Changed({c}, Above({c}) \ {c})
    BY <1>8 DEF ReplaceChildren
  <2>6. ComponentSaved(x, c, lists)
    BY <1>8, <1>5, <2>1, <2>2, <2>3, <2>4, <2>5 DEF ReplaceChildren, ComponentSaved
  <2> QED
    BY <2>6
<1> QED
  BY <1>6, <1>7, <1>8

LEMMA ComponentSavedKeepsInv ==
  ASSUME RecipeInv, NEW x \in Clients, NEW c \in Components, NEW lists,
         ComponentSaved(x, c, lists)
  PROVE  RecipeInv'
<1>1. RecipesOK /\ RequestsOK /\ HistoryOK
  BY InvParts
<1>2. c \in Things /\ c \in Priced
  BY Sorts
<1>3. /\ life' \in [Things -> {"new", "there", "deleted"}]
      /\ \A y \in Things : life[y] # "new" => life'[y] # "new"
  BY <1>1, <1>2 DEF RecipesOK, ComponentSaved
<1>4. lines' \in [Components -> LineCosts]
  <2>1. CASE UNCHANGED lines
    BY <1>1, <2>1 DEF RecipesOK
  <2>2. CASE \E S \in SUBSET There(Ingredients) : NewLines(c, S)
    <3>1. PICK S \in SUBSET There(Ingredients) : NewLines(c, S)
      BY <2>2
    <3>2. [i \in S |-> Unknown] \in LineCosts
      BY NewLinesAre DEF There
    <3> QED
      BY <1>1, <3>1, <3>2 DEF NewLines, RecipesOK
  <2> QED
    BY <2>1, <2>2 DEF ComponentSaved
<1>5. children' \in [Components -> SUBSET Components]
  BY <1>1 DEF RecipesOK, ComponentSaved, There
<1>6. \A d \in Components : \A i \in DOMAIN lines'[d] : life'[i] # "new"
  <2>1. \A d \in Components : \A i \in DOMAIN lines[d] : life'[i] # "new"
    BY <1>1, <1>3, NeverNewAgain
  <2>2. CASE UNCHANGED lines
    BY <2>1, <2>2
  <2>3. CASE \E S \in SUBSET There(Ingredients) : NewLines(c, S)
    <3>1. PICK S \in SUBSET There(Ingredients) : NewLines(c, S)
      BY <2>3
    <3>2. \A i \in S : life'[i] # "new"
      BY <1>3, Sorts DEF There
    <3>3. lines \in [Components -> LineCosts]
      BY <1>1 DEF RecipesOK
    <3> QED
      BY <2>1, <3>1, <3>2, <3>3 DEF NewLines
  <2> QED
    BY <2>2, <2>3 DEF ComponentSaved
<1>7. \A d \in Components : \A e \in children'[d] : life'[e] # "new"
  <2>1. \A d \in Components : \A e \in children[d] : life'[e] # "new"
    BY <1>1, <1>3, NeverNewAgain
  <2>2. children \in [Components -> SUBSET Components]
    BY <1>1 DEF RecipesOK
  <2>3. \A e \in There(Components) : life'[e] # "new"
    BY <1>3, Sorts DEF There
  <2> QED
    BY <2>1, <2>2, <2>3 DEF ComponentSaved
<1>8. UNCHANGED <<price, parts, result, blind>>
  BY DEF ComponentSaved
<1>9. cost' \in [Priced -> Nat]
  BY <1>1 DEF RecipesOK, ComponentSaved
<1>10. RecipesOK'
  <2>1. \A m \in Items : \A p \in parts[m] : life'[p] # "new"
    BY <1>1, <1>3, NeverNewAgain
  <2> QED
    BY <1>1, <1>3, <1>4, <1>5, <1>6, <1>7, <1>8, <1>9, <2>1 DEF RecipesOK, Known
<1>11. lists \in SUBSET Lists /\ Replace(lists)
  BY <1>2, ListsAre DEF ComponentSaved
<1>12. replaced' \in [Clients -> SUBSET Lists]
  <2>1. replaced \in [Clients -> SUBSET Lists]
    BY <1>1 DEF RequestsOK
  <2> QED
    BY <1>11, <2>1, ReplaceIsTyped
<1>13. Request(x, "components", {c}) /\ {c} \subseteq Components
  BY DEF ComponentSaved
<1>14. RequestsOK'
  BY <1>1, <1>8, <1>12, <1>13, RequestIsTyped
<1>15. stale' \subseteq Priced /\ unseen' \in [Clients -> SUBSET Priced]
  <2>1. Shifted(c) \subseteq Priced
    BY AboveAre, Sorts DEF Shifted
  <2>2. {c} \in SUBSET Priced /\ (Above({c}) \ {c}) \union Shifted(c) \in SUBSET Priced
    BY <1>2, <2>1, AboveAre, Sorts
  <2>3. Changed({c}, (Above({c}) \ {c}) \union Shifted(c))
    BY DEF ComponentSaved
  <2> QED
    BY <1>1, <2>3, <2>2, ChangedIsTyped
<1>16. requests' \in 0..MaxRequests
  BY <1>1, <1>13, OneMoreRequest DEF Request, HistoryOK
<1>17. HistoryOK'
  BY <1>1, <1>8, <1>15, <1>16 DEF HistoryOK
<1> QED
  BY <1>10, <1>14, <1>17, InvParts

\* What the requests on the lines of an item have in common.
ItemSaved(x, m, lists) ==
    /\ Request(x, "items", {m})
    /\ life[m] \in {"new", "there"}
    /\ life' = [life EXCEPT ![m] = "there"]
    /\ \E P \in SUBSET (Ingredients \union Components) : parts' = [parts EXCEPT ![m] = P]
    /\ \A p \in parts'[m] : p \in parts[m] \/ life[p] # "new"
    /\ lists # {} /\ lists \subseteq {m} \X Kinds(m)
    /\ Replace(lists)
    /\ \E k \in Nat : cost' = [cost EXCEPT ![m] = k]
    /\ Changed({m}, {})
    /\ UNCHANGED <<price, lines, children, result, blind>>

LEMMA ItemRequests ==
  ASSUME RecipesOK, NEW x \in Clients, NEW m \in Items,
         \/ \E P \in SUBSET (Ingredients \union Components), k \in Costs \union {cost[m]} :
                SaveItem(x, m, P, k)
         \/ \E P \in SUBSET Ingredients : ReplaceParts(x, m, "ingredients", P)
         \/ \E P \in SUBSET Components : ReplaceParts(x, m, "components", P)
  PROVE  \E lists : ItemSaved(x, m, lists)
<1>1. m \in Things
  BY Sorts
<1>2. Kinds(m) = {"ingredients", "components"}
  BY DEF Kinds
<1>3. life[m] = "there" => life = [life EXCEPT ![m] = "there"]
  BY <1>1 DEF RecipesOK
<1>4. parts \in [Items -> SUBSET (Ingredients \union Components)]
  BY DEF RecipesOK
<1>5. cost \in [Priced -> Nat] /\ m \in Priced
  BY Sorts DEF RecipesOK
<1>6. ASSUME NEW P \in SUBSET (Ingredients \union Components), NEW k \in Costs \union {cost[m]},
             SaveItem(x, m, P, k)
      PROVE  \E lists : ItemSaved(x, m, lists)
  <2> DEFINE lists == {m} \X Kinds(m)
  <2>1. lists # {}
    <3>1. <<m, "components">> \in lists
      BY <1>2
    <3> QED
      BY <3>1
  <2>2. Replace(lists)
    BY <1>6 DEF SaveItem
  <2>3. parts' = [parts EXCEPT ![m] = P] /\ \A p \in P : life[p] # "new"
    BY <1>6 DEF SaveItem
  <2>4. \A p \in parts'[m] : p \in parts[m] \/ life[p] # "new"
    BY <1>4, <2>3
  <2> HIDE DEF lists
  <2>5. lists \subseteq {m} \X Kinds(m)
    BY DEF lists
  <2>6. k \in Nat /\ cost' = [cost EXCEPT ![m] = k]
    BY <1>6, <1>5, CostsAreNaturals DEF SaveItem
  <2>7. ItemSaved(x, m, lists)
    BY <1>6, <2>1, <2>2, <2>3, <2>4, <2>5, <2>6 DEF SaveItem, ItemSaved
  <2> QED
    BY <2>7
<1>7. ASSUME NEW which \in {"ingredients", "components"}, NEW P,
             ReplaceParts(x, m, which, P)
      PROVE  \E lists : ItemSaved(x, m, lists)
  <2> DEFINE all == IF which = "components" THEN Components ELSE Ingredients
  <2> DEFINE lists == {<<m, which>>}
  <2> DEFINE Q == (parts[m] \ all) \union P
  <2>1. lists # {} /\ lists \subseteq {m} \X Kinds(m)
    BY <1>2
  <2>2. Replace(lists)
    BY <1>7 DEF ReplaceParts
  <2>3. P \subseteq all /\ \A p \in P : life[p] # "new"
    BY <1>7 DEF ReplaceParts
  <2>4. parts' = [parts EXCEPT ![m] = Q]
    BY <1>7 DEF ReplaceParts
  <2>5. Q \in SUBSET (Ingredients \union Components)
    BY <1>4, <2>3
  <2>6. \A p \in parts'[m] : p \in parts[m] \/ life[p] # "new"
    BY <1>4, <2>3, <2>4
  <2>7. life[m] \in {"new", "there"} /\ life' = [life EXCEPT ![m] = "there"]
    BY <1>3, <1>7 DEF ReplaceParts
  <2>8. \E R \in SUBSET (Ingredients \union Components) : parts' = [parts EXCEPT ![m] = R]
    BY <2>4, <2>5
  <2>9. /\ Request(x, "items", {m}) /\ Changed({m}, {})
        /\ UNCHANGED <<price, lines, children, cost, result, blind>>
    BY <1>7 DEF ReplaceParts
  <2>10. cost' = [cost EXCEPT ![m] = cost[m]] /\ cost[m] \in Nat
    BY <1>5, <2>9
  <2> HIDE DEF lists
  <2>11. ItemSaved(x, m, lists)
    BY <2>1, <2>2, <2>6, <2>7, <2>8, <2>9, <2>10 DEF ItemSaved
  <2> QED
    BY <2>11
<1> QED
  BY <1>6, <1>7

LEMMA ItemSavedKeepsInv ==
  ASSUME RecipeInv, NEW x \in Clients, NEW m \in Items, NEW lists, ItemSaved(x, m, lists)
  PROVE  RecipeInv'
<1>1. RecipesOK /\ RequestsOK /\ HistoryOK
  BY InvParts
<1>2. m \in Things /\ m \in Priced
  BY Sorts
<1>3. /\ life' \in [Things -> {"new", "there", "deleted"}]
      /\ \A y \in Things : life[y] # "new" => life'[y] # "new"
  BY <1>1, <1>2 DEF RecipesOK, ItemSaved
<1>4. parts' \in [Items -> SUBSET (Ingredients \union Components)]
  BY <1>1 DEF RecipesOK, ItemSaved
<1>5. UNCHANGED <<price, lines, children, result, blind>>
  BY DEF ItemSaved
<1>6. cost' \in [Priced -> Nat]
  BY <1>1 DEF RecipesOK, ItemSaved
<1>7. \A n \in Items : \A p \in parts'[n] : life'[p] # "new"
  <2>1. \A n \in Items : n # m => parts'[n] = parts[n]
    BY <1>1 DEF RecipesOK, ItemSaved
  <2>2. \A n \in Items : \A p \in parts[n] : life'[p] # "new"
    BY <1>1, <1>3, NeverNewAgain
  <2>3. \A p \in parts'[m] : p \in Things
    BY <1>4, Sorts
  <2>4. \A p \in parts'[m] : p \in parts[m] \/ life[p] # "new"
    BY DEF ItemSaved
  <2> QED
    BY <1>3, <2>1, <2>2, <2>3, <2>4
<1>8. Known'
  BY <1>1, <1>3, <1>5, <1>7, NeverNewAgain DEF Known
<1>9. RecipesOK'
  BY <1>1, <1>3, <1>4, <1>5, <1>8, <1>6 DEF RecipesOK
<1>10. lists \in SUBSET Lists /\ Replace(lists)
  BY <1>2, ListsAre DEF ItemSaved
<1>11. replaced' \in [Clients -> SUBSET Lists]
  <2>1. replaced \in [Clients -> SUBSET Lists]
    BY <1>1 DEF RequestsOK
  <2> QED
    BY <1>10, <2>1, ReplaceIsTyped
<1>12. Request(x, "items", {m}) /\ {m} \subseteq Items
  BY DEF ItemSaved
<1>13. RequestsOK'
  BY <1>1, <1>5, <1>11, <1>12, RequestIsTyped
<1>14. stale' \subseteq Priced /\ unseen' \in [Clients -> SUBSET Priced]
  <2>1. {m} \in SUBSET Priced /\ {} \in SUBSET Priced
    BY <1>2
  <2>2. Changed({m}, {})
    BY DEF ItemSaved
  <2> QED
    BY <1>1, <2>1, <2>2, ChangedIsTyped
<1>15. requests' \in 0..MaxRequests
  BY <1>1, <1>12, OneMoreRequest DEF Request, HistoryOK
<1>16. HistoryOK'
  BY <1>1, <1>5, <1>14, <1>15 DEF HistoryOK
<1> QED
  BY <1>9, <1>13, <1>16, InvParts

\* What the requests that only refresh have in common.
RefreshAsked(x, what, S) ==
    /\ Request(x, what, S)
    /\ \/ what = "components" /\ S \subseteq Components
       \/ what = "items" /\ S \subseteq Items
       \/ what = "repair" /\ S \subseteq DOMAIN Legacy
    /\ UNCHANGED <<recipes, cost, result, replaced, changes, blind>>

LEMMA RefreshRequests ==
  ASSUME NEW x \in Clients,
         RefreshComponents(x) \/ RepairComponents(x) \/ \E S \in SUBSET Items : RefreshItems(x, S)
  PROVE  \E what, S : RefreshAsked(x, what, S)
<1>1. CASE RefreshComponents(x)
  <2>1. RefreshAsked(x, "components", There(Components))
    BY <1>1 DEF RefreshComponents, RefreshAsked, There
  <2> QED
    BY <2>1
<1>2. CASE RepairComponents(x)
  <2>1. RefreshAsked(x, "repair", {c \in DOMAIN Legacy : life[c] # "new"})
    BY <1>2 DEF RepairComponents, RefreshAsked
  <2> QED
    BY <2>1
<1>3. ASSUME NEW S \in SUBSET Items, RefreshItems(x, S)
      PROVE  \E what, R : RefreshAsked(x, what, R)
  <2>1. RefreshAsked(x, "items", S)
    BY <1>3 DEF RefreshItems, RefreshAsked
  <2> QED
    BY <2>1
<1> QED
  BY <1>1, <1>2, <1>3

LEMMA RefreshAskedKeepsInv ==
  ASSUME RecipeInv, NEW x \in Clients, NEW what, NEW S, RefreshAsked(x, what, S)
  PROVE  RecipeInv'
<1>1. RecipesOK /\ RequestsOK /\ HistoryOK
  BY InvParts
<1>2. RecipesOK'
  BY <1>1, RecipesUnchanged DEF RefreshAsked
<1>3. replaced' \in [Clients -> SUBSET Lists] /\ result' = result
  BY <1>1 DEF RefreshAsked, RequestsOK
<1>4. /\ Request(x, what, S)
      /\ \/ what = "components" /\ S \subseteq Components
         \/ what = "items" /\ S \subseteq Items
         \/ what = "repair" /\ S \subseteq DOMAIN Legacy
  BY DEF RefreshAsked
<1>5. RequestsOK'
  BY <1>1, <1>3, <1>4, RequestIsTyped
<1>6. requests' \in 0..MaxRequests
  BY <1>1, <1>4, OneMoreRequest DEF Request, HistoryOK
<1>7. HistoryOK'
  BY <1>1, <1>6 DEF HistoryOK, RefreshAsked, changes
<1> QED
  BY <1>2, <1>5, <1>7, InvParts

LEMMA ThingsKeepInv ==
  ASSUME RecipeInv,
         \/ \E c \in Components, k \in Costs : SetUnitCost(c, k)
         \/ \E c \in Components, k \in Costs \union {Unknown} : CreateComponent(c, k)
         \/ \E c \in Components : RemoveComponent(c)
         \/ \E m \in Items, k \in Costs \union {Unknown} : BulkCreate(m, k) \/ SetTotalCost(m, k)
         \/ \E m \in Items : RemoveItem(m) \/ ReviveItem(m)
  PROVE  RecipeInv'
<1>1. RecipesOK /\ RequestsOK /\ HistoryOK
  BY InvParts
<1>2. /\ OneRequest
      /\ UNCHANGED <<price, lines, children, parts, at, refresh, blind>>
  BY DEF SetUnitCost, CreateComponent, RemoveComponent, BulkCreate, SetTotalCost, Give,
         RemoveItem, ReviveItem, recipes
<1>3. /\ life' \in [Things -> {"new", "there", "deleted"}]
      /\ \A y \in Things : life[y] # "new" => life'[y] # "new"
  <2>1. life \in [Things -> {"new", "there", "deleted"}]
    BY <1>1 DEF RecipesOK
  <2>2. CASE \E c \in Components, k \in Costs : SetUnitCost(c, k)
    BY <2>1, <2>2 DEF SetUnitCost, recipes
  <2>3. ASSUME NEW c \in Components,
               RemoveComponent(c) \/ \E k \in Costs \union {Unknown} : CreateComponent(c, k)
        PROVE  /\ life' \in [Things -> {"new", "there", "deleted"}]
               /\ \A y \in Things : life[y] # "new" => life'[y] # "new"
    <3>1. life' = [life EXCEPT ![c] = "deleted"] \/ life' = [life EXCEPT ![c] = "there"]
      BY <2>3 DEF RemoveComponent, CreateComponent
    <3> QED
      BY <2>1, <3>1
  <2>4. ASSUME NEW m \in Items,
               \/ \E k \in Costs \union {Unknown} : BulkCreate(m, k)
               \/ RemoveItem(m) \/ ReviveItem(m)
        PROVE  /\ life' \in [Things -> {"new", "there", "deleted"}]
               /\ \A y \in Things : life[y] # "new" => life'[y] # "new"
    <3>1. life' = [life EXCEPT ![m] = "deleted"] \/ life' = [life EXCEPT ![m] = "there"]
      BY <2>4 DEF BulkCreate, RemoveItem, ReviveItem
    <3> QED
      BY <2>1, <3>1
  <2>5. CASE \E m \in Items, k \in Costs \union {Unknown} : SetTotalCost(m, k)
    BY <2>1, <2>5 DEF SetTotalCost
  <2> QED
    BY <2>2, <2>3, <2>4, <2>5
<1>4. cost' \in [Priced -> Nat]
  <2>1. \A k \in Costs \union {Unknown} : k \in Nat
    BY CostsAreNaturals
  <2>2. cost \in [Priced -> Nat]
    BY <1>1 DEF RecipesOK
  <2>3. UNCHANGED cost \/ \E y \in Priced, k \in Costs \union {Unknown} : cost' = [cost EXCEPT ![y] = k]
    BY Sorts DEF SetUnitCost, CreateComponent, RemoveComponent, BulkCreate, SetTotalCost, Give,
                 RemoveItem, ReviveItem
  <2> QED
    BY <2>1, <2>2, <2>3
<1>5. Known'
  BY <1>1, <1>2, <1>3, NeverNewAgain DEF Known
<1>6. RecipesOK'
  BY <1>1, <1>2, <1>3, <1>4, <1>5 DEF RecipesOK
<1>7. RequestsOK'
  BY <1>1, <1>2, RequestsUnchanged
<1>8. stale' \subseteq Priced /\ unseen' \in [Clients -> SUBSET Priced]
  <2>1. ASSUME NEW c \in Components, NEW k \in Costs, SetUnitCost(c, k)
        PROVE  stale' \subseteq Priced /\ unseen' \in [Clients -> SUBSET Priced]
    <3>1. Changed({c}, HoldersOf({c}))
      BY <2>1 DEF SetUnitCost
    <3>2. {c} \in SUBSET Priced /\ HoldersOf({c}) \in SUBSET Priced
      BY AboveAre, Sorts
    <3> QED
      BY <1>1, <3>1, <3>2, ChangedIsTyped
  <2>2. ASSUME NEW c \in Components,
               RemoveComponent(c) \/ \E k \in Costs \union {Unknown} : CreateComponent(c, k)
        PROVE  stale' \subseteq Priced /\ unseen' \in [Clients -> SUBSET Priced]
    <3>1. Changed({}, Above({c}) \union HoldersOf({c}))
      BY <2>2 DEF RemoveComponent, CreateComponent
    <3>2. {} \in SUBSET Priced /\ Above({c}) \union HoldersOf({c}) \in SUBSET Priced
      BY AboveAre, Sorts
    <3> QED
      BY <1>1, <3>1, <3>2, ChangedIsTyped
  <2>3. CASE \E m \in Items : RemoveItem(m) \/ ReviveItem(m)
    BY <1>1, <2>3 DEF RemoveItem, ReviveItem, changes, HistoryOK
  <2>4. ASSUME NEW m \in Items, NEW k \in Costs \union {Unknown}, BulkCreate(m, k) \/ SetTotalCost(m, k)
        PROVE  stale' \subseteq Priced /\ unseen' \in [Clients -> SUBSET Priced]
    <3> DEFINE own == IF k = cost[m] THEN {} ELSE {m}
    <3>1. Changed(own, {})
      BY <2>4 DEF BulkCreate, SetTotalCost, Give
    <3>2. own \in SUBSET Priced /\ {} \in SUBSET Priced
      BY Sorts
    <3> HIDE DEF own
    <3> QED
      BY <1>1, <3>1, <3>2, ChangedIsTyped
  <2> QED
    BY <2>1, <2>2, <2>3, <2>4
<1>9. HistoryOK'
  BY <1>1, <1>2, <1>8, OneMoreRequest DEF HistoryOK
<1> QED
  BY <1>6, <1>7, <1>9, InvParts

-----------------------------------------------------------------------------
(* The steps of refreshCosts. *)

\* Nothing that is stored changes, and only x moves.
OnlyReads(x) ==
    /\ UNCHANGED <<recipes, cost, requests, stale, blind>>
    /\ Others(x)
    /\ \A z \in Clients : z # x => unseen'[z] = unseen[z] /\ replaced'[z] = replaced[z]

LEMMA ReadsKeepInv ==
  ASSUME RecipeInv, NEW x \in Clients, OnlyReads(x), RequestsOK',
         unseen' \in [Clients -> SUBSET Priced]
  PROVE  RecipeInv'
<1>1. RecipesOK /\ RequestsOK /\ HistoryOK
  BY InvParts
<1>2. RecipesOK'
  BY <1>1, RecipesUnchanged DEF OnlyReads
<1>3. HistoryOK'
  BY <1>1 DEF HistoryOK, OnlyReads
<1> QED
  BY <1>2, <1>3, InvParts

LEMMA EndKeepsInv ==
  ASSUME RecipeInv, NEW x \in Clients, End(x),
         UNCHANGED <<recipes, cost, requests, stale, blind>>
  PROVE  RecipeInv' /\ OnlyReads(x) /\ at'[x] = "idle"
<1>1. RecipesOK /\ RequestsOK /\ HistoryOK
  BY InvParts
<1>2. RequestsOK' /\ Others(x) /\ at'[x] = "idle"
  BY <1>1, EndIsTyped
<1>3. /\ unseen' = [unseen EXCEPT ![x] = {}]
      /\ replaced' = [replaced EXCEPT ![x] = {}]
  BY DEF End
<1>4. /\ unseen' \in [Clients -> SUBSET Priced]
      /\ \A z \in Clients : z # x => unseen'[z] = unseen[z] /\ replaced'[z] = replaced[z]
  BY <1>1, <1>3 DEF HistoryOK, RequestsOK
<1>5. OnlyReads(x)
  BY <1>2, <1>4 DEF OnlyReads
<1> QED
  BY <1>2, <1>4, <1>5, ReadsKeepInv

LEMMA ReadLinesKeepsInv ==
  ASSUME RecipeInv, NEW x \in Clients, ReadLines(x)
  PROVE  RecipeInv' /\ OnlyReads(x)
<1>1. RecipesOK /\ RequestsOK /\ HistoryOK /\ RecipeTypeOK
  BY InvParts DEF RecipeInv
<1> DEFINE found == There(DOMAIN todo[x])
<1> DEFINE read(y) == IF kind[x] = "items" THEN [total |-> Total(y), had |-> ItemLines(y)]
                      ELSE [kept |-> lines[y], had |-> ComponentLines(y)]
<1>2. /\ at[x] = "read" /\ kind[x] # "repair"
      /\ todo' = [todo EXCEPT ![x] = [y \in found |-> read(y)]]
      /\ unseen' = [unseen EXCEPT ![x] = @ \ (IF kind[x] = "items" THEN found ELSE {})]
      /\ at' = [at EXCEPT ![x] = "next"]
      /\ UNCHANGED <<recipes, cost, kind, result, replaced, requests, stale, blind>>
  BY DEF ReadLines, StepTo
<1>3. /\ DOMAIN todo'[x] = found /\ \A y \in found : todo'[x][y] = read(y)
      /\ at'[x] = "next"
  <2> HIDE DEF found, read
  <2> QED
    BY <1>1, <1>2 DEF RequestsOK
<1>4. Others(x)
  BY <1>1, <1>2 DEF Others, RequestsOK
<1>5. found \subseteq DOMAIN todo[x]
  BY DEF There
<1>6. kind[x] \in {"components", "items"}
  BY <1>1, <1>2 DEF RequestsOK
<1>7. Shape(x)'
  <2>1. kind[x] = "components" => found \subseteq Components
    BY <1>1, <1>5 DEF RequestsOK, Shape
  <2>2. kind[x] = "items" => found \subseteq Items
    BY <1>1, <1>5 DEF RequestsOK, Shape
  <2>3. \A m \in Items : Total(m) \in Nat
    BY <1>1, TotalIsNatural
  <2>4. \A c \in Components : lines[c] \in LineCosts
    BY <1>1 DEF RecipesOK
  <2>8. \A y : /\ kind[x] = "components" => read(y).kept = lines[y]
               /\ kind[x] = "items" => read(y).total = Total(y)
    OBVIOUS
  <2>5. kind[x] = "components" => \A c \in found : todo'[x][c].kept \in LineCosts
    <3> HIDE DEF found, read
    <3> QED
      BY <1>3, <2>1, <2>4, <2>8
  <2>6. kind[x] = "items" => \A m \in found : todo'[x][m].total \in Nat
    <3> HIDE DEF found, read
    <3> QED
      BY <1>3, <2>2, <2>3, <2>8
  <2>7. kind'[x] = kind[x]
    BY <1>2
  <2> HIDE DEF found, read
  <2> QED
    BY <1>3, <1>6, <2>1, <2>2, <2>5, <2>6, <2>7 DEF Shape
<1>8. RequestsOK'
  <2>1. at' = [at EXCEPT ![x] = at'[x]] /\ kind' = [kind EXCEPT ![x] = kind'[x]]
    BY <1>1, <1>2, <1>3 DEF RequestsOK
  <2>2. replaced' \in [Clients -> SUBSET Lists]
    BY <1>1, <1>2 DEF RequestsOK
  <2>3. DOMAIN todo'[x] \subseteq Priced
    BY <1>1, <1>3, <1>5 DEF RequestsOK
  <2>4. kind'[x] \in {"components", "items"}
    BY <1>2, <1>6
  <2> QED
    BY <1>1, <1>3, <1>4, <1>7, <2>1, <2>2, <2>3, <2>4, OneMoves
<1>9. unseen' \in [Clients -> SUBSET Priced]
  BY <1>1, <1>2 DEF HistoryOK
<1>10. OnlyReads(x)
  BY <1>1, <1>2, <1>4 DEF OnlyReads, HistoryOK
<1> QED
  BY <1>8, <1>9, <1>10, ReadsKeepInv

LEMMA ComputeKeepsInv ==
  ASSUME RecipeInv, NEW x \in Clients, NEW c \in Components, Compute(x, c), ~End(x)
  PROVE  /\ RecipeInv' /\ OnlyReads(x)
         /\ at'[x] = "write" /\ result'[x].id = c /\ result'[x].cost = UnitCost(c)
         /\ kind'[x] = "components"
<1>1. RecipesOK /\ RequestsOK /\ HistoryOK /\ RecipeTypeOK
  BY InvParts DEF RecipeInv
<1> DEFINE kept == todo[x][c].kept
<1> DEFINE had == todo[x][c].had
<1> DEFINE own == [i \in DOMAIN kept |-> LineCost(kept, i)]
<1> DEFINE computed == [id |-> c, own |-> own, cost |-> UnitCost(c), had |-> had]
<1>2. /\ at[x] = "next" /\ kind[x] = "components" /\ c \in DOMAIN todo[x]
      /\ ~Throws(c, own)
      /\ result' = [result EXCEPT ![x] = computed]
      /\ replaced' = [replaced EXCEPT ![x] = {l \in @ : l[1] = c => l[2] \in had}]
      /\ unseen' = [unseen EXCEPT ![x] = @ \ {c}]
      /\ todo' = [todo EXCEPT ![x] = [d \in DOMAIN @ \ {c} |-> @[d]]]
      /\ at' = [at EXCEPT ![x] = "write"]
      /\ UNCHANGED kind
      /\ UNCHANGED <<recipes, cost, requests, stale, blind>>
  BY DEF Compute, StepTo
<1>3. UnitCost(c) \in Nat
  <2>1. UnitCost(c) # Fail
    BY <1>2 DEF Throws
  <2> QED
    BY <1>1, <2>1, UnitCostIs
<1>4. kept \in LineCosts
  BY <1>1, <1>2 DEF RequestsOK, Shape
<1>5. own \in LineCosts
  <2> HIDE DEF kept
  <2>1. \A i \in DOMAIN kept : LineCost(kept, i) \in Costs \union {Unknown, Fail}
    BY <1>1, <1>4, LineCostIs
  <2>2. \A i \in DOMAIN kept : LineCost(kept, i) # Fail
    BY <1>2 DEF Throws
  <2>3. DOMAIN own = DOMAIN kept /\ DOMAIN kept \subseteq Ingredients
    BY <1>4, LineCostsAre
  <2>4. \A i \in DOMAIN own : own[i] \in Costs \union {Unknown}
    BY <2>1, <2>2
  <2>5. own = [i \in DOMAIN own |-> own[i]]
    OBVIOUS
  <2> HIDE DEF own
  <2> QED
    BY <2>3, <2>4, <2>5, LineCostsAre
<1>6. /\ result'[x] = computed /\ at'[x] = "write" /\ kind'[x] = "components"
      /\ DOMAIN todo'[x] = DOMAIN todo[x] \ {c}
      /\ \A d \in DOMAIN todo[x] : d # c => todo'[x][d] = todo[x][d]
  <2> HIDE DEF computed
  <2> QED
    BY <1>1, <1>2 DEF RequestsOK
<1>7. computed.id = c /\ computed.cost = UnitCost(c) /\ computed.own = own
  OBVIOUS
<1>8. Others(x)
  <2> HIDE DEF computed
  <2> QED
    BY <1>1, <1>2 DEF Others, RequestsOK
<1>9. Shape(x)'
  <2>1. DOMAIN todo[x] \subseteq Components /\ \A d \in DOMAIN todo[x] : todo[x][d].kept \in LineCosts
    BY <1>1, <1>2 DEF RequestsOK, Shape
  <2> HIDE DEF computed, own
  <2> QED
    BY <1>3, <1>5, <1>6, <1>7, <2>1 DEF Shape
<1>10. RequestsOK'
  <2> HIDE DEF had
  <2>1. at' = [at EXCEPT ![x] = at'[x]] /\ kind' = [kind EXCEPT ![x] = kind'[x]]
    BY <1>1, <1>2, <1>6 DEF RequestsOK
  <2>2. replaced' \in [Clients -> SUBSET Lists]
    BY <1>1, <1>2 DEF RequestsOK
  <2>3. DOMAIN todo'[x] \subseteq Priced
    BY <1>1, <1>6 DEF RequestsOK
  <2> QED
    BY <1>1, <1>6, <1>8, <1>9, <2>1, <2>2, <2>3, OneMoves
<1>11. unseen' \in [Clients -> SUBSET Priced]
  BY <1>1, <1>2 DEF HistoryOK
<1>12. OnlyReads(x)
  <2> HIDE DEF had
  <2> QED
    BY <1>1, <1>2, <1>8 DEF OnlyReads, HistoryOK, RequestsOK
<1> HIDE DEF computed
<1> QED
  BY <1>6, <1>7, <1>10, <1>11, <1>12, ReadsKeepInv

LEMMA TakeKeepsInv ==
  ASSUME RecipeInv, NEW x \in Clients, NEW m \in Items, Take(x, m)
  PROVE  /\ RecipeInv' /\ OnlyReads(x)
         /\ at'[x] = "write" /\ result'[x].id = m /\ result'[x].cost = todo[x][m].total
         /\ kind'[x] = "items"
         /\ DOMAIN todo'[x] = DOMAIN todo[x] \ {m}
         /\ \A n \in DOMAIN todo[x] : n # m => todo'[x][n] = todo[x][n]
         /\ unseen'[x] = unseen[x] /\ replaced'[x] = replaced[x]
<1>1. RecipesOK /\ RequestsOK /\ HistoryOK
  BY InvParts
<1> DEFINE had == todo[x][m].had
<1> DEFINE taken == [id |-> m, own |-> <<>>, cost |-> todo[x][m].total, had |-> had]
<1>2. /\ at[x] = "next" /\ kind[x] = "items" /\ m \in DOMAIN todo[x]
      /\ result' = [result EXCEPT ![x] = taken]
      /\ todo' = [todo EXCEPT ![x] = [n \in DOMAIN @ \ {m} |-> @[n]]]
      /\ at' = [at EXCEPT ![x] = "write"]
      /\ UNCHANGED <<recipes, cost, kind, replaced, requests, changes, blind>>
  BY DEF Take, StepTo
<1>3. /\ result'[x] = taken /\ at'[x] = "write" /\ kind'[x] = "items"
      /\ DOMAIN todo'[x] = DOMAIN todo[x] \ {m}
      /\ \A d \in DOMAIN todo[x] : d # m => todo'[x][d] = todo[x][d]
  <2> HIDE DEF taken
  <2> QED
    BY <1>1, <1>2 DEF RequestsOK
<1>4. taken.id = m /\ taken.cost = todo[x][m].total
  OBVIOUS
<1>5. Others(x)
  <2> HIDE DEF taken
  <2> QED
    BY <1>1, <1>2 DEF Others, RequestsOK
<1>6. Shape(x)'
  <2>1. DOMAIN todo[x] \subseteq Items /\ \A d \in DOMAIN todo[x] : todo[x][d].total \in Nat
    BY <1>1, <1>2 DEF RequestsOK, Shape
  <2> HIDE DEF taken
  <2> QED
    BY <1>2, <1>3, <1>4, <2>1 DEF Shape
<1>7. RequestsOK'
  <2>1. at' = [at EXCEPT ![x] = at'[x]] /\ kind' = [kind EXCEPT ![x] = kind'[x]]
    BY <1>1, <1>2, <1>3 DEF RequestsOK
  <2>2. replaced' \in [Clients -> SUBSET Lists]
    BY <1>1, <1>2 DEF RequestsOK
  <2>3. DOMAIN todo'[x] \subseteq Priced
    BY <1>1, <1>3 DEF RequestsOK
  <2> QED
    BY <1>1, <1>3, <1>5, <1>6, <2>1, <2>2, <2>3, OneMoves
<1>8. stale' = stale /\ unseen' = unseen
  BY <1>2 DEF changes
<1>9. unseen' \in [Clients -> SUBSET Priced]
  BY <1>1, <1>8 DEF HistoryOK
<1>10. OnlyReads(x)
  BY <1>2, <1>5, <1>8 DEF OnlyReads
<1> HIDE DEF taken
<1> QED
  BY <1>2, <1>3, <1>4, <1>7, <1>8, <1>9, <1>10, ReadsKeepInv

LEMMA RepairKeepsInv ==
  ASSUME RecipeInv, NEW x \in Clients, NEW c \in Components, Repair(x, c)
  PROVE  RecipeInv' /\ Others(x) /\ at'[x] = "read"
<1>1. RecipesOK /\ RequestsOK /\ HistoryOK
  BY InvParts
<1>2. /\ at[x] = "read" /\ kind[x] = "repair" /\ c \in DOMAIN todo[x]
      /\ cost' = [cost EXCEPT ![c] = Legacy[c]]
      /\ Changed({c}, HoldersOf({c}))
      /\ todo' = [todo EXCEPT ![x] = [d \in DOMAIN @ \ {c} |-> @[d]]]
      /\ UNCHANGED <<at, kind, result, replaced, requests, blind>>
      /\ UNCHANGED <<life, price, lines, children, parts>>
  BY DEF Repair, recipes
<1>3. DOMAIN todo[x] \subseteq DOMAIN Legacy
  BY <1>1, <1>2 DEF RequestsOK, Shape
<1>4. Legacy[c] \in Nat
  <2>1. \A d \in DOMAIN Legacy : Legacy[d] \in Nat
    BY RecipeCostsAssumption
  <2> QED
    BY <1>2, <1>3, <2>1
<1>5. RecipesOK'
  BY <1>1, <1>2, <1>4 DEF RecipesOK, Known
<1>6. DOMAIN todo'[x] = DOMAIN todo[x] \ {c}
  BY <1>1, <1>2 DEF RequestsOK
<1>7. Others(x)
  BY <1>1, <1>2 DEF Others, RequestsOK
<1>8. Shape(x)'
  BY <1>2, <1>3, <1>6 DEF Shape
<1>9. RequestsOK'
  <2>1. at' = [at EXCEPT ![x] = at'[x]] /\ kind' = [kind EXCEPT ![x] = kind'[x]]
    BY <1>1, <1>2 DEF RequestsOK
  <2>2. replaced' \in [Clients -> SUBSET Lists]
    BY <1>1, <1>2 DEF RequestsOK
  <2>3. DOMAIN todo'[x] \subseteq Priced
    BY <1>1, <1>6 DEF RequestsOK
  <2>4. at'[x] = "read" /\ kind'[x] = "repair"
    BY <1>2
  <2> QED
    BY <1>1, <1>7, <1>8, <2>1, <2>2, <2>3, <2>4, OneMoves
<1>10. stale' \subseteq Priced /\ unseen' \in [Clients -> SUBSET Priced]
  <2>1. {c} \in SUBSET Priced /\ HoldersOf({c}) \in SUBSET Priced
    BY AboveAre, Sorts
  <2> QED
    BY <1>1, <1>2, <2>1, ChangedIsTyped
<1>11. HistoryOK'
  BY <1>1, <1>2, <1>10 DEF HistoryOK
<1> QED
  BY <1>2, <1>5, <1>7, <1>9, <1>11, InvParts

\* What Write leaves of the lines of y, and the costs that depend on them.
After(x, y) == IF y \in Components THEN Rewritten(y, result[x].own) ELSE <<>>
Moved(x, y) == y \in Components /\ \E i \in DOMAIN After(x, y) : After(x, y)[i] # LineCost(lines[y], i)
Upset(x, y) == (IF Moved(x, y) THEN Above({y}) ELSE {})
               \union (IF cost[y] = result[x].cost THEN {} ELSE HoldersOf({y}))

LEMMA WriteIs ==
  ASSUME NEW x \in Clients, Write(x), NEW y, y = result[x].id
  PROVE  /\ at[x] = "write" /\ LinesThere(x)
         /\ cost' = [cost EXCEPT ![y] = result[x].cost]
         /\ lines' = IF y \in Components THEN [lines EXCEPT ![y] = After(x, y)] ELSE lines
         /\ stale' = (IF y \in unseen[x] THEN stale \union {y} ELSE stale \ {y}) \union Upset(x, y)
         /\ unseen' = [z \in Clients |-> (unseen[z] \union (Upset(x, y) \intersect Held(z)))
                                          \ (IF z = x THEN {y} ELSE {})]
         /\ blind' = (blind \ {y}) \union (IF ReplacedKinds(x) \subseteq result[x].had THEN {} ELSE {y})
         /\ replaced' = [replaced EXCEPT ![x] = {l \in @ : l[1] # y}]
         /\ result' = [result EXCEPT ![x] = NoResult]
         /\ at' = [at EXCEPT ![x] = "next"]
         /\ UNCHANGED <<life, price, children, parts, kind, todo, requests>>
BY DEF Write, StepTo, After, Moved, Upset

LEMMA AfterIs ==
  ASSUME RecipeInv, NEW x \in Clients, at[x] = "write", result[x].id \in Components
  PROVE  /\ After(x, result[x].id) \in LineCosts
         /\ DOMAIN After(x, result[x].id) = DOMAIN lines[result[x].id]
         /\ result[x].id \in Components => kind[x] = "components"
<1> DEFINE c == result[x].id
<1> DEFINE own == result[x].own
<1>1. RecipesOK /\ RequestsOK
  BY InvParts
<1>2. kind[x] = "components"
  <2>1. Shape(x) /\ kind[x] \in {"none", "components", "items", "repair"}
    BY <1>1 DEF RequestsOK
  <2> QED
    BY <2>1, Sorts DEF Shape
<1>3. own \in LineCosts
  BY <1>1, <1>2 DEF RequestsOK, Shape
<1>4. lines[c] \in LineCosts
  BY <1>1 DEF RecipesOK
<1> DEFINE after == [i \in DOMAIN lines[c] |-> IF i \in DOMAIN own THEN own[i] ELSE lines[c][i]]
<1>5. After(x, c) = after
  BY DEF After, Rewritten
<1>6. after \in LineCosts
  <2> HIDE DEF c, own
  <2>1. DOMAIN after = DOMAIN lines[c] /\ DOMAIN lines[c] \subseteq Ingredients
    BY <1>4, LineCostsAre
  <2>2. \A i \in DOMAIN after : after[i] \in Costs \union {Unknown}
    BY <1>3, <1>4, LineCostsAre
  <2>3. after = [i \in DOMAIN after |-> after[i]]
    OBVIOUS
  <2> HIDE DEF after
  <2> QED
    BY <2>1, <2>2, <2>3, LineCostsAre
<1>7. DOMAIN after = DOMAIN lines[c]
  OBVIOUS
<1> HIDE DEF after
<1> QED
  BY <1>2, <1>5, <1>6, <1>7

LEMMA WriteKeepsInv ==
  ASSUME RecipeInv, NEW x \in Clients, Write(x)
  PROVE  RecipeInv' /\ Others(x) /\ at'[x] = "next"
<1> DEFINE y == result[x].id
<1>1. RecipesOK /\ RequestsOK /\ HistoryOK
  BY InvParts
<1>2. at[x] = "write"
  BY WriteIs
<1>3. y \in Priced /\ (y \in Components \/ y \in Items)
  BY <1>1, <1>2, Sorts DEF RequestsOK, Shape
<1>4. cost' \in [Priced -> Nat]
  <2>1. result[x].cost \in Nat
    BY <1>1, <1>2 DEF RequestsOK, Shape
  <2>2. cost' = [cost EXCEPT ![y] = result[x].cost]
    BY WriteIs
  <2> QED
    BY <1>1, <2>1, <2>2 DEF RecipesOK
<1>5. /\ lines' \in [Components -> LineCosts]
      /\ \A c \in Components : DOMAIN lines'[c] = DOMAIN lines[c]
  <2>1. lines' = IF y \in Components THEN [lines EXCEPT ![y] = After(x, y)] ELSE lines
    BY WriteIs
  <2>2. y \in Components => After(x, y) \in LineCosts /\ DOMAIN After(x, y) = DOMAIN lines[y]
    BY <1>2, AfterIs
  <2>3. lines \in [Components -> LineCosts]
    BY <1>1 DEF RecipesOK
  <2> HIDE DEF y
  <2> QED
    BY <2>1, <2>2, <2>3
<1>6. UNCHANGED <<life, price, children, parts, kind, todo, requests>>
  BY WriteIs
<1>7. RecipesOK'
  <2>1. Known'
    BY <1>1, <1>5, <1>6 DEF RecipesOK, Known
  <2> QED
    BY <1>1, <1>4, <1>5, <1>6, <2>1 DEF RecipesOK
<1>8. at' = [at EXCEPT ![x] = "next"] /\ result' = [result EXCEPT ![x] = NoResult]
  BY WriteIs
<1>9. at'[x] = "next"
  BY <1>1, <1>8 DEF RequestsOK
<1>10. Others(x)
  BY <1>1, <1>6, <1>8 DEF Others, RequestsOK
<1>11. Shape(x)'
  <2>1. Shape(x)
    BY <1>1 DEF RequestsOK
  <2> QED
    BY <1>2, <1>6, <1>9, <2>1 DEF Shape
<1>12. kind[x] # "none" /\ kind[x] \in {"none", "components", "items", "repair"}
  BY <1>1, <1>2 DEF RequestsOK
<1>13. replaced' \in [Clients -> SUBSET Lists]
  <2>1. replaced' = [replaced EXCEPT ![x] = {l \in @ : l[1] # y}]
    BY WriteIs
  <2> HIDE DEF y
  <2> QED
    BY <1>1, <2>1 DEF RequestsOK
<1>14. RequestsOK'
  <2>1. at' = [at EXCEPT ![x] = at'[x]] /\ kind' = [kind EXCEPT ![x] = kind'[x]]
    BY <1>1, <1>6, <1>8, <1>9 DEF RequestsOK
  <2>2. DOMAIN todo'[x] \subseteq Priced
    BY <1>1, <1>6 DEF RequestsOK
  <2>3. kind'[x] = kind[x]
    BY <1>6
  <2> QED
    BY <1>1, <1>9, <1>10, <1>11, <1>12, <1>13, <2>1, <2>2, <2>3, OneMoves
<1>15. Upset(x, y) \subseteq Priced
  <2>1. y \in Components => {y} \subseteq Components
    OBVIOUS
  <2> HIDE DEF y
  <2> QED
    BY <2>1, AboveAre, Sorts DEF Upset, Moved
<1>16. HistoryOK'
  <2>1. stale' = (IF y \in unseen[x] THEN stale \union {y} ELSE stale \ {y}) \union Upset(x, y)
    BY WriteIs
  <2>2. unseen' = [z \in Clients |-> (unseen[z] \union (Upset(x, y) \intersect Held(z)))
                                      \ (IF z = x THEN {y} ELSE {})]
    BY WriteIs
  <2>3. blind' = (blind \ {y}) \union (IF ReplacedKinds(x) \subseteq result[x].had THEN {} ELSE {y})
    BY WriteIs
  <2> HIDE DEF y
  <2>4. stale' \subseteq Priced
    BY <1>1, <1>3, <1>15, <2>1 DEF HistoryOK
  <2>5. unseen' \in [Clients -> SUBSET Priced]
    BY <1>1, <1>15, <2>2 DEF HistoryOK
  <2>6. blind' \subseteq Priced
    BY <1>1, <1>3, <2>3 DEF HistoryOK
  <2> QED
    BY <1>1, <1>6, <2>4, <2>5, <2>6 DEF HistoryOK
<1> QED
  BY <1>7, <1>9, <1>10, <1>14, <1>16, InvParts

-----------------------------------------------------------------------------
(* Types hold from the first state on. *)

LEMMA InitHasInv ==
  ASSUME RecipeInit
  PROVE  RecipeInv
<1>1. PICK k \in Catalogues :
          /\ life = [x \in Things |-> IF x \in k.there THEN "there" ELSE "new"]
          /\ price = k.price
          /\ lines = [c \in Components |-> [i \in k.parts[c] \intersect Ingredients |-> k.price[i]]]
          /\ children = [c \in Components |-> k.parts[c] \intersect Components]
          /\ parts = [m \in Items |-> k.parts[m]]
          /\ cost = k.cost
  BY DEF RecipeInit
<1>2. /\ k.price \in [Ingredients -> Costs \union {Unknown}]
      /\ k.parts \in [Priced -> SUBSET (k.there \ Items)]
      /\ k.there \subseteq Things
      /\ k.cost \in [Priced -> Nat]
  BY RecipeCostsAssumption DEF Priced, Things, Unknown
<1>3. \A y \in Priced : k.parts[y] \subseteq Ingredients \union Components /\ k.parts[y] \subseteq k.there
  BY <1>2 DEF Things
<1>4. life \in [Things -> {"new", "there", "deleted"}]
  BY <1>1
<1>5. \A p \in k.there : life[p] = "there"
  BY <1>1, <1>2
<1>6. ASSUME NEW c \in Components
      PROVE  /\ lines[c] \in LineCosts
             /\ DOMAIN lines[c] \subseteq k.there
  <2> DEFINE I == k.parts[c] \intersect Ingredients
  <2>1. lines[c] = [i \in I |-> k.price[i]]
    BY <1>1
  <2>2. I \in SUBSET Ingredients
    OBVIOUS
  <2>3. lines[c] \in [I -> Costs \union {Unknown}]
    BY <1>2, <2>1
  <2>4. I \subseteq k.there
    BY <1>3, Sorts
  <2> HIDE DEF I
  <2> QED
    BY <2>1, <2>2, <2>3, <2>4 DEF LineCosts
<1>7. lines \in [Components -> LineCosts]
  <2>1. lines = [c \in Components |-> lines[c]]
    BY <1>1
  <2> QED
    BY <1>6, <2>1
<1>8. /\ children \in [Components -> SUBSET Components]
      /\ \A c \in Components : children[c] \subseteq k.there
  BY <1>1, <1>3, Sorts
<1>9. /\ parts \in [Items -> SUBSET (Ingredients \union Components)]
      /\ \A m \in Items : parts[m] \subseteq k.there
  BY <1>1, <1>3, Sorts
<1>10. Known
  BY <1>5, <1>6, <1>8, <1>9 DEF Known
<1>11. RecipesOK
  BY <1>1, <1>2, <1>4, <1>7, <1>8, <1>9, <1>10 DEF RecipesOK
<1>12. /\ at = [x \in Clients |-> "idle"] /\ kind = [x \in Clients |-> "none"]
       /\ todo = [x \in Clients |-> <<>>] /\ result = [x \in Clients |-> NoResult]
       /\ replaced = [x \in Clients |-> {}] /\ requests = 0
       /\ stale = {} /\ unseen = [x \in Clients |-> {}] /\ blind = {}
  BY DEF RecipeInit
<1>13. RequestsOK
  BY <1>12 DEF RequestsOK, Shape
<1>14. HistoryOK
  <2>1. MaxRequests \in Nat
    BY RecipeCostsAssumption
  <2> QED
    BY <1>12, <2>1 DEF HistoryOK
<1> QED
  BY <1>11, <1>13, <1>14 DEF RecipeInv, RecipeTypeOK, RecipesOK, RequestsOK, HistoryOK

LEMMA NextKeepsInv ==
  ASSUME RecipeInv, [RecipeNext]_recipeVars
  PROVE  RecipeInv'
<1>0. RecipesOK
  BY InvParts
<1>1. ASSUME NEW x \in Clients, Ask(x)
      PROVE  RecipeInv'
  <2>1. ASSUME NEW c \in Components, NEW S \in SUBSET Ingredients, NEW D \in SUBSET Components,
               \/ \E k \in Costs \union {cost[c]} : SaveComponent(x, c, S, D, k)
               \/ ReplaceComponentIngredients(x, c, S)
               \/ ReplaceChildren(x, c, D)
        PROVE  RecipeInv'
    BY <1>0, <2>1, ComponentRequests, ComponentSavedKeepsInv
  <2>2. ASSUME NEW m \in Items,
               \/ \E P \in SUBSET (Ingredients \union Components), k \in Costs \union {cost[m]} :
                      SaveItem(x, m, P, k)
               \/ \E P \in SUBSET Ingredients : ReplaceParts(x, m, "ingredients", P)
               \/ \E P \in SUBSET Components : ReplaceParts(x, m, "components", P)
        PROVE  RecipeInv'
    BY <1>0, <2>2, ItemRequests, ItemSavedKeepsInv
  <2>3. ASSUME RefreshComponents(x) \/ RepairComponents(x)
               \/ \E S \in SUBSET Items : RefreshItems(x, S)
        PROVE  RecipeInv'
    BY <2>3, RefreshRequests, RefreshAskedKeepsInv
  <2> QED
    BY <1>1, <2>1, <2>2, <2>3 DEF Ask
<1>2. ASSUME NEW x \in Clients, Work(x)
      PROVE  RecipeInv'
  <2>1. CASE ReadLines(x)
    BY <2>1, ReadLinesKeepsInv
  <2>2. ASSUME NEW c \in Components, Compute(x, c)
        PROVE  RecipeInv'
    <3>1. CASE End(x)
      BY <2>2, <3>1, EndKeepsInv DEF Compute
    <3> QED
      BY <2>2, <3>1, ComputeKeepsInv
  <2>3. ASSUME NEW m \in Items, Take(x, m)
        PROVE  RecipeInv'
    BY <2>3, TakeKeepsInv
  <2>4. CASE Write(x)
    BY <2>4, WriteKeepsInv
  <2>5. CASE WriteThrows(x) \/ Done(x) \/ RepairDone(x)
    BY <2>5, EndKeepsInv DEF WriteThrows, Done, RepairDone
  <2>6. ASSUME NEW c \in Components, Repair(x, c)
        PROVE  RecipeInv'
    BY <2>6, RepairKeepsInv
  <2> QED
    BY <1>2, <2>1, <2>2, <2>3, <2>4, <2>5, <2>6 DEF Work
<1>3. ASSUME NEW i \in Ingredients,
             \/ \E k \in Costs : CreateIngredient(i, k) \/ UpdateIngredient(i, k)
             \/ RemoveIngredient(i)
      PROVE  RecipeInv'
  BY <1>3, IngredientsKeepInv
<1>4. CASE \/ \E c \in Components, k \in Costs : SetUnitCost(c, k)
           \/ \E c \in Components, k \in Costs \union {Unknown} : CreateComponent(c, k)
           \/ \E c \in Components : RemoveComponent(c)
           \/ \E m \in Items, k \in Costs \union {Unknown} : BulkCreate(m, k) \/ SetTotalCost(m, k)
           \/ \E m \in Items : RemoveItem(m) \/ ReviveItem(m)
  BY <1>4, ThingsKeepInv
<1>5. CASE UNCHANGED recipeVars
  <2>1. UNCHANGED <<recipes, cost>> /\ UNCHANGED <<at, refresh>>
    BY <1>5 DEF recipeVars
  <2>2. UNCHANGED <<requests, stale, unseen, blind>>
    BY <1>5 DEF recipeVars, changes
  <2>3. RecipesOK'
    BY <1>0, <2>1, RecipesUnchanged
  <2>4. RequestsOK'
    BY <2>1, InvParts, RequestsUnchanged
  <2>5. HistoryOK'
    BY <2>2, InvParts DEF HistoryOK
  <2> QED
    BY <2>3, <2>4, <2>5, InvParts
<1> QED
  BY <1>1, <1>2, <1>3, <1>4, <1>5 DEF RecipeNext

\* Recipes, stored costs and what requests have read of them keep their types.
\* The whole of MenuComponentsService and MenuItemsService modelled here
THEOREM RecipeTypeCorrect == RecipeSpec => []RecipeTypeOK
<1>1. RecipeInit => RecipeInv
  BY InitHasInv
<1>2. RecipeInv /\ [RecipeNext]_recipeVars => RecipeInv'
  BY NextKeepsInv
<1>3. RecipeInv => RecipeTypeOK
  BY DEF RecipeInv
<1> QED
  BY <1>1, <1>2, <1>3, PTL DEF RecipeSpec

-----------------------------------------------------------------------------
(* A change leaves current what it does not mark. *)

LEMMA CostsKept ==
  ASSUME UNCHANGED <<recipes, cost>>
  PROVE  \A y : CostOf(y)' = CostOf(y)
<1> SUFFICES ASSUME NEW y
             PROVE  CostOf(y)' = CostOf(y)
  OBVIOUS
<1>1. UNCHANGED <<life, price, lines, children, parts, cost>>
  BY DEF recipes
<1>2. Total(y)' = Total(y)
  BY <1>1, TotalKept
<1>3. Below(y)' = Below(y)
  BY <1>1 DEF Below
<1>4. \A d : Row(d)' = Row(d)
  BY <1>1 DEF Row, LineCost
<1> DEFINE r == [d \in Below(y) |-> Row(d)]
<1>5. r' = r
  BY <1>3, <1>4
<1>6. UnitCost(y) = UnitOf(r, y) /\ UnitCost(y)' = UnitOf(r', y)
  BY DEF UnitCost
<1>7. UnitCost(y)' = UnitCost(y)
  BY <1>5, <1>6
<1> QED
  BY <1>2, <1>7 DEF CostOf

\* What is held of y is that of lines which are gone.
Gone(x, y) == \E l \in replaced'[x] : l[1] = y

\* Costs of own move by their lines, those of S by what they depend on.
Marked(own, S) ==
    /\ Changed(own, S)
    /\ blind' = blind
    /\ \A y \in Priced : \/ y \in S
                         \/ CostOf(y)' = CostOf(y)
                         \/ y \in own /\ \A x \in Clients : y \in Held(x) => Gone(x, y)
    /\ \A y \in Priced : y \notin own /\ y \notin S => cost'[y] = cost[y]
    /\ \A c \in Components : c \notin own /\ c \notin S => (life'[c] = "there" => life[c] = "there")
    /\ \A x \in Clients : \A l \in replaced[x] : l \in replaced'[x]

LEMMA MarkedKeepsCurrent ==
  ASSUME RecipeInv, Current, NEW own, NEW S, Marked(own, S),
         \A x \in Clients :
             \/ at'[x] \in {"idle", "read"}
             \/ /\ at'[x] = at[x] /\ kind'[x] = kind[x]
                /\ todo'[x] = todo[x] /\ result'[x] = result[x]
  PROVE  Current'
<1>1. RequestsOK /\ HistoryOK /\ RecipesOK
  BY InvParts
<1>2. /\ stale' = stale \union own \union S
      /\ unseen' = [x \in Clients |-> unseen[x] \union (S \intersect Held(x))]
      /\ blind' = blind
  BY DEF Marked, Changed
<1>3. ASSUME NEW y \in Priced, y \notin own, y \notin S
      PROVE  CostOf(y)' = CostOf(y) /\ cost'[y] = cost[y]
  BY <1>3 DEF Marked
<1>4. StoredCurrent'
  <2>1. ASSUME NEW c \in Components, life'[c] = "there", c \notin stale', c \notin blind'
        PROVE  cost'[c] = CostOf(c)'
    <3>1. c \notin own /\ c \notin S /\ c \notin stale /\ c \notin blind /\ c \in Priced
      BY <1>2, <2>1, Sorts
    <3>2. life[c] = "there"
      BY <2>1, <3>1 DEF Marked
    <3>3. cost[c] = CostOf(c)
      BY <3>1, <3>2 DEF Current, StoredCurrent
    <3> QED
      BY <1>3, <3>1, <3>3
  <2>2. ASSUME NEW m \in Items, m \notin stale', m \notin blind'
        PROVE  cost'[m] = CostOf(m)'
    <3>1. m \notin own /\ m \notin S /\ m \notin stale /\ m \notin blind /\ m \in Priced
      BY <1>2, <2>2, Sorts
    <3>2. cost[m] = CostOf(m)
      BY <3>1 DEF Current, StoredCurrent
    <3> QED
      BY <1>3, <3>1, <3>2
  <2> QED
    BY <2>1, <2>2 DEF StoredCurrent
<1>5. ASSUME NEW x \in Clients, NEW y \in Priced, y \in Held(x),
             y \notin unseen'[x], ~Touched(x, y)'
      PROVE  y \notin unseen[x] /\ ~Touched(x, y) /\ CostOf(y)' = CostOf(y)
  <2>1. y \notin unseen[x] /\ y \notin S
    BY <1>2, <1>5
  <2>2. ~Touched(x, y) /\ ~Gone(x, y)
    BY <1>5 DEF Marked, Touched, Gone
  <2> QED
    BY <1>5, <2>1, <2>2 DEF Marked
<1>6. ASSUME NEW x \in Clients
      PROVE  ResultCurrent(x)' /\ TodoCurrent(x)'
  <2>1. CASE at'[x] \in {"idle", "read"}
    BY <2>1 DEF ResultCurrent, TodoCurrent
  <2>2. CASE /\ at'[x] = at[x] /\ kind'[x] = kind[x]
             /\ todo'[x] = todo[x] /\ result'[x] = result[x]
    <3>1. ResultCurrent(x) /\ TodoCurrent(x)
      BY DEF Current
    <3>2. ASSUME at[x] = "write", result[x].id \notin unseen'[x], ~Touched(x, result[x].id)'
          PROVE  result[x].cost = CostOf(result[x].id)'
      <4>1. result[x].id \in Priced /\ result[x].id \in Held(x)
        BY <1>1, <3>2, Sorts DEF RequestsOK, Shape, Held
      <4>2. PICK y \in Priced : y = result[x].id
        BY <4>1
      <4>3. y = result'[x].id
        BY <2>2, <4>2
      <4>4. ~Touched(x, y)' /\ y \notin unseen'[x] /\ y \in Held(x)
        BY <3>2, <4>1, <4>2, <4>3 DEF Touched
      <4>5. y \notin unseen[x] /\ ~Touched(x, y) /\ CostOf(y)' = CostOf(y)
        BY <1>5, <4>4
      <4>6. result[x].cost = CostOf(y)
        BY <3>1, <3>2, <4>2, <4>5 DEF ResultCurrent
      <4> QED
        BY <4>3, <4>5, <4>6
    <3>3. ASSUME at[x] \in {"next", "write"}, kind[x] = "items", NEW m \in DOMAIN todo[x],
                 m \notin unseen'[x], ~Touched(x, m)'
          PROVE  todo[x][m].total = CostOf(m)'
      <4>1. m \in Priced /\ m \in Held(x)
        BY <1>1, <3>3, Sorts DEF RequestsOK, Held
      <4>2. m \notin unseen[x] /\ ~Touched(x, m) /\ CostOf(m)' = CostOf(m)
        BY <1>5, <3>3, <4>1
      <4> QED
        BY <3>1, <3>3, <4>2 DEF TodoCurrent
    <3>4. ResultCurrent(x)'
      BY <2>2, <3>2 DEF ResultCurrent, Touched
    <3>5. TodoCurrent(x)'
      BY <2>2, <3>3 DEF TodoCurrent
    <3> QED
      BY <3>4, <3>5
  <2> QED
    BY <2>1, <2>2
<1> QED
  BY <1>4, <1>6 DEF Current

LEMMA RowsKeepCosts ==
  ASSUME RecipesOK, RecipesOK', NEW S,
         \A d \in Components : d \notin S => Row(d)' = Row(d)
  PROVE  \A c \in Components : c \notin Above(S) => CostOf(c)' = CostOf(c)
<1> SUFFICES ASSUME NEW c \in Components, c \notin Above(S)
             PROVE  CostOf(c)' = CostOf(c)
  OBVIOUS
<1>1. UnitCost(c)' = UnitCost(c)
  BY UnitKept DEF RecipesOK
<1>2. c \notin Items
  BY Sorts
<1> QED
  BY <1>1, <1>2 DEF CostOf

LEMMA RowKept ==
  ASSUME NEW d, DOMAIN lines'[d] = DOMAIN lines[d], children'[d] = children[d],
         life'[d] = "there" <=> life[d] = "there",
         \A i \in DOMAIN lines[d] : LineCost(lines[d], i)' = LineCost(lines[d], i)
  PROVE  Row(d)' = Row(d)
<1>1. [i \in DOMAIN lines[d] |-> LineCost(lines[d], i)]' = [i \in DOMAIN lines[d] |-> LineCost(lines[d], i)]
  OBVIOUS
<1>2. (life[d] = "there")' = (life[d] = "there")
  OBVIOUS
<1> QED
  BY <1>1, <1>2 DEF Row

LEMMA LineCostKept ==
  ASSUME NEW d, NEW i, lines'[d] = lines[d],
         lines[d][i] = Unknown => /\ price'[i] = price[i]
                                  /\ life'[i] = "there" <=> life[i] = "there"
  PROVE  LineCost(lines[d], i)' = LineCost(lines[d], i)
BY DEF LineCost

LEMMA NothingAboveNothing == Above({}) = {}
BY DEF Above

LEMMA IngredientMarks ==
  ASSUME RecipesOK, RecipesOK', NEW i \in Ingredients,
         UNCHANGED <<lines, children, parts, cost>>,
         \A y \in Things : y # i => life'[y] = life[y],
         \A j \in Ingredients : j # i => price'[j] = price[j],
         NEW y \in Priced, y \notin Above(Using(i)), y \notin HoldersOf({i})
  PROVE  CostOf(y)' = CostOf(y)
<1>1. CASE y \in Components
  <2>1. ASSUME NEW d \in Components, d \notin Using(i)
        PROVE  Row(d)' = Row(d)
    <3>1. ASSUME NEW j \in DOMAIN lines[d]
          PROVE  LineCost(lines[d], j)' = LineCost(lines[d], j)
      <4>1. j \in Ingredients
        BY <3>1, LineCostsAre DEF RecipesOK
      <4>2. lines[d][j] = Unknown => j # i
        BY <2>1, <3>1 DEF Using
      <4>3. lines[d][j] = Unknown => price'[j] = price[j] /\ life'[j] = life[j]
        BY <4>1, <4>2, Sorts
      <4>4. lines'[d] = lines[d]
        OBVIOUS
      <4> QED
        BY <4>3, <4>4, LineCostKept
    <3>2. d # i /\ d \in Things
      BY Sorts
    <3>3. life'[d] = life[d]
      BY <3>2
    <3> QED
      BY <3>1, <3>3, RowKept
  <2> QED
    BY <1>1, <2>1, RowsKeepCosts
<1>2. CASE y \in Items
  <2>1. i \notin parts[y]
    BY <1>2 DEF HoldersOf
  <2>2. \A p \in parts[y] : p \in Things /\ p # i
    BY <1>2, <2>1, Sorts DEF RecipesOK
  <2>3. Total(y)' = Total(y)
    BY <2>2, TotalKept
  <2> QED
    BY <1>2, <2>3 DEF CostOf
<1> QED
  BY <1>1, <1>2, Sorts

LEMMA IngredientsKeepCurrent ==
  ASSUME RecipeInv, Current, NEW i \in Ingredients,
         \/ \E k \in Costs : CreateIngredient(i, k) \/ UpdateIngredient(i, k)
         \/ RemoveIngredient(i)
  PROVE  Current'
<1> DEFINE S == Above(Using(i)) \union HoldersOf({i})
<1>1. RecipesOK /\ RecipesOK' /\ HistoryOK
  <2>1. RecipeInv'
    BY IngredientsKeepInv
  <2> QED
    BY <2>1, InvParts DEF RecipeInv, RecipeTypeOK, RecipesOK
<1>2. /\ UNCHANGED <<lines, children, parts, cost, blind>> /\ UNCHANGED <<at, refresh>>
      /\ \/ life' = [life EXCEPT ![i] = "there"] \/ UNCHANGED life
         \/ life' = [life EXCEPT ![i] = "deleted"]
      /\ UNCHANGED price \/ \E k \in Costs : price' = [price EXCEPT ![i] = k]
  BY DEF CreateIngredient, UpdateIngredient, RemoveIngredient
<1>3. /\ \A y \in Things : y # i => life'[y] = life[y]
      /\ \A j \in Ingredients : j # i => price'[j] = price[j]
  BY <1>1, <1>2 DEF RecipesOK
<1>4. \A y \in Priced : y \notin S => CostOf(y)' = CostOf(y)
  BY <1>1, <1>2, <1>3, IngredientMarks
<1>5. Changed({}, S)
  <2>1. ASSUME NEW k \in Costs, CreateIngredient(i, k)
        PROVE  Changed({}, S)
    <3>1. life[i] = "new" /\ UNCHANGED changes
      BY <2>1 DEF CreateIngredient
    <3>2. Using(i) = {}
      BY <1>1, <3>1 DEF Using, RecipesOK, Known
    <3>3. HoldersOf({i}) = {}
      BY <1>1, <3>1 DEF HoldersOf, RecipesOK, Known
    <3>4. S = {}
      BY <3>2, <3>3, NothingAboveNothing
    <3>5. Changed({}, {})
      BY <1>1, <3>1 DEF Changed, changes, HistoryOK
    <3> QED
      BY <3>4, <3>5
  <2>2. ASSUME NEW k \in Costs, UpdateIngredient(i, k)
        PROVE  Changed({}, S)
    BY <2>2 DEF UpdateIngredient
  <2>3. CASE RemoveIngredient(i)
    BY <2>3 DEF RemoveIngredient
  <2> QED
    BY <2>1, <2>2, <2>3
<1>6. Marked({}, S)
  <2>1. \A c \in Components : life'[c] = life[c]
    BY <1>3, Sorts
  <2>2. \A x \in Clients : replaced'[x] = replaced[x]
    BY <1>2 DEF refresh
  <2> HIDE DEF S
  <2> QED
    BY <1>2, <1>4, <1>5, <2>1, <2>2 DEF Marked
<1>7. \A x \in Clients : /\ at'[x] = at[x] /\ kind'[x] = kind[x]
                         /\ todo'[x] = todo[x] /\ result'[x] = result[x]
  BY <1>2 DEF refresh
<1> HIDE DEF S
<1> QED
  BY <1>6, <1>7, MarkedKeepsCurrent

LEMMA PartsAfter ==
  ASSUME RecipeInv'
  PROVE  RecipesOK'
BY DEF RecipeInv, RecipeTypeOK, RecipesOK

LEMMA ReplaceMarks ==
  ASSUME RequestsOK, NEW lists, Replace(lists), NEW y, lists # {}, lists \subseteq {y} \X Kinds(y)
  PROVE  /\ \A x \in Clients : y \in Held(x) => Gone(x, y)
         /\ \A x \in Clients : \A l \in replaced[x] : l \in replaced'[x]
<1>1. PICK l \in lists : l[1] = y
  OBVIOUS
<1>2. \A x \in Clients : replaced'[x] = replaced[x] \union {r \in lists : r[1] \in Held(x)}
  BY DEF Replace
<1>3. ASSUME NEW x \in Clients, y \in Held(x)
      PROVE  Gone(x, y)
  BY <1>1, <1>2, <1>3 DEF Gone
<1> QED
  BY <1>2, <1>3

LEMMA RequestMoves ==
  ASSUME RequestsOK, NEW x \in Clients, NEW what, NEW S, Request(x, what, S), result' = result
  PROVE  \A z \in Clients :
             \/ at'[z] \in {"idle", "read"}
             \/ /\ at'[z] = at[z] /\ kind'[z] = kind[z]
                /\ todo'[z] = todo[z] /\ result'[z] = result[z]
BY DEF Request, StepTo, RequestsOK

LEMMA ComponentSavedKeepsCurrent ==
  ASSUME RecipeInv, Current, NEW x \in Clients, NEW c \in Components, NEW lists,
         ComponentSaved(x, c, lists)
  PROVE  Current'
<1> DEFINE S == (Above({c}) \ {c}) \union Shifted(c)
<1>1. RecipesOK /\ RecipesOK' /\ RequestsOK
  BY ComponentSavedKeepsInv, PartsAfter, InvParts
<1>2. /\ life[c] \in {"new", "there"} /\ life' = [life EXCEPT ![c] = "there"]
      /\ UNCHANGED <<price, parts, result, blind>>
      /\ Changed({c}, S)
      /\ Request(x, "components", {c})
      /\ Replace(lists) /\ lists # {} /\ lists \subseteq {c} \X Kinds(c)
  BY DEF ComponentSaved
<1>3. \A d \in Components : d # c => lines'[d] = lines[d] /\ children'[d] = children[d]
  BY <1>1 DEF ComponentSaved, NewLines, RecipesOK
<1>4. \A y \in Things : y # c => life'[y] = life[y]
  BY <1>1, <1>2 DEF RecipesOK
<1>5. ASSUME NEW d \in Components, d \notin {c}
      PROVE  Row(d)' = Row(d)
  <2>1. ASSUME NEW i \in DOMAIN lines[d]
        PROVE  LineCost(lines[d], i)' = LineCost(lines[d], i)
    <3>1. i \in Ingredients
      <4>1. lines[d] \in LineCosts
        BY <1>1, <1>5 DEF RecipesOK
      <4> QED
        BY <2>1, <4>1, LineCostsAre
    <3>2. i \in Things /\ i # c
      BY <3>1, Sorts
    <3>3. life'[i] = life[i] /\ price'[i] = price[i] /\ lines'[d] = lines[d]
      BY <1>2, <1>3, <1>4, <1>5, <3>2
    <3> QED
      BY <3>3, LineCostKept
  <2>2. life'[d] = life[d] /\ lines'[d] = lines[d] /\ children'[d] = children[d]
    BY <1>3, <1>4, <1>5, Sorts
  <2> QED
    BY <2>1, <2>2, RowKept
<1>6. \A d \in Components : d \notin Above({c}) => CostOf(d)' = CostOf(d)
  BY <1>1, <1>5, RowsKeepCosts
<1>7. \A y \in Priced : y # c => cost'[y] = cost[y]
  BY <1>1 DEF ComponentSaved, RecipesOK
<1>8. ASSUME NEW m \in Items, m \notin S
      PROVE  CostOf(m)' = CostOf(m)
  <2>1. \A p \in parts[m] : p \in Things /\ life[p] # "new"
    BY <1>1, Sorts DEF RecipesOK, Known
  <2>2. \A p \in parts[m] : life'[p] = "there" <=> life[p] = "there"
    BY <1>1, <1>2, <1>4, <2>1 DEF RecipesOK
  <2>3. cost'[c] = cost[c] \/ c \notin parts[m]
    BY <1>8 DEF Shifted, HoldersOf
  <2>4. \A p \in parts[m] : p \in Ingredients \/ p \in Priced
    BY <1>1, Sorts DEF RecipesOK
  <2>5. \A p \in parts[m] : p \in Ingredients \/ cost'[p] = cost[p]
    BY <1>7, <2>3, <2>4
  <2>6. Total(m)' = Total(m)
    BY <1>2, <2>2, <2>5, TotalKept
  <2> QED
    BY <2>6 DEF CostOf
<1>9. Marked({c}, S)
  <2>1. ASSUME NEW y \in Priced
        PROVE  \/ y \in S
               \/ CostOf(y)' = CostOf(y)
               \/ y \in {c} /\ \A z \in Clients : y \in Held(z) => Gone(z, y)
    <3>1. CASE y \in Items
      BY <1>8, <3>1
    <3>2. CASE y = c
      BY <1>1, <1>2, <3>2, ReplaceMarks
    <3>3. CASE y \in Components /\ y # c
      BY <1>6, <3>3
    <3> QED
      BY <3>1, <3>2, <3>3, Sorts
  <2>2. \A d \in Components : d # c => life'[d] = life[d]
    BY <1>4, Sorts
  <2>3. \A z \in Clients : \A l \in replaced[z] : l \in replaced'[z]
    BY <1>1, <1>2, ReplaceMarks
  <2> HIDE DEF S
  <2> QED
    BY <1>2, <1>7, <2>1, <2>2, <2>3 DEF Marked
<1>10. \A z \in Clients :
          \/ at'[z] \in {"idle", "read"}
          \/ /\ at'[z] = at[z] /\ kind'[z] = kind[z]
             /\ todo'[z] = todo[z] /\ result'[z] = result[z]
  BY <1>1, <1>2, RequestMoves
<1> HIDE DEF S
<1> QED
  BY <1>9, <1>10, MarkedKeepsCurrent

\* Recipes move only in that item m comes or goes, and its parts.
LEMMA ItemMoves ==
  ASSUME RecipesOK, RecipesOK', NEW m \in Items,
         UNCHANGED <<price, lines, children>>,
         \A z \in Priced : z # m => cost'[z] = cost[z],
         \A y \in Things : y # m => life'[y] = life[y],
         NEW y \in Priced, y = m => parts'[m] = parts[m],
         \A n \in Items : n # m => parts'[n] = parts[n]
  PROVE  CostOf(y)' = CostOf(y)
<1>1. CASE y \in Components
  <2>1. ASSUME NEW d \in Components
        PROVE  Row(d)' = Row(d)
    <3>1. ASSUME NEW i \in DOMAIN lines[d]
          PROVE  LineCost(lines[d], i)' = LineCost(lines[d], i)
      <4>1. i \in Ingredients
        BY <3>1, LineCostsAre DEF RecipesOK
      <4>2. i \in Things /\ i # m
        BY <4>1, Sorts
      <4>3. life'[i] = life[i] /\ price'[i] = price[i] /\ lines'[d] = lines[d]
        BY <4>2
      <4> QED
        BY <4>3, LineCostKept
    <3>2. d \in Things /\ d # m
      BY Sorts
    <3>3. life'[d] = life[d]
      BY <3>2
    <3> QED
      BY <3>1, <3>3, RowKept
  <2>2. y \notin Above({})
    BY NothingAboveNothing
  <2> QED
    BY <1>1, <2>1, <2>2, RowsKeepCosts
<1>2. CASE y \in Items
  <2>1. parts'[y] = parts[y]
    BY <1>2
  <2>2. \A p \in parts[y] : p \in Things /\ p # m /\ (p \in Ingredients \/ p \in Priced)
    BY <1>2, Sorts DEF RecipesOK
  <2>3. Total(y)' = Total(y)
    BY <2>1, <2>2, TotalKept
  <2> QED
    BY <1>2, <2>3 DEF CostOf
<1> QED
  BY <1>1, <1>2, Sorts

LEMMA ItemSavedKeepsCurrent ==
  ASSUME RecipeInv, Current, NEW x \in Clients, NEW m \in Items, NEW lists, ItemSaved(x, m, lists)
  PROVE  Current'
<1>1. RecipesOK /\ RecipesOK' /\ RequestsOK
  BY ItemSavedKeepsInv, PartsAfter, InvParts
<1>2. /\ life' = [life EXCEPT ![m] = "there"]
      /\ UNCHANGED <<price, lines, children, result, blind>>
      /\ Changed({m}, {})
      /\ Request(x, "items", {m})
      /\ Replace(lists) /\ lists # {} /\ lists \subseteq {m} \X Kinds(m)
  BY DEF ItemSaved
<1>3. \A y \in Things : y # m => life'[y] = life[y]
  BY <1>1, <1>2 DEF RecipesOK
<1>4. \A n \in Items : n # m => parts'[n] = parts[n]
  BY <1>1 DEF ItemSaved, RecipesOK
<1>5. \A y \in Priced : y # m => cost'[y] = cost[y]
  BY <1>1 DEF ItemSaved, RecipesOK
<1>6. \A y \in Priced : y # m => CostOf(y)' = CostOf(y)
  BY <1>1, <1>2, <1>3, <1>4, <1>5, ItemMoves
<1>7. Marked({m}, {})
  <2>1. \A z \in Clients : m \in Held(z) => Gone(z, m)
    BY <1>1, <1>2, ReplaceMarks
  <2>2. \A z \in Clients : \A l \in replaced[z] : l \in replaced'[z]
    BY <1>1, <1>2, ReplaceMarks
  <2>3. \A c \in Components : life'[c] = life[c]
    BY <1>3, Sorts
  <2> QED
    BY <1>2, <1>6, <1>5, <2>1, <2>2, <2>3 DEF Marked
<1>8. \A z \in Clients :
          \/ at'[z] \in {"idle", "read"}
          \/ /\ at'[z] = at[z] /\ kind'[z] = kind[z]
             /\ todo'[z] = todo[z] /\ result'[z] = result[z]
  BY <1>1, <1>2, RequestMoves
<1> QED
  BY <1>7, <1>8, MarkedKeepsCurrent

LEMMA RefreshAskedKeepsCurrent ==
  ASSUME RecipeInv, Current, NEW x \in Clients, NEW what, NEW S, RefreshAsked(x, what, S)
  PROVE  Current'
<1>1. RequestsOK /\ HistoryOK
  BY InvParts
<1>2. /\ Request(x, what, S) /\ result' = result /\ replaced' = replaced /\ blind' = blind
      /\ UNCHANGED changes /\ UNCHANGED <<recipes, cost>>
  BY DEF RefreshAsked
<1>3. \A y \in Priced : CostOf(y)' = CostOf(y)
  BY <1>2, CostsKept
<1>4. Changed({}, {})
  BY <1>1, <1>2 DEF Changed, changes, HistoryOK
<1>5. Marked({}, {})
  BY <1>2, <1>3, <1>4 DEF Marked, recipes
<1>6. \A z \in Clients :
          \/ at'[z] \in {"idle", "read"}
          \/ /\ at'[z] = at[z] /\ kind'[z] = kind[z]
             /\ todo'[z] = todo[z] /\ result'[z] = result[z]
  BY <1>1, <1>2, RequestMoves
<1> QED
  BY <1>5, <1>6, MarkedKeepsCurrent

\* A component's stored cost is set by hand, or by repair.
LEMMA SettingACostMarks ==
  ASSUME RecipesOK, RecipesOK', NEW c \in Components,
         UNCHANGED <<life, price, lines, children, parts>>,
         \A y \in Priced : y # c => cost'[y] = cost[y],
         NEW y \in Priced, y \notin HoldersOf({c})
  PROVE  CostOf(y)' = CostOf(y)
<1>1. CASE y \in Components
  <2>1. \A d \in Components : Row(d)' = Row(d)
    BY DEF Row, LineCost
  <2>2. y \notin Above({})
    BY NothingAboveNothing
  <2> QED
    BY <1>1, <2>1, <2>2, RowsKeepCosts
<1>2. CASE y \in Items
  <2>1. c \notin parts[y]
    BY <1>2 DEF HoldersOf
  <2>2. \A p \in parts[y] : p \in Ingredients \/ (p \in Priced /\ p # c)
    BY <1>2, <2>1, Sorts DEF RecipesOK
  <2>3. Total(y)' = Total(y)
    BY <2>2, TotalKept
  <2> QED
    BY <1>2, <2>3 DEF CostOf
<1> QED
  BY <1>1, <1>2, Sorts

LEMMA SetUnitCostKeepsCurrent ==
  ASSUME RecipeInv, Current, NEW c \in Components, NEW k \in Costs, SetUnitCost(c, k)
  PROVE  Current'
<1>1. RecipesOK /\ RecipesOK' /\ RequestsOK
  <2>1. RecipeInv'
    BY ThingsKeepInv
  <2> QED
    BY <2>1, PartsAfter, InvParts
<1>2. /\ cost' = [cost EXCEPT ![c] = k] /\ Changed({c}, HoldersOf({c}))
      /\ UNCHANGED <<life, price, lines, children, parts>>
      /\ UNCHANGED <<at, kind, todo, result, replaced, blind>>
  BY DEF SetUnitCost, recipes, refresh
<1>3. \A y \in Priced : y # c => cost'[y] = cost[y]
  BY <1>1, <1>2 DEF RecipesOK
<1>4. \A y \in Priced : y \notin HoldersOf({c}) => CostOf(y)' = CostOf(y)
  BY <1>1, <1>2, <1>3, SettingACostMarks
<1>5. Marked({c}, HoldersOf({c}))
  BY <1>2, <1>3, <1>4 DEF Marked
<1> QED
  BY <1>2, <1>5, MarkedKeepsCurrent

LEMMA RepairKeepsCurrent ==
  ASSUME RecipeInv, Current, NEW x \in Clients, NEW c \in Components, Repair(x, c)
  PROVE  Current'
<1>1. RecipesOK /\ RecipesOK' /\ RequestsOK
  BY RepairKeepsInv, PartsAfter, InvParts
<1>2. /\ cost' = [cost EXCEPT ![c] = Legacy[c]] /\ Changed({c}, HoldersOf({c}))
      /\ UNCHANGED <<life, price, lines, children, parts>>
      /\ UNCHANGED <<replaced, blind>>
  BY DEF Repair, recipes
<1>3. \A y \in Priced : y # c => cost'[y] = cost[y]
  BY <1>1, <1>2 DEF RecipesOK
<1>4. \A y \in Priced : y \notin HoldersOf({c}) => CostOf(y)' = CostOf(y)
  BY <1>1, <1>2, <1>3, SettingACostMarks
<1>5. Marked({c}, HoldersOf({c}))
  BY <1>2, <1>3, <1>4 DEF Marked
<1>6. \A z \in Clients :
          \/ at'[z] \in {"idle", "read"}
          \/ /\ at'[z] = at[z] /\ kind'[z] = kind[z]
             /\ todo'[z] = todo[z] /\ result'[z] = result[z]
  BY RepairKeepsInv DEF Others
<1> QED
  BY <1>5, <1>6, MarkedKeepsCurrent

LEMMA ComponentComesOrGoes ==
  ASSUME RecipeInv, Current, NEW c \in Components,
         RemoveComponent(c) \/ \E k \in Costs \union {Unknown} : CreateComponent(c, k)
  PROVE  Current'
<1> DEFINE S == Above({c}) \union HoldersOf({c})
<1>1. RecipesOK /\ RecipesOK' /\ RequestsOK
  <2>1. RecipeInv'
    BY ThingsKeepInv
  <2> QED
    BY <2>1, PartsAfter, InvParts
<1>2. /\ life' = [life EXCEPT ![c] = "deleted"] \/ life' = [life EXCEPT ![c] = "there"]
      /\ Changed({}, S)
      /\ UNCHANGED <<price, lines, children, parts>>
      /\ UNCHANGED <<at, kind, todo, result, replaced, blind>>
  BY DEF RemoveComponent, CreateComponent, refresh
<1>3. \A y \in Priced : y # c => cost'[y] = cost[y]
  BY <1>1 DEF RemoveComponent, CreateComponent, RecipesOK
<1>4. \A y \in Things : y # c => life'[y] = life[y]
  BY <1>1, <1>2 DEF RecipesOK
<1>5. ASSUME NEW d \in Components, d \notin {c}
      PROVE  Row(d)' = Row(d)
  <2>1. ASSUME NEW i \in DOMAIN lines[d]
        PROVE  LineCost(lines[d], i)' = LineCost(lines[d], i)
    <3>1. lines[d] \in LineCosts
      BY <1>1, <1>5 DEF RecipesOK
    <3>2. i \in Ingredients
      BY <2>1, <3>1, LineCostsAre
    <3>3. i \in Things /\ i # c
      BY <3>2, Sorts
    <3>4. life'[i] = life[i] /\ price'[i] = price[i] /\ lines'[d] = lines[d]
      BY <1>2, <1>4, <3>3
    <3> QED
      BY <3>4, LineCostKept
  <2>2. life'[d] = life[d] /\ lines'[d] = lines[d] /\ children'[d] = children[d]
    BY <1>2, <1>4, <1>5, Sorts
  <2> QED
    BY <2>1, <2>2, RowKept
<1>6. \A d \in Components : d \notin Above({c}) => CostOf(d)' = CostOf(d)
  BY <1>1, <1>5, RowsKeepCosts
<1>7. ASSUME NEW m \in Items, m \notin HoldersOf({c})
      PROVE  CostOf(m)' = CostOf(m)
  <2>1. c \notin parts[m]
    BY <1>7 DEF HoldersOf
  <2>2. \A p \in parts[m] : p \in Things /\ p # c /\ (p \in Ingredients \/ p \in Priced)
    BY <1>1, <2>1, Sorts DEF RecipesOK
  <2>3. Total(m)' = Total(m)
    BY <1>2, <1>4, <1>3, <2>2, TotalKept
  <2> QED
    BY <2>3 DEF CostOf
<1>8. Marked({}, S)
  <2>1. c \in S
    BY AboveAre
  <2>2. \A d \in Components : d \notin S => life'[d] = life[d]
    BY <1>4, <2>1, Sorts
  <2>3. \A y \in Priced : y \notin S => cost'[y] = cost[y]
    BY <1>3, <2>1
  <2>4. \A y \in Priced : y \notin S => CostOf(y)' = CostOf(y)
    BY <1>6, <1>7, Sorts
  <2> HIDE DEF S
  <2> QED
    BY <1>2, <2>2, <2>3, <2>4 DEF Marked
<1> HIDE DEF S
<1> QED
  BY <1>2, <1>8, MarkedKeepsCurrent

LEMMA ItemsKeepCurrent ==
  ASSUME RecipeInv, Current, NEW m \in Items,
         \/ \E k \in Costs \union {Unknown} : BulkCreate(m, k) \/ SetTotalCost(m, k)
         \/ RemoveItem(m) \/ ReviveItem(m)
  PROVE  Current'
<1>1. RecipesOK /\ RecipesOK' /\ HistoryOK
  <2>1. RecipeInv'
    BY ThingsKeepInv
  <2> QED
    BY <2>1, PartsAfter, InvParts
<1>2. /\ UNCHANGED <<price, lines, children, parts>>
      /\ UNCHANGED <<at, kind, todo, result, replaced, blind>>
      /\ \/ UNCHANGED life
         \/ life' = [life EXCEPT ![m] = "there"] \/ life' = [life EXCEPT ![m] = "deleted"]
      /\ \/ UNCHANGED cost /\ UNCHANGED changes
         \/ \E k \in Costs \union {Unknown} :
                /\ cost' = [cost EXCEPT ![m] = k]
                /\ Changed(IF k = cost[m] THEN {} ELSE {m}, {})
  BY DEF BulkCreate, SetTotalCost, Give, RemoveItem, ReviveItem, refresh
<1>3. \A y \in Things : y # m => life'[y] = life[y]
  BY <1>1, <1>2 DEF RecipesOK
<1>4. m \in Priced /\ cost \in [Priced -> Nat]
  BY <1>1, Sorts DEF RecipesOK
<1> DEFINE own == IF cost'[m] = cost[m] THEN {} ELSE {m}
<1>5. Changed(own, {}) /\ \A y \in Priced : y # m => cost'[y] = cost[y]
  <2>1. CASE UNCHANGED cost /\ UNCHANGED changes
    BY <1>1, <2>1 DEF Changed, changes, HistoryOK
  <2>2. ASSUME NEW k \in Costs \union {Unknown}, cost' = [cost EXCEPT ![m] = k],
               Changed(IF k = cost[m] THEN {} ELSE {m}, {})
        PROVE  Changed(own, {}) /\ \A y \in Priced : y # m => cost'[y] = cost[y]
    <3>1. cost'[m] = k
      BY <1>4, <2>2
    <3>2. own = IF k = cost[m] THEN {} ELSE {m}
      BY <3>1
    <3> HIDE DEF own
    <3> QED
      BY <1>4, <2>2, <3>2
  <2> QED
    BY <1>2, <2>1, <2>2
<1>6. \A y \in Priced : CostOf(y)' = CostOf(y)
  BY <1>1, <1>2, <1>3, <1>5, ItemMoves
<1>7. \A y \in Priced : y \notin own => cost'[y] = cost[y]
  BY <1>5
<1>8. Marked(own, {})
  <2>1. \A c \in Components : life'[c] = life[c]
    BY <1>3, Sorts
  <2> HIDE DEF own
  <2> QED
    BY <1>2, <1>5, <1>6, <1>7, <2>1 DEF Marked
<1> HIDE DEF own
<1> QED
  BY <1>2, <1>8, MarkedKeepsCurrent

-----------------------------------------------------------------------------
(* What refreshCosts computes and writes is current. *)

LEMMA ReadsKeepCurrent ==
  ASSUME RecipeInv, Current, NEW x \in Clients, OnlyReads(x), ResultCurrent(x)', TodoCurrent(x)'
  PROVE  Current'
<1>1. UNCHANGED <<recipes, cost>> /\ stale' = stale /\ blind' = blind /\ life' = life /\ cost' = cost
  BY DEF OnlyReads, recipes
<1>2. \A y : CostOf(y)' = CostOf(y)
  BY <1>1, CostsKept
<1>3. StoredCurrent'
  BY <1>1, <1>2 DEF Current, StoredCurrent
<1>4. ASSUME NEW z \in Clients, z # x
      PROVE  ResultCurrent(z)' /\ TodoCurrent(z)'
  <2>1. /\ at'[z] = at[z] /\ kind'[z] = kind[z] /\ todo'[z] = todo[z] /\ result'[z] = result[z]
        /\ unseen'[z] = unseen[z] /\ replaced'[z] = replaced[z]
    BY <1>4 DEF OnlyReads, Others
  <2>2. ResultCurrent(z) /\ TodoCurrent(z)
    BY DEF Current
  <2>3. ResultCurrent(z)'
    <3>1. PICK y : y = result[z].id
      OBVIOUS
    <3>2. y = result'[z].id
      BY <2>1, <3>1
    <3>3. Touched(z, y)' <=> Touched(z, y)
      BY <2>1 DEF Touched
    <3>4. at[z] = "write" /\ y \notin unseen[z] /\ ~Touched(z, y) => result[z].cost = CostOf(y)
      BY <2>2, <3>1 DEF ResultCurrent
    <3>5. at'[z] = "write" /\ y \notin unseen'[z] /\ ~Touched(z, y)' => result'[z].cost = CostOf(y)'
      BY <1>2, <2>1, <3>3, <3>4
    <3> QED
      BY <3>2, <3>5 DEF ResultCurrent, Touched
  <2>4. TodoCurrent(z)'
    <3> SUFFICES ASSUME at'[z] \in {"next", "write"}, kind'[z] = "items", NEW m \in DOMAIN todo'[z],
                        m \notin unseen'[z], ~Touched(z, m)'
                 PROVE  todo'[z][m].total = CostOf(m)'
      BY DEF TodoCurrent
    <3>1. m \in DOMAIN todo[z] /\ m \notin unseen[z] /\ ~Touched(z, m)
      BY <2>1 DEF Touched
    <3>2. todo[z][m].total = CostOf(m)
      BY <2>1, <2>2, <3>1 DEF TodoCurrent
    <3> QED
      BY <1>2, <2>1, <3>2
  <2> QED
    BY <2>3, <2>4
<1> QED
  BY <1>3, <1>4 DEF Current

LEMMA EndKeepsCurrent ==
  ASSUME RecipeInv, Current, NEW x \in Clients, End(x),
         UNCHANGED <<recipes, cost, requests, stale, blind>>
  PROVE  Current'
<1>1. OnlyReads(x) /\ at'[x] = "idle"
  BY EndKeepsInv
<1>2. ResultCurrent(x)' /\ TodoCurrent(x)'
  BY <1>1 DEF ResultCurrent, TodoCurrent
<1> QED
  BY <1>1, <1>2, ReadsKeepCurrent

LEMMA ReadLinesKeepsCurrent ==
  ASSUME RecipeInv, Current, NEW x \in Clients, ReadLines(x)
  PROVE  Current'
<1>1. RequestsOK /\ OnlyReads(x)
  BY ReadLinesKeepsInv, InvParts
<1> DEFINE found == There(DOMAIN todo[x])
<1>2. /\ at' = [at EXCEPT ![x] = "next"]
      /\ todo' = [todo EXCEPT ![x] = [y \in found |->
                      IF kind[x] = "items" THEN [total |-> Total(y), had |-> ItemLines(y)]
                      ELSE [kept |-> lines[y], had |-> ComponentLines(y)]]]
      /\ kind' = kind
      /\ UNCHANGED <<recipes, cost>>
      /\ at[x] = "read"
  BY DEF ReadLines, StepTo
<1>3. at'[x] = "next" /\ kind'[x] = kind[x]
  BY <1>1, <1>2 DEF RequestsOK
<1>4. kind[x] = "items" =>
          todo'[x] = [y \in found |-> [total |-> Total(y), had |-> ItemLines(y)]]
  <2> HIDE DEF found
  <2> QED
    BY <1>1, <1>2 DEF RequestsOK
<1>5. kind[x] = "items" => \A m \in DOMAIN todo'[x] : m \in found /\ todo'[x][m].total = Total(m)
  <2> HIDE DEF found
  <2> QED
    BY <1>4
<1>6. kind[x] = "items" => found \subseteq Items
  BY <1>1 DEF There, RequestsOK, Shape
<1>7. TodoCurrent(x)'
  <2> SUFFICES ASSUME kind[x] = "items", NEW m \in DOMAIN todo'[x]
               PROVE  todo'[x][m].total = CostOf(m)'
    BY <1>3 DEF TodoCurrent
  <2>1. todo'[x][m].total = Total(m) /\ m \in Items
    BY <1>5, <1>6
  <2>2. CostOf(m)' = CostOf(m)
    BY <1>2, CostsKept
  <2> QED
    BY <2>1, <2>2 DEF CostOf
<1>8. ResultCurrent(x)'
  BY <1>3 DEF ResultCurrent
<1> QED
  BY <1>1, <1>7, <1>8, ReadsKeepCurrent

LEMMA ComputeKeepsCurrent ==
  ASSUME RecipeInv, Current, NEW x \in Clients, NEW c \in Components, Compute(x, c), ~End(x)
  PROVE  Current'
<1>1. /\ OnlyReads(x) /\ at'[x] = "write" /\ result'[x].id = c
      /\ result'[x].cost = UnitCost(c) /\ kind'[x] = "components"
  BY ComputeKeepsInv
<1>2. c \notin Items
  BY Sorts
<1>3. CostOf(c)' = CostOf(c)
  <2>1. UNCHANGED <<recipes, cost>>
    BY <1>1 DEF OnlyReads
  <2> QED
    BY <2>1, CostsKept
<1>4. UnitCost(c) = CostOf(c)
  BY <1>2 DEF CostOf
<1>5. result'[x].cost = CostOf(c)'
  BY <1>1, <1>3, <1>4
<1>6. ResultCurrent(x)'
  BY <1>1, <1>5 DEF ResultCurrent
<1>7. TodoCurrent(x)'
  BY <1>1 DEF TodoCurrent
<1> QED
  BY <1>1, <1>6, <1>7, ReadsKeepCurrent

LEMMA TakeKeepsCurrent ==
  ASSUME RecipeInv, Current, NEW x \in Clients, NEW m \in Items, Take(x, m)
  PROVE  Current'
<1>1. /\ OnlyReads(x) /\ at'[x] = "write" /\ result'[x].id = m
      /\ result'[x].cost = todo[x][m].total /\ kind'[x] = "items"
      /\ DOMAIN todo'[x] = DOMAIN todo[x] \ {m}
      /\ \A n \in DOMAIN todo[x] : n # m => todo'[x][n] = todo[x][n]
      /\ unseen'[x] = unseen[x] /\ replaced'[x] = replaced[x]
  BY TakeKeepsInv
<1>2. at[x] = "next" /\ kind[x] = "items" /\ m \in DOMAIN todo[x]
  BY DEF Take
<1>3. \A n : CostOf(n)' = CostOf(n)
  <2>1. UNCHANGED <<recipes, cost>>
    BY <1>1 DEF OnlyReads
  <2> QED
    BY <2>1, CostsKept
<1>4. \A n \in DOMAIN todo[x] :
          n \notin unseen'[x] /\ ~Touched(x, n)' => todo[x][n].total = CostOf(n)
  <2>1. TodoCurrent(x)
    BY DEF Current
  <2> QED
    BY <1>1, <1>2, <2>1 DEF TodoCurrent, Touched
<1>5. ResultCurrent(x)'
  <2>1. m \notin unseen'[x] /\ ~Touched(x, m)' => result'[x].cost = CostOf(m)'
    BY <1>1, <1>2, <1>3, <1>4
  <2> QED
    BY <1>1, <2>1 DEF ResultCurrent, Touched
<1>6. TodoCurrent(x)'
  <2> SUFFICES ASSUME NEW n \in DOMAIN todo'[x], n \notin unseen'[x], ~Touched(x, n)'
               PROVE  todo'[x][n].total = CostOf(n)'
    BY DEF TodoCurrent
  <2>1. n \in DOMAIN todo[x] /\ n # m
    BY <1>1
  <2>2. todo'[x][n].total = todo[x][n].total
    BY <1>1, <2>1
  <2> QED
    BY <1>3, <1>4, <2>1, <2>2
<1> QED
  BY <1>1, <1>5, <1>6, ReadsKeepCurrent

LEMMA WriteMarks ==
  ASSUME RecipeInv, NEW x \in Clients, Write(x), NEW y, y = result[x].id,
         NEW z \in Priced, z \notin Upset(x, y)
  PROVE  CostOf(z)' = CostOf(z)
<1>1. RecipesOK /\ RecipesOK' /\ RequestsOK
  BY WriteKeepsInv, PartsAfter, InvParts
<1>2. /\ at[x] = "write"
      /\ cost' = [cost EXCEPT ![y] = result[x].cost]
      /\ lines' = IF y \in Components THEN [lines EXCEPT ![y] = After(x, y)] ELSE lines
      /\ UNCHANGED <<life, price, children, parts>>
  BY WriteIs
<1>3. \A d \in Components : d # y => lines'[d] = lines[d]
  BY <1>1, <1>2 DEF RecipesOK
<1>4. ASSUME NEW d \in Components, d # y
      PROVE  Row(d)' = Row(d)
  <2>1. \A i \in DOMAIN lines[d] : LineCost(lines[d], i)' = LineCost(lines[d], i)
    BY <1>2, <1>3, <1>4, LineCostKept
  <2> QED
    BY <1>2, <1>3, <1>4, <2>1, RowKept
<1>5. ASSUME y \in Components, ~Moved(x, y)
      PROVE  Row(y)' = Row(y)
  <2>1. /\ lines'[y] = After(x, y) /\ After(x, y) \in LineCosts
        /\ DOMAIN lines'[y] = DOMAIN lines[y]
    BY <1>1, <1>2, <1>5, AfterIs DEF RecipesOK
  <2>2. ASSUME NEW i \in DOMAIN lines[y]
        PROVE  LineCost(lines[y], i)' = LineCost(lines[y], i)
    <3>1. lines'[y][i] = LineCost(lines[y], i)
      BY <1>5, <2>1, <2>2 DEF Moved
    <3>2. /\ LineCost(lines[y], i)' = IF lines'[y][i] # Unknown THEN lines'[y][i]
                                      ELSE IF life'[i] = "there" THEN price'[i] ELSE Fail
          /\ LineCost(lines[y], i) = IF lines[y][i] # Unknown THEN lines[y][i]
                                     ELSE IF life[i] = "there" THEN price[i] ELSE Fail
      BY DEF LineCost
    <3> QED
      BY <1>2, <3>1, <3>2
  <2> QED
    BY <1>2, <2>1, <2>2, RowKept
<1>6. CASE z \in Components
  <2>1. CASE Moved(x, y)
    <3>1. z \notin Above({y})
      BY <2>1 DEF Upset
    <3>2. \A d \in Components : d \notin {y} => Row(d)' = Row(d)
      BY <1>4
    <3> QED
      BY <1>1, <1>6, <3>1, <3>2, RowsKeepCosts
  <2>2. CASE ~Moved(x, y)
    <3>1. \A d \in Components : Row(d)' = Row(d)
      BY <1>4, <1>5, <2>2
    <3>2. z \notin Above({})
      BY NothingAboveNothing
    <3> QED
      BY <1>1, <1>6, <3>1, <3>2, RowsKeepCosts
  <2> QED
    BY <2>1, <2>2
<1>7. CASE z \in Items
  <2>1. cost[y] = result[x].cost \/ y \notin parts[z]
    BY <1>7 DEF Upset, HoldersOf
  <2>2. cost \in [Priced -> Nat]
    BY <1>1 DEF RecipesOK
  <2>3. \A p \in parts[z] : p \in Ingredients \/ p \in Priced
    BY <1>1, <1>7, Sorts DEF RecipesOK
  <2>4. \A p \in parts[z] : p \in Ingredients \/ cost'[p] = cost[p]
    BY <1>2, <2>1, <2>2, <2>3
  <2>5. Total(z)' = Total(z)
    BY <1>2, <2>4, TotalKept
  <2> QED
    BY <1>7, <2>5 DEF CostOf
<1> QED
  BY <1>6, <1>7, Sorts

LEMMA WriteKeepsCurrent ==
  ASSUME RecipeInv, Current, NEW x \in Clients, Write(x)
  PROVE  Current'
<1>1. RecipesOK /\ RequestsOK /\ HistoryOK
  BY InvParts
<1>2. PICK y : y = result[x].id
  OBVIOUS
<1>3. /\ at[x] = "write" /\ LinesThere(x)
      /\ cost' = [cost EXCEPT ![y] = result[x].cost]
      /\ stale' = (IF y \in unseen[x] THEN stale \union {y} ELSE stale \ {y}) \union Upset(x, y)
      /\ unseen' = [z \in Clients |-> (unseen[z] \union (Upset(x, y) \intersect Held(z)))
                                       \ (IF z = x THEN {y} ELSE {})]
      /\ blind' = (blind \ {y}) \union (IF ReplacedKinds(x) \subseteq result[x].had THEN {} ELSE {y})
      /\ replaced' = [replaced EXCEPT ![x] = {l \in @ : l[1] # y}]
      /\ UNCHANGED <<life, price, children, parts, kind, todo, requests>>
  BY <1>2, WriteIs
<1>4. Others(x) /\ at'[x] = "next"
  BY WriteKeepsInv
<1>5. \A z \in Priced : z \notin Upset(x, y) => CostOf(z)' = CostOf(z)
  BY <1>2, WriteMarks
<1>6. y \in Priced /\ y \notin DOMAIN todo[x]
  BY <1>1, <1>2, <1>3, Sorts DEF RequestsOK, Shape
<1>7. cost'[y] = result[x].cost /\ \A z \in Priced : z # y => cost'[z] = cost[z]
  BY <1>1, <1>3, <1>6 DEF RecipesOK
<1>8. ASSUME y \notin stale', y \notin blind'
      PROVE  cost'[y] = CostOf(y)'
  <2>1. y \notin unseen[x] /\ y \notin Upset(x, y) /\ ReplacedKinds(x) \subseteq result[x].had
    BY <1>3, <1>8
  <2>2. ReplacedKinds(x) = {}
    BY <1>3, <2>1 DEF LinesThere
  <2>3. ~Touched(x, y)
    <3> SUFFICES ASSUME NEW l \in replaced[x], l[1] = y
                 PROVE  FALSE
      BY DEF Touched
    <3>1. l[2] \in ReplacedKinds(x)
      BY <1>2 DEF ReplacedKinds
    <3> QED
      BY <2>2, <3>1
  <2>4. result[x].cost = CostOf(y)
    BY <1>2, <1>3, <2>1, <2>3 DEF Current, ResultCurrent
  <2> QED
    BY <1>5, <1>6, <1>7, <2>1, <2>4
<1>9. ASSUME NEW z \in Priced, z # y, z \notin stale', z \notin blind'
      PROVE  z \notin stale /\ z \notin blind /\ CostOf(z)' = CostOf(z) /\ cost'[z] = cost[z]
  BY <1>3, <1>5, <1>7, <1>9
<1>10. StoredCurrent'
  <2>1. ASSUME NEW c \in Components, life'[c] = "there", c \notin stale', c \notin blind'
        PROVE  cost'[c] = CostOf(c)'
    <3>1. CASE c = y
      BY <1>8, <2>1, <3>1
    <3>2. CASE c # y
      <4>1. cost[c] = CostOf(c)
        BY <1>3, <1>9, <2>1, <3>2, Sorts DEF Current, StoredCurrent
      <4> QED
        BY <1>9, <2>1, <3>2, <4>1, Sorts
    <3> QED
      BY <3>1, <3>2
  <2>2. ASSUME NEW m \in Items, m \notin stale', m \notin blind'
        PROVE  cost'[m] = CostOf(m)'
    <3>1. CASE m = y
      BY <1>8, <2>2, <3>1
    <3>2. CASE m # y
      <4>1. cost[m] = CostOf(m)
        BY <1>9, <2>2, <3>2, Sorts DEF Current, StoredCurrent
      <4> QED
        BY <1>9, <2>2, <3>2, <4>1, Sorts
    <3> QED
      BY <3>1, <3>2
  <2> QED
    BY <2>1, <2>2 DEF StoredCurrent
<1>11. ASSUME NEW z \in Clients, NEW d \in Priced, d \in Held(z), z = x => d # y,
              d \notin unseen'[z], ~Touched(z, d)'
       PROVE  d \notin unseen[z] /\ ~Touched(z, d) /\ CostOf(d)' = CostOf(d)
  <2>1. d \notin unseen[z] /\ d \notin Upset(x, y)
    BY <1>3, <1>11
  <2>2. replaced \in [Clients -> SUBSET Lists]
    BY <1>1 DEF RequestsOK
  <2>3. ~Touched(z, d)
    BY <1>3, <1>11, <2>2 DEF Touched
  <2> QED
    BY <1>5, <2>1, <2>3
<1>12. ASSUME NEW z \in Clients, z # x
       PROVE  ResultCurrent(z)'
  <2>1. at'[z] = at[z] /\ result'[z] = result[z]
    BY <1>4, <1>12 DEF Others
  <2>2. PICK d : d = result[z].id
    OBVIOUS
  <2>3. d = result'[z].id
    BY <2>1, <2>2
  <2>4. ASSUME at[z] = "write", d \notin unseen'[z], ~Touched(z, d)'
        PROVE  result[z].cost = CostOf(d)'
    <3>1. d \in Priced /\ d \in Held(z)
      BY <1>1, <2>2, <2>4, Sorts DEF RequestsOK, Shape, Held
    <3>2. d \notin unseen[z] /\ ~Touched(z, d) /\ CostOf(d)' = CostOf(d)
      BY <1>11, <1>12, <2>4, <3>1
    <3> QED
      BY <2>2, <2>4, <3>2 DEF Current, ResultCurrent
  <2> QED
    BY <2>1, <2>3, <2>4 DEF ResultCurrent, Touched
<1>13. ASSUME NEW z \in Clients
       PROVE  TodoCurrent(z)'
  <2>1. kind'[z] = kind[z] /\ todo'[z] = todo[z]
    BY <1>3
  <2> SUFFICES ASSUME at'[z] \in {"next", "write"}, kind[z] = "items", NEW m \in DOMAIN todo[z],
                      m \notin unseen'[z], ~Touched(z, m)'
               PROVE  todo[z][m].total = CostOf(m)'
    BY <2>1 DEF TodoCurrent
  <2>2. at[z] \in {"next", "write"}
    BY <1>3, <1>4 DEF Others
  <2>3. m \in Priced /\ m \in Held(z)
    BY <1>1, <2>2, Sorts DEF RequestsOK, Held
  <2>4. z = x => m # y
    BY <1>6
  <2>5. m \notin unseen[z] /\ ~Touched(z, m) /\ CostOf(m)' = CostOf(m)
    BY <1>11, <2>3, <2>4
  <2> QED
    BY <2>2, <2>5 DEF Current, TodoCurrent
<1>14. ResultCurrent(x)'
  BY <1>4 DEF ResultCurrent
<1> QED
  BY <1>10, <1>12, <1>13, <1>14 DEF Current

LEMMA InitIsCurrent ==
  ASSUME RecipeInit
  PROVE  Current
<1>1. /\ \A c \in There(Components) : cost[c] = UnitCost(c)
      /\ \A m \in Items : cost[m] = Total(m)
      /\ at = [x \in Clients |-> "idle"]
  BY DEF RecipeInit
<1>2. StoredCurrent
  BY <1>1, Sorts DEF StoredCurrent, CostOf, There
<1>3. \A x \in Clients : ResultCurrent(x) /\ TodoCurrent(x)
  BY <1>1 DEF ResultCurrent, TodoCurrent
<1> QED
  BY <1>2, <1>3 DEF Current

LEMMA NextKeepsCurrent ==
  ASSUME RecipeInv, Current, [RecipeNext]_recipeVars
  PROVE  Current'
<1>0. RecipesOK
  BY InvParts
<1>1. ASSUME NEW x \in Clients, Ask(x)
      PROVE  Current'
  <2>1. ASSUME NEW c \in Components, NEW S \in SUBSET Ingredients, NEW D \in SUBSET Components,
               \/ \E k \in Costs \union {cost[c]} : SaveComponent(x, c, S, D, k)
               \/ ReplaceComponentIngredients(x, c, S)
               \/ ReplaceChildren(x, c, D)
        PROVE  Current'
    BY <1>0, <2>1, ComponentRequests, ComponentSavedKeepsCurrent
  <2>2. ASSUME NEW m \in Items,
               \/ \E P \in SUBSET (Ingredients \union Components), k \in Costs \union {cost[m]} :
                      SaveItem(x, m, P, k)
               \/ \E P \in SUBSET Ingredients : ReplaceParts(x, m, "ingredients", P)
               \/ \E P \in SUBSET Components : ReplaceParts(x, m, "components", P)
        PROVE  Current'
    BY <1>0, <2>2, ItemRequests, ItemSavedKeepsCurrent
  <2>3. ASSUME RefreshComponents(x) \/ RepairComponents(x)
               \/ \E S \in SUBSET Items : RefreshItems(x, S)
        PROVE  Current'
    BY <2>3, RefreshRequests, RefreshAskedKeepsCurrent
  <2> QED
    BY <1>1, <2>1, <2>2, <2>3 DEF Ask
<1>2. ASSUME NEW x \in Clients, Work(x)
      PROVE  Current'
  <2>1. CASE ReadLines(x)
    BY <2>1, ReadLinesKeepsCurrent
  <2>2. ASSUME NEW c \in Components, Compute(x, c)
        PROVE  Current'
    <3>1. CASE End(x)
      BY <2>2, <3>1, EndKeepsCurrent DEF Compute
    <3> QED
      BY <2>2, <3>1, ComputeKeepsCurrent
  <2>3. ASSUME NEW m \in Items, Take(x, m)
        PROVE  Current'
    BY <2>3, TakeKeepsCurrent
  <2>4. CASE Write(x)
    BY <2>4, WriteKeepsCurrent
  <2>5. CASE WriteThrows(x) \/ Done(x) \/ RepairDone(x)
    BY <2>5, EndKeepsCurrent DEF WriteThrows, Done, RepairDone
  <2>6. ASSUME NEW c \in Components, Repair(x, c)
        PROVE  Current'
    BY <2>6, RepairKeepsCurrent
  <2> QED
    BY <1>2, <2>1, <2>2, <2>3, <2>4, <2>5, <2>6 DEF Work
<1>3. ASSUME NEW i \in Ingredients,
             \/ \E k \in Costs : CreateIngredient(i, k) \/ UpdateIngredient(i, k)
             \/ RemoveIngredient(i)
      PROVE  Current'
  BY <1>3, IngredientsKeepCurrent
<1>4. ASSUME NEW c \in Components,
             \/ \E k \in Costs : SetUnitCost(c, k)
             \/ \E k \in Costs \union {Unknown} : CreateComponent(c, k)
             \/ RemoveComponent(c)
      PROVE  Current'
  BY <1>4, SetUnitCostKeepsCurrent, ComponentComesOrGoes
<1>5. ASSUME NEW m \in Items,
             \/ \E k \in Costs \union {Unknown} : BulkCreate(m, k) \/ SetTotalCost(m, k)
             \/ RemoveItem(m) \/ ReviveItem(m)
      PROVE  Current'
  BY <1>5, ItemsKeepCurrent
<1>6. CASE UNCHANGED recipeVars
  <2>1. UNCHANGED <<recipes, cost>> /\ UNCHANGED refresh
    BY <1>6 DEF recipeVars
  <2>2. /\ UNCHANGED <<life, cost, at, stale, unseen, blind>>
        /\ UNCHANGED <<kind, todo, result, replaced>>
    BY <1>6 DEF recipeVars, changes, refresh, recipes
  <2>3. \A y : CostOf(y)' = CostOf(y)
    BY <2>1, CostsKept
  <2>4. StoredCurrent'
    BY <2>2, <2>3 DEF Current, StoredCurrent
  <2>5. ASSUME NEW x \in Clients
        PROVE  ResultCurrent(x)'
    <3>1. PICK y : y = result[x].id
      OBVIOUS
    <3>2. CostOf(y)' = CostOf(y) /\ y = result'[x].id
      BY <2>2, <2>3, <3>1
    <3> QED
      BY <2>2, <3>1, <3>2 DEF Current, ResultCurrent, Touched
  <2>6. \A x \in Clients : TodoCurrent(x)'
    BY <2>2, <2>3 DEF Current, TodoCurrent, Touched
  <2> QED
    BY <2>4, <2>5, <2>6 DEF Current
<1> QED
  BY <1>1, <1>2, <1>3, <1>4, <1>5, <1>6 DEF RecipeNext

\* When nothing is under way, the stored cost of a component or an item is
\* that of its recipe, unless a client gave the cost, an input changed since
\* or its write was blind.
\* refreshCosts of MenuComponentsService and MenuItemsService
THEOREM CostsAreCurrent == RecipeSpec => []StoredCostIsCurrent
<1>1. RecipeInit => RecipeInv /\ Current
  BY InitHasInv, InitIsCurrent
<1>2. RecipeInv /\ Current /\ [RecipeNext]_recipeVars => RecipeInv' /\ Current'
  BY NextKeepsInv, NextKeepsCurrent
<1>3. RecipeInv /\ Current => StoredCostIsCurrent
  BY Sorts DEF Current, StoredCurrent, StoredCostIsCurrent, CostOf, There
<1> QED
  BY <1>1, <1>2, <1>3, PTL DEF RecipeSpec
=============================================================================
