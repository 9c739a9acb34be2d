------------------------------ MODULE AuthCache -----------------------------
(***************************************************************************)
(* The two-level cache of JwtDatabaseStrategy, for one user: a map in the  *)
(* memory of each pod, one key in Redis, the user's row in the database.   *)
(* validate() looks in that order; a miss takes a Redis lock, reads the    *)
(* row and fills both levels.  A change of the user is followed by         *)
(* invalidateUserCache(), which deletes the entry of its pod, then the     *)
(* Redis key, then broadcasts to every pod; a suspension of the tenant     *)
(* only deletes the Redis key; deleting the organization does nothing.     *)
(*                                                                         *)
(* Requests and changes interleave at every await.  A read is two steps,   *)
(* the moment the server answers and the moment the code goes on with the  *)
(* answer: what lies between them is where a stale value is cached.        *)
(*                                                                         *)
(* Abstracted: the row is the number of the last change made to it; an     *)
(* entry carries the seconds it has left.  Whether a version is refused    *)
(* because it says SUSPENDED does not matter to what is cached, except     *)
(* that a lookup that reads such a row throws before it caches it:         *)
(* ReadRowThrows.                                                          *)
(***************************************************************************)
EXTENDS Integers, FiniteSets, FiniteSetsExt

CONSTANTS
    Pods,
    Requests,    \* calls of validate() for the user
    NoPod,
    LocalTTL,    \* LOCAL_AUTH_CACHE_TTL_MS
    RedisTTL,    \* AUTH_CACHE_TTL
    LockTTL,     \* third argument of acquireLock
    MaxCall,     \* environment: a request, or an invalidation, takes at most MaxCall
    MaxVersion,  \* bound: changes of the row
    MaxFaults    \* bound: Redis calls that fail, invalidations left out

ASSUME AuthCacheAssumption ==
    /\ NoPod \notin Pods
    /\ {LocalTTL, RedisTTL, LockTTL} \subseteq Nat \ {0}
    /\ {MaxCall, MaxVersion, MaxFaults} \subseteq Nat

VARIABLES
    version,   \* the row: changes committed so far
    since,     \* history: [0..MaxVersion -> seconds since the version was replaced]
    redis,     \* auth:user:<id> in Redis
    lock,      \* lock:auth:user:<id> in Redis
    local,     \* localCache, by pod
    pending,   \* pendingLookups, by pod: the request that leads
    acquired,  \* requests whose acquireLock returned true
    pod, step, val, age,  \* of each request: its pod, next call, value read, seconds so far
    change,    \* progress of the handler that changes the row
    changer,   \* its pod
    inbox,     \* pods that have not yet handled the broadcast
    raced,     \* history: an old value may be cached after it was purged
    faults

caches == <<redis, lock, local, pending>>
request == <<pod, step, val, age, acquired>>
writer == <<change, changer, inbox>>
world == <<version, since, writer, raced>>
vars == <<version, since, caches, request, writer, raced, faults>>

None == -1
Empty == [v |-> None, ttl |-> 0]

Entry(ttl) == {Empty} \union [v : 0..MaxVersion, ttl : 1..ttl]
Free == [by |-> {}, ttl |-> 0]
Lock == {Free} \union [by : {{r} : r \in Requests}, ttl : 1..LockTTL]

Steps == {"idle", "get", "got", "join", "lock", "db", "read", "wait", "again",
          "store", "unlock", "answer"}

\* Beyond this no cache can hold a version any more.
Horizon == MaxCall + RedisTTL + MaxCall + LocalTTL

TypeOK ==
    /\ version \in 0..MaxVersion
    /\ since \in [0..MaxVersion -> 0..Horizon + 1]
    /\ redis \in Entry(RedisTTL)
    /\ lock \in Lock
    /\ local \in [Pods -> Entry(LocalTTL)]
    /\ pending \in [Pods -> SUBSET Requests]
    /\ pod \in [Requests -> Pods \union {NoPod}]
    /\ step \in [Requests -> Steps]
    /\ val \in [Requests -> None..MaxVersion]
    /\ age \in [Requests -> 0..MaxCall]
    /\ acquired \in SUBSET Requests
    /\ change \in {"none", "local", "redis", "publish", "key", "muted"}
    /\ changer \in Pods \union {NoPod}
    /\ inbox \in SUBSET Pods
    /\ raced \in BOOLEAN
    /\ faults \in 0..MaxFaults

Init ==
    /\ version = 0
    /\ since = [v \in 0..MaxVersion |-> 0]
    /\ redis = Empty
    /\ lock = Free
    /\ local = [p \in Pods |-> Empty]
    /\ pending = [p \in Pods |-> {}]
    /\ pod = [r \in Requests |-> NoPod]
    /\ step = [r \in Requests |-> "idle"]
    /\ val = [r \in Requests |-> None]
    /\ age = [r \in Requests |-> 0]
    /\ acquired = {}
    /\ change = "none"
    /\ changer = NoPod
    /\ inbox = {}
    /\ raced = FALSE
    /\ faults = 0

Goto(r, s) == step' = [step EXCEPT ![r] = s]
Read(r, v) == val' = [val EXCEPT ![r] = v]
Remember(r, v) == local' = [local EXCEPT ![pod[r]] = [v |-> v, ttl |-> LocalTTL]]

-----------------------------------------------------------------------------
(* validate *)

LocalHit(r, p) ==
    /\ step[r] = "idle"
    /\ local[p] # Empty
    /\ pod' = [pod EXCEPT ![r] = p]
    /\ Goto(r, "answer")
    /\ Read(r, local[p].v)
    /\ UNCHANGED <<world, caches, age, acquired, faults>>

LocalMiss(r, p) ==
    /\ step[r] = "idle"
    /\ local[p] = Empty
    /\ pod' = [pod EXCEPT ![r] = p]
    /\ Goto(r, "get")
    /\ UNCHANGED <<world, caches, val, age, acquired, faults>>

GetRedis(r) ==
    /\ step[r] = "get"
    /\ Goto(r, "got")
    /\ Read(r, redis.v)
    /\ UNCHANGED <<world, caches, pod, age, acquired, faults>>

\* get fails: logged, and taken for a miss.
GetFails(r) ==
    /\ step[r] \in {"get", "wait"}
    /\ faults < MaxFaults
    /\ faults' = faults + 1
    /\ Goto(r, IF step[r] = "get" THEN "got" ELSE "again")
    /\ Read(r, None)
    /\ UNCHANGED <<world, caches, pod, age, acquired>>

\* MUTANT of RedisHit: a hit prolongs the key.
RedisHitProlongs(r) ==
    /\ step[r] = "got"
    /\ val[r] # None
    /\ Remember(r, val[r])
    /\ redis' = [v |-> val[r], ttl |-> RedisTTL]
    /\ Goto(r, "answer")
    /\ UNCHANGED <<world, lock, pending, pod, val, age, acquired, faults>>

RedisHit(r) ==
    /\ step[r] = "got"
    /\ val[r] # None
    /\ Remember(r, val[r])
    /\ Goto(r, "answer")
    /\ UNCHANGED <<world, redis, lock, pending, pod, val, age, acquired, faults>>

\* Another request of the pod leads the lookup: share its promise.
Join(r) ==
    /\ step[r] = "got"
    /\ val[r] = None
    /\ pending[pod[r]] # {}
    /\ Goto(r, "join")
    /\ UNCHANGED <<world, caches, pod, val, age, acquired, faults>>

Lead(r) ==
    /\ step[r] = "got"
    /\ val[r] = None
    /\ pending[pod[r]] = {}
    /\ pending' = [pending EXCEPT ![pod[r]] = {r}]
    /\ Goto(r, "lock")
    /\ UNCHANGED <<world, redis, lock, local, pod, val, age, acquired, faults>>

-----------------------------------------------------------------------------
(* lookupWithDistributedLock, lookupAndCacheUser *)

\* SET NX EX
AcquireLock(r) ==
    /\ step[r] = "lock"
    /\ lock = Free
    /\ lock' = [by |-> {r}, ttl |-> LockTTL]
    /\ acquired' = acquired \union {r}
    /\ Goto(r, "db")
    /\ UNCHANGED <<world, redis, local, pending, pod, val, age, faults>>

LockHeld(r) ==
    /\ step[r] = "lock"
    /\ lock # Free
    /\ Goto(r, "wait")
    /\ UNCHANGED <<world, caches, pod, val, age, acquired, faults>>

\* 60 ms later, from Redis again.
GetAgain(r) ==
    /\ step[r] = "wait"
    /\ Goto(r, "again")
    /\ Read(r, redis.v)
    /\ UNCHANGED <<world, caches, pod, age, acquired, faults>>

\* Ending a lookup, with a value or an error, settles the promise the pod shares.
Settle(r, v) ==
    /\ pending' = [pending EXCEPT ![pod[r]] = {}]
    /\ step' = [q \in Requests |->
           IF q = r \/ (step[q] = "join" /\ pod[q] = pod[r]) THEN "answer" ELSE step[q]]
    /\ val' = [q \in Requests |->
           IF q = r \/ (step[q] = "join" /\ pod[q] = pod[r]) THEN v ELSE val[q]]

\* acquireLock has no catch.
AcquireLockThrows(r) ==
    /\ step[r] = "lock"
    /\ faults < MaxFaults
    /\ faults' = faults + 1
    /\ Settle(r, None)
    /\ UNCHANGED <<world, redis, lock, local, pod, age, acquired>>

FoundAgain(r) ==
    /\ step[r] = "again"
    /\ val[r] # None
    /\ Remember(r, val[r])
    /\ Settle(r, val[r])
    /\ UNCHANGED <<world, redis, lock, pod, age, acquired, faults>>

\* Fall through to the database without the lock.
NotFoundAgain(r) ==
    /\ step[r] = "again"
    /\ val[r] = None
    /\ Goto(r, "db")
    /\ UNCHANGED <<world, caches, pod, val, age, acquired, faults>>

ReadRow(r) ==
    /\ step[r] = "db"
    /\ Goto(r, "read")
    /\ Read(r, version)
    /\ UNCHANGED <<world, caches, pod, age, acquired, faults>>

\* The tenant is suspended, or the database fails: nothing is cached.
ReadRowThrows(r) ==
    /\ step[r] = "db"
    /\ Goto(r, "unlock")
    /\ UNCHANGED <<world, caches, pod, val, age, acquired, faults>>

CacheLocally(r) ==
    /\ step[r] = "read"
    /\ Remember(r, val[r])
    /\ Goto(r, "store")
    /\ UNCHANGED <<world, redis, lock, pending, pod, val, age, acquired, faults>>

CacheInRedis(r) ==
    /\ step[r] = "store"
    /\ redis' = [v |-> val[r], ttl |-> RedisTTL]
    /\ Goto(r, "unlock")
    /\ UNCHANGED <<world, lock, local, pending, pod, val, age, acquired, faults>>

\* setex fails: logged, not thrown.
CacheInRedisFails(r) ==
    /\ step[r] = "store"
    /\ faults < MaxFaults
    /\ faults' = faults + 1
    /\ Goto(r, "unlock")
    /\ UNCHANGED <<world, caches, pod, val, age, acquired>>

\* Compare and delete; a request that fell through has acquired nothing.
ReleaseLock(r) ==
    /\ step[r] = "unlock"
    /\ lock' = IF r \in acquired /\ lock.by = {r} THEN Free ELSE lock
    /\ acquired' = acquired \ {r}
    /\ Settle(r, val[r])
    /\ UNCHANGED <<world, redis, local, pod, age, faults>>

\* releaseLock has no catch either: the lookup's value is lost.
ReleaseLockThrows(r) ==
    /\ step[r] = "unlock"
    /\ r \in acquired
    /\ faults < MaxFaults
    /\ faults' = faults + 1
    /\ acquired' = acquired \ {r}
    /\ Settle(r, None)
    /\ UNCHANGED <<world, redis, lock, local, pod, age>>

Leave(r) ==
    /\ step[r] = "answer"
    /\ Goto(r, "idle")
    /\ Read(r, None)
    /\ pod' = [pod EXCEPT ![r] = NoPod]
    /\ age' = [age EXCEPT ![r] = 0]
    /\ UNCHANGED <<world, caches, acquired, faults>>

-----------------------------------------------------------------------------
(* Changes of the row, invalidateUserCache, invalidateTenantAuthCache *)

\* Bound: one change at a time.
Changes ==
    /\ change \in {"none", "muted"}
    /\ inbox = {}
    /\ version < MaxVersion
    /\ version' = version + 1
    /\ UNCHANGED <<since, caches, request, inbox, raced>>

\* users, roles, me: the handler goes on with invalidateUserCache.
ChangeUser(p) ==
    /\ Changes
    /\ changer' = p
    /\ change' = "local"
    /\ UNCHANGED faults

\* suspend, reactivate: it goes on with invalidateTenantAuthCache.
ChangeTenant ==
    /\ Changes
    /\ change' = "key"
    /\ UNCHANGED <<changer, faults>>

\* deleteOrganization suspends the tenant and invalidates nothing.
ChangeSilently ==
    /\ Changes
    /\ faults < MaxFaults
    /\ faults' = faults + 1
    /\ UNCHANGED <<change, changer>>

\* These requests have read an old version and will cache it.
Reading(r) == step[r] \in {"got", "again", "read", "store"} /\ val[r] \in 0..version - 1

\* MUTANT of PurgeLocal: the Redis key is forgotten.
PurgeLocalOnly ==
    /\ change = "local"
    /\ local' = [local EXCEPT ![changer] = Empty]
    /\ changer' = NoPod
    /\ change' = "publish"
    /\ UNCHANGED <<version, since, redis, lock, pending, request, inbox, raced, faults>>

PurgeLocal ==
    /\ change = "local"
    /\ local' = [local EXCEPT ![changer] = Empty]
    /\ changer' = NoPod
    /\ change' = "redis"
    /\ UNCHANGED <<version, since, redis, lock, pending, request, inbox, raced, faults>>

Purge(at, next) ==
    /\ change = at
    /\ redis' = Empty
    /\ change' = next
    /\ raced' = (raced \/ \E r \in Requests : Reading(r))
    /\ UNCHANGED <<version, since, lock, local, pending, request, changer, inbox, faults>>

\* del fails: logged, not thrown.
PurgeFails(at, next) ==
    /\ change = at
    /\ faults < MaxFaults
    /\ faults' = faults + 1
    /\ change' = next
    /\ UNCHANGED <<version, since, caches, request, changer, inbox, raced>>

PurgeRedis == Purge("redis", "publish")
PurgeRedisFails == PurgeFails("redis", "publish")

\* MUTANT of PurgeKey: the key is not the one that validate reads.
PurgeOtherKey ==
    /\ change = "key"
    /\ change' = "muted"
    /\ UNCHANGED <<version, since, caches, request, changer, inbox, raced, faults>>

\* No broadcast: the pods keep what they have.
PurgeKey == Purge("key", "muted")
PurgeKeyFails == PurgeFails("key", "muted")

Publish ==
    /\ change = "publish"
    /\ change' = "none"
    /\ inbox' = Pods
    /\ UNCHANGED <<version, since, caches, request, changer, raced, faults>>

Deliver(p) ==
    /\ p \in inbox
    /\ inbox' = inbox \ {p}
    /\ local' = [local EXCEPT ![p] = Empty]
    /\ UNCHANGED <<version, since, redis, lock, pending, request, change, changer, raced, faults>>

\* Redis keeps no message for a subscriber that is reconnecting.
Lose(p) ==
    /\ p \in inbox
    /\ faults < MaxFaults
    /\ faults' = faults + 1
    /\ inbox' = inbox \ {p}
    /\ UNCHANGED <<version, since, caches, request, change, changer, raced>>

-----------------------------------------------------------------------------
(* A second passes. *)

Older(e) == IF e.ttl <= 1 THEN Empty ELSE [e EXCEPT !.ttl = @ - 1]

Tick ==
    /\ \A r \in Requests : step[r] # "answer"
    /\ \A r \in Requests : step[r] # "idle" => age[r] < MaxCall
    /\ change \notin {"none", "muted"} => since[version - 1] < MaxCall
    /\ age' = [r \in Requests |-> IF step[r] = "idle" THEN 0 ELSE age[r] + 1]
    /\ since' = [v \in 0..MaxVersion |->
           IF v < version THEN Min({since[v] + 1, Horizon + 1}) ELSE 0]
    /\ redis' = Older(redis)
    /\ local' = [p \in Pods |-> Older(local[p])]
    /\ lock' = IF lock.ttl <= 1 THEN Free ELSE [lock EXCEPT !.ttl = @ - 1]
    /\ UNCHANGED <<version, pending, pod, step, val, acquired, writer, raced, faults>>

Validate(r) ==
    \/ \E p \in Pods : LocalHit(r, p) \/ LocalMiss(r, p)
    \/ GetRedis(r) \/ GetFails(r) \/ RedisHit(r)
    \/ Join(r) \/ Lead(r) \/ AcquireLock(r) \/ AcquireLockThrows(r) \/ LockHeld(r)
    \/ GetAgain(r) \/ FoundAgain(r) \/ NotFoundAgain(r) \/ ReadRow(r) \/ ReadRowThrows(r)
    \/ CacheLocally(r) \/ CacheInRedis(r) \/ CacheInRedisFails(r)
    \/ ReleaseLock(r) \/ ReleaseLockThrows(r) \/ Leave(r)

Invalidate ==
    PurgeLocal \/ PurgeRedis \/ PurgeRedisFails \/ Publish \/ PurgeKey \/ PurgeKeyFails

Next ==
    \/ \E r \in Requests : Validate(r)
    \/ \E p \in Pods : ChangeUser(p) \/ Deliver(p) \/ Lose(p)
    \/ ChangeTenant \/ ChangeSilently
    \/ Invalidate
    \/ Tick

Spec == Init /\ [][Next]_vars

-----------------------------------------------------------------------------
Answered(r) == step[r] = "answer" /\ val[r] # None

(***************************************************************************)
(* Whatever races, fails or is never invalidated, a request is not         *)
(* answered with a version that was replaced longer ago than one lookup, a *)
(* Redis lifetime, one more request and a local lifetime.                  *)
(***************************************************************************)
StalenessBounded ==
    \A r \in Requests : Answered(r) => since[val[r]] <= Horizon

Fresh == \A r \in Requests : Answered(r) => since[val[r]] <= MaxCall + LocalTTL

(***************************************************************************)
(* The claim of invalidateUserCache (comment at 278-279): the staleness    *)
(* window stays bounded by the lifetime of the local cache, here after the *)
(* time the invalidation itself may take.  It holds, for a suspension as   *)
(* well, as long as no request carried an old version across the deletion  *)
(* of the Redis key and no call failed.                                    *)
(***************************************************************************)
UndisturbedStaleness == ~raced /\ faults = 0 => Fresh

(***************************************************************************)
(* Under the same conditions, once the broadcast has been handled no cache *)
(* of any pod holds an old version: the order local, Redis, broadcast      *)
(* leaves no gap (invalidateUserCache 281-287).  After a suspension this   *)
(* is true of Redis only.                                                  *)
(***************************************************************************)
InvalidationWorks ==
    ~raced /\ faults = 0 /\ inbox = {} =>
        /\ change \in {"none", "muted"} => redis.v \in {None, version}
        /\ change = "none" => \A p \in Pods : local[p].v \in {None, version}

(***************************************************************************)
(* A pod looks the user up once at a time, and a request that shares a     *)
(* lookup is not left waiting for one that has ended, even when the lookup *)
(* throws (pendingLookups, validate 104-118).                              *)
(***************************************************************************)
Looking(p) == {r \in Requests : pod[r] = p /\
    step[r] \in {"lock", "db", "read", "wait", "again", "store", "unlock"}}

OneLookupPerPod ==
    \A p \in Pods :
        /\ pending[p] = Looking(p) /\ Cardinality(Looking(p)) <= 1
        /\ (\E r \in Requests : pod[r] = p /\ step[r] = "join") => Looking(p) # {}

(***************************************************************************)
(* If lookups end before the lock expires, no two requests of any pods     *)
(* hold it, though some look up without it and calls fail.                 *)
(***************************************************************************)
OneLockHolder == MaxCall < LockTTL => Cardinality(acquired) <= 1
=============================================================================
