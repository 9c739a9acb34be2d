-------------------------- MODULE WeezeventAccess --------------------------
(***************************************************************************)
(* How one organisation gets at Weezevent: its instances, that is, rows of *)
(* WeezeventIntegration (IntegrationsController, then                      *)
(* WeezeventIntegrationService), the copy of the first enabled one in the  *)
(* Tenant row, the token that WeezeventAuthService caches for that copy,   *)
(* and the calls of WeezeventApiService with their retries behind one      *)
(* circuit breaker.                                                        *)
(*                                                                         *)
(* One process.  A step is one awaited call with the code up to the next;  *)
(* a look for the row and the write of it that fail alike are one.  The    *)
(* Weezevent organisation of an instance and its name follow its client id *)
(* and are left out.  opossum, the breaker, is known by its states only.   *)
(***************************************************************************)
EXTENDS Naturals, FiniteSets

CONSTANTS
    Admins,        \* requests about instances that may run at once
    Calls,         \* calls of the API that may run at once
    ClientIds,
    Secrets,
    Known,         \* credentials that Weezevent knows
    Bodies,        \* what requests may send
    MaxInstances,  \* bound: instances ever made
    MaxRequests,   \* bound: requests about instances
    MaxAttempts,   \* maxRetries
    TokenLife,     \* ticks a token is cached for: expires_in less a minute
    MaxCall        \* ticks a call may take, its token and its retries included

Credentials == [clientId : ClientIds, clientSecret : Secrets]
Kept == "kept" \* a field that a request does not name
Dto == [clientId : ClientIds \union {Kept}, clientSecret : Secrets \union {Kept},
        enabled : {"on", "off", Kept}]

ASSUME WeezeventAccessAssumption ==
    /\ Known \subseteq Credentials /\ Bodies \subseteq Dto
    /\ Kept \notin ClientIds \union Secrets /\ "none" \notin ClientIds
    /\ {MaxRequests, MaxCall} \subseteq Nat
    /\ {MaxInstances, MaxAttempts, TokenLife} \subseteq Nat \ {0}

VARIABLES
    inst,      \* [Instances -> row of WeezeventIntegration], by createdAt
    made,      \* instances made
    tenant,    \* weezevent* columns of the Tenant row
    at,        \* next step of each request
    req,       \* [Admins -> the request and what it has read]
    requests,  \* requests made
    cache,     \* tokenCache of the organisation
    call,      \* [Calls -> the call under way]
    breaker,   \* "closed", "open" or "half"
    tested,    \* history: credentials that have passed a test
    mixed,     \* history: instances given half of their credentials unseen
    late,      \* history: requests that have read rows which have changed since
    behind     \* history: the Tenant row was written from older rows, by the
               \* tenants' interface, or not at all

instances == <<inst, made, tenant>>
admin == <<at, req, requests>>
access == <<cache, call, breaker>>
ghosts == <<tested, mixed, late, behind>>
vars == <<instances, admin, access, ghosts>>

Instances == 1..MaxInstances
None == [clientId |-> "none", clientSecret |-> "none"]
Row == [clientId : ClientIds, clientSecret : Secrets, enabled : {"on", "off"}]
NoRow == [clientId |-> "none", clientSecret |-> "none", enabled |-> "off"]
NoDto == [clientId |-> Kept, clientSecret |-> Kept, enabled |-> Kept]

Of(row) == [clientId |-> row.clientId, clientSecret |-> row.clientSecret]
Merge(row, dto) == [f \in DOMAIN row |-> IF dto[f] = Kept THEN row[f] ELSE dto[f]]
Named(dto) == {f \in {"clientId", "clientSecret"} : dto[f] # Kept}
Both == {"clientId", "clientSecret"}

There == {i \in Instances : inst[i] # NoRow}
Enabled == {i \in There : inst[i].enabled = "on"}
First(S) == CHOOSE i \in S : \A j \in S : i <= j

NoRequest == [do |-> "none", of |-> 0, dto |-> NoDto, seen |-> None, active |-> None]
NoToken == [of |-> None, left |-> 0, stale |-> 0]
NoCall == [at |-> "idle", of |-> None, stale |-> 0, attempt |-> 0, age |-> 0]
AdminSteps == {"idle", "stored", "test", "primary", "insert", "update", "delete",
               "disable", "active", "columns"}
Horizon == 2 * MaxCall + TokenLife - 1
Ages == 0..(Horizon + 1)

TypeOK ==
    /\ inst \in [Instances -> Row \union {NoRow}]
    /\ made \in 0..MaxInstances
    /\ tenant \in Credentials \union {None}
    /\ at \in [Admins -> AdminSteps]
    /\ req \in [Admins -> [do : {"none", "create", "update", "delete", "config"},
                           of : Instances \union {0}, dto : Bodies \union {NoDto},
                           seen : Credentials \union {None},
                           active : Credentials \union {None}]]
    /\ \A a \in Admins : at[a] = "idle" <=> req[a] = NoRequest
    /\ requests \in 0..MaxRequests
    /\ cache \in [of : Credentials \union {None}, left : 0..TokenLife, stale : Ages]
    /\ call \in [Calls -> [at : {"idle", "config", "token", "fire", "sleep"},
                           of : Credentials \union {None}, stale : Ages,
                           attempt : 0..MaxAttempts, age : 0..MaxCall]]
    /\ \A c \in Calls : call[c].at \in {"fire", "sleep"} => call[c].attempt > 0
    /\ breaker \in {"closed", "open", "half"}
    /\ tested \subseteq Known
    /\ mixed \subseteq Instances
    /\ late \subseteq Admins
    /\ behind \in BOOLEAN

\* No instance yet, or one whose credentials were tested.
Init ==
    /\ \E row \in {NoRow} \union {r \in Row : Of(r) \in Known /\ r.enabled = "on"} :
          /\ inst = [i \in Instances |-> IF i = 1 THEN row ELSE NoRow]
          /\ made = IF row = NoRow THEN 0 ELSE 1
          /\ tenant = Of(row)
          /\ tested = {Of(row)} \ {None}
    /\ at = [a \in Admins |-> "idle"] /\ req = [a \in Admins |-> NoRequest]
    /\ requests = 0
    /\ cache = NoToken
    /\ call = [c \in Calls |-> NoCall]
    /\ breaker = "closed"
    /\ mixed = {} /\ late = {} /\ behind = FALSE

------------------------------------------------------------------------------
(* Requests about instances *)

Begin(a, step, r) ==
    /\ at[a] = "idle" /\ requests < MaxRequests
    /\ requests' = requests + 1
    /\ at' = [at EXCEPT ![a] = step] /\ req' = [req EXCEPT ![a] = r]
    /\ UNCHANGED <<instances, access, ghosts>>

Go(a, step) == at' = [at EXCEPT ![a] = step]
End(a) == Go(a, "idle") /\ req' = [req EXCEPT ![a] = NoRequest] /\ UNCHANGED requests

CreateInstance(a, dto) ==
    /\ Named(dto) = Both
    /\ Begin(a, "test", [NoRequest EXCEPT !.do = "create", !.dto = dto, !.seen = Of(dto)])

\* MUTANT of UpdateInstance: half of the credentials is not tested.
UpdateUntested(a, i, dto) ==
    LET r == [NoRequest EXCEPT !.do = "update", !.of = i, !.dto = dto]
    IN  \/ Named(dto) = Both /\ Begin(a, "test", [r EXCEPT !.seen = Of(dto)])
        \/ Named(dto) # Both /\ Begin(a, "update", r)

\* Credentials are tested when one of the two is named; the other is then the
\* stored one.
UpdateInstance(a, i, dto) ==
    LET r == [NoRequest EXCEPT !.do = "update", !.of = i, !.dto = dto]
    IN  \/ Named(dto) = {} /\ Begin(a, "update", r)
        \/ Named(dto) = Both /\ Begin(a, "test", [r EXCEPT !.seen = Of(dto)])
        \/ Cardinality(Named(dto)) = 1 /\ Begin(a, "stored", r)

\* The older interface, for one instance.  Half of the credentials is not tested.
UpdateConfig(a, dto) ==
    LET r == [NoRequest EXCEPT !.do = "config", !.dto = dto]
    IN  \/ Named(dto) = Both /\ Begin(a, "test", [r EXCEPT !.seen = Of(dto)])
        \/ Named(dto) = {} /\ dto.enabled = "off" /\ Begin(a, "disable", r)
        \/ (Named(dto) # {} \/ dto.enabled # "off") /\ Named(dto) # Both /\ Begin(a, "primary", r)

DeleteInstance(a, i) ==
    Begin(a, "delete", [NoRequest EXCEPT !.do = "delete", !.of = i])

GetDecryptedCredentials(a) ==
    /\ at[a] = "stored"
    /\ LET row == inst[req[a].of]
       IN  \/ row = NoRow /\ End(a)
           \/ /\ row # NoRow /\ Go(a, "test")
              /\ req' = [req EXCEPT ![a].seen = Of(Merge(row, req[a].dto))]
              /\ UNCHANGED requests
    /\ UNCHANGED <<instances, access, ghosts>>

TestCredentials(a) ==
    /\ at[a] = "test" /\ req[a].seen \in Known
    /\ tested' = tested \union {req[a].seen}
    /\ Go(a, CASE req[a].do = "create" -> "insert"
               [] req[a].do = "update" -> "update"
               [] req[a].do = "config" -> "primary")
    /\ UNCHANGED <<instances, access, req, requests, mixed, late, behind>>

\* Refused, which credentials once accepted may be as well, or not reached.
TestFails(a) ==
    /\ at[a] = "test"
    /\ End(a)
    /\ late' = late \ {a}
    /\ UNCHANGED <<instances, access, tested, mixed, behind>>

FindPrimary(a) ==
    /\ at[a] = "primary"
    /\ \/ /\ There # {} /\ Go(a, "update")
          /\ req' = [req EXCEPT ![a].of = First(There)]
          /\ UNCHANGED requests
       \/ There = {} /\ Named(req[a].dto) = Both /\ Go(a, "insert") /\ UNCHANGED <<req, requests>>
       \/ There = {} /\ Named(req[a].dto) # Both /\ End(a)
    /\ UNCHANGED <<instances, access, ghosts>>


\* Every change of the rows goes on to mirrorActiveInstanceToTenant; those that
\* have looked for the active instance before it are late, and so are others.
Changed(a, rows, others) ==
    /\ inst' = rows
    /\ Go(a, "active")
    /\ late' = late \union {x \in Admins : at[x] = "columns"} \union others
    /\ UNCHANGED <<tenant, access, req, requests, tested, behind>>

\* They test half of the credentials with the other half as it was.
Halves(i) == {x \in Admins : /\ at[x] \in {"test", "update"}
                             /\ req[x].do = "update" /\ req[x].of = i
                             /\ Cardinality(Named(req[x].dto)) = 1}

Insert(a) ==
    LET dto == req[a].dto
    IN  /\ at[a] = "insert" /\ made < MaxInstances
        /\ made' = made + 1
        /\ Changed(a, [inst EXCEPT ![made + 1] =
                          Merge([NoRow EXCEPT !.enabled = "on"], dto)], {})
        /\ UNCHANGED mixed

\* What is stored is the row as it is now with the fields of the request: it is
\* what was tested unless the row has changed since, or nothing was tested.
Update(a) ==
    LET i == req[a].of
        row == Merge(inst[i], req[a].dto)
    IN  /\ at[a] = "update"
        /\ \/ /\ inst[i] # NoRow
              /\ Changed(a, [inst EXCEPT ![i] = row],
                         IF Named(req[a].dto) = {} THEN {} ELSE Halves(i) \ {a})
              /\ mixed' = CASE Named(req[a].dto) = {} -> mixed
                            [] Named(req[a].dto) = Both -> mixed \ {i}
                            [] OTHER -> IF a \in late \/ req[a].do = "config"
                                        THEN mixed \union {i} ELSE mixed \ {i}
              /\ UNCHANGED made
           \/ /\ inst[i] = NoRow /\ End(a)
              /\ late' = late \ {a}
              /\ UNCHANGED <<instances, access, tested, mixed, behind>>

Delete(a) ==
    LET i == req[a].of
    IN  /\ at[a] = "delete"
        /\ \/ /\ inst[i] # NoRow
              /\ Changed(a, [inst EXCEPT ![i] = NoRow], {})
              /\ UNCHANGED <<made, mixed>>
           \/ inst[i] = NoRow /\ End(a) /\ UNCHANGED <<instances, access, ghosts>>

\* MUTANT of DisableAll: the older interface switches off without mirroring.
DisableSilently(a) ==
    /\ at[a] = "disable"
    /\ inst' = [i \in Instances |-> [inst[i] EXCEPT !.enabled = "off"]]
    /\ End(a)
    /\ UNCHANGED <<made, tenant, access, ghosts>>

DisableAll(a) ==
    /\ at[a] = "disable"
    /\ Changed(a, [i \in Instances |-> [inst[i] EXCEPT !.enabled = "off"]], {})
    /\ UNCHANGED <<made, mixed>>

Active == IF Enabled = {} THEN None ELSE Of(inst[First(Enabled)])

FindActive(a) ==
    /\ at[a] = "active"
    /\ req' = [req EXCEPT ![a].active = Active]
    /\ Go(a, "columns")
    /\ late' = late \ {a}
    /\ UNCHANGED <<instances, access, requests, tested, mixed, behind>>

WriteColumns(a) ==
    /\ at[a] = "columns"
    /\ tenant' = req[a].active
    /\ End(a)
    /\ behind' = (a \in late)
    /\ late' = late \ {a}
    /\ UNCHANGED <<inst, made, access, tested, mixed>>

\* A call of the database throws.
Throw(a) ==
    /\ at[a] \notin {"idle", "test"}
    /\ End(a)
    /\ behind' = (behind \/ at[a] \in {"active", "columns"})
    /\ late' = late \ {a}
    /\ UNCHANGED <<instances, access, tested, mixed>>

\* The tenants' interface stores in the columns what it is given.  (A secret it
\* stores is not encrypted; no call can read it, as if there were none.)
UpdateTenant ==
    /\ requests < MaxRequests
    /\ requests' = requests + 1
    /\ tenant' \in Credentials \union {None}
    /\ behind' = TRUE
    /\ UNCHANGED <<inst, made, at, req, access, tested, mixed, late>>

------------------------------------------------------------------------------
(* Calls of the API *)

Set(c, record) == call' = [call EXCEPT ![c] = record]
Return(c) == Set(c, NoCall)
Fire(c) == [call[c] EXCEPT !.at = "fire", !.attempt = 1]

\* MUTANT of Usable: expiresAt is not looked at.
EverUsable == cache.of # None

Usable == cache.left > 0

GetAccessToken(c) ==
    /\ call[c].at = "idle"
    /\ \/ Usable /\ Set(c, [Fire(c) EXCEPT !.of = cache.of, !.stale = cache.stale])
       \/ ~Usable /\ Set(c, [call[c] EXCEPT !.at = "config"])
    /\ UNCHANGED <<instances, admin, cache, breaker, ghosts>>

GetWeezeventConfig(c) ==
    /\ call[c].at = "config"
    /\ \/ tenant = None /\ Return(c)
       \/ tenant # None /\ Set(c, [call[c] EXCEPT !.at = "token", !.of = tenant])
    /\ UNCHANGED <<instances, admin, cache, breaker, ghosts>>

RequestNewToken(c) ==
    /\ call[c].at = "token" /\ call[c].of \in Known
    /\ cache' = [of |-> call[c].of, left |-> TokenLife, stale |-> call[c].stale]
    /\ Set(c, Fire(c))
    /\ UNCHANGED <<instances, admin, breaker, ghosts>>

\* A failing read of the Tenant row, or a request for a token, which nothing
\* repeats.
TokenFails(c) ==
    /\ call[c].at \in {"config", "token"}
    /\ Return(c)
    /\ UNCHANGED <<instances, admin, cache, breaker, ghosts>>

\* opossum closes after a success and may open after any failure.
Succeeds == breaker # "open" /\ breaker' = "closed"
Fails == breaker # "open" /\ breaker' \in IF breaker = "half" THEN {"open"} ELSE {"closed", "open"}

Answered(c) ==
    /\ call[c].at = "fire" /\ Succeeds /\ Return(c)
    /\ UNCHANGED <<instances, admin, cache, ghosts>>

\* 401: the token of the organisation is dropped, whichever it is by now.
Unauthorized(c) ==
    /\ call[c].at = "fire" /\ Fails /\ Return(c)
    /\ cache' = NoToken
    /\ UNCHANGED <<instances, admin, ghosts>>

\* Another error of the client, or the last attempt.
Rejected(c) ==
    /\ call[c].at = "fire" /\ Fails /\ Return(c)
    /\ UNCHANGED <<instances, admin, cache, ghosts>>

\* MUTANT of Disturbed: no last attempt.
DisturbedForEver(c) ==
    /\ call[c].at = "fire" /\ Fails
    /\ Set(c, [call[c] EXCEPT !.at = "sleep"])
    /\ UNCHANGED <<instances, admin, cache, ghosts>>

\* The network, a server error or too many requests.
Disturbed(c) ==
    /\ call[c].at = "fire" /\ Fails
    /\ call[c].attempt < MaxAttempts
    /\ Set(c, [call[c] EXCEPT !.at = "sleep"])
    /\ UNCHANGED <<instances, admin, cache, ghosts>>

\* The same request again, with the token it had.
Retry(c) ==
    /\ call[c].at = "sleep"
    /\ Set(c, [call[c] EXCEPT !.at = "fire", !.attempt = @ + 1])
    /\ UNCHANGED <<instances, admin, cache, breaker, ghosts>>

\* An open breaker: no call and no retry.
Suspended(c) ==
    /\ call[c].at = "fire" /\ breaker = "open"
    /\ Return(c)
    /\ UNCHANGED <<instances, admin, cache, breaker, ghosts>>

HalfOpen ==
    /\ breaker = "open" /\ breaker' = "half"
    /\ UNCHANGED <<instances, admin, cache, call, ghosts>>

------------------------------------------------------------------------------
(* Time *)

\* For how long what was read of the Tenant row has not been in it.
Older(of, stale) ==
    IF of = tenant \/ of = None THEN 0 ELSE IF stale > Horizon THEN stale ELSE stale + 1

Tick ==
    /\ \A c \in Calls : call[c].at # "idle" => call[c].age < MaxCall
    /\ cache' = [cache EXCEPT !.left = IF @ > 0 THEN @ - 1 ELSE 0,
                              !.stale = Older(cache.of, cache.stale)]
    /\ call' = [c \in Calls |->
                  IF call[c].at = "idle" THEN NoCall
                  ELSE [call[c] EXCEPT !.age = @ + 1, !.stale = Older(call[c].of, call[c].stale)]]
    /\ UNCHANGED <<instances, admin, breaker, ghosts>>

------------------------------------------------------------------------------
Ask(a) ==
    \/ \E dto \in Bodies : CreateInstance(a, dto) \/ UpdateConfig(a, dto)
    \/ \E i \in 1..made : DeleteInstance(a, i) \/ \E dto \in Bodies : UpdateInstance(a, i, dto)

Work(a) ==
    \/ GetDecryptedCredentials(a) \/ TestCredentials(a) \/ TestFails(a) \/ FindPrimary(a)
    \/ Insert(a) \/ Update(a) \/ Delete(a) \/ DisableAll(a)
    \/ FindActive(a) \/ WriteColumns(a) \/ Throw(a)

Request(c) ==
    \/ GetAccessToken(c) \/ GetWeezeventConfig(c) \/ RequestNewToken(c) \/ TokenFails(c)
    \/ Answered(c) \/ Unauthorized(c) \/ Rejected(c) \/ Disturbed(c) \/ Retry(c) \/ Suspended(c)

Next ==
    \/ \E a \in Admins : Ask(a) \/ Work(a)
    \/ \E c \in Calls : Request(c)
    \/ UpdateTenant \/ HalfOpen \/ Tick

Spec == Init /\ [][Next]_vars

------------------------------------------------------------------------------
(* Properties *)

\* Between requests the Tenant row has the credentials of the first enabled
\* instance, or none if there is none: unless the last to write it had looked
\* at older rows, or broke off before it, or was the tenants' interface.
\* mirrorActiveInstanceToTenant, whose comment promises that "the existing
\* sync/cron/webhook services (which read these columns) keep working"
MirrorFollows ==
    (\A a \in Admins : at[a] = "idle") /\ ~behind => tenant = Active

\* The credentials of an instance have passed a test, whoever changes which half
\* of them when: unless the older interface was given one half, or two requests
\* each changed a half the other had not seen.
\* IntegrationsController: "Validate credentials before persisting"
CredentialsTested == \A i \in There \ mixed : Of(inst[i]) \in tested

\* Nothing drops the token when an instance is changed, disabled or deleted: a
\* call is made with credentials that left the Tenant row no longer ago than the
\* call that fetched the token, the life of the token and this call may take.
\* WeezeventAuthService.getAccessToken, requestNewToken
TokensExpire == \A c \in Calls : call[c].at = "fire" => call[c].stale <= Horizon
=============================================================================
