------------------------ MODULE WeezeventAccessProofs ------------------------
(***************************************************************************)
(* What is proved of WeezeventAccess for any instances, requests, calls    *)
(* and bounds: the Tenant row follows the instances, no credentials are    *)
(* stored untested, and no token outlives its credentials by more than its *)
(* own life and two calls.                                                 *)
(*                                                                         *)
(* The requests and the calls meet in the Tenant row only.  AdminInv says  *)
(* what a request knows at each of its steps, CallInv how old the          *)
(* credentials of a call can be at each of its own.                        *)
(***************************************************************************)
EXTENDS WeezeventAccess, FiniteSetTheorems, TLAPS

AdminRequest == [do : {"none", "create", "update", "delete", "config"},
             of : Instances \union {0}, dto : Bodies \union {NoDto},
             seen : Credentials \union {None}, active : Credentials \union {None}]

AdminTypes ==
    /\ inst \in [Instances -> Row \union {NoRow}]
    /\ made \in 0..MaxInstances
    /\ \A i \in Instances : inst[i] # NoRow => i <= made
    /\ tenant \in Credentials \union {None}
    /\ at \in [Admins -> AdminSteps]
    /\ req \in [Admins -> AdminRequest]
    /\ \A a \in Admins : at[a] = "idle" <=> req[a] = NoRequest
    /\ requests \in 0..MaxRequests
    /\ tested \subseteq Known
    /\ mixed \subseteq Instances
    /\ late \subseteq Admins
    /\ behind \in BOOLEAN

Whole(dto) == Named(dto) = Both
Half(dto) == Named(dto) # {} /\ Named(dto) # Both

\* The request is one that comes to this step.
Fits(a) ==
    /\ at[a] # "idle" => req[a].do # "none"
    /\ at[a] \in {"stored", "update", "delete"} => req[a].of \in 1..made
    /\ req[a].do = "update" => req[a].of \in 1..made
    /\ at[a] = "stored" => req[a].do = "update" /\ Half(req[a].dto)
    /\ at[a] = "test" => req[a].do \in {"create", "update", "config"}
    /\ at[a] = "test" /\ req[a].do # "update" => Whole(req[a].dto)
    /\ at[a] = "test" => Named(req[a].dto) # {}
    /\ at[a] = "primary" => req[a].do = "config"
    /\ at[a] = "insert" => Whole(req[a].dto)
    /\ at[a] = "update" => req[a].do \in {"update", "config"}

\* What has been tested is what it will store, unless the row it takes the
\* other half from has changed.
Checks(a) ==
    /\ at[a] \in {"test", "primary", "insert", "update"} /\ Whole(req[a].dto)
       => req[a].seen = Of(req[a].dto)
    /\ at[a] \in {"primary", "insert", "update"} /\ Whole(req[a].dto) => req[a].seen \in tested
    /\ at[a] = "update" /\ req[a].do = "update" /\ Half(req[a].dto) => req[a].seen \in tested
    /\ /\ at[a] \in {"test", "update"} /\ req[a].do = "update" /\ Half(req[a].dto)
       /\ a \notin late /\ inst[req[a].of] # NoRow
       => req[a].seen = Of(Merge(inst[req[a].of], req[a].dto))

\* Whoever has looked for the active instance has found the present one, or is
\* late, and the Tenant row is behind only while somebody is about to write it.
Mirrors(a) == at[a] = "columns" /\ a \notin late => req[a].active = Active

Mirrored == behind \/ tenant = Active \/ \E a \in Admins : at[a] \in {"active", "columns"}

AdminInv ==
    /\ AdminTypes
    /\ \A a \in Admins : Fits(a) /\ Checks(a) /\ Mirrors(a)
    /\ Mirrored
    /\ CredentialsTested

CallTypes ==
    /\ cache \in [of : Credentials \union {None}, left : 0..TokenLife, stale : Ages]
    /\ call \in [Calls -> [at : {"idle", "config", "token", "fire", "sleep"},
                           of : Credentials \union {None}, stale : Ages,
                           attempt : 0..MaxAttempts, age : 0..MaxCall]]
    /\ breaker \in {"closed", "open", "half"}

\* The attempts of a call, and for how long what it has read has not been in
\* the Tenant row.
Calling(c) ==
    /\ call[c].at \in {"fire", "sleep"} => call[c].attempt > 0
    /\ call[c].at = "sleep" => call[c].attempt < MaxAttempts
    /\ call[c].at = "idle" => call[c] = NoCall
    /\ call[c].at = "config" => call[c].of = None /\ call[c].stale = 0
    /\ call[c].at = "token" => call[c].stale <= call[c].age
    /\ call[c].at \in {"fire", "sleep"} => call[c].stale <= MaxCall + TokenLife - 1 + call[c].age

Caching == cache.left > 0 => cache.stale + cache.left <= MaxCall + TokenLife

CallInv == CallTypes /\ (\A c \in Calls : Calling(c)) /\ Caching

IInv == AdminInv /\ CallInv

-----------------------------------------------------------------------------
(* Rows and the fields of a request.                                       *)

LEMMA Bounds ==
  /\ Bodies \subseteq Dto /\ NoDto \in Dto
  /\ Kept \notin ClientIds /\ Kept \notin Secrets
  /\ MaxInstances \in Nat \ {0} /\ MaxRequests \in Nat /\ MaxCall \in Nat
  /\ MaxAttempts \in Nat \ {0} /\ TokenLife \in Nat \ {0}
  /\ Horizon = MaxCall + MaxCall + TokenLife - 1 /\ Horizon \in Nat
<1>1. /\ MaxInstances \in Nat \ {0} /\ MaxRequests \in Nat /\ MaxCall \in Nat
      /\ MaxAttempts \in Nat \ {0} /\ TokenLife \in Nat \ {0}
  BY WeezeventAccessAssumption
<1>2. Bodies \subseteq Dto /\ Kept \notin ClientIds /\ Kept \notin Secrets
  BY WeezeventAccessAssumption
<1>3. NoDto \in Dto
  BY DEF NoDto, Dto
<1>4. Horizon = MaxCall + MaxCall + TokenLife - 1 /\ Horizon \in Nat
  BY <1>1 DEF Horizon
<1> QED
  BY <1>1, <1>2, <1>3, <1>4

LEMMA NamedFields ==
  ASSUME NEW dto
  PROVE  /\ "clientId" \in Named(dto) <=> dto.clientId # Kept
         /\ "clientSecret" \in Named(dto) <=> dto.clientSecret # Kept
         /\ Named(dto) = {} <=> dto.clientId = Kept /\ dto.clientSecret = Kept
         /\ Whole(dto) <=> dto.clientId # Kept /\ dto.clientSecret # Kept
         /\ Named(dto) \subseteq Both
  BY DEF Named, Whole, Both

LEMMA OneNamed ==
  ASSUME NEW dto
  PROVE  Half(dto) <=> Cardinality(Named(dto)) = 1
<1>1. Named(dto) \in SUBSET Both
  BY NamedFields
<1>2. Named(dto) \in {{}, {"clientId"}, {"clientSecret"}, Both}
  BY <1>1 DEF Both
<1>3. Cardinality({}) = 0 /\ Cardinality({"clientId"}) = 1 /\ Cardinality({"clientSecret"}) = 1
  BY FS_EmptySet, FS_Singleton
<1>4. Cardinality(Both) = 2
  <2>1. Both = {"clientId"} \union {"clientSecret"} /\ "clientSecret" \notin {"clientId"}
    BY DEF Both
  <2>2. IsFiniteSet({"clientId"})
    BY FS_Singleton
  <2>3. Cardinality({"clientId"} \union {"clientSecret"}) = Cardinality({"clientId"}) + 1
    BY <2>1, <2>2, FS_AddElement, Zenon
  <2> QED
    BY <1>3, <2>1, <2>3
<1> QED
  BY <1>2, <1>3, <1>4 DEF Half, Both

LEMMA MergeFields ==
  ASSUME NEW row \in Row \union {NoRow}, NEW dto \in Dto
  PROVE  LET m == Merge(row, dto)
         IN  /\ m = [clientId |-> m.clientId, clientSecret |-> m.clientSecret, enabled |-> m.enabled]
             /\ m.clientId = IF dto.clientId = Kept THEN row.clientId ELSE dto.clientId
             /\ m.clientSecret = IF dto.clientSecret = Kept THEN row.clientSecret ELSE dto.clientSecret
             /\ m.enabled = IF dto.enabled = Kept THEN row.enabled ELSE dto.enabled
<1>1. DOMAIN row = {"clientId", "clientSecret", "enabled"}
  BY DEF Row, NoRow
<1> QED
  BY <1>1 DEF Merge

LEMMA MergeTyped ==
  ASSUME NEW row \in Row, NEW dto \in Dto
  PROVE  /\ Merge(row, dto) \in Row
         /\ Of(Merge(row, dto)) \in Credentials
         /\ Named(dto) = {} => Of(Merge(row, dto)) = Of(row)
         /\ Whole(dto) => Of(Merge(row, dto)) = Of(dto)
<1> DEFINE m == Merge(row, dto)
<1>1. /\ m = [clientId |-> m.clientId, clientSecret |-> m.clientSecret, enabled |-> m.enabled]
      /\ m.clientId = IF dto.clientId = Kept THEN row.clientId ELSE dto.clientId
      /\ m.clientSecret = IF dto.clientSecret = Kept THEN row.clientSecret ELSE dto.clientSecret
      /\ m.enabled = IF dto.enabled = Kept THEN row.enabled ELSE dto.enabled
  BY MergeFields
<1>2. /\ row.clientId \in ClientIds /\ row.clientSecret \in Secrets /\ row.enabled \in {"on", "off"}
      /\ dto.clientId \in ClientIds \union {Kept} /\ dto.clientSecret \in Secrets \union {Kept}
      /\ dto.enabled \in {"on", "off", Kept}
  BY DEF Row, Dto
<1>3. m.clientId \in ClientIds /\ m.clientSecret \in Secrets /\ m.enabled \in {"on", "off"}
  BY <1>1, <1>2
<1>4. m \in Row
  BY <1>1, <1>3 DEF Row
<1>5. Of(m) \in Credentials
  BY <1>3 DEF Of, Credentials
<1>6. Named(dto) = {} => Of(m) = Of(row)
  BY <1>1, NamedFields DEF Of
<1>7. Whole(dto) => Of(m) = Of(dto)
  BY <1>1, NamedFields DEF Of
<1> QED
  BY <1>4, <1>5, <1>6, <1>7

LEMMA NewRow ==
  ASSUME NEW dto \in Dto, Whole(dto)
  PROVE  LET m == Merge([NoRow EXCEPT !.enabled = "on"], dto)
         IN  m \in Row /\ Of(m) = Of(dto) /\ Of(dto) \in Credentials
<1> DEFINE row == [NoRow EXCEPT !.enabled = "on"]
           m == Merge(row, dto)
<1>1. row = [clientId |-> "none", clientSecret |-> "none", enabled |-> "on"]
  BY DEF NoRow
<1>2. /\ m = [clientId |-> m.clientId, clientSecret |-> m.clientSecret, enabled |-> m.enabled]
      /\ m.clientId = IF dto.clientId = Kept THEN row.clientId ELSE dto.clientId
      /\ m.clientSecret = IF dto.clientSecret = Kept THEN row.clientSecret ELSE dto.clientSecret
      /\ m.enabled = IF dto.enabled = Kept THEN row.enabled ELSE dto.enabled
  <2>1. DOMAIN row = {"clientId", "clientSecret", "enabled"}
    BY <1>1
  <2> QED
    BY <2>1 DEF Merge
<1>3. /\ dto.clientId \in ClientIds \union {Kept} /\ dto.clientSecret \in Secrets \union {Kept}
      /\ dto.enabled \in {"on", "off", Kept} /\ row.enabled = "on"
  BY <1>1 DEF Dto
<1>4. dto.clientId # Kept /\ dto.clientSecret # Kept
  BY NamedFields
<1>5. /\ m.clientId = dto.clientId /\ m.clientId \in ClientIds
      /\ m.clientSecret = dto.clientSecret /\ m.clientSecret \in Secrets
      /\ m.enabled \in {"on", "off"}
  BY <1>2, <1>3, <1>4
<1>6. m \in Row
  BY <1>2, <1>5 DEF Row
<1>7. Of(m) = Of(dto) /\ Of(dto) \in Credentials
  BY <1>5 DEF Of, Credentials
<1> QED
  BY <1>6, <1>7

LEMMA OfTyped ==
  ASSUME NEW row \in Row
  PROVE  Of(row) \in Credentials
  BY DEF Row, Of, Credentials

LEMMA WholeTyped ==
  ASSUME NEW dto \in Dto, Whole(dto)
  PROVE  Of(dto) \in Credentials
  BY NewRow

\* Every non-empty set of naturals has a least element.
LEMMA LeastNatural ==
  ASSUME NEW N \in SUBSET Nat, N # {}
  PROVE  \E m \in N : \A n \in N : m <= n
<1>1. PICK m \in N : \A n \in N : ~ (<<n, m>> \in OpToRel(<, Nat))
  <2> HIDE DEF OpToRel
  <2> QED
    BY NatLessThanWellFounded, WFMin
<1>2. \A n \in N : ~ (n < m)
  BY <1>1 DEF OpToRel
<1> QED
  BY <1>2

\* There is a first of any rows.
LEMMA FirstIn ==
  ASSUME NEW S \in SUBSET Instances, S # {}
  PROVE  First(S) \in S
<1>1. S \in SUBSET Nat
  BY DEF Instances
<1>2. \E i \in S : \A j \in S : i <= j
  BY <1>1, LeastNatural
<1> QED
  BY <1>2 DEF First

LEMMA ActiveTyped ==
  ASSUME AdminTypes
  PROVE  Active \in Credentials \union {None}
<1>1. CASE Enabled = {}
  BY <1>1 DEF Active
<1>2. CASE Enabled # {}
  <2>1. Enabled \in SUBSET Instances
    BY DEF Enabled, There
  <2>2. First(Enabled) \in Enabled
    BY <1>2, <2>1, FirstIn
  <2>3. inst[First(Enabled)] \in Row
    BY <2>2 DEF AdminTypes, Enabled, There
  <2> QED
    BY <1>2, <2>3, OfTyped DEF Active
<1> QED
  BY <1>1, <1>2
-----------------------------------------------------------------------------
(* Steps of one request leave the others where they were.                  *)

\* Request a goes on with step s and holds r.
Goes(a, s, r) == at' = [at EXCEPT ![a] = s] /\ req' = [req EXCEPT ![a] = r]

LEMMA GoesOn ==
  ASSUME AdminTypes, NEW a \in Admins, NEW s \in AdminSteps, NEW r \in AdminRequest,
         s = "idle" <=> r = NoRequest, Goes(a, s, r)
  PROVE  /\ at' \in [Admins -> AdminSteps] /\ req' \in [Admins -> AdminRequest]
         /\ \A x \in Admins : at'[x] = "idle" <=> req'[x] = NoRequest
         /\ at'[a] = s /\ req'[a] = r
         /\ \A x \in Admins \ {a} : at'[x] = at[x] /\ req'[x] = req[x]
  BY DEF Goes, AdminTypes

\* What another request relies on.
Undisturbed(x) ==
    /\ at'[x] = at[x] /\ req'[x] = req[x]
    /\ made <= made' /\ tested \subseteq tested'
    /\ x \in late => x \in late'
    /\ /\ at[x] \in {"test", "update"} /\ req[x].do = "update" /\ Half(req[x].dto)
       /\ x \notin late' /\ inst'[req[x].of] # NoRow
       => /\ inst[req[x].of] # NoRow
          /\ Of(Merge(inst'[req[x].of], req[x].dto)) = Of(Merge(inst[req[x].of], req[x].dto))
    /\ at[x] = "columns" /\ x \notin late' => Active' = Active

LEMMA OthersFit ==
  ASSUME AdminTypes, made' \in Int, NEW x \in Admins, Undisturbed(x), Fits(x), Checks(x), Mirrors(x)
  PROVE  Fits(x)' /\ Checks(x)' /\ Mirrors(x)'
<1>1. made \in Int
  BY DEF AdminTypes
<1>2. Fits(x)'
  BY <1>1 DEF Undisturbed, Fits
<1>3. Checks(x)'
  BY DEF Undisturbed, Checks
<1>4. Mirrors(x)'
  BY DEF Undisturbed, Mirrors
<1> QED
  BY <1>2, <1>3, <1>4

\* The rows and the Tenant row stay, and no request was about to write it, or
\* else it still is.
LEMMA RowsStay ==
  ASSUME AdminInv, NEW a \in Admins, inst' = inst, made' = made, late \ {a} \subseteq late',
         tenant' = tenant, behind => behind', tested \subseteq tested', mixed' = mixed,
         \A x \in Admins \ {a} : at'[x] = at[x] /\ req'[x] = req[x],
         at[a] \in {"active", "columns"} => behind' \/ at'[a] \in {"active", "columns"}
  PROVE  /\ \A x \in Admins \ {a} : Undisturbed(x)
         /\ Mirrored' /\ CredentialsTested'
<1>1. Active' = Active /\ There' = There
  BY DEF Active, Enabled, There
<1>2. made \in Int
  BY DEF AdminInv, AdminTypes
<1>3. \A x \in Admins \ {a} : Undisturbed(x)
  BY <1>1, <1>2 DEF Undisturbed
<1>4. Mirrored'
  <2>1. CASE behind
    BY <2>1 DEF Mirrored
  <2>2. CASE tenant = Active
    BY <1>1, <2>2 DEF Mirrored
  <2>3. ASSUME NEW x \in Admins, at[x] \in {"active", "columns"} PROVE Mirrored'
    BY <2>3 DEF Mirrored
  <2> QED
    BY <2>1, <2>2, <2>3 DEF AdminInv, Mirrored
<1>5. CredentialsTested'
  BY <1>1 DEF AdminInv, CredentialsTested
<1> QED
  BY <1>3, <1>4, <1>5
LEMMA Assembled ==
  ASSUME AdminInv, AdminTypes', NEW a \in Admins, Fits(a)', Checks(a)', Mirrors(a)',
         \A x \in Admins \ {a} : Undisturbed(x),
         Mirrored', CredentialsTested'
  PROVE  AdminInv'
<1>1. made' \in Int
  BY DEF AdminTypes
<1>2. \A x \in Admins \ {a} : Fits(x)' /\ Checks(x)' /\ Mirrors(x)'
  BY <1>1, OthersFit DEF AdminInv
<1> QED
  BY <1>2 DEF AdminInv

-----------------------------------------------------------------------------
(* Requests that begin.                                                    *)

LEMMA BeginKeeps ==
  ASSUME AdminInv, NEW a \in Admins, NEW s \in AdminSteps \ {"idle"}, NEW r \in AdminRequest,
         r.do # "none", Begin(a, s, r),
         at'[a] = s /\ req'[a] = r => Fits(a)' /\ Checks(a)' /\ Mirrors(a)'
  PROVE  AdminInv'
<1>1. AdminTypes
  BY DEF AdminInv
<1>2. r # NoRequest
  BY DEF NoRequest
<1>3. Goes(a, s, r)
  BY DEF Begin, Goes
<1>4. /\ at' \in [Admins -> AdminSteps] /\ req' \in [Admins -> AdminRequest]
      /\ \A x \in Admins : at'[x] = "idle" <=> req'[x] = NoRequest
      /\ at'[a] = s /\ req'[a] = r
      /\ \A x \in Admins \ {a} : at'[x] = at[x] /\ req'[x] = req[x]
  BY <1>1, <1>2, <1>3, GoesOn
<1>5. requests' \in 0..MaxRequests
  BY <1>1, Bounds DEF Begin, AdminTypes
<1>6. AdminTypes'
  BY <1>1, <1>4, <1>5 DEF AdminTypes, Begin, instances, ghosts
<1>7. (\A x \in Admins \ {a} : Undisturbed(x)) /\ Mirrored' /\ CredentialsTested'
  BY <1>4, RowsStay DEF Begin, instances, ghosts
<1> QED
  BY <1>4, <1>6, <1>7, Assembled

LEMMA CreateKeeps ==
  ASSUME AdminInv, NEW a \in Admins, NEW dto \in Bodies, CreateInstance(a, dto)
  PROVE  AdminInv'
<1> DEFINE r == [NoRequest EXCEPT !.do = "create", !.dto = dto, !.seen = Of(dto)]
<1>1. Whole(dto) /\ dto \in Dto /\ Begin(a, "test", r)
  BY Bounds DEF CreateInstance, Whole
<1>2. Of(dto) \in Credentials
  BY <1>1, WholeTyped
<1>3. r \in AdminRequest /\ r.do = "create" /\ r.dto = dto /\ r.seen = Of(dto)
  BY <1>2 DEF NoRequest, AdminRequest
<1>4. Named(dto) # {}
  BY <1>1 DEF Whole, Both
<1>5. at'[a] = "test" /\ req'[a] = r => Fits(a)' /\ Checks(a)' /\ Mirrors(a)'
  BY <1>1, <1>3, <1>4 DEF Fits, Checks, Mirrors
<1> QED
  BY <1>1, <1>3, <1>5, BeginKeeps DEF AdminSteps

LEMMA UpdateInstanceKeeps ==
  ASSUME AdminInv, NEW a \in Admins, NEW i \in 1..made, NEW dto \in Bodies, UpdateInstance(a, i, dto)
  PROVE  AdminInv'
<1> DEFINE r == [NoRequest EXCEPT !.do = "update", !.of = i, !.dto = dto]
           whole == [r EXCEPT !.seen = Of(dto)]
<1>1. dto \in Dto /\ made \in 0..MaxInstances /\ i \in Instances
  BY Bounds DEF AdminInv, AdminTypes, Instances
<1>2. r \in AdminRequest /\ r.do = "update" /\ r.dto = dto /\ r.of = i
  BY <1>1 DEF NoRequest, AdminRequest, None
<1>3. made' = made
  BY DEF UpdateInstance, Begin, instances
<1>4. CASE Named(dto) = {} /\ Begin(a, "update", r)
  <2>1. ~Whole(dto) /\ ~Half(dto)
    BY <1>4 DEF Whole, Half, Both
  <2>2. at'[a] = "update" /\ req'[a] = r => Fits(a)' /\ Checks(a)' /\ Mirrors(a)'
    BY <1>2, <1>3, <2>1 DEF Fits, Checks, Mirrors
  <2> QED
    BY <1>2, <1>4, <2>2, BeginKeeps DEF AdminSteps
<1>5. CASE Whole(dto) /\ Begin(a, "test", whole)
  <2>1. Of(dto) \in Credentials
    BY <1>1, <1>5, WholeTyped
  <2>2. whole \in AdminRequest /\ whole.do = "update" /\ whole.dto = dto
        /\ whole.of = i /\ whole.seen = Of(dto)
    BY <1>1, <2>1 DEF NoRequest, AdminRequest
  <2>3. ~Half(dto) /\ Named(dto) # {}
    BY <1>5 DEF Whole, Half, Both
  <2>4. at'[a] = "test" /\ req'[a] = whole => Fits(a)' /\ Checks(a)' /\ Mirrors(a)'
    BY <1>3, <1>5, <2>2, <2>3 DEF Fits, Checks, Mirrors
  <2> QED
    BY <1>5, <2>2, <2>4, BeginKeeps DEF AdminSteps
<1>6. CASE Cardinality(Named(dto)) = 1 /\ Begin(a, "stored", r)
  <2>1. Half(dto)
    BY <1>6, OneNamed
  <2>2. at'[a] = "stored" /\ req'[a] = r => Fits(a)' /\ Checks(a)' /\ Mirrors(a)'
    BY <1>2, <1>3, <2>1 DEF Fits, Checks, Mirrors
  <2> QED
    BY <1>2, <1>6, <2>2, BeginKeeps DEF AdminSteps
<1> QED
  BY <1>4, <1>5, <1>6 DEF UpdateInstance, Whole

LEMMA UpdateConfigKeeps ==
  ASSUME AdminInv, NEW a \in Admins, NEW dto \in Bodies, UpdateConfig(a, dto)
  PROVE  AdminInv'
<1> DEFINE r == [NoRequest EXCEPT !.do = "config", !.dto = dto]
           whole == [r EXCEPT !.seen = Of(dto)]
<1>1. dto \in Dto
  BY Bounds
<1>2. r \in AdminRequest /\ r.do = "config" /\ r.dto = dto
  BY DEF NoRequest, AdminRequest, None
<1>3. CASE Whole(dto) /\ Begin(a, "test", whole)
  <2>1. Of(dto) \in Credentials
    BY <1>1, <1>3, WholeTyped
  <2>2. whole \in AdminRequest /\ whole.do = "config" /\ whole.dto = dto
        /\ whole.seen = Of(dto)
    BY <2>1 DEF NoRequest, AdminRequest
  <2>3. Named(dto) # {}
    BY <1>3 DEF Whole, Both
  <2>4. at'[a] = "test" /\ req'[a] = whole => Fits(a)' /\ Checks(a)' /\ Mirrors(a)'
    BY <1>3, <2>2, <2>3 DEF Fits, Checks, Mirrors
  <2> QED
    BY <1>3, <2>2, <2>4, BeginKeeps DEF AdminSteps
<1>4. CASE Begin(a, "disable", r)
  <2>1. at'[a] = "disable" /\ req'[a] = r => Fits(a)' /\ Checks(a)' /\ Mirrors(a)'
    BY <1>2 DEF Fits, Checks, Mirrors
  <2> QED
    BY <1>2, <1>4, <2>1, BeginKeeps DEF AdminSteps
<1>5. CASE ~Whole(dto) /\ Begin(a, "primary", r)
  <2>1. at'[a] = "primary" /\ req'[a] = r => Fits(a)' /\ Checks(a)' /\ Mirrors(a)'
    BY <1>2, <1>5 DEF Fits, Checks, Mirrors
  <2> QED
    BY <1>2, <1>5, <2>1, BeginKeeps DEF AdminSteps
<1> QED
  BY <1>3, <1>4, <1>5 DEF UpdateConfig, Whole

LEMMA DeleteInstanceKeeps ==
  ASSUME AdminInv, NEW a \in Admins, NEW i \in 1..made, DeleteInstance(a, i)
  PROVE  AdminInv'
<1> DEFINE r == [NoRequest EXCEPT !.do = "delete", !.of = i]
<1>1. i \in Instances
  BY Bounds DEF AdminInv, AdminTypes, Instances
<1>2. r \in AdminRequest /\ r.do = "delete" /\ r.of = i
  BY <1>1 DEF NoRequest, AdminRequest, None
<1>3. Begin(a, "delete", r) /\ made' = made
  BY DEF DeleteInstance, Begin, instances
<1>4. at'[a] = "delete" /\ req'[a] = r => Fits(a)' /\ Checks(a)' /\ Mirrors(a)'
  BY <1>2, <1>3 DEF Fits, Checks, Mirrors
<1> QED
  BY <1>2, <1>3, <1>4, BeginKeeps DEF AdminSteps

LEMMA AskKeeps ==
  ASSUME AdminInv, NEW a \in Admins, Ask(a)
  PROVE  AdminInv'
  BY CreateKeeps, UpdateInstanceKeeps, UpdateConfigKeeps, DeleteInstanceKeeps DEF Ask
-----------------------------------------------------------------------------
(* Steps that leave the instances alone.                                   *)

\* The request goes on with step s and holds r, or it ends.
LEMMA StepTyped ==
  ASSUME AdminInv, NEW a \in Admins, at[a] # "idle", NEW s \in AdminSteps, NEW r \in AdminRequest,
         s = "idle" <=> r = NoRequest, Goes(a, s, r), requests' = requests,
         inst' = inst, made' = made, mixed' = mixed, late' \in {late, late \ {a}},
         tenant' \in Credentials \union {None}, tested' \subseteq Known, behind' \in BOOLEAN
  PROVE  /\ AdminTypes'
         /\ at'[a] = s /\ req'[a] = r
         /\ \A x \in Admins \ {a} : at'[x] = at[x] /\ req'[x] = req[x]
<1>1. AdminTypes
  BY DEF AdminInv
<1>2. /\ at' \in [Admins -> AdminSteps] /\ req' \in [Admins -> AdminRequest]
      /\ \A x \in Admins : at'[x] = "idle" <=> req'[x] = NoRequest
      /\ at'[a] = s /\ req'[a] = r
      /\ \A x \in Admins \ {a} : at'[x] = at[x] /\ req'[x] = req[x]
  BY <1>1, GoesOn
<1> QED
  BY <1>1, <1>2 DEF AdminTypes

LEMMA StepKeeps ==
  ASSUME AdminInv, NEW a \in Admins, at[a] # "idle", NEW s \in AdminSteps, NEW r \in AdminRequest,
         s = "idle" <=> r = NoRequest, Goes(a, s, r), requests' = requests,
         inst' = inst, made' = made, mixed' = mixed, late' \in {late, late \ {a}},
         tenant' = tenant, tested' \subseteq Known, tested \subseteq tested',
         behind' \in BOOLEAN, behind => behind',
         at[a] \in {"active", "columns"} => behind' \/ s \in {"active", "columns"},
         at'[a] = s /\ req'[a] = r => Fits(a)' /\ Checks(a)' /\ Mirrors(a)'
  PROVE  AdminInv'
<1>1. tenant' \in Credentials \union {None}
  BY DEF AdminInv, AdminTypes
<1>2. /\ AdminTypes'
      /\ at'[a] = s /\ req'[a] = r
      /\ \A x \in Admins \ {a} : at'[x] = at[x] /\ req'[x] = req[x]
  BY <1>1, StepTyped
<1>3. late \ {a} \subseteq late'
  OBVIOUS
<1>4. (\A x \in Admins \ {a} : Undisturbed(x)) /\ Mirrored' /\ CredentialsTested'
  BY <1>2, <1>3, RowsStay
<1> QED
  BY <1>2, <1>4, Assembled

LEMMA IdleFits ==
  ASSUME NEW a \in Admins, at'[a] = "idle", req'[a] = NoRequest
  PROVE  Fits(a)' /\ Checks(a)' /\ Mirrors(a)'
  BY DEF Fits, Checks, Mirrors, NoRequest

LEMMA NoRequestTyped == NoRequest \in AdminRequest /\ "idle" \in AdminSteps
  BY DEF NoRequest, AdminRequest, AdminSteps

LEMMA EndKeeps ==
  ASSUME AdminInv, NEW a \in Admins, at[a] # "idle", End(a),
         inst' = inst, made' = made, mixed' = mixed, late' \in {late, late \ {a}},
         tenant' = tenant, tested' = tested,
         behind' \in BOOLEAN, behind => behind',
         at[a] \in {"active", "columns"} => behind'
  PROVE  AdminInv'
<1>1. Goes(a, "idle", NoRequest) /\ requests' = requests
  BY DEF End, Go, Goes
<1>2. tested' \subseteq Known /\ tested \subseteq tested'
  BY DEF AdminInv, AdminTypes
<1> QED
  BY <1>1, <1>2, NoRequestTyped, IdleFits, StepKeeps

LEMMA GoKeeps ==
  ASSUME AdminInv, NEW a \in Admins, at[a] # "idle", NEW s \in AdminSteps \ {"idle"}, Go(a, s),
         req' = req, requests' = requests, UNCHANGED instances, tested' \subseteq Known,
         tested \subseteq tested', mixed' = mixed, late' = late, behind' = behind,
         at[a] \notin {"active", "columns"},
         at'[a] = s /\ req'[a] = req[a] => Fits(a)' /\ Checks(a)' /\ Mirrors(a)'
  PROVE  AdminInv'
<1>1. AdminTypes
  BY DEF AdminInv
<1>2. req[a] \in AdminRequest /\ req[a] # NoRequest /\ behind \in BOOLEAN
  BY <1>1 DEF AdminTypes
<1>3. Goes(a, s, req[a])
  <2>1. req' = [req EXCEPT ![a] = req[a]]
    BY <1>1 DEF AdminTypes
  <2> QED
    BY <2>1 DEF Goes, Go
<1> QED
  BY <1>2, <1>3, StepKeeps DEF instances

LEMMA GetDecryptedCredentialsKeeps ==
  ASSUME AdminInv, NEW a \in Admins, GetDecryptedCredentials(a)
  PROVE  AdminInv'
<1> DEFINE row == inst[req[a].of]
           r == [req[a] EXCEPT !.seen = Of(Merge(row, req[a].dto))]
<1>1. AdminTypes /\ Fits(a)
  BY DEF AdminInv
<1>2. at[a] = "stored" /\ req[a] \in AdminRequest
  BY <1>1 DEF GetDecryptedCredentials, AdminTypes
<1>3. CASE End(a)
  BY <1>1, <1>2, <1>3, EndKeeps DEF GetDecryptedCredentials, instances, ghosts, AdminTypes
<1>4. CASE /\ row # NoRow /\ Go(a, "test")
           /\ req' = [req EXCEPT ![a].seen = Of(Merge(row, req[a].dto))]
           /\ UNCHANGED requests
  <2>1. req[a].do = "update" /\ Half(req[a].dto) /\ req[a].of \in 1..made
    BY <1>1, <1>2 DEF Fits
  <2>2. req[a].of \in Instances /\ row \in Row
    <3>1. made \in 0..MaxInstances /\ inst \in [Instances -> Row \union {NoRow}]
      BY <1>1 DEF AdminTypes
    <3>2. req[a].of \in Instances
      BY <2>1, <3>1, Bounds DEF Instances
    <3> QED
      BY <1>4, <3>1, <3>2
  <2>3. req[a].dto \in Dto
    BY <1>2, Bounds DEF AdminRequest
  <2>4. Of(Merge(row, req[a].dto)) \in Credentials
    BY <2>2, <2>3, MergeTyped
  <2>5. /\ r \in AdminRequest /\ r.do = req[a].do /\ r.dto = req[a].dto /\ r.of = req[a].of
        /\ r.seen = Of(Merge(row, req[a].dto))
    BY <1>2, <2>4 DEF AdminRequest
  <2>6. r # NoRequest
    BY <2>1, <2>5 DEF NoRequest
  <2>7. Goes(a, "test", r)
    BY <1>4 DEF Goes, Go
  <2>8. ~Whole(req[a].dto) /\ Named(req[a].dto) # {}
    BY <2>1 DEF Half, Whole
  <2>9. inst' = inst /\ made' = made
    BY DEF GetDecryptedCredentials, instances
  <2>10. at'[a] = "test" /\ req'[a] = r => Fits(a)' /\ Checks(a)' /\ Mirrors(a)'
    BY <2>1, <2>5, <2>8, <2>9 DEF Fits, Checks, Mirrors
  <2>11. tested' \subseteq Known /\ tested \subseteq tested' /\ behind' \in BOOLEAN
    BY <1>1 DEF GetDecryptedCredentials, ghosts, AdminTypes
  <2> QED
    BY <1>2, <1>4, <2>5, <2>6, <2>7, <2>10, <2>11, StepKeeps
    DEF GetDecryptedCredentials, instances, ghosts, AdminSteps
<1> QED
  BY <1>3, <1>4 DEF GetDecryptedCredentials

LEMMA TestCredentialsKeeps ==
  ASSUME AdminInv, NEW a \in Admins, TestCredentials(a)
  PROVE  AdminInv'
<1> DEFINE s == CASE req[a].do = "create" -> "insert"
                  [] req[a].do = "update" -> "update"
                  [] req[a].do = "config" -> "primary"
<1>1. AdminTypes /\ Fits(a) /\ Checks(a)
  BY DEF AdminInv
<1>2. at[a] = "test" /\ req[a].do \in {"create", "update", "config"}
  BY <1>1 DEF TestCredentials, Fits
<1>3. /\ req[a].do = "create" => s = "insert"
      /\ req[a].do = "update" => s = "update"
      /\ req[a].do = "config" => s = "primary"
      /\ s \in AdminSteps \ {"idle"}
  BY <1>2 DEF AdminSteps
<1>4. Go(a, s) /\ req[a].seen \in Known /\ tested' = tested \union {req[a].seen}
  BY DEF TestCredentials
<1>5. tested' \subseteq Known /\ tested \subseteq tested' /\ req[a].seen \in tested'
  BY <1>1, <1>4 DEF AdminTypes
<1> HIDE DEF s
<1>6. at'[a] = s /\ req'[a] = req[a] => Fits(a)' /\ Checks(a)' /\ Mirrors(a)'
  <2> SUFFICES ASSUME at'[a] = s, req'[a] = req[a]
               PROVE  Fits(a)' /\ Checks(a)' /\ Mirrors(a)'
    OBVIOUS
  <2>1. inst' = inst /\ made' = made /\ late' = late
    BY DEF TestCredentials, instances
  <2>2. Fits(a)'
    BY <1>1, <1>2, <1>3, <2>1 DEF Fits
  <2>3. Checks(a)'
    BY <1>1, <1>2, <1>3, <1>5, <2>1 DEF Checks, Fits
  <2> QED
    BY <1>2, <1>3, <2>2, <2>3 DEF Mirrors
<1> QED
  BY <1>2, <1>3, <1>4, <1>5, <1>6, GoKeeps DEF TestCredentials

LEMMA TestFailsKeeps ==
  ASSUME AdminInv, NEW a \in Admins, TestFails(a)
  PROVE  AdminInv'
<1>1. behind' \in BOOLEAN
  BY DEF AdminInv, AdminTypes, TestFails
<1> QED
  BY <1>1, EndKeeps DEF TestFails, instances

LEMMA FindPrimaryKeeps ==
  ASSUME AdminInv, NEW a \in Admins, FindPrimary(a)
  PROVE  AdminInv'
<1>1. AdminTypes /\ Fits(a) /\ Checks(a)
  BY DEF AdminInv
<1>2. at[a] = "primary" /\ req[a].do = "config" /\ req[a] \in AdminRequest
  BY <1>1 DEF FindPrimary, Fits, AdminTypes
<1>3. /\ UNCHANGED instances /\ inst' = inst /\ made' = made /\ mixed' = mixed /\ late' = late
      /\ tenant' = tenant /\ tested' = tested /\ behind' = behind
      /\ tested \subseteq Known /\ behind \in BOOLEAN
  BY <1>1 DEF FindPrimary, instances, ghosts, AdminTypes
<1>4. CASE /\ There # {} /\ Go(a, "update")
           /\ req' = [req EXCEPT ![a].of = First(There)]
           /\ UNCHANGED requests
  <2> DEFINE i == First(There)
             r == [req[a] EXCEPT !.of = i]
  <2>1. i \in There
    BY <1>4, FirstIn DEF There
  <2>2. i \in Instances /\ i \in 1..made
    BY <1>1, <2>1, Bounds DEF There, AdminTypes, Instances
  <2>3. /\ r \in AdminRequest /\ r.do = req[a].do /\ r.dto = req[a].dto /\ r.of = i
        /\ r.seen = req[a].seen
    BY <1>2, <2>2 DEF AdminRequest
  <2>4. r # NoRequest
    BY <1>2, <2>3 DEF NoRequest
  <2>5. Goes(a, "update", r)
    BY <1>4 DEF Goes, Go
  <2>6. at'[a] = "update" /\ req'[a] = r => Fits(a)' /\ Checks(a)' /\ Mirrors(a)'
    BY <1>1, <1>2, <1>3, <2>2, <2>3 DEF Fits, Checks, Mirrors
  <2> HIDE DEF r
  <2> QED
    BY <1>2, <1>3, <1>4, <2>3, <2>4, <2>5, <2>6, StepKeeps DEF AdminSteps
<1>5. CASE There = {} /\ Named(req[a].dto) = Both /\ Go(a, "insert") /\ UNCHANGED <<req, requests>>
  <2>1. at'[a] = "insert" /\ req'[a] = req[a] => Fits(a)' /\ Checks(a)' /\ Mirrors(a)'
    BY <1>1, <1>2, <1>3, <1>5 DEF Fits, Checks, Mirrors, Whole
  <2> QED
    BY <1>2, <1>3, <1>5, <2>1, GoKeeps DEF AdminSteps
<1>6. CASE End(a)
  BY <1>2, <1>3, <1>6, EndKeeps
<1> QED
  BY <1>4, <1>5, <1>6 DEF FindPrimary

LEMMA FindActiveKeeps ==
  ASSUME AdminInv, NEW a \in Admins, FindActive(a)
  PROVE  AdminInv'
<1> DEFINE r == [req[a] EXCEPT !.active = Active]
<1>1. AdminTypes /\ Fits(a)
  BY DEF AdminInv
<1>2. at[a] = "active" /\ req[a] \in AdminRequest /\ req[a].do # "none"
  BY <1>1 DEF FindActive, Fits, AdminTypes
<1>3. /\ inst' = inst /\ made' = made /\ mixed' = mixed /\ late' = late \ {a}
      /\ tenant' = tenant /\ tested' = tested /\ behind' = behind /\ requests' = requests
      /\ tested \subseteq Known /\ behind \in BOOLEAN
  BY <1>1 DEF FindActive, instances, AdminTypes
<1>4. Active' = Active
  BY <1>3 DEF Active, Enabled, There
<1>5. /\ r \in AdminRequest /\ r.do = req[a].do /\ r.dto = req[a].dto /\ r.of = req[a].of
      /\ r.active = Active
  BY <1>1, <1>2, ActiveTyped DEF AdminRequest
<1>6. r # NoRequest
  BY <1>2, <1>5 DEF NoRequest
<1>7. Goes(a, "columns", r)
  BY DEF FindActive, Goes, Go
<1>8. at'[a] = "columns" /\ req'[a] = r => Fits(a)' /\ Checks(a)' /\ Mirrors(a)'
  BY <1>1, <1>2, <1>3, <1>4, <1>5 DEF Fits, Checks, Mirrors
<1> HIDE DEF r
<1> QED
  BY <1>2, <1>3, <1>5, <1>6, <1>7, <1>8, StepKeeps DEF AdminSteps

LEMMA WriteColumnsKeeps ==
  ASSUME AdminInv, NEW a \in Admins, WriteColumns(a)
  PROVE  AdminInv'
<1>1. AdminTypes /\ Mirrors(a)
  BY DEF AdminInv
<1>2. /\ at[a] = "columns" /\ tenant' = req[a].active /\ inst' = inst /\ made' = made
      /\ mixed' = mixed /\ late' = late \ {a} /\ tested' = tested /\ requests' = requests
      /\ behind' = (a \in late) /\ Goes(a, "idle", NoRequest)
  BY DEF WriteColumns, End, Go, Goes
<1>3. tenant' \in Credentials \union {None} /\ tested' \subseteq Known
  BY <1>1, <1>2 DEF AdminTypes, AdminRequest
<1>4. /\ AdminTypes'
      /\ at'[a] = "idle" /\ req'[a] = NoRequest
      /\ \A x \in Admins \ {a} : at'[x] = at[x] /\ req'[x] = req[x]
  BY <1>2, <1>3, NoRequestTyped, StepTyped
<1>5. Active' = Active /\ There' = There
  BY <1>2 DEF Active, Enabled, There
<1>6. \A x \in Admins \ {a} : Undisturbed(x)
  BY <1>1, <1>2, <1>4, <1>5 DEF Undisturbed, AdminTypes
<1>7. Mirrored'
  BY <1>1, <1>2, <1>5 DEF Mirrors, Mirrored
<1>8. CredentialsTested'
  BY <1>2, <1>5 DEF AdminInv, CredentialsTested
<1> QED
  BY <1>4, <1>6, <1>7, <1>8, IdleFits, Assembled

LEMMA ThrowKeeps ==
  ASSUME AdminInv, NEW a \in Admins, Throw(a)
  PROVE  AdminInv'
<1>1. behind' \in BOOLEAN /\ (behind => behind')
  BY DEF AdminInv, AdminTypes, Throw
<1> QED
  BY <1>1, EndKeeps DEF Throw, instances
-----------------------------------------------------------------------------
(* Steps that change the instances.                                        *)

LEMMA ChangedKeeps ==
  ASSUME AdminInv, NEW a \in Admins, at[a] # "idle", NEW rows, NEW others \in SUBSET Admins,
         Changed(a, rows, others), rows \in [Instances -> Row \union {NoRow}],
         made' \in 0..MaxInstances, made <= made', \A i \in Instances : rows[i] # NoRow => i <= made',
         mixed' \subseteq Instances, CredentialsTested',
         \A x \in Admins \ {a} :
            /\ at[x] \in {"test", "update"} /\ req[x].do = "update" /\ Half(req[x].dto)
            /\ x \notin others /\ rows[req[x].of] # NoRow
            => /\ inst[req[x].of] # NoRow
               /\ Of(Merge(rows[req[x].of], req[x].dto)) = Of(Merge(inst[req[x].of], req[x].dto))
  PROVE  AdminInv'
<1>1. AdminTypes /\ Fits(a)
  BY DEF AdminInv
<1>2. /\ inst' = rows /\ Go(a, "active") /\ req' = req /\ requests' = requests
      /\ late' = late \union {x \in Admins : at[x] = "columns"} \union others
      /\ tenant' = tenant /\ tested' = tested /\ behind' = behind
  BY DEF Changed
<1>3. req[a] \in AdminRequest /\ req[a] # NoRequest
  BY <1>1 DEF AdminTypes
<1>4. Goes(a, "active", req[a])
  <2>1. req' = [req EXCEPT ![a] = req[a]]
    BY <1>1, <1>2 DEF AdminTypes
  <2> QED
    BY <1>2, <2>1 DEF Goes, Go
<1>5. /\ at' \in [Admins -> AdminSteps] /\ req' \in [Admins -> AdminRequest]
      /\ \A x \in Admins : at'[x] = "idle" <=> req'[x] = NoRequest
      /\ at'[a] = "active" /\ req'[a] = req[a]
      /\ \A x \in Admins \ {a} : at'[x] = at[x] /\ req'[x] = req[x]
  <2>1. "active" \in AdminSteps
    BY DEF AdminSteps
  <2> QED
    BY <1>1, <1>3, <1>4, <2>1, GoesOn
<1>6. AdminTypes'
  BY <1>1, <1>2, <1>5 DEF AdminTypes
<1>7. \A x \in Admins \ {a} : Undisturbed(x)
  BY <1>2, <1>5 DEF Undisturbed
<1>8. Fits(a)' /\ Checks(a)' /\ Mirrors(a)'
  <2>1. made \in Int /\ made' \in Int
    BY <1>1 DEF AdminTypes
  <2> QED
    BY <1>1, <1>5, <2>1 DEF Fits, Checks, Mirrors, AdminInv
<1>9. Mirrored'
  BY <1>5 DEF Mirrored
<1> QED
  BY <1>6, <1>7, <1>8, <1>9, Assembled

\* What a row offers to a request that names half of the credentials.
LEMMA SameHalves ==
  ASSUME NEW old \in Row, NEW row \in Row, Of(old) = Of(row), NEW dto \in Dto
  PROVE  Of(Merge(row, dto)) = Of(Merge(old, dto))
<1>1. old.clientId = row.clientId /\ old.clientSecret = row.clientSecret
  BY DEF Of
<1> QED
  BY <1>1, MergeFields DEF Of

LEMMA InsertKeeps ==
  ASSUME AdminInv, NEW a \in Admins, Insert(a)
  PROVE  AdminInv'
<1> DEFINE dto == req[a].dto
           row == Merge([NoRow EXCEPT !.enabled = "on"], dto)
           n == made + 1
           rows == [inst EXCEPT ![made + 1] = row]
<1>1. AdminTypes /\ Fits(a) /\ Checks(a)
  BY DEF AdminInv
<1>2. /\ at[a] = "insert" /\ made < MaxInstances /\ made' = made + 1 /\ mixed' = mixed
      /\ Changed(a, rows, {})
  BY DEF Insert
<1>3. Whole(dto) /\ dto \in Dto /\ req[a].seen = Of(dto) /\ Of(dto) \in tested
  BY <1>1, <1>2, Bounds DEF Fits, Checks, AdminTypes, AdminRequest
<1>4. row \in Row /\ Of(row) = Of(dto)
  BY <1>3, NewRow
<1>5. made \in Nat /\ n \in Instances /\ made' \in 0..MaxInstances /\ made <= made'
  <2>1. made \in 0..MaxInstances
    BY <1>1 DEF AdminTypes
  <2> QED
    BY <1>2, <2>1, Bounds DEF Instances
<1> HIDE DEF row
<1>6. rows \in [Instances -> Row \union {NoRow}]
  BY <1>1, <1>4 DEF AdminTypes
<1>7. rows[n] = row /\ \A i \in Instances \ {n} : rows[i] = inst[i]
  BY <1>1, <1>5 DEF AdminTypes
<1>8. \A i \in Instances : rows[i] # NoRow => i <= made'
  BY <1>1, <1>2, <1>5, <1>7 DEF AdminTypes, Instances
<1>9. inst' = rows /\ tested' = tested
  BY <1>2 DEF Changed
<1>10. CredentialsTested'
  BY <1>2, <1>3, <1>4, <1>7, <1>9 DEF AdminInv, CredentialsTested, There
<1>11. \A x \in Admins : req[x].do = "update" => rows[req[x].of] = inst[req[x].of]
  <2> TAKE x \in Admins
  <2> HAVE req[x].do = "update"
  <2>1. req[x].of \in 1..made
    BY DEF AdminInv, Fits
  <2> QED
    BY <1>2, <1>5, <1>7, <2>1, Bounds DEF Instances
<1> HIDE DEF rows
<1> QED
  BY <1>1, <1>2, <1>5, <1>6, <1>8, <1>10, <1>11, ChangedKeeps DEF AdminTypes

LEMMA UpdateKeeps ==
  ASSUME AdminInv, NEW a \in Admins, Update(a)
  PROVE  AdminInv'
<1> DEFINE i == req[a].of
           dto == req[a].dto
           row == Merge(inst[i], dto)
           rows == [inst EXCEPT ![i] = row]
           others == IF Named(dto) = {} THEN {} ELSE Halves(i) \ {a}
<1>1. AdminTypes /\ Fits(a) /\ Checks(a)
  BY DEF AdminInv
<1>2. /\ at[a] = "update" /\ req[a].do \in {"update", "config"} /\ i \in 1..made
      /\ dto \in Dto /\ req[a] \in AdminRequest
  BY <1>1, Bounds DEF Update, Fits, AdminTypes, AdminRequest
<1>3. made \in Nat /\ i \in Instances /\ made <= MaxInstances
  BY <1>1, <1>2, Bounds DEF AdminTypes, Instances
<1>4. CASE inst[i] = NoRow /\ End(a) /\ late' = late \ {a}
           /\ UNCHANGED <<instances, access, tested, mixed, behind>>
  BY <1>1, <1>2, <1>4, EndKeeps DEF instances, AdminTypes
<1>5. ASSUME inst[i] # NoRow, Changed(a, rows, others), made' = made,
             mixed' = CASE Named(dto) = {} -> mixed
                        [] Named(dto) = Both -> mixed \ {i}
                        [] OTHER -> IF a \in late \/ req[a].do = "config"
                                    THEN mixed \union {i} ELSE mixed \ {i}
      PROVE  AdminInv'
  <2>1. inst[i] \in Row
    BY <1>1, <1>3, <1>5 DEF AdminTypes
  <2>2. /\ row \in Row
        /\ Named(dto) = {} => Of(row) = Of(inst[i])
        /\ Whole(dto) => Of(row) = Of(dto)
    BY <1>2, <2>1, MergeTyped
  <2>3. /\ Named(dto) = {} => mixed' = mixed
        /\ Whole(dto) => mixed' = mixed \ {i}
        /\ Half(dto) => mixed' = IF a \in late \/ req[a].do = "config"
                                 THEN mixed \union {i} ELSE mixed \ {i}
        /\ Named(dto) = {} \/ Whole(dto) \/ Half(dto)
    BY <1>5 DEF Whole, Half, Both
  <2>4. Half(dto) /\ a \notin late /\ req[a].do # "config" => Of(row) \in tested
    BY <1>1, <1>2, <1>5 DEF Checks
  <2>5. Whole(dto) => Of(row) \in tested
    BY <1>1, <1>2, <2>2 DEF Checks
  <2> HIDE DEF row
  <2>6. rows \in [Instances -> Row \union {NoRow}] /\ rows[i] = row
        /\ \A j \in Instances \ {i} : rows[j] = inst[j]
    BY <1>1, <1>3, <2>2 DEF AdminTypes
  <2>7. inst' = rows /\ tested' = tested
    BY <1>5 DEF Changed
  <2>8. mixed' \subseteq Instances
    BY <1>1, <1>3, <2>3 DEF AdminTypes
  <2>9. CredentialsTested'
    <3>1. ASSUME NEW j \in Instances, inst'[j] # NoRow, j \notin mixed'
          PROVE  Of(inst'[j]) \in tested'
      <4>1. CASE j # i
        <5>1. inst'[j] = inst[j] /\ j \notin mixed
          BY <2>3, <2>6, <2>7, <3>1, <4>1
        <5> QED
          BY <2>7, <3>1, <5>1 DEF AdminInv, CredentialsTested, There
      <4>2. CASE j = i /\ Named(dto) = {}
        <5>1. inst[i] # NoRow /\ i \notin mixed
          BY <1>5, <2>3, <3>1, <4>2
        <5>2. Of(inst[i]) \in tested
          BY <1>3, <5>1 DEF AdminInv, CredentialsTested, There
        <5> QED
          BY <2>2, <2>6, <2>7, <4>2, <5>2
      <4>3. CASE j = i /\ Named(dto) # {}
        BY <2>3, <2>4, <2>5, <2>6, <2>7, <3>1, <4>3
      <4> QED
        BY <4>1, <4>2, <4>3
    <3> QED
      BY <3>1 DEF CredentialsTested, There
  <2>10. ASSUME NEW x \in Admins \ {a}, at[x] \in {"test", "update"}, req[x].do = "update",
                Half(req[x].dto), x \notin others, rows[req[x].of] # NoRow
         PROVE  /\ inst[req[x].of] # NoRow
                /\ Of(Merge(rows[req[x].of], req[x].dto)) = Of(Merge(inst[req[x].of], req[x].dto))
    <3>1. req[x].of \in 1..made /\ req[x].dto \in Dto
      BY <1>1, <2>10, Bounds DEF AdminInv, Fits, AdminTypes, AdminRequest
    <3>2. req[x].of \in Instances
      BY <1>3, <3>1, Bounds DEF Instances
    <3>3. CASE req[x].of # i
      BY <2>6, <2>10, <3>2, <3>3
    <3>4. CASE req[x].of = i
      <4>1. x \in Halves(i)
        BY <2>10, <3>4, OneNamed DEF Halves
      <4>2. Named(dto) = {}
        BY <2>10, <4>1
      <4> QED
        BY <1>5, <2>1, <2>2, <2>6, <3>1, <3>4, <4>2, SameHalves
    <3> QED
      BY <3>3, <3>4
  <2>11. others \in SUBSET Admins
    BY DEF Halves
  <2>12. made' \in 0..MaxInstances /\ made <= made'
    BY <1>1, <1>3, <1>5 DEF AdminTypes
  <2>13. \A j \in Instances : rows[j] # NoRow => j <= made'
    BY <1>1, <1>2, <1>3, <1>5, <2>6 DEF AdminTypes
  <2> HIDE DEF rows, others
  <2> QED
    BY <1>2, <1>5, <2>6, <2>8, <2>9, <2>10, <2>11, <2>12, <2>13, ChangedKeeps
<1> QED
  BY <1>4, <1>5 DEF Update

LEMMA DeleteKeeps ==
  ASSUME AdminInv, NEW a \in Admins, Delete(a)
  PROVE  AdminInv'
<1> DEFINE i == req[a].of
           rows == [inst EXCEPT ![i] = NoRow]
<1>1. AdminTypes /\ Fits(a)
  BY DEF AdminInv
<1>2. at[a] = "delete" /\ i \in Instances
  BY <1>1, Bounds DEF Delete, Fits, AdminTypes, Instances
<1>3. CASE End(a) /\ UNCHANGED <<instances, access, ghosts>>
  BY <1>1, <1>2, <1>3, EndKeeps DEF instances, ghosts, AdminTypes
<1>4. CASE Changed(a, rows, {}) /\ UNCHANGED <<made, mixed>>
  <2>1. rows \in [Instances -> Row \union {NoRow}] /\ \A j \in Instances : rows[j] \in {inst[j], NoRow}
    BY <1>1, <1>2 DEF AdminTypes
  <2>2. inst' = rows /\ tested' = tested /\ made' = made /\ mixed' = mixed
    BY <1>4 DEF Changed
  <2>3. CredentialsTested'
    BY <2>1, <2>2 DEF AdminInv, CredentialsTested, There
  <2>4. /\ made' \in 0..MaxInstances /\ made <= made'
        /\ \A j \in Instances : rows[j] # NoRow => j <= made'
        /\ mixed' \subseteq Instances
    BY <1>1, <2>1, <2>2 DEF AdminTypes
  <2>5. ASSUME NEW x \in Admins, req[x].do = "update", rows[req[x].of] # NoRow
        PROVE  rows[req[x].of] = inst[req[x].of]
    <3>1. req[x].of \in Instances
      BY <1>1, <2>5, Bounds DEF AdminInv, Fits, AdminTypes, Instances
    <3> QED
      BY <2>1, <2>5, <3>1
  <2> HIDE DEF rows
  <2> QED
    BY <1>2, <1>4, <2>1, <2>3, <2>4, <2>5, ChangedKeeps
<1> QED
  BY <1>3, <1>4 DEF Delete

LEMMA DisableAllKeeps ==
  ASSUME AdminInv, NEW a \in Admins, DisableAll(a)
  PROVE  AdminInv'
<1> DEFINE rows == [i \in Instances |-> [inst[i] EXCEPT !.enabled = "off"]]
<1>1. AdminTypes
  BY DEF AdminInv
<1>2. ASSUME NEW i \in Instances
      PROVE  /\ inst[i] = NoRow => rows[i] = NoRow
             /\ inst[i] \in Row => rows[i] \in Row /\ Of(rows[i]) = Of(inst[i])
             /\ inst[i] \in Row \union {NoRow}
  BY <1>1 DEF AdminTypes, Row, NoRow, Of
<1>3. /\ at[a] = "disable" /\ Changed(a, rows, {}) /\ made' = made /\ mixed' = mixed
      /\ inst' = rows /\ tested' = tested
  BY DEF DisableAll, Changed
<1> HIDE DEF rows
<1>4. rows \in [Instances -> Row \union {NoRow}]
  <2>1. \A i \in Instances : rows[i] \in Row \union {NoRow}
    BY <1>2
  <2> QED
    BY <2>1 DEF rows
<1>5. CredentialsTested'
  BY <1>2, <1>3 DEF AdminInv, CredentialsTested, There
<1>6. /\ made' \in 0..MaxInstances /\ made <= made'
      /\ \A j \in Instances : rows[j] # NoRow => j <= made'
      /\ mixed' \subseteq Instances
  BY <1>1, <1>2, <1>3 DEF AdminTypes
<1>7. ASSUME NEW x \in Admins, req[x].do = "update", rows[req[x].of] # NoRow
      PROVE  /\ inst[req[x].of] # NoRow
             /\ Of(Merge(rows[req[x].of], req[x].dto)) = Of(Merge(inst[req[x].of], req[x].dto))
  <2>1. req[x].of \in Instances /\ req[x].dto \in Dto
    BY <1>1, <1>7, Bounds DEF AdminInv, Fits, AdminTypes, AdminRequest, Instances
  <2>2. inst[req[x].of] # NoRow
    BY <1>2, <1>7, <2>1
  <2> QED
    BY <1>2, <2>1, <2>2, SameHalves
<1> QED
  BY <1>3, <1>4, <1>5, <1>6, <1>7, ChangedKeeps

LEMMA WorkKeeps ==
  ASSUME AdminInv, NEW a \in Admins, Work(a)
  PROVE  AdminInv'
  BY GetDecryptedCredentialsKeeps, TestCredentialsKeeps, TestFailsKeeps, FindPrimaryKeeps,
     InsertKeeps, UpdateKeeps, DeleteKeeps, DisableAllKeeps, FindActiveKeeps, WriteColumnsKeeps,
     ThrowKeeps DEF Work
-----------------------------------------------------------------------------
(* Calls of the API.                                                       *)

ApiCall == [at : {"idle", "config", "token", "fire", "sleep"},
          of : Credentials \union {None}, stale : Ages,
          attempt : 0..MaxAttempts, age : 0..MaxCall]

\* What Calling says of one call.
Sound(k) ==
    /\ k.at \in {"fire", "sleep"} => k.attempt > 0
    /\ k.at = "sleep" => k.attempt < MaxAttempts
    /\ k.at = "idle" => k = NoCall
    /\ k.at = "config" => k.of = None /\ k.stale = 0
    /\ k.at = "token" => k.stale <= k.age
    /\ k.at \in {"fire", "sleep"} => k.stale <= MaxCall + TokenLife - 1 + k.age

LEMMA CallBounds ==
  ASSUME NEW k \in ApiCall
  PROVE  /\ k.stale \in Nat /\ k.stale <= Horizon + 1 /\ k.age \in Nat /\ k.age <= MaxCall
         /\ k.attempt \in Nat /\ k.attempt <= MaxAttempts
         /\ Ages = 0..(Horizon + 1)
  BY Bounds DEF ApiCall, Ages

LEMMA NoCallSound == NoCall \in ApiCall /\ Sound(NoCall)
  BY Bounds DEF NoCall, ApiCall, Sound, Ages

LEMMA FirstAttempt ==
  ASSUME NEW k \in ApiCall
  PROVE  LET f == [k EXCEPT !.at = "fire", !.attempt = 1]
         IN  /\ f \in ApiCall /\ f.at = "fire" /\ f.attempt = 1
             /\ f.of = k.of /\ f.stale = k.stale /\ f.age = k.age
<1>1. 1 \in 0..MaxAttempts
  BY Bounds
<1> QED
  BY <1>1 DEF ApiCall

\* A call goes on as k.
LEMMA SetKeeps ==
  ASSUME CallInv, NEW c \in Calls, NEW k \in ApiCall, Sound(k), Set(c, k),
         cache' = cache, breaker' \in {"closed", "open", "half"}
  PROVE  CallInv'
<1>1. call \in [Calls -> ApiCall] /\ \A x \in Calls : Sound(call[x])
  BY DEF CallInv, CallTypes, Calling, Sound, ApiCall
<1>2. call' \in [Calls -> ApiCall] /\ \A x \in Calls : Sound(call'[x])
  BY <1>1 DEF Set
<1>3. CallTypes'
  BY <1>2 DEF CallInv, CallTypes, ApiCall
<1>4. \A x \in Calls : Calling(x)'
  BY <1>2 DEF Calling, Sound
<1>5. Caching'
  BY DEF CallInv, Caching
<1> QED
  BY <1>3, <1>4, <1>5 DEF CallInv

LEMMA CallKnown ==
  ASSUME CallInv, NEW c \in Calls
  PROVE  /\ call[c] \in ApiCall /\ Sound(call[c])
         /\ cache \in [of : Credentials \union {None}, left : 0..TokenLife, stale : Ages]
         /\ breaker \in {"closed", "open", "half"}
  BY DEF CallInv, CallTypes, Calling, Sound, ApiCall

LEMMA BreakerMoves ==
  ASSUME breaker \in {"closed", "open", "half"}, Succeeds \/ Fails \/ breaker' = breaker
  PROVE  breaker' \in {"closed", "open", "half"}
  BY DEF Succeeds, Fails

LEMMA ReturnKeeps ==
  ASSUME CallInv, NEW c \in Calls, Return(c), cache' = cache,
         Succeeds \/ Fails \/ breaker' = breaker
  PROVE  CallInv'
  BY CallKnown, NoCallSound, SetKeeps, BreakerMoves DEF Return

LEMMA GetAccessTokenKeeps ==
  ASSUME CallInv, NEW c \in Calls, GetAccessToken(c)
  PROVE  CallInv'
<1> DEFINE k == [Fire(c) EXCEPT !.of = cache.of, !.stale = cache.stale]
           j == [call[c] EXCEPT !.at = "config"]
<1>1. /\ call[c].at = "idle" /\ call[c] = NoCall /\ call[c] \in ApiCall
      /\ breaker' \in {"closed", "open", "half"} /\ cache' = cache
  BY CallKnown DEF GetAccessToken, Sound
<1>2. CASE Usable /\ Set(c, k)
  <2>2. /\ cache.of \in Credentials \union {None} /\ cache.stale \in Ages /\ cache.stale \in Nat
        /\ cache.left \in Nat /\ cache.left > 0
    BY <1>2, CallKnown, Bounds DEF Usable, Ages
  <2>3. cache.stale <= MaxCall + TokenLife - 1
    BY <1>2, <2>2, Bounds DEF CallInv, Caching, Usable
  <2>4. /\ Fire(c) \in ApiCall /\ Fire(c).at = "fire" /\ Fire(c).attempt = 1
        /\ Fire(c).age = call[c].age /\ call[c].age = 0
    <3>1. call[c] \in ApiCall
      BY <1>1
    <3>2. call[c].age = 0
      BY <1>1 DEF NoCall
    <3> QED
      BY <3>1, <3>2, FirstAttempt DEF Fire
  <2> HIDE DEF Fire
  <2>5. k \in ApiCall /\ k.at = "fire" /\ k.stale = cache.stale /\ k.attempt = 1 /\ k.age = 0
    BY <2>2, <2>4 DEF ApiCall
  <2> HIDE DEF k
  <2>6. cache.stale <= MaxCall + TokenLife - 1 + 0
    BY <2>2, <2>3, Bounds
  <2>7. Sound(k)
    BY <2>5, <2>6 DEF Sound
  <2> QED
    BY <1>1, <1>2, <2>5, <2>7, SetKeeps DEF k
<1>3. CASE Set(c, j)
  <2>1. j = [at |-> "config", of |-> None, stale |-> 0, attempt |-> 0, age |-> 0]
    BY <1>1 DEF NoCall
  <2>2. j \in ApiCall /\ Sound(j)
    BY <2>1, Bounds DEF ApiCall, Sound, Ages
  <2> QED
    BY <1>1, <1>3, <2>2, SetKeeps
<1> QED
  BY <1>2, <1>3 DEF GetAccessToken

LEMMA GetWeezeventConfigKeeps ==
  ASSUME AdminTypes, CallInv, NEW c \in Calls, GetWeezeventConfig(c)
  PROVE  CallInv'
<1> DEFINE k == [call[c] EXCEPT !.at = "token", !.of = tenant]
<1>1. /\ call[c].at = "config" /\ call[c] \in ApiCall /\ Sound(call[c])
      /\ breaker' \in {"closed", "open", "half"} /\ cache' = cache /\ breaker' = breaker
  BY CallKnown DEF GetWeezeventConfig
<1>2. CASE Return(c)
  BY <1>1, <1>2, ReturnKeeps
<1>3. CASE tenant # None /\ Set(c, k)
  <2>1. /\ k \in ApiCall /\ k.at = "token" /\ k.stale = call[c].stale /\ k.age = call[c].age
    BY <1>1 DEF ApiCall, AdminTypes
  <2>2. k.stale = 0 /\ k.age \in Nat
    BY <1>1, <2>1, CallBounds DEF Sound
  <2>3. Sound(k)
    BY <2>1, <2>2 DEF Sound
  <2> QED
    BY <1>1, <1>3, <2>1, <2>3, SetKeeps
<1> QED
  BY <1>2, <1>3 DEF GetWeezeventConfig

LEMMA RequestNewTokenKeeps ==
  ASSUME CallInv, NEW c \in Calls, RequestNewToken(c)
  PROVE  CallInv'
<1> DEFINE k == Fire(c)
<1>1. /\ call[c].at = "token" /\ call[c] \in ApiCall /\ Sound(call[c]) /\ breaker' = breaker
      /\ breaker \in {"closed", "open", "half"} /\ Set(c, k)
      /\ cache' = [of |-> call[c].of, left |-> TokenLife, stale |-> call[c].stale]
  BY CallKnown DEF RequestNewToken
<1>2. /\ k \in ApiCall /\ k.at = "fire" /\ k.attempt = 1 /\ k.stale = call[c].stale
      /\ k.age = call[c].age
  BY <1>1, FirstAttempt DEF Fire
<1>3. k.stale <= k.age /\ k.stale \in Nat /\ k.age \in Nat /\ k.age <= MaxCall
  BY <1>1, <1>2, CallBounds DEF Sound
<1>4. Sound(k)
  BY <1>2, <1>3, Bounds DEF Sound
<1>5. call \in [Calls -> ApiCall] /\ \A x \in Calls : Sound(call[x])
  BY DEF CallInv, CallTypes, Calling, Sound, ApiCall
<1> HIDE DEF k
<1>6. call' \in [Calls -> ApiCall] /\ \A x \in Calls : Sound(call'[x])
  BY <1>1, <1>2, <1>4, <1>5 DEF Set
<1>7. cache' \in [of : Credentials \union {None}, left : 0..TokenLife, stale : Ages]
  BY <1>1, Bounds DEF ApiCall
<1>8. CallTypes'
  BY <1>1, <1>6, <1>7 DEF CallTypes, ApiCall
<1>9. Caching'
  BY <1>1, <1>2, <1>3, Bounds DEF Caching
<1> QED
  BY <1>6, <1>8, <1>9 DEF CallInv, Calling, Sound

LEMMA UnauthorizedKeeps ==
  ASSUME CallInv, NEW c \in Calls, Unauthorized(c)
  PROVE  CallInv'
<1>1. call \in [Calls -> ApiCall] /\ \A x \in Calls : Sound(call[x])
  BY DEF CallInv, CallTypes, Calling, Sound, ApiCall
<1>2. call' \in [Calls -> ApiCall] /\ \A x \in Calls : Sound(call'[x])
  BY <1>1, NoCallSound DEF Unauthorized, Return, Set
<1>3. breaker' \in {"closed", "open", "half"}
  BY CallKnown, BreakerMoves DEF Unauthorized
<1>4. cache' = [of |-> None, left |-> 0, stale |-> 0]
  BY DEF Unauthorized, NoToken
<1>5. CallTypes'
  BY <1>2, <1>3, <1>4, Bounds DEF CallTypes, ApiCall, Ages
<1>6. Caching'
  BY <1>4 DEF Caching
<1> QED
  BY <1>2, <1>5, <1>6 DEF CallInv, Calling, Sound

LEMMA DisturbedKeeps ==
  ASSUME CallInv, NEW c \in Calls, Disturbed(c)
  PROVE  CallInv'
<1> DEFINE k == [call[c] EXCEPT !.at = "sleep"]
<1>1. /\ call[c].at = "fire" /\ call[c] \in ApiCall /\ Sound(call[c]) /\ cache' = cache
      /\ call[c].attempt < MaxAttempts /\ Set(c, k) /\ breaker' \in {"closed", "open", "half"}
  BY CallKnown, BreakerMoves DEF Disturbed
<1>2. /\ k \in ApiCall /\ k.at = "sleep" /\ k.attempt = call[c].attempt
      /\ k.stale = call[c].stale /\ k.age = call[c].age
  BY <1>1 DEF ApiCall
<1>3. Sound(k)
  BY <1>1, <1>2 DEF Sound
<1> QED
  BY <1>1, <1>2, <1>3, SetKeeps

LEMMA RetryKeeps ==
  ASSUME CallInv, NEW c \in Calls, Retry(c)
  PROVE  CallInv'
<1> DEFINE k == [call[c] EXCEPT !.at = "fire", !.attempt = @ + 1]
<1>1. /\ call[c].at = "sleep" /\ call[c] \in ApiCall /\ Sound(call[c]) /\ cache' = cache
      /\ Set(c, k) /\ breaker' \in {"closed", "open", "half"}
  BY CallKnown DEF Retry
<1>2. call[c].attempt < MaxAttempts /\ call[c].attempt \in Nat
  BY <1>1, CallBounds DEF Sound
<1>3. k.attempt = call[c].attempt + 1 /\ k.attempt \in 0..MaxAttempts
  BY <1>1, <1>2, Bounds DEF ApiCall
<1>4. k \in ApiCall /\ k.at = "fire" /\ k.stale = call[c].stale /\ k.age = call[c].age
  BY <1>1, <1>3 DEF ApiCall
<1>5. Sound(k)
  BY <1>1, <1>2, <1>3, <1>4 DEF Sound
<1> QED
  BY <1>1, <1>4, <1>5, SetKeeps

LEMMA RequestKeeps ==
  ASSUME AdminTypes, CallInv, NEW c \in Calls, Request(c)
  PROVE  CallInv'
<1>1. CASE TokenFails(c) \/ Answered(c) \/ Rejected(c) \/ Suspended(c)
  BY <1>1, ReturnKeeps DEF TokenFails, Answered, Rejected, Suspended
<1>2. CASE GetAccessToken(c)
  BY <1>2, GetAccessTokenKeeps
<1>3. CASE GetWeezeventConfig(c) \/ RequestNewToken(c) \/ Unauthorized(c)
  BY <1>3, GetWeezeventConfigKeeps, RequestNewTokenKeeps, UnauthorizedKeeps
<1>4. CASE Disturbed(c) \/ Retry(c)
  BY <1>4, DisturbedKeeps, RetryKeeps
<1> QED
  BY <1>1, <1>2, <1>3, <1>4 DEF Request

\* In one tick what was read of the Tenant row grows older by one at most.
LEMMA OlderBound ==
  ASSUME NEW of, NEW n \in Ages
  PROVE  Older(of, n) \in Ages /\ Older(of, n) <= n + 1 /\ (of = None => Older(of, n) = 0)
  BY Bounds DEF Older, Ages

LEMMA TickKeeps ==
  ASSUME CallInv, Tick
  PROVE  CallInv'
<1>1. call \in [Calls -> ApiCall] /\ \A x \in Calls : Sound(call[x])
  BY DEF CallInv, CallTypes, Calling, Sound, ApiCall
<1>2. ASSUME NEW c \in Calls PROVE call'[c] \in ApiCall /\ Sound(call'[c])
  <2> DEFINE k == [call[c] EXCEPT !.age = @ + 1, !.stale = Older(call[c].of, call[c].stale)]
  <2>1. CASE call[c].at = "idle"
    BY <2>1, NoCallSound DEF Tick
  <2>2. CASE call[c].at # "idle"
    <3>1. call'[c] = k /\ call[c].age < MaxCall /\ call[c] \in ApiCall
      BY <1>1, <2>2 DEF Tick
    <3>2. call[c].stale \in Ages /\ call[c].stale \in Nat /\ call[c].age \in Nat
      BY <3>1, CallBounds DEF ApiCall
    <3> DEFINE n == Older(call[c].of, call[c].stale)
    <3>3. n \in Ages /\ n <= call[c].stale + 1 /\ (call[c].of = None => n = 0)
      BY <3>2, OlderBound
    <3> HIDE DEF n
    <3>4. /\ k \in ApiCall /\ k.at = call[c].at /\ k.of = call[c].of /\ k.attempt = call[c].attempt
          /\ k.stale = n /\ k.age = call[c].age + 1
      <4>1. k = [call[c] EXCEPT !.age = call[c].age + 1, !.stale = n]
        BY DEF n
      <4>2. call[c].age + 1 \in 0..MaxCall
        BY <3>1, <3>2, Bounds
      <4> HIDE DEF k
      <4> QED
        BY <3>1, <3>3, <4>1, <4>2 DEF ApiCall
    <3>5. n \in Nat
      BY <3>3, Bounds DEF Ages
    <3>6. Sound(k)
      BY <1>1, <2>2, <3>2, <3>3, <3>4, <3>5, Bounds DEF Sound
    <3> QED
      BY <3>1, <3>4, <3>6
  <2> QED
    BY <2>1, <2>2
<1>3. call' = [c \in Calls |-> call'[c]]
  BY DEF Tick
<1>4. call' \in [Calls -> ApiCall]
  BY <1>2, <1>3
<1>5. /\ cache.of \in Credentials \union {None} /\ cache.left \in 0..TokenLife /\ cache.stale \in Ages
      /\ cache.left \in Nat /\ cache.stale \in Nat
      /\ cache \in [of : Credentials \union {None}, left : 0..TokenLife, stale : Ages]
  BY Bounds DEF CallInv, CallTypes, Ages
<1> DEFINE n == Older(cache.of, cache.stale)
           left == IF cache.left > 0 THEN cache.left - 1 ELSE 0
<1>6. n \in Ages /\ n \in Nat /\ n <= cache.stale + 1
  BY <1>5, OlderBound, Bounds DEF Ages
<1>7. left \in 0..TokenLife /\ (left > 0 => left = cache.left - 1)
  BY <1>5, Bounds
<1>8. cache' = [cache EXCEPT !.left = left, !.stale = n]
  BY DEF Tick
<1> HIDE DEF n, left
<1>9. /\ cache' \in [of : Credentials \union {None}, left : 0..TokenLife, stale : Ages]
      /\ cache'.left = left /\ cache'.stale = n
  BY <1>5, <1>6, <1>7, <1>8
<1>10. Caching'
  BY <1>5, <1>6, <1>7, <1>9, Bounds DEF CallInv, Caching
<1>11. CallTypes'
  BY <1>4, <1>9 DEF CallInv, CallTypes, ApiCall, Tick
<1> QED
  BY <1>2, <1>10, <1>11 DEF CallInv, Calling, Sound

LEMMA CallsStay ==
  ASSUME CallInv, UNCHANGED <<cache, call>>, breaker' \in {"closed", "open", "half"}
  PROVE  CallInv'
  BY DEF CallInv, CallTypes, Calling, Caching

LEMMA AdminStays ==
  ASSUME AdminInv, UNCHANGED <<inst, made, tenant, at, req, requests, tested, mixed, late, behind>>
  PROVE  AdminInv'
<1>1. Active' = Active /\ There' = There
  BY DEF Active, Enabled, There
<1>2. AdminTypes'
  BY DEF AdminInv, AdminTypes
<1>3. \A a \in Admins : Fits(a)' /\ Checks(a)' /\ Mirrors(a)'
  BY <1>1 DEF AdminInv, Fits, Checks, Mirrors
<1>4. Mirrored' /\ CredentialsTested'
  BY <1>1 DEF AdminInv, Mirrored, CredentialsTested
<1> QED
  BY <1>2, <1>3, <1>4 DEF AdminInv

LEMMA UpdateTenantKeeps ==
  ASSUME AdminInv, UpdateTenant
  PROVE  AdminInv'
<1>1. Active' = Active /\ There' = There
  BY DEF UpdateTenant, Active, Enabled, There
<1>2. AdminTypes'
  BY Bounds DEF UpdateTenant, AdminInv, AdminTypes
<1>3. \A a \in Admins : Fits(a)' /\ Checks(a)' /\ Mirrors(a)'
  BY <1>1 DEF UpdateTenant, AdminInv, Fits, Checks, Mirrors
<1>4. Mirrored' /\ CredentialsTested'
  BY <1>1 DEF UpdateTenant, AdminInv, Mirrored, CredentialsTested
<1> QED
  BY <1>2, <1>3, <1>4 DEF AdminInv

LEMMA AdminLeavesCalls ==
  ASSUME NEW a \in Admins, Ask(a) \/ Work(a)
  PROVE  UNCHANGED access
<1>1. ASSUME Ask(a) PROVE UNCHANGED access
  BY <1>1 DEF Ask, CreateInstance, UpdateConfig, DeleteInstance, UpdateInstance, Begin
<1>2. ASSUME Work(a) PROVE UNCHANGED access
  BY <1>2 DEF Work, GetDecryptedCredentials, TestCredentials, TestFails, FindPrimary, Insert,
     Update, Delete, DisableAll, FindActive, WriteColumns, Throw, Changed
<1> QED
  BY <1>1, <1>2

LEMMA Initially == Init => IInv
<1> SUFFICES ASSUME Init PROVE IInv
  OBVIOUS
<1>1. PICK row \in {NoRow} \union {r \in Row : Of(r) \in Known /\ r.enabled = "on"} :
        /\ inst = [i \in Instances |-> IF i = 1 THEN row ELSE NoRow]
        /\ made = IF row = NoRow THEN 0 ELSE 1
        /\ tenant = Of(row)
        /\ tested = {Of(row)} \ {None}
  BY DEF Init
<1>2. Of(NoRow) = None
  BY DEF Of, NoRow, None
<1>3. Active = tenant
  <2>1. CASE row = NoRow
    <3>1. \A i \in Instances : inst[i] = NoRow
      BY <1>1, <2>1
    <3>2. There = {}
      BY <3>1 DEF There
    <3> QED
      BY <1>1, <1>2, <2>1, <3>2 DEF Active, Enabled
  <2>2. CASE row # NoRow
    <3>1. 1 \in Instances
      BY Bounds DEF Instances
    <3>2. inst[1] = row /\ \A i \in Instances \ {1} : inst[i] = NoRow
      BY <1>1, <3>1
    <3>3. row.enabled = "on"
      BY <2>2
    <3>4. Enabled = {1}
      BY <2>2, <3>1, <3>2, <3>3 DEF Enabled, There
    <3>5. First({1}) = 1
      BY DEF First
    <3> QED
      BY <1>1, <3>2, <3>4, <3>5 DEF Active
  <2> QED
    BY <2>1, <2>2
<1>4. row # NoRow => Of(row) \in Credentials /\ Of(row) # None /\ Of(row) \in tested
  <2> SUFFICES ASSUME row # NoRow
               PROVE  Of(row) \in Credentials /\ Of(row) # None /\ Of(row) \in tested
    OBVIOUS
  <2>1. row \in Row
    OBVIOUS
  <2>2. Of(row) \in Credentials
    BY <2>1, OfTyped
  <2>3. Of(row) # None
    BY <2>2, WeezeventAccessAssumption DEF Credentials, None
  <2> QED
    BY <1>1, <2>2, <2>3
<1>5. tenant \in Credentials \union {None} /\ tested \subseteq Known
  <2>1. CASE row = NoRow
    BY <1>1, <1>2, <2>1
  <2>2. CASE row # NoRow
    BY <1>1, <1>4, <2>2
  <2> QED
    BY <2>1, <2>2
<1>6. /\ at \in [Admins -> AdminSteps] /\ req \in [Admins -> AdminRequest]
      /\ \A a \in Admins : at[a] = "idle" /\ req[a] = NoRequest
  BY NoRequestTyped DEF Init
<1>7. /\ inst \in [Instances -> Row \union {NoRow}] /\ made \in 0..MaxInstances
      /\ \A i \in Instances : inst[i] # NoRow => i <= made
  BY <1>1, Bounds DEF Instances
<1>8. AdminTypes
  <2>1. requests = 0 /\ mixed = {} /\ late = {} /\ behind = FALSE
    BY DEF Init
  <2>2. requests \in 0..MaxRequests
    BY <2>1, Bounds
  <2>3. \A a \in Admins : at[a] = "idle" <=> req[a] = NoRequest
    BY <1>6
  <2> QED
    BY <1>5, <1>6, <1>7, <2>1, <2>2, <2>3 DEF AdminTypes
<1>9. \A a \in Admins : Fits(a) /\ Checks(a) /\ Mirrors(a)
  BY <1>6 DEF Fits, Checks, Mirrors, NoRequest
<1>10. Mirrored /\ CredentialsTested
  BY <1>1, <1>3, <1>4 DEF Mirrored, CredentialsTested, There
<1>11. AdminInv
  BY <1>8, <1>9, <1>10 DEF AdminInv
<1>12. CallTypes
  BY NoCallSound, Bounds DEF Init, CallTypes, ApiCall, NoToken, Ages
<1>13. (\A c \in Calls : Calling(c)) /\ Caching
  BY NoCallSound DEF Init, Calling, Sound, Caching, NoToken
<1> QED
  BY <1>11, <1>12, <1>13 DEF IInv, CallInv

LEMMA NextKeepsIInv == IInv /\ [Next]_vars => IInv'
<1> SUFFICES ASSUME IInv, [Next]_vars PROVE IInv'
  OBVIOUS
<1>1. AdminInv /\ CallInv /\ AdminTypes /\ breaker \in {"closed", "open", "half"}
  BY DEF IInv, AdminInv, CallInv, CallTypes
<1>2. ASSUME NEW a \in Admins, Ask(a) \/ Work(a) PROVE IInv'
  <2>1. AdminInv'
    BY <1>1, <1>2, AskKeeps, WorkKeeps
  <2>2. UNCHANGED access
    BY <1>2, AdminLeavesCalls
  <2> QED
    BY <1>1, <2>1, <2>2, CallsStay DEF IInv, access
<1>3. ASSUME NEW c \in Calls, Request(c) PROVE IInv'
  <2>1. CallInv'
    BY <1>1, <1>3, RequestKeeps
  <2>2. UNCHANGED <<instances, admin, ghosts>>
    BY <1>3 DEF Request, GetAccessToken, GetWeezeventConfig, RequestNewToken, TokenFails, Answered,
       Unauthorized, Rejected, Disturbed, Retry, Suspended
  <2> QED
    BY <1>1, <2>1, <2>2, AdminStays DEF IInv, instances, admin, ghosts
<1>4. CASE UpdateTenant
  BY <1>1, <1>4, UpdateTenantKeeps, CallsStay DEF IInv, UpdateTenant, access
<1>5. CASE HalfOpen
  <2>1. CallInv'
    BY <1>1, <1>5, CallsStay DEF HalfOpen
  <2> QED
    BY <1>1, <1>5, <2>1, AdminStays DEF IInv, HalfOpen, instances, admin, ghosts
<1>6. CASE Tick
  <2>1. CallInv'
    BY <1>1, <1>6, TickKeeps
  <2> QED
    BY <1>1, <1>6, <2>1, AdminStays DEF IInv, Tick, instances, admin, ghosts
<1>7. CASE UNCHANGED vars
  <2>1. CallInv'
    BY <1>1, <1>7, CallsStay DEF vars, access
  <2> QED
    BY <1>1, <1>7, <2>1, AdminStays DEF IInv, vars, instances, admin, ghosts
<1> QED
  BY <1>2, <1>3, <1>4, <1>5, <1>6, <1>7 DEF Next

LEMMA AccessAlways == Spec => []IInv
  BY Initially, NextKeepsIInv, PTL DEF Spec

-----------------------------------------------------------------------------
(***************************************************************************)
(* Rows, requests, tokens and calls stay of the kinds the code stores, and *)
(* no call makes more attempts than it may (WeezeventApiService.request).  *)
(***************************************************************************)
THEOREM AccessTypeCorrect == Spec => []TypeOK
<1>1. IInv => TypeOK
  BY DEF IInv, AdminInv, AdminTypes, AdminRequest, CallInv, CallTypes, Calling, TypeOK
<1> QED
  BY <1>1, AccessAlways, PTL

(***************************************************************************)
(* When no request is at work the Tenant row has the credentials of the    *)
(* first enabled instance, save for the ways that MirrorFollows names, for *)
(* any number of requests at once (mirrorActiveInstanceToTenant).          *)
(***************************************************************************)
THEOREM MirrorIsFollowed == Spec => []MirrorFollows
<1>1. IInv => MirrorFollows
  BY DEF IInv, AdminInv, Mirrored, MirrorFollows
<1> QED
  BY <1>1, AccessAlways, PTL

(***************************************************************************)
(* The credentials of an instance have passed a test, whoever changes      *)
(* which half of them when, save for the two ways that CredentialsTested   *)
(* names (IntegrationsController.create, update, updateWeezeventConfig).   *)
(***************************************************************************)
THEOREM CredentialsAreTested == Spec => []CredentialsTested
<1>1. IInv => CredentialsTested
  BY DEF IInv, AdminInv
<1> QED
  BY <1>1, AccessAlways, PTL

(***************************************************************************)
(* No call is made with credentials that left the Tenant row longer ago    *)
(* than two calls and the life of a token, for any lifetime and however    *)
(* often instances change (WeezeventAuthService.getAccessToken).           *)
(***************************************************************************)
THEOREM TokensDoExpire == Spec => []TokensExpire
<1>1. IInv => TokensExpire
  <2> SUFFICES ASSUME IInv, NEW c \in Calls, call[c].at = "fire"
               PROVE  call[c].stale <= Horizon
    BY DEF TokensExpire
  <2>1. call[c] \in ApiCall /\ call[c].stale <= MaxCall + TokenLife - 1 + call[c].age
    BY CallKnown DEF IInv, Sound
  <2>2. call[c].stale \in Nat /\ call[c].age \in Nat /\ call[c].age <= MaxCall
    BY <2>1, CallBounds
  <2> QED
    BY <2>1, <2>2, Bounds
<1> QED
  BY <1>1, AccessAlways, PTL
=============================================================================
