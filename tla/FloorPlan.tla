----------------------------- MODULE FloorPlan -----------------------------
(***************************************************************************)
(* The floor plans of one space and the shops mapped onto them.            *)
(*                                                                         *)
(* A plan is kept twice: rows (Floor, Forecourt, ExternalMerch and their   *)
(* SpaceElements) and Config.data, a JSON document.  The 3D builder loads  *)
(* a plan, edits its copy and saves all of it; the integration page        *)
(* creates, moves and unmaps single elements, row first, JSON second.      *)
(*                                                                         *)
(* An element is its id; where is the place its row belongs to and json    *)
(* the pairs <<place, id>> of the document.  Shape, names, performance,    *)
(* staff, stock and menu assignments of an element follow its row and are  *)
(* left out.  Floors are known by their level, which is how                *)
(* getConfiguration merges them.  A request moves one element, and any of  *)
(* its calls may be its last: nothing undoes what the earlier ones did.    *)
(***************************************************************************)
EXTENDS Naturals, Integers, FiniteSets

CONSTANTS
    Configs,     \* plans of the space that users may have
    Levels,
    Height,      \* [Levels -> Int]; the ground floor is at 0
    MaxElements, \* bound: rows of SpaceElement, old ones included
    Locations,   \* locations and merchants of Weezevent
    Integrators, \* requests of the integration page that may run at once
    Builders,    \* open copies of the 3D builder
    MaxRetries,  \* of updateConfigDataOptimistic
    MaxRequests, \* bound: requests of the page and loads of the builder
    MaxEdits     \* bound: edits of a copy before it is saved

Ground == CHOOSE l \in Levels : Height[l] = 0

Zones == {"forecourt", "merch"}

ASSUME FloorPlanAssumption ==
    /\ IsFiniteSet(Levels)
    /\ Levels \intersect Zones = {}
    /\ Height \in [Levels -> Int]
    /\ \E l \in Levels : Height[l] = 0
    /\ MaxElements \in Nat
    /\ MaxRetries \in Nat
    /\ MaxRequests \in Nat
    /\ MaxEdits \in Nat
    /\ Integrators \intersect Builders = {}

VARIABLES
    there,     \* configs that exist
    floors,    \* rows of Floor, as <<config, level>>
    where,     \* [Elements -> <<config, place>> or Nowhere]
    used,      \* ids given so far
    json,      \* [Configs -> pairs <<place, id>> of Config.data]
    version,   \* [Configs -> Config.version]
    mapping,   \* [Locations -> element or 0]: WeezeventLocationShopMapping
    lock,      \* [Configs -> the builder whose transaction holds the row, {} if none]
    at,        \* next step of each client
    op,        \* what it was asked for
    seen,      \* [Integrators -> version read]
    tries,     \* [Integrators -> attempts made]
    draft,     \* [Integrators -> JSON it is about to write]
    copy,      \* [Builders -> the plan as edited]
    look,      \* [Builders -> what its transaction has read]
    requests,  \* requests and loads made
    late,      \* history: elements mapped, moved or saved since the client looked
    apart      \* history: elements whose row and document may differ

rows == <<there, floors, where, used, mapping>>
doc == <<json, version>>
integrator == <<seen, tries, draft>>
builder == <<copy, look, lock>>
history == <<late, apart>>
planVars == <<rows, doc, integrator, builder, at, op, requests, history>>

Elements == 1..MaxElements
Places == Levels \union Zones
Nowhere == <<>>
Drawn == 0      \* an element of a copy that has no id yet
Pairs == Places \X (Elements \union {Drawn})
Clients == Integrators \union Builders
Plan == [levels : SUBSET Levels, on : SUBSET Pairs, edits : 0..MaxEdits]
NoPlan == [levels |-> {}, on |-> {}, edits |-> 0]
Reading == [plan : Plan, existing : SUBSET Elements, protected : SUBSET Elements,
            levels : SUBSET Levels, holding : SUBSET Levels]
NoLook == [plan |-> NoPlan, existing |-> {}, protected |-> {}, levels |-> {},
           holding |-> {}]
Request == [kind : {"none", "create", "assign", "unmap"}, config : Configs \union {"none"},
            place : Places \union {"none"}, element : 0..MaxElements,
            location : Locations \union {"none"}]
NoOp == [kind |-> "none", config |-> "none", place |-> "none", element |-> 0,
         location |-> "none"]

PlanTypeOK ==
    /\ there \subseteq Configs
    /\ floors \subseteq there \X Levels
    /\ where \in [Elements -> (there \X Places) \union {Nowhere}]
    /\ \A e \in Elements : where[e] # Nowhere /\ where[e][2] \in Levels => where[e] \in floors
    /\ used \in 0..MaxElements
    /\ \A e \in Elements : where[e] # Nowhere => e <= used
    /\ json \in [Configs -> SUBSET (Places \X (1..used))]
    /\ version \in [Configs -> Nat]
    /\ mapping \in [Locations -> 0..MaxElements]
    /\ \A w \in Locations : mapping[w] # 0 => where[mapping[w]] # Nowhere
    /\ lock = [c \in Configs |-> {b \in Builders : at[b] = "saving" /\ op[b].config = c}]
    /\ at \in [Clients -> {"idle", "floor", "place", "read", "write", "unmap", "count",
                           "remove", "loaded", "saving"}]
    /\ op \in [Clients -> Request]
    /\ seen \in [Integrators -> Nat]
    /\ tries \in [Integrators -> 0..MaxRetries]
    /\ draft \in [Integrators -> SUBSET (Places \X Elements)]
    /\ copy \in [Builders -> Plan]
    /\ look \in [Builders -> Reading]
    /\ requests \in 0..MaxRequests
    /\ late \in [Clients -> SUBSET Elements]
    /\ apart \subseteq Elements

PlanInit ==
    /\ there = {}
    /\ floors = {}
    /\ where = [e \in Elements |-> Nowhere]
    /\ used = 0
    /\ json = [c \in Configs |-> {}]
    /\ version = [c \in Configs |-> 0]
    /\ mapping = [w \in Locations |-> 0]
    /\ lock = [c \in Configs |-> {}]
    /\ at = [x \in Clients |-> "idle"]
    /\ op = [x \in Clients |-> NoOp]
    /\ seen = [i \in Integrators |-> 0]
    /\ tries = [i \in Integrators |-> 0]
    /\ draft = [i \in Integrators |-> {}]
    /\ copy = [b \in Builders |-> NoPlan]
    /\ look = [b \in Builders |-> NoLook]
    /\ requests = 0
    /\ late = [x \in Clients |-> {}]
    /\ apart = {}

Mapped(e) == \E w \in Locations : mapping[w] = e
RowsAt(p) == {e \in Elements : where[e] = p}
\* A mutant: the mapping outlives its element.
UnmappedNothing(gone) == mapping

Unmapped(gone) == [w \in Locations |-> IF mapping[w] \in gone THEN 0 ELSE mapping[w]]

\* Requests that have written a row and not yet the document.
Between(i) == at[i] \in {"read", "write"}
Drafting(y, c) == at[y] = "write" /\ op[y].config = c

Late(e) == [y \in Clients |-> IF at[y] \in {"saving", "remove"} THEN late[y] \union {e}
                              ELSE late[y]]

Goto(x, step) == at' = [at EXCEPT ![x] = step]

Ask(i, kind, c, p, e, w) ==
    /\ at[i] = "idle"
    /\ requests < MaxRequests
    /\ requests' = requests + 1
    /\ op' = [op EXCEPT ![i] = [kind |-> kind, config |-> c, place |-> p,
                                element |-> e, location |-> w]]
    /\ tries' = [tries EXCEPT ![i] = 0]

-----------------------------------------------------------------------------
(* Reading a plan.  s is the database of one plan: its rows and its JSON.  *)

Now(c) == [floors |-> floors, where |-> where, used |-> used, json |-> json[c]]

\* getConfiguration: per level the elements of both sources; the zones come
\* from the JSON alone.
View(s, c) ==
    LET mine == {e \in Elements : s.where[e] \in {c} \X Levels}
        shown == s.json \union {<<s.where[e][2], e>> : e \in mine}
    IN  [levels |-> {l \in Levels : <<c, l>> \in s.floors \/ \E x \in shown : x[1] = l},
         on |-> shown,
         edits |-> 0]

\* The first floor of a payload: the ground floor, else any, else a new one.
FirstFloor(levels) ==
    IF levels = {} \/ Ground \in levels THEN Ground ELSE CHOOSE l \in levels : TRUE

\* A mutant: mapped elements are not spared.
NothingProtected(existing) == {}

Protected(existing) == {e \in existing : Mapped(e)}

Ids(on) == {x[2] : x \in on}

RowsRead(s, c) == {e \in Elements : s.where[e] \in {c} \X (Levels \union {"forecourt"})}

\* What saveConfiguration reads first: the elements of floors and forecourt,
\* those with a mapping, and the mapped ones of floors that the payload has
\* lost, which it puts on the first floor.
Look(s, c, plan) ==
    LET existing == RowsRead(s, c)
        protected == Protected(existing)
        incoming == Ids({y \in plan.on : y[1] # "merch"})
        orphaned == {e \in protected \ incoming : s.where[e][2] \in Levels}
        first == FirstFloor(plan.levels)
    IN  [plan |-> IF orphaned = {} THEN plan
                  ELSE [plan EXCEPT !.levels = @ \union {first},
                                    !.on = @ \union ({first} \X orphaned)],
         existing |-> existing,
         protected |-> protected,
         levels |-> {l \in Levels : <<c, l>> \in s.floors},
         holding |-> {l \in Levels : \E e \in protected : s.where[e] = <<c, l>>}]

\* The payload's floors and forecourt, which the save reconciles with the rows.
Reconciled(lk) == {x \in lk.plan.on : x[1] # "merch"}

\* Elements without an id, or with one this plan does not own, are created.
Created(lk) == {x \in Reconciled(lk) : x[2] \notin lk.existing}

NewIds(s, new) ==
    LET n == Cardinality(new)
    IN  CHOOSE f \in [new -> s.used + 1 .. s.used + n] :
            \A x, y \in new : f[x] = f[y] => x = y

\* A mutant: the ids given are not written back into the JSON.
StoredAsSent(lk, placed) == lk.plan.on \ (Places \X {Drawn})

\* The JSON kept: floors and forecourt with their ids, the rest as sent.
Stored(lk, placed) == placed \union (lk.plan.on \ Reconciled(lk))

\* reconcileElement on every element of the payload: its place and its id.
Placed(s, lk) ==
    LET id == NewIds(s, Created(lk))
    IN  {<<x[1], IF x \in Created(lk) THEN id[x] ELSE x[2]>> : x \in Reconciled(lk)}

\* The forecourt is reconciled after the floors.
PlaceOf(e, placed) ==
    IF <<"forecourt", e>> \in placed THEN "forecourt"
    ELSE CHOOSE p \in Levels : <<p, e>> \in placed

\* Floors that are deleted, with what they hold.
Cut(lk) == lk.levels \ (lk.plan.levels \union lk.holding)

Pruned(s, c, lk, placed) ==
    {e \in Elements : \/ e \in lk.existing \ (Ids(placed) \union lk.protected)
                      \/ s.where[e] \in {c} \X Cut(lk)}

\* What a save leaves: the reconciled rows, the prune, then the JSON.
Saved(s, c, lk) ==
    LET placed == Placed(s, lk)
    IN  [floors |-> (s.floors \ ({c} \X Cut(lk))) \union ({c} \X lk.plan.levels),
         where |-> [e \in Elements |->
                        IF e \in Ids(placed) THEN <<c, PlaceOf(e, placed)>>
                        ELSE IF e \in Pruned(s, c, lk, placed) THEN Nowhere
                        ELSE s.where[e]],
         used |-> s.used + Cardinality(Created(lk)),
         json |-> Stored(lk, placed)]

-----------------------------------------------------------------------------
(* The 3D builder. *)

LoadPlan(b, c) ==
    /\ at[b] = "idle"
    /\ requests < MaxRequests
    /\ requests' = requests + 1
    /\ c \in there
    /\ copy' = [copy EXCEPT ![b] = View(Now(c), c)]
    /\ op' = [op EXCEPT ![b] = [NoOp EXCEPT !.config = c]]
    /\ Goto(b, "loaded")
    /\ UNCHANGED <<rows, doc, integrator, look, lock, history>>

NewPlan(b, c) ==
    /\ at[b] = "idle"
    /\ requests < MaxRequests
    /\ requests' = requests + 1
    /\ c \notin there
    /\ copy' = [copy EXCEPT ![b] = [NoPlan EXCEPT !.levels = {Ground}]]
    /\ op' = [op EXCEPT ![b] = [NoOp EXCEPT !.config = c]]
    /\ Goto(b, "loaded")
    /\ UNCHANGED <<rows, doc, integrator, look, lock, history>>

\* Draw, take away or move an element, add or take away a floor.
Drawings(k) ==
    {[k EXCEPT !.on = @ \union {<<p, Drawn>>}] : p \in k.levels \union {"forecourt"}}
Removals(k) == {[k EXCEPT !.on = @ \ {x}] : x \in k.on}
Moves(k) ==
    {[k EXCEPT !.on = (@ \ {x}) \union {<<p, x[2]>>}] :
        x \in k.on, p \in k.levels \union {"forecourt"}}
NewFloors(k) == {[k EXCEPT !.levels = @ \union {l}] : l \in Levels}
FloorsGone(k) ==
    {[k EXCEPT !.levels = @ \ {l}, !.on = {x \in @ : x[1] # l}] : l \in k.levels}

Edited(k) == Drawings(k) \union Removals(k) \union Moves(k) \union NewFloors(k) \union FloorsGone(k)

Edit(b) ==
    /\ at[b] = "loaded"
    /\ copy[b].edits < MaxEdits
    /\ \E k \in Edited(copy[b]) :
           copy' = [copy EXCEPT ![b] = [k EXCEPT !.edits = @ + 1]]
    /\ UNCHANGED <<rows, doc, integrator, look, lock, at, op, requests, history>>

\* The upsert of the config takes its row lock; then everything is read.
SaveBegin(b) ==
    LET c == op[b].config IN
    /\ at[b] = "loaded"
    /\ lock[c] = {}
    /\ lock' = [lock EXCEPT ![c] = {b}]
    /\ look' = [look EXCEPT ![b] = Look(Now(c), c, copy[b])]
    /\ late' = [late EXCEPT ![b] = {}]
    /\ Goto(b, "saving")
    /\ UNCHANGED <<rows, doc, integrator, copy, op, requests, apart>>

SaveEnds(b) ==
    /\ lock' = [lock EXCEPT ![op[b].config] = {}]
    /\ copy' = [copy EXCEPT ![b] = NoPlan]
    /\ look' = [look EXCEPT ![b] = NoLook]
    /\ op' = [op EXCEPT ![b] = NoOp]
    /\ Goto(b, "idle")

\* Elements shown differently by two documents, and those shown on two floors.
Differing(d1, d2) == Ids((d1 \ d2) \union (d2 \ d1))
Split(d) == {e \in Ids(d) : \E l, m \in Levels : l # m /\ {<<l, e>>, <<m, e>>} \subseteq d}

\* What a save sets apart: elements of requests under way whose row it moves,
\* those the copy shows on two floors, and those it takes off a zone.
SetApart(s, c, placed) ==
    LET busy == {op[i].element : i \in {j \in Integrators : Between(j)}}
        left == Ids({x \in json[c] \ s.json : x[1] \in Zones}) \ Ids(placed)
    IN  (apart \ (Ids(placed) \ busy))
            \union {e \in busy \intersect Elements : s.where[e] # where[e]}
            \union Split(placed)
            \union left

\* The version of the config is neither compared nor incremented.
SaveCommit(b) ==
    LET c == op[b].config
        s == Saved(Now(c), c, look[b])
    IN
    /\ at[b] = "saving"
    /\ \A x \in Reconciled(look[b]) \ Created(look[b]) : where[x[2]] # Nowhere
    /\ used + Cardinality(Created(look[b])) <= MaxElements
    /\ there' = there \union {c}
    /\ floors' = s.floors
    /\ where' = s.where
    /\ used' = s.used
    /\ json' = [json EXCEPT ![c] = s.json]
    /\ mapping' = Unmapped({e \in Elements : s.where[e] = Nowhere})
    /\ SaveEnds(b)
    /\ late' = [y \in Clients |-> IF Drafting(y, c)
                                  THEN late[y] \union Differing(json[c], s.json)
                                  ELSE late[y]]
    /\ apart' = SetApart(s, c, Placed(Now(c), look[b]))
    /\ UNCHANGED <<version, integrator, requests>>

\* All is undone: a call of the transaction fails, as that of an element that
\* has been deleted meanwhile always does, or the process stops.
SaveFails(b) ==
    /\ at[b] = "saving"
    /\ SaveEnds(b)
    /\ UNCHANGED <<rows, doc, integrator, requests, history>>

\* Cascades to floors, zones, elements and their mappings.
DeleteConfig(c) ==
    LET gone == {e \in Elements : where[e] \in {c} \X Places} IN
    /\ c \in there
    /\ lock[c] = {}
    /\ there' = there \ {c}
    /\ floors' = floors \ ({c} \X Levels)
    /\ where' = [e \in Elements |-> IF e \in gone THEN Nowhere ELSE where[e]]
    /\ mapping' = Unmapped(gone)
    /\ json' = [json EXCEPT ![c] = {}]
    /\ version' = [version EXCEPT ![c] = 0]
    /\ late' = [y \in Clients |-> IF Drafting(y, c) THEN Elements ELSE late[y]]
    /\ UNCHANGED <<used, integrator, builder, at, op, requests, apart>>

-----------------------------------------------------------------------------
(* The integration page: the row first, then the JSON. *)

LowestFloor(c) ==
    LET ls == {l \in Levels : <<c, l>> \in floors}
    IN  IF ls = {} THEN Ground ELSE CHOOSE l \in ls : \A m \in ls : Height[l] <= Height[m]

\* The row of the floor is looked for, and made by a call of its own.
Target(i, kind, c, p, e) ==
    /\ c \in there
    /\ Ask(i, kind, c, p, e, "none")
    /\ Goto(i, IF p \in Zones \/ <<c, p>> \in floors THEN "place" ELSE "floor")
    /\ UNCHANGED <<rows, doc, seen, draft, builder, history>>

QuickCreate(i, c) == Target(i, "create", c, LowestFloor(c), 0)

\* One element moves; the three endpoints differ in the row they find or make.
AssignElementsToFloorLevel(i, c, l, e) == where[e] # Nowhere /\ Target(i, "assign", c, l, e)

AssignElementsToForecourt(i, c, e) ==
    where[e] # Nowhere /\ Target(i, "assign", c, "forecourt", e)

AssignElementsToExternalMerch(i, c, e) ==
    where[e] # Nowhere /\ Target(i, "assign", c, "merch", e)

MakeFloor(i) ==
    /\ at[i] = "floor"
    /\ op[i].config \in there
    /\ floors' = floors \union {<<op[i].config, op[i].place>>}
    /\ Goto(i, "place")
    /\ UNCHANGED <<there, where, used, mapping, doc, integrator, builder, op, requests,
                   history>>

\* The foreign key of an element's row.
Standing(c, p) == IF p \in Zones THEN c \in there ELSE <<c, p>> \in floors

MakeElement(i) ==
    LET e == used + 1 IN
    /\ at[i] = "place"
    /\ op[i].kind = "create"
    /\ used < MaxElements
    /\ Standing(op[i].config, op[i].place)
    /\ where' = [where EXCEPT ![e] = <<op[i].config, op[i].place>>]
    /\ used' = e
    /\ op' = [op EXCEPT ![i].element = e]
    /\ Goto(i, "read")
    /\ UNCHANGED <<there, floors, mapping, doc, integrator, builder, requests, history>>

Contended(i) ==
    \E y \in Integrators \ {i} :
        Between(y) /\ op[y].element = op[i].element /\ op[y].config = op[i].config

MoveElement(i) ==
    LET o == op[i] IN
    /\ at[i] = "place"
    /\ o.kind = "assign"
    /\ where[o.element] # Nowhere
    /\ Standing(o.config, o.place)
    /\ where' = [where EXCEPT ![o.element] = <<o.config, o.place>>]
    /\ late' = Late(o.element)
    /\ apart' = IF Contended(i) THEN apart \union {o.element} ELSE apart \ {o.element}
    /\ Goto(i, "read")
    /\ UNCHANGED <<there, floors, used, mapping, doc, integrator, builder, op, requests>>

Cleared(p) == IF p = "merch" THEN Levels \union {"forecourt"} ELSE Levels

\* The functions given to updateConfigDataOptimistic.  The forecourt is not
\* cleared for a floor, nor the merch zone for either.  An element neither in
\* the cleared part of the document nor in the database is not added.
Mutated(kind, p, e, d) ==
    LET from == Cleared(p) \X {e}
        found == where[e] # Nowhere \/ (p \in Zones /\ from \intersect d # {})
    IN  IF kind = "create" THEN d \union {<<p, e>>}
        ELSE (d \ from) \union (IF found THEN {<<p, e>>} ELSE {})

Finished(i) ==
    /\ Goto(i, "idle")
    /\ op' = [op EXCEPT ![i] = NoOp]
    /\ draft' = [draft EXCEPT ![i] = {}]
    /\ seen' = [seen EXCEPT ![i] = 0]
    /\ tries' = [tries EXCEPT ![i] = 0]

\* A call fails, or the process stops: the row may be written and the document
\* not.  An element that is gone, or a floor, ends a request too.
BreakOff(i) ==
    /\ at[i] # "idle"
    /\ Finished(i)
    /\ apart' = IF Between(i) /\ op[i].kind # "unmap"
                THEN apart \union {op[i].element} ELSE apart
    /\ UNCHANGED <<rows, doc, builder, requests, late>>

ReadData(i) ==
    LET o == op[i] IN
    /\ at[i] = "read"
    /\ o.kind \in {"create", "assign"}
    /\ IF o.config \notin there THEN Finished(i) /\ UNCHANGED late
       ELSE /\ seen' = [seen EXCEPT ![i] = version[o.config]]
            /\ draft' = [draft EXCEPT ![i] =
                            Mutated(o.kind, o.place, o.element, json[o.config])]
            /\ late' = [late EXCEPT ![i] = {}]
            /\ Goto(i, "write")
            /\ UNCHANGED <<op, tries>>
    /\ UNCHANGED <<rows, doc, builder, requests, apart>>

\* Other elements lose what the draft does not show: with the version compared
\* only what a save or a deletion changed since it was read.
Written(i, c, d, forced) ==
    /\ json' = [json EXCEPT ![c] = d]
    /\ version' = [version EXCEPT ![c] = @ + 1]
    /\ apart' = apart \union ((Differing(json[c], d) \ {op[i].element})
                                  \intersect (IF forced THEN Elements ELSE late[i]))

\* A mutant: the version is not compared.
MayAlwaysWrite(i, c) == TRUE

\* The last attempt is unconditional.
MayWrite(i, c) == version[c] = seen[i] \/ tries[i] = MaxRetries

WriteData(i) ==
    LET c == op[i].config IN
    /\ at[i] = "write"
    /\ op[i].kind \in {"create", "assign"}
    /\ lock[c] = {}
    /\ c \in there /\ MayWrite(i, c)
    /\ Written(i, c, draft[i], tries[i] = MaxRetries)
    /\ Finished(i)
    /\ UNCHANGED <<rows, builder, requests, late>>

Retry(i) ==
    LET c == op[i].config IN
    /\ at[i] = "write"
    /\ op[i].kind \in {"create", "assign"}
    /\ lock[c] = {}
    /\ c \notin there \/ ~MayWrite(i, c)
    /\ IF tries[i] = MaxRetries THEN Finished(i)
       ELSE /\ tries' = [tries EXCEPT ![i] = @ + 1]
            /\ Goto(i, "read")
            /\ UNCHANGED <<op, seen, draft>>
    /\ UNCHANGED <<rows, doc, builder, requests, history>>

-----------------------------------------------------------------------------
(* Mappings. *)

SetMapping(w, e) ==
    /\ mapping[w] # e
    /\ mapping' = [mapping EXCEPT ![w] = e]
    /\ late' = Late(e)
    /\ UNCHANGED <<there, floors, where, used, doc, integrator, builder, at, op,
                   requests, apart>>

\* createLocationShopMapping refuses elements of the merch zone.
MapLocation(w, e) ==
    /\ where[e] # Nowhere
    /\ where[e][2] # "merch"
    /\ SetMapping(w, e)

\* The bulk and the merchant endpoints leave it to the foreign key; they map
\* row by row here.
MapUnchecked(w, e) ==
    /\ where[e] # Nowhere
    /\ SetMapping(w, e)

\* deleteLocationShopMapping, deleteMerchantElementMapping
Unmap(i, w) ==
    /\ mapping[w] # 0
    /\ Ask(i, "unmap", "none", "none", mapping[w], w)
    /\ Goto(i, "unmap")
    /\ UNCHANGED <<rows, doc, seen, draft, builder, history>>

DeleteMapping(i) ==
    /\ at[i] = "unmap"
    /\ mapping' = [mapping EXCEPT ![op[i].location] = 0]
    /\ Goto(i, "count")
    /\ UNCHANGED <<there, floors, where, used, doc, integrator, builder, op, requests,
                   history>>

\* deleteElementIfUnreferenced, in four calls
CountMappings(i) ==
    LET e == op[i].element IN
    /\ at[i] = "count"
    /\ IF Mapped(e) \/ where[e] = Nowhere
       THEN Finished(i) /\ UNCHANGED late
       ELSE /\ op' = [op EXCEPT ![i].config = where[e][1]]
            /\ late' = [late EXCEPT ![i] = {}]
            /\ Goto(i, "remove")
            /\ UNCHANGED integrator
    /\ UNCHANGED <<rows, doc, builder, requests, apart>>

RemoveElement(i) ==
    LET e == op[i].element IN
    /\ at[i] = "remove"
    /\ IF where[e] = Nowhere THEN Finished(i) /\ UNCHANGED <<where, mapping>>
       ELSE /\ where' = [where EXCEPT ![e] = Nowhere]
            /\ mapping' = Unmapped({e})
            /\ Goto(i, "read")
            /\ UNCHANGED <<op, integrator>>
    /\ UNCHANGED <<there, floors, used, doc, builder, requests, history>>

ReadToRemove(i) ==
    LET c == op[i].config IN
    /\ at[i] = "read"
    /\ op[i].kind = "unmap"
    /\ IF \E p \in Places : <<p, op[i].element>> \in json[c]
       THEN /\ draft' = [draft EXCEPT ![i] = json[c] \ (Places \X {op[i].element})]
            /\ Goto(i, "write")
            /\ UNCHANGED <<op, seen, tries>>
       ELSE Finished(i)
    /\ UNCHANGED <<rows, doc, builder, requests, history>>

\* This write is unconditional.
WriteRemoved(i) ==
    LET c == op[i].config IN
    /\ at[i] = "write"
    /\ op[i].kind = "unmap"
    /\ lock[c] = {}
    /\ IF c \in there THEN Written(i, c, draft[i], TRUE) ELSE UNCHANGED <<doc, apart>>
    /\ Finished(i)
    /\ UNCHANGED <<rows, builder, requests, late>>

-----------------------------------------------------------------------------
Build(b) ==
    \/ \E c \in Configs : LoadPlan(b, c) \/ NewPlan(b, c)
    \/ Edit(b)
    \/ SaveBegin(b)
    \/ SaveCommit(b)
    \/ SaveFails(b)

Integrate(i) ==
    \/ \E c \in Configs : QuickCreate(i, c)
    \/ \E c \in Configs, e \in Elements :
           \/ \E l \in Levels : AssignElementsToFloorLevel(i, c, l, e)
           \/ AssignElementsToForecourt(i, c, e)
           \/ AssignElementsToExternalMerch(i, c, e)
    \/ MakeFloor(i) \/ MakeElement(i) \/ MoveElement(i)
    \/ ReadData(i) \/ WriteData(i) \/ Retry(i)
    \/ BreakOff(i)
    \/ \E w \in Locations : Unmap(i, w)
    \/ DeleteMapping(i) \/ CountMappings(i) \/ RemoveElement(i)
    \/ ReadToRemove(i) \/ WriteRemoved(i)

PlanNext ==
    \/ \E b \in Builders : Build(b)
    \/ \E i \in Integrators : Integrate(i)
    \/ \E c \in Configs : DeleteConfig(c)
    \/ \E w \in Locations, e \in Elements : MapLocation(w, e) \/ MapUnchecked(w, e)

PlanSpec == PlanInit /\ [][PlanNext]_planVars

-----------------------------------------------------------------------------
(* Properties *)

Quiet == \A i \in Integrators : at[i] = "idle"

\* The document shows an element at the place of its row and, when that is a
\* floor, on no other floor.  A zone may still show it: moving an element to a
\* floor leaves its entry in the forecourt and in the merch zone.
Shown(e, c, p) ==
    /\ <<p, e>> \in json[c]
    /\ p \in Levels => \A l \in Levels : <<l, e>> \in json[c] => l = p

\* The two copies of a plan agree, element by element, when no request is
\* under way.  They may part only where a request was broken off between row
\* and document, two requests about one element crossed, a write that did not
\* compare versions (the last attempt, a removal) or did not see a save undid
\* another's entry, or a save moved an element under a request or took it off
\* a zone; and only until the element is moved or saved again.
\* updateConfigDataOptimistic, assign*, quickCreateElement, saveConfiguration
JsonFollowsRows ==
    Quiet => \A e \in Elements \ apart :
                 where[e] # Nowhere => Shown(e, where[e][1], where[e][2])

\* A mapping goes only when its removal is asked for or its plan is deleted,
\* or when it was made, or its element moved, after the save or the removal
\* that deletes the element had looked for mappings.
\* saveConfiguration (2a, 2c, 4b), deleteElementIfUnreferenced
MappingsKept ==
    [][\A w \in Locations : mapping[w] # 0 /\ mapping'[w] = 0 =>
          \/ \E i \in Integrators : at[i] = "unmap" /\ op[i].location = w /\ at'[i] = "count"
          \/ \E c \in Configs : c \in there \ there'
          \/ \E x \in Clients : /\ at[x] \in {"saving", "remove"} /\ at'[x] # at[x]
                                /\ mapping[w] \in late[x]]_planVars

Resaved(s, c) == Saved(s, c, Look(s, c, View(s, c)))
RoomFor(s, c) ==
    s.used + Cardinality(Created(Look(s, c, View(s, c)))) <= MaxElements

\* Loading a plan and saving it as it is, twice, does no more than once: ids
\* given by the first save are the ones the second finds.
\* saveConfiguration (6) with getConfiguration
SaveSettles ==
    \A c \in there : RoomFor(Now(c), c) =>
        LET once == Resaved(Now(c), c) IN
        RoomFor(once, c) /\ Resaved(once, c) = once

=============================================================================
