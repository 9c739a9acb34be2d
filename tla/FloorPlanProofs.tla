--------------------------- MODULE FloorPlanProofs ---------------------------
(***************************************************************************)
(* Proofs about FloorPlan, for any plans, levels, elements, locations,     *)
(* requests and builders, in four parts.                                   *)
(*                                                                         *)
(* The types (TypeInv), with lemmas about reading, editing and saving a    *)
(* plan; that mappings are kept (Spared); that the document follows the    *)
(* rows (DocInv); and that a save of a plan as it was loaded settles,      *)
(* which is about the operators alone (RelookIs, SavedOnce, SavedTwice).   *)
(***************************************************************************)
EXTENDS FloorPlan, FiniteSetTheorems, WellFoundedInduction, TLAPS

-----------------------------------------------------------------------------
(* The inductive invariant: the types. *)

\* An element without an id is on a drawn level or the forecourt.
WellFormed(k, u) ==
    /\ k.on \subseteq Places \X (0..u)
    /\ \A x \in k.on : x[1] \in Levels => x[1] \in k.levels
    /\ \A x \in k.on : x[1] = "merch" => x[2] # Drawn

Plans ==
    \A b \in Builders :
        /\ WellFormed(copy[b], used)
        /\ WellFormed(look[b].plan, used)
        /\ look[b].existing \subseteq 1..used

AskedBuilder(b) ==
    /\ at[b] \in {"idle", "loaded", "saving"}
    /\ at[b] # "idle" => op[b].config \in Configs

\* A request at a step, with its document and the ids 1..u given.
AskedWith(step, o, d, u) ==
    /\ step \in {"idle", "floor", "place", "read", "write", "unmap", "count", "remove"}
    /\ step \in {"floor", "place"} =>
          /\ o.kind \in {"create", "assign"} /\ o.config \in Configs /\ o.place \in Places
          /\ o.kind = "assign" => o.element \in 1..u
          /\ step = "floor" => o.place \in Levels
    /\ step \notin {"idle", "floor", "place"} => o.element \in 1..u
    /\ step \in {"read", "write"} => o.kind # "none" /\ (o.kind # "unmap" => o.place \in Places)
    /\ step \in {"read", "write", "remove"} => o.config \in Configs
    /\ step \in {"unmap", "count", "remove"} => o.kind = "unmap"
    /\ step = "unmap" => o.location \in Locations
    /\ d \subseteq Places \X (1..u)

AskedIntegrator(i) == AskedWith(at[i], op[i], draft[i], used)

\* What a client at each step has been asked for.
Asked == (\A b \in Builders : AskedBuilder(b)) /\ (\A i \in Integrators : AskedIntegrator(i))

\* The row lock: one save of a plan at a time.
Alone ==
    \A a, b \in Builders :
        at[a] = "saving" /\ at[b] = "saving" /\ op[a].config = op[b].config => a = b

\* PlanTypeOK by parts.
RowTypes ==
    /\ there \subseteq Configs
    /\ floors \subseteq there \X Levels
    /\ where \in [Elements -> (there \X Places) \union {Nowhere}]
    /\ \A e \in Elements : where[e] # Nowhere /\ where[e][2] \in Levels => where[e] \in floors
    /\ used \in 0..MaxElements
    /\ \A e \in Elements : where[e] # Nowhere => e <= used

MappingTypes ==
    /\ mapping \in [Locations -> 0..MaxElements]
    /\ \A w \in Locations : mapping[w] # 0 => where[mapping[w]] # Nowhere

DocTypes ==
    /\ json \in [Configs -> SUBSET (Places \X (1..used))]
    /\ version \in [Configs -> Nat]

LockType == lock = [c \in Configs |-> {b \in Builders : at[b] = "saving" /\ op[b].config = c}]

CountTypes ==
    /\ seen \in [Integrators -> Nat]
    /\ tries \in [Integrators -> 0..MaxRetries]
    /\ requests \in 0..MaxRequests

Steps == {"idle", "floor", "place", "read", "write", "unmap", "count", "remove", "loaded",
          "saving"}

ClientTypes ==
    /\ at \in [Clients -> Steps]
    /\ op \in [Clients -> Request]
    /\ draft \in [Integrators -> SUBSET (Places \X Elements)]
    /\ copy \in [Builders -> Plan]
    /\ look \in [Builders -> Reading]

HistoryTypes ==
    /\ late \in [Clients -> SUBSET Elements]
    /\ apart \subseteq Elements

TypeInv == PlanTypeOK /\ Plans /\ Asked /\ Alone

-----------------------------------------------------------------------------
(* Places, ids and floors. *)

LEMMA PlacesAre ==
  /\ "forecourt" \in Places /\ "merch" \in Places
  /\ \A p \in Places : p \in Levels \/ p = "forecourt" \/ p = "merch"
  /\ "forecourt" \notin Levels /\ "merch" \notin Levels
  /\ Ground \in Levels
<1>1. \E l \in Levels : Height[l] = 0
  BY FloorPlanAssumption
<1>2. Ground \in Levels
  BY <1>1 DEF Ground
<1> QED
  BY <1>2, FloorPlanAssumption DEF Places, Zones

LEMMA PairIsSomewhere == ASSUME NEW c, NEW p PROVE <<c, p>> # Nowhere
  BY DEF Nowhere

LEMMA BoundsAre == MaxElements \in Nat /\ MaxRetries \in Nat /\ MaxRequests \in Nat /\ MaxEdits \in Nat
  BY FloorPlanAssumption

LEMMA LeastNatural ==
  ASSUME NEW N \in SUBSET Nat, N # {}
  PROVE  \E m \in N : \A n \in N : m <= n
<1>1. PICK m \in N : \A n \in N : ~ (<<n, m>> \in OpToRel(<, Nat))
  <2> HIDE DEF OpToRel
  <2> QED
    BY NatLessThanWellFounded, WFMin
<1>2. \A n \in N : ~ (n < m)
  BY <1>1 DEF OpToRel
<1> QED
  BY <1>2

\* A plan with a floor has a lowest one.
LEMMA LowestExists ==
  ASSUME NEW S \in SUBSET Levels, S # {}
  PROVE  \E l \in S : \A m \in S : Height[l] <= Height[m]
<1> DEFINE Lower(l) == {k \in S : Height[k] < Height[l]}
           Ranks == {Cardinality(Lower(l)) : l \in S}
<1>1. \A l \in S : Height[l] \in Int
  BY FloorPlanAssumption
<1>2. IsFiniteSet(S)
  BY FloorPlanAssumption, FS_Subset
<1>3. \A l \in S : IsFiniteSet(Lower(l)) /\ Cardinality(Lower(l)) \in Nat
  <2> SUFFICES ASSUME NEW l \in S
               PROVE  IsFiniteSet(Lower(l)) /\ Cardinality(Lower(l)) \in Nat
    OBVIOUS
  <2>1. Lower(l) \in SUBSET S
    OBVIOUS
  <2>2. IsFiniteSet(Lower(l))
    BY <1>2, <2>1, FS_Subset
  <2> QED
    BY <2>2, FS_CardinalityType
<1>4. Ranks \in SUBSET Nat /\ Ranks # {}
  BY <1>3
<1>5. PICK n \in Ranks : \A m \in Ranks : n <= m
  <2> HIDE DEF Ranks
  <2> QED
    BY <1>4, LeastNatural
<1>6. PICK l \in S : n = Cardinality(Lower(l))
  BY <1>5
<1>7. ASSUME NEW m \in S, ~ (Height[l] <= Height[m])
      PROVE  FALSE
  <2>1. Lower(m) \in SUBSET Lower(l)
    BY <1>1, <1>7
  <2>2. m \in Lower(l) /\ m \notin Lower(m)
    BY <1>1, <1>7
  <2>3. Lower(m) # Lower(l)
    BY <2>2
  <2>4. Cardinality(Lower(m)) \in Ranks
    OBVIOUS
  <2>5. Cardinality(Lower(l)) <= Cardinality(Lower(m))
    BY <1>5, <1>6, <2>4
  <2> HIDE DEF Lower, Ranks
  <2>6. Cardinality(Lower(m)) <= Cardinality(Lower(l))
    BY <1>3, <2>1, FS_Subset
  <2>7. Cardinality(Lower(m)) = Cardinality(Lower(l))
    BY <1>3, <2>5, <2>6
  <2> QED
    BY <1>3, <2>1, <2>3, <2>7, FS_Subset
<1> QED
  BY <1>7

LEMMA LowestFloorType ==
  ASSUME NEW c
  PROVE  LowestFloor(c) \in Levels
<1> DEFINE S == {l \in Levels : <<c, l>> \in floors}
<1>1. S = {} => LowestFloor(c) = Ground
  BY DEF LowestFloor
<1>2. ASSUME S # {}
      PROVE  LowestFloor(c) \in S
  <2>1. \E l \in S : \A m \in S : Height[l] <= Height[m]
    <3>1. S \in SUBSET Levels
      OBVIOUS
    <3> HIDE DEF S
    <3> QED
      BY <1>2, <3>1, LowestExists
  <2>2. LowestFloor(c) = CHOOSE l \in S : \A m \in S : Height[l] <= Height[m]
    BY <1>2 DEF LowestFloor
  <2> HIDE DEF S
  <2> QED
    BY <2>1, <2>2
<1> QED
  BY <1>1, <1>2, PlacesAre

\* As many ids as there are elements to create.
LEMMA NewIdsType ==
  ASSUME NEW s, s.used \in Nat, NEW new, IsFiniteSet(new)
  PROVE  /\ Cardinality(new) \in Nat
         /\ NewIds(s, new) \in [new -> s.used + 1 .. s.used + Cardinality(new)]
<1> DEFINE n == Cardinality(new)
           R == s.used + 1 .. s.used + n
           Fits(f) == \A x, y \in new : f[x] = f[y] => x = y
<1>1. n \in Nat
  BY FS_CardinalityType
<1>2. IsFiniteSet(R) /\ Cardinality(R) = n
  <2>1. s.used + 1 \in Int /\ s.used + n \in Int
    BY <1>1
  <2>2. IsFiniteSet(R) /\ Cardinality(R) = IF s.used + 1 > s.used + n THEN 0
                                            ELSE (s.used + n) - (s.used + 1) + 1
    BY <2>1, FS_Interval
  <2> QED
    BY <1>1, <2>2
<1>3. ExistsBijection(new, R)
  <2> HIDE DEF R, n
  <2>1. Cardinality(new) = Cardinality(R)
    BY <1>2 DEF n
  <2> QED
    BY <1>2, <2>1, FS_SameCardinalityBij
<1>4. \E f \in [new -> R] : Fits(f)
  BY <1>3 DEF ExistsBijection, Bijection, Injection, IsInjective
<1>5. NewIds(s, new) = CHOOSE f \in [new -> R] : Fits(f)
  BY DEF NewIds
<1>6. NewIds(s, new) \in [new -> R]
  <2> HIDE DEF Fits, R
  <2> QED
    BY <1>4, <1>5
<1> QED
  BY <1>1, <1>6
-----------------------------------------------------------------------------
(* Reading a plan. *)

\* s is the database of a plan, with the ids 1..u given.
Database(s) ==
    /\ s.used \in 0..MaxElements
    /\ s.where \in [Elements -> (Configs \X Places) \union {Nowhere}]
    /\ \A e \in Elements : s.where[e] # Nowhere => e <= s.used
    /\ s.json \subseteq Places \X (1..s.used)

LEMMA NowIsDatabase ==
  ASSUME PlanTypeOK, NEW c \in Configs
  PROVE  Database(Now(c)) /\ Now(c).where = where /\ Now(c).floors = floors
         /\ Now(c).json = json[c] /\ Now(c).used = used
<1>1. /\ used \in 0..MaxElements /\ json \in [Configs -> SUBSET (Places \X (1..used))]
      /\ where \in [Elements -> (there \X Places) \union {Nowhere}] /\ there \subseteq Configs
      /\ \A e \in Elements : where[e] # Nowhere => e <= used
  BY DEF PlanTypeOK
<1>2. where \in [Elements -> (Configs \X Places) \union {Nowhere}]
  BY <1>1
<1>3. json[c] \subseteq Places \X (1..used)
  BY <1>1
<1> QED
  BY <1>1, <1>2, <1>3 DEF Database, Now

LEMMA OnPlan ==
  ASSUME NEW s, NEW c, Database(s), NEW e \in Elements, NEW P, s.where[e] \in {c} \X P
  PROVE  /\ s.where[e] = <<c, s.where[e][2]>> /\ s.where[e][2] \in P
         /\ e \in 1..s.used
<1>1. s.where[e] # Nowhere
  BY PairIsSomewhere
<1>2. e <= s.used /\ e \in 1..MaxElements /\ s.used \in 0..MaxElements /\ MaxElements \in Nat
  BY <1>1, BoundsAre DEF Database, Elements
<1> QED
  BY <1>2

\* What getConfiguration shows.
LEMMA ViewIs ==
  ASSUME NEW s, NEW c, Database(s)
  PROVE  /\ View(s, c) \in Plan
         /\ WellFormed(View(s, c), s.used)
         /\ View(s, c).on \subseteq Places \X (1..s.used)
         /\ s.json \subseteq View(s, c).on
         /\ \A e \in Elements, l \in Levels : s.where[e] = <<c, l>> => <<l, e>> \in View(s, c).on
         /\ \A x \in View(s, c).on : x \in s.json \/ (x[1] \in Levels /\ s.where[x[2]] = <<c, x[1]>>)
         /\ View(s, c).levels = {l \in Levels : <<c, l>> \in s.floors
                                                \/ \E x \in View(s, c).on : x[1] = l}
<1> DEFINE mine == {e \in Elements : s.where[e] \in {c} \X Levels}
           shown == s.json \union {<<s.where[e][2], e>> : e \in mine}
           ls == {l \in Levels : <<c, l>> \in s.floors \/ \E x \in shown : x[1] = l}
<1>1. View(s, c) = [levels |-> ls, on |-> shown, edits |-> 0]
  BY DEF View
<1>2. \A e \in mine : s.where[e] = <<c, s.where[e][2]>> /\ s.where[e][2] \in Levels /\ e \in 1..s.used
  BY OnPlan
<1>3. s.json \subseteq Places \X (1..s.used) /\ s.used \in Nat /\ s.used <= MaxElements
  BY BoundsAre DEF Database
<1>4. Levels \subseteq Places
  BY DEF Places
<1>5. shown \subseteq Places \X (1..s.used)
  BY <1>2, <1>3, <1>4
<1>6. /\ Places \X (1..s.used) \subseteq Pairs
      /\ Places \X (1..s.used) \subseteq Places \X (0..s.used)
  <2>1. 1..s.used \subseteq Elements \union {Drawn} /\ 1..s.used \subseteq 0..s.used
    BY <1>3, BoundsAre DEF Elements
  <2> QED
    BY <2>1 DEF Pairs
<1>7. \A x \in shown : x \in s.json \/ (x[1] \in Levels /\ s.where[x[2]] = <<c, x[1]>>)
  BY <1>2
<1>8. \A e \in Elements, l \in Levels : s.where[e] = <<c, l>> => <<l, e>> \in shown
  OBVIOUS
<1>9. \A x \in shown : x[1] \in Levels => x[1] \in ls
  OBVIOUS
<1>10. \A x \in shown : x[2] # Drawn
  <2>1. \A x \in shown : x[2] \in 1..s.used
    BY <1>5
  <2> QED
    BY <2>1, <1>3 DEF Drawn
<1>11. ls \subseteq Levels
  OBVIOUS
<1> HIDE DEF mine, shown, ls
<1>12. View(s, c) \in Plan
  <2>1. 0 \in 0..MaxEdits
    BY BoundsAre
  <2>2. shown \in SUBSET Pairs /\ ls \in SUBSET Levels
    BY <1>5, <1>6, <1>11
  <2> QED
    BY <1>1, <2>1, <2>2 DEF Plan
<1>13. View(s, c).on = shown /\ View(s, c).levels = ls
  BY <1>1
<1>14. WellFormed(View(s, c), s.used)
  BY <1>5, <1>6, <1>9, <1>10, <1>13 DEF WellFormed
<1>15. s.json \subseteq shown
  BY DEF shown
<1>16. ls = {l \in Levels : <<c, l>> \in s.floors \/ \E x \in shown : x[1] = l}
  BY DEF ls
<1> QED
  BY <1>5, <1>7, <1>8, <1>12, <1>13, <1>14, <1>15, <1>16

LEMMA FirstFloorType == ASSUME NEW S \in SUBSET Levels PROVE FirstFloor(S) \in Levels
<1>1. S # {} => (CHOOSE l \in S : TRUE) \in S
  OBVIOUS
<1> QED
  BY <1>1, PlacesAre DEF FirstFloor

LEMMA PlanUpdate ==
  ASSUME NEW k \in Plan, NEW l, NEW m
  PROVE  [k EXCEPT !.levels = l, !.on = m] = [levels |-> l, on |-> m, edits |-> k.edits]
<1> DEFINE j == [k EXCEPT !.levels = l]
<1>1. k = [levels |-> k.levels, on |-> k.on, edits |-> k.edits]
  BY DEF Plan
<1>2. j = [levels |-> l, on |-> k.on, edits |-> k.edits]
  BY <1>1
<1> HIDE DEF j
<1>3. [j EXCEPT !.on = m] = [levels |-> l, on |-> m, edits |-> k.edits]
  BY <1>2
<1> QED
  BY <1>3 DEF j

\* What saveConfiguration reads.
LEMMA LookIs ==
  ASSUME NEW s, NEW c, Database(s), NEW k \in Plan, WellFormed(k, s.used)
  PROVE  /\ Look(s, c, k) \in Reading
         /\ WellFormed(Look(s, c, k).plan, s.used)
         /\ Look(s, c, k).existing = RowsRead(s, c)
         /\ Look(s, c, k).existing \subseteq 1..s.used
         /\ \A e \in Elements : e \in Look(s, c, k).protected
                                   <=> e \in Look(s, c, k).existing /\ Mapped(e)
         /\ \A l \in Look(s, c, k).levels : l \in Levels /\ <<c, l>> \in s.floors
         /\ \A e \in Look(s, c, k).protected, l \in Levels : s.where[e] = <<c, l>> =>
               /\ l \in Look(s, c, k).holding
               /\ e \in Ids(Reconciled(Look(s, c, k)))
         /\ (\A e \in Elements, l \in Levels :
                s.where[e] = <<c, l>> => e \in Ids({y \in k.on : y[1] # "merch"}))
               => Look(s, c, k).plan = k
<1> DEFINE existing == RowsRead(s, c)
           protected == Protected(existing)
           incoming == Ids({y \in k.on : y[1] # "merch"})
           orphaned == {e \in protected \ incoming : s.where[e][2] \in Levels}
           first == FirstFloor(k.levels)
           moved == [k EXCEPT !.levels = @ \union {first}, !.on = @ \union ({first} \X orphaned)]
           plan == IF orphaned = {} THEN k ELSE moved
           levels == {l \in Levels : <<c, l>> \in s.floors}
           holding == {l \in Levels : \E e \in protected : s.where[e] = <<c, l>>}
<1>1. Look(s, c, k) = [plan |-> plan, existing |-> existing, protected |-> protected,
                       levels |-> levels, holding |-> holding]
  BY DEF Look
<1>2. \A e \in existing : /\ s.where[e] = <<c, s.where[e][2]>> /\ e \in 1..s.used
                          /\ e \in Elements
  BY OnPlan DEF RowsRead
<1>3. protected \subseteq existing
  BY DEF Protected
<1>4. k.levels \subseteq Levels /\ k.on \subseteq Pairs /\ k.edits \in 0..MaxEdits
      /\ k = [levels |-> k.levels, on |-> k.on, edits |-> k.edits]
  BY DEF Plan
<1>5. first \in Levels
  BY <1>4, FirstFloorType
<1>6. s.used \in Nat /\ s.used <= MaxElements /\ MaxElements \in Nat
  BY BoundsAre DEF Database
<1>7. orphaned \subseteq 1..s.used /\ orphaned \subseteq Elements
  BY <1>2, <1>3
<1>8. moved = [levels |-> k.levels \union {first}, on |-> k.on \union ({first} \X orphaned),
               edits |-> k.edits]
  <2> HIDE DEF first, orphaned
  <2> QED
    BY PlanUpdate
<1>9. \A e \in protected, l \in Levels : s.where[e] = <<c, l>> =>
         /\ l \in holding
         /\ e \in incoming \/ e \in orphaned
  <2>1. ASSUME NEW e \in protected, NEW l \in Levels, s.where[e] = <<c, l>>
        PROVE  l \in holding /\ (e \in incoming \/ e \in orphaned)
    <3>1. s.where[e][2] = l
      BY <2>1
    <3> QED
      BY <2>1, <3>1
  <2> QED
    BY <2>1
<1>10. \A e \in orphaned : e \in protected \ incoming /\ s.where[e] = <<c, s.where[e][2]>>
                           /\ s.where[e][2] \in Levels
  BY <1>2, <1>3
<1> HIDE DEF existing, protected, incoming, orphaned, first, levels, holding, moved, plan
<1>11. first \in Places /\ first # "merch"
  BY <1>5, PlacesAre DEF Places
<1>12. moved \in Plan
  <2>1. {first} \X orphaned \subseteq Pairs
    BY <1>7, <1>11 DEF Pairs
  <2>2. k.on \union ({first} \X orphaned) \in SUBSET Pairs /\ k.levels \union {first} \in SUBSET Levels
    BY <1>4, <1>5, <2>1
  <2> QED
    BY <1>4, <1>8, <2>2 DEF Plan
<1>13. plan \in Plan
  BY <1>12 DEF plan
<1>14. WellFormed(moved, s.used)
  <2>1. moved.on = k.on \union ({first} \X orphaned) /\ moved.levels = k.levels \union {first}
    BY <1>8
  <2>2. {first} \X orphaned \subseteq Places \X (0..s.used)
    <3>1. 1..s.used \subseteq 0..s.used
      BY <1>6
    <3> QED
      BY <1>7, <1>11, <3>1
  <2>3. k.on \subseteq Places \X (0..s.used)
        /\ (\A x \in k.on : x[1] \in Levels => x[1] \in k.levels)
        /\ (\A x \in k.on : x[1] = "merch" => x[2] # Drawn)
    BY DEF WellFormed
  <2>4. \A x \in {first} \X orphaned : x[1] = first
    OBVIOUS
  <2>5. \A x \in moved.on : x[1] \in Levels => x[1] \in moved.levels
    BY <2>1, <2>3, <2>4
  <2>6. \A x \in moved.on : x[1] = "merch" => x[2] # Drawn
    BY <1>11, <2>1, <2>3, <2>4
  <2>7. moved.on \subseteq Places \X (0..s.used)
    BY <2>1, <2>2, <2>3
  <2> QED
    BY <2>5, <2>6, <2>7 DEF WellFormed
<1>15. WellFormed(plan, s.used)
  BY <1>14 DEF plan
<1>16. existing \subseteq Elements /\ levels \subseteq Levels /\ holding \subseteq Levels
       /\ existing \subseteq 1..s.used
  BY <1>2 DEF existing, levels, holding
<1>17. Look(s, c, k) \in Reading
  BY <1>1, <1>3, <1>13, <1>16 DEF Reading
<1>18. /\ Look(s, c, k).plan = plan /\ Look(s, c, k).existing = existing
       /\ Look(s, c, k).protected = protected /\ Look(s, c, k).levels = levels
       /\ Look(s, c, k).holding = holding
  BY <1>1
<1>19. \A e \in incoming \union orphaned : e \in Ids(Reconciled(Look(s, c, k)))
  <2>1. Reconciled(Look(s, c, k)) = {x \in plan.on : x[1] # "merch"}
    BY <1>18 DEF Reconciled
  <2>2. k.on \subseteq plan.on
    BY <1>8 DEF plan
  <2>3. ASSUME NEW e \in incoming
        PROVE  e \in Ids(Reconciled(Look(s, c, k)))
    <3>1. PICK y \in k.on : y[1] # "merch" /\ y[2] = e
      BY <2>3 DEF incoming, Ids
    <3> QED
      BY <2>1, <2>2, <3>1 DEF Ids
  <2>4. ASSUME NEW e \in orphaned
        PROVE  e \in Ids(Reconciled(Look(s, c, k)))
    <3>1. orphaned # {} /\ plan = moved
      BY <2>4 DEF plan
    <3>2. <<first, e>> \in plan.on
      BY <1>8, <2>4, <3>1
    <3>3. <<first, e>> \in Reconciled(Look(s, c, k)) /\ <<first, e>>[2] = e
      BY <1>11, <2>1, <3>2
    <3> QED
      BY <3>3 DEF Ids
  <2> QED
    BY <2>3, <2>4
<1>20. (\A e \in Elements, l \in Levels : s.where[e] = <<c, l>> => e \in incoming) => plan = k
  <2>1. ASSUME \A e \in Elements, l \in Levels : s.where[e] = <<c, l>> => e \in incoming
        PROVE  orphaned = {}
    BY <1>10, <1>7, <2>1
  <2> QED
    BY <2>1 DEF plan
<1>21. \A e \in protected, l \in Levels : s.where[e] = <<c, l>> =>
         /\ l \in holding
         /\ e \in Ids(Reconciled(Look(s, c, k)))
  BY <1>9, <1>19
<1>22. (\A e \in Elements, l \in Levels :
          s.where[e] = <<c, l>> => e \in Ids({y \in k.on : y[1] # "merch"})) => plan = k
  BY <1>20 DEF incoming
<1>23. existing = RowsRead(s, c)
       /\ (\A l \in levels : l \in Levels /\ <<c, l>> \in s.floors)
       /\ \A e \in Elements : e \in protected <=> e \in existing /\ Mapped(e)
  BY <1>16 DEF existing, levels, protected, Protected
<1> QED
  BY <1>15, <1>16, <1>17, <1>18, <1>21, <1>22, <1>23
-----------------------------------------------------------------------------
(* What a save does. *)

LEMMA PairsFinite == IsFiniteSet(Pairs)
<1>1. IsFiniteSet(Zones)
  <2>1. IsFiniteSet({"forecourt"}) /\ IsFiniteSet({"merch"})
    BY FS_Singleton
  <2>2. Zones = {"forecourt"} \union {"merch"}
    BY DEF Zones
  <2> QED
    BY <2>1, <2>2, FS_Union
<1>2. IsFiniteSet(Places)
  BY <1>1, FloorPlanAssumption, FS_Union DEF Places
<1>3. IsFiniteSet(Elements \union {Drawn})
  <2>1. IsFiniteSet(Elements)
    BY BoundsAre, FS_Interval DEF Elements
  <2>2. IsFiniteSet({Drawn})
    BY FS_Singleton
  <2> QED
    BY <2>1, <2>2, FS_Union
<1> QED
  BY <1>2, <1>3, FS_Product DEF Pairs

LEMMA CreatedFinite ==
  ASSUME NEW lk \in Reading
  PROVE  IsFiniteSet(Created(lk)) /\ Cardinality(Created(lk)) \in Nat
<1>1. lk.plan.on \subseteq Pairs
  BY DEF Reading, Plan
<1>2. Created(lk) \in SUBSET Pairs
  BY <1>1 DEF Created, Reconciled
<1>3. IsFiniteSet(Created(lk))
  BY <1>2, PairsFinite, FS_Subset
<1> QED
  BY <1>3, FS_CardinalityType

\* Ground floors and forecourt.
Reconcilable == Levels \union {"forecourt"}

SaneLook(lk, u) ==
    /\ lk \in Reading
    /\ WellFormed(lk.plan, u)
    /\ lk.existing \subseteq 1..u

LEMMA ReconciledIs ==
  ASSUME NEW u \in Nat, NEW lk, SaneLook(lk, u)
  PROVE  \A x \in Reconciled(lk) : /\ x = <<x[1], x[2]>> /\ x[1] \in Reconcilable
                                   /\ x[2] \in 0..u
                                   /\ x[1] \in Levels => x[1] \in lk.plan.levels
                                   /\ x \notin Created(lk) => x[2] \in lk.existing /\ x[2] \in 1..u
<1>1. /\ lk.plan.on \subseteq Places \X (0..u)
      /\ \A x \in lk.plan.on : x[1] \in Levels => x[1] \in lk.plan.levels
      /\ lk.existing \subseteq 1..u
  BY DEF SaneLook, WellFormed
<1>2. \A x \in Places \X (0..u) : x = <<x[1], x[2]>> /\ x[1] \in Places /\ x[2] \in 0..u
  OBVIOUS
<1>3. \A p \in Places : p # "merch" => p \in Reconcilable
  BY PlacesAre DEF Reconcilable
<1> QED
  BY <1>1, <1>2, <1>3 DEF Reconciled, Created

\* Where reconcileElement puts what.
LEMMA PlacedIs ==
  ASSUME NEW s, s.used \in Nat, NEW lk, SaneLook(lk, s.used)
  PROVE  /\ Placed(s, lk) \subseteq Reconcilable \X (1 .. s.used + Cardinality(Created(lk)))
         /\ \A x \in Placed(s, lk) : x[1] \in Levels => x[1] \in lk.plan.levels
         /\ \A x \in Reconciled(lk) \ Created(lk) : x \in Placed(s, lk)
         /\ \A x \in Placed(s, lk) : x \in Reconciled(lk) \ Created(lk) \/ x[2] > s.used
<1> DEFINE new == Created(lk)
           id == NewIds(s, new)
           n == Cardinality(new)
<1>1. n \in Nat /\ id \in [new -> s.used + 1 .. s.used + n]
  <2>1. IsFiniteSet(new)
    BY CreatedFinite DEF SaneLook
  <2> QED
    BY <2>1, NewIdsType
<1>2. Placed(s, lk) = {<<x[1], IF x \in new THEN id[x] ELSE x[2]>> : x \in Reconciled(lk)}
  BY DEF Placed
<1>3. \A x \in Reconciled(lk) : /\ x = <<x[1], x[2]>> /\ x[1] \in Reconcilable
                                /\ x[1] \in Levels => x[1] \in lk.plan.levels
                                /\ x \notin new => x[2] \in 1..s.used
  BY ReconciledIs
<1> HIDE DEF new, id, n
<1>4. \A x \in Reconciled(lk) : x \in new => id[x] \in 1 .. s.used + n /\ id[x] > s.used
  <2>1. \A x \in new : id[x] \in s.used + 1 .. s.used + n
    BY <1>1
  <2>2. \A m \in s.used + 1 .. s.used + n : m \in 1 .. s.used + n /\ m > s.used
    BY <1>1
  <2> QED
    BY <2>1, <2>2
<1>5. \A x \in Reconciled(lk) : x \notin new => x[2] \in 1 .. s.used + n
  BY <1>1, <1>3
<1>6. ASSUME NEW y \in Placed(s, lk)
      PROVE  /\ y \in Reconcilable \X (1 .. s.used + n)
             /\ y[1] \in Levels => y[1] \in lk.plan.levels
             /\ y \in Reconciled(lk) \ new \/ y[2] > s.used
  <2>1. PICK x \in Reconciled(lk) : y = <<x[1], IF x \in new THEN id[x] ELSE x[2]>>
    BY <1>2
  <2>2. CASE x \in new
    <3>1. y = <<x[1], id[x]>>
      BY <2>1, <2>2
    <3> QED
      BY <1>3, <1>4, <2>2, <3>1
  <2>3. CASE x \notin new
    <3>1. y = <<x[1], x[2]>> /\ y = x
      BY <1>3, <2>1, <2>3
    <3> QED
      BY <1>3, <1>5, <2>3, <3>1
  <2> QED
    BY <2>2, <2>3
<1>7. ASSUME NEW x \in Reconciled(lk) \ new
      PROVE  x \in Placed(s, lk)
  <2>1. x = <<x[1], IF x \in new THEN id[x] ELSE x[2]>>
    BY <1>3, <1>7
  <2> QED
    BY <1>2, <2>1
<1>8. Placed(s, lk) \subseteq Reconcilable \X (1 .. s.used + n)
  BY <1>6
<1> QED
  BY <1>6, <1>7, <1>8 DEF new, n

LEMMA PlaceOfIs ==
  ASSUME NEW placed, NEW u, placed \subseteq Reconcilable \X (1..u), NEW e \in Ids(placed)
  PROVE  /\ PlaceOf(e, placed) \in Reconcilable
         /\ <<PlaceOf(e, placed), e>> \in placed
<1>1. PICK x \in placed : x[2] = e
  BY DEF Ids
<1>2. x = <<x[1], e>> /\ x[1] \in Reconcilable
  BY <1>1
<1>3. CASE <<"forecourt", e>> \in placed
  BY <1>3 DEF PlaceOf, Reconcilable
<1>4. CASE <<"forecourt", e>> \notin placed
  <2>1. x[1] \in Levels /\ <<x[1], e>> \in placed
    BY <1>1, <1>2, <1>4 DEF Reconcilable
  <2>2. (CHOOSE p \in Levels : <<p, e>> \in placed) \in Levels
        /\ <<CHOOSE p \in Levels : <<p, e>> \in placed, e>> \in placed
    BY <2>1
  <2> QED
    BY <1>4, <2>2 DEF PlaceOf, Reconcilable
<1> QED
  BY <1>3, <1>4
LEMMA StoredIs ==
  ASSUME NEW s, s.used \in Nat, NEW lk, SaneLook(lk, s.used)
  PROVE  /\ Stored(lk, Placed(s, lk)) \subseteq
                Places \X (1 .. s.used + Cardinality(Created(lk)))
         /\ Reconciled(lk) = {x \in lk.plan.on : x[1] # "merch"}
         /\ \A x \in Stored(lk, Placed(s, lk)) :
               x \in Placed(s, lk) \/ (x \in lk.plan.on /\ x[1] = "merch")
<1> DEFINE n == Cardinality(Created(lk))
<1>1. n \in Nat
  BY CreatedFinite DEF SaneLook
<1>2. Placed(s, lk) \subseteq Reconcilable \X (1 .. s.used + n)
  BY PlacedIs
<1>3. Reconcilable \subseteq Places
  BY PlacesAre DEF Reconcilable, Places
<1>4. Reconciled(lk) = {x \in lk.plan.on : x[1] # "merch"}
  BY DEF Reconciled
<1>5. \A x \in lk.plan.on \ Reconciled(lk) : x[1] = "merch"
  BY <1>4
<1>6. /\ lk.plan.on \subseteq Places \X (0..s.used)
      /\ \A x \in lk.plan.on : x[1] = "merch" => x[2] # Drawn
  BY DEF SaneLook, WellFormed
<1> HIDE DEF n
<1>7. ASSUME NEW x \in lk.plan.on \ Reconciled(lk)
      PROVE  x \in Places \X (1 .. s.used + n)
  <2>1. x = <<x[1], x[2]>> /\ x[1] \in Places /\ x[2] \in 0..s.used /\ x[2] # 0
    BY <1>5, <1>6 DEF Drawn
  <2>2. x[2] \in 1 .. s.used + n
    BY <1>1, <2>1
  <2> QED
    BY <2>1, <2>2
<1>8. Places \X (1 .. s.used + n) = Places \X (1 .. s.used + Cardinality(Created(lk)))
  BY DEF n
<1>9. Stored(lk, Placed(s, lk)) = Placed(s, lk) \union (lk.plan.on \ Reconciled(lk))
  BY DEF Stored
<1>10. Placed(s, lk) \subseteq Places \X (1 .. s.used + n)
  BY <1>2, <1>3
<1>11. Stored(lk, Placed(s, lk)) \subseteq Places \X (1 .. s.used + n)
  BY <1>7, <1>9, <1>10
<1> QED
  BY <1>4, <1>5, <1>8, <1>9, <1>11

\* The rows and the document after a save.
LEMMA SavedIs ==
  ASSUME NEW s, NEW c \in Configs, Database(s), NEW lk, SaneLook(lk, s.used),
         s.used + Cardinality(Created(lk)) <= MaxElements
  PROVE  /\ Saved(s, c, lk).used = s.used + Cardinality(Created(lk))
         /\ Saved(s, c, lk).used >= s.used
         /\ Saved(s, c, lk).json = Stored(lk, Placed(s, lk))
         /\ Saved(s, c, lk).floors = (s.floors \ ({c} \X Cut(lk))) \union ({c} \X lk.plan.levels)
         /\ \A e \in Elements : Saved(s, c, lk).where[e] =
                IF e \in Ids(Placed(s, lk)) THEN <<c, PlaceOf(e, Placed(s, lk))>>
                ELSE IF e \in Pruned(s, c, lk, Placed(s, lk)) THEN Nowhere
                ELSE s.where[e]
         /\ Database(Saved(s, c, lk))
         /\ Ids(Placed(s, lk)) \subseteq 1..Saved(s, c, lk).used
<1> DEFINE placed == Placed(s, lk)
           u == s.used + Cardinality(Created(lk))
           floorsS == (s.floors \ ({c} \X Cut(lk))) \union ({c} \X lk.plan.levels)
           w == [e \in Elements |-> IF e \in Ids(placed) THEN <<c, PlaceOf(e, placed)>>
                                    ELSE IF e \in Pruned(s, c, lk, placed) THEN Nowhere
                                    ELSE s.where[e]]
<1>1. s.used \in 0..MaxElements /\ s.used \in Nat
  BY BoundsAre DEF Database
<1>2. Cardinality(Created(lk)) \in Nat
  BY CreatedFinite DEF SaneLook
<1>3. u \in 0..MaxElements /\ u >= s.used
  BY <1>1, <1>2, BoundsAre
<1>4. placed \subseteq Reconcilable \X (1..u)
  BY <1>1, PlacedIs
<1>5. Stored(lk, placed) \subseteq Places \X (1..u)
  BY <1>1, StoredIs
<1>6. Ids(placed) \subseteq 1..u
  BY <1>4 DEF Ids
<1>7. Saved(s, c, lk) = [floors |-> floorsS, where |-> w, used |-> u, json |-> Stored(lk, placed)]
  BY DEF Saved
<1> HIDE DEF placed, u, floorsS
<1>8. ASSUME NEW e \in Elements
      PROVE  /\ w[e] \in (Configs \X Places) \union {Nowhere}
             /\ w[e] # Nowhere => e <= u
  <2>1. CASE e \in Ids(placed)
    <3>1. w[e] = <<c, PlaceOf(e, placed)>>
      BY <2>1
    <3>2. PlaceOf(e, placed) \in Reconcilable
      BY <1>4, <2>1, PlaceOfIs
    <3>3. PlaceOf(e, placed) \in Places
      BY <3>2, PlacesAre DEF Reconcilable, Places
    <3>4. e <= u
      BY <1>3, <1>6, <2>1
    <3> QED
      BY <3>1, <3>3, <3>4
  <2>2. CASE e \notin Ids(placed) /\ e \in Pruned(s, c, lk, placed)
    BY <2>2
  <2>3. CASE e \notin Ids(placed) /\ e \notin Pruned(s, c, lk, placed)
    <3>1. w[e] = s.where[e]
      BY <2>3
    <3>2. s.where[e] \in (Configs \X Places) \union {Nowhere} /\ (s.where[e] # Nowhere => e <= s.used)
      BY DEF Database
    <3>3. e <= s.used => e <= u
      BY <1>1, <1>3, BoundsAre DEF Elements
    <3> QED
      BY <3>1, <3>2, <3>3
  <2> QED
    BY <2>1, <2>2, <2>3
<1>9. /\ Saved(s, c, lk).floors = floorsS /\ Saved(s, c, lk).where = w
      /\ Saved(s, c, lk).used = u /\ Saved(s, c, lk).json = Stored(lk, placed)
  BY <1>7
<1>10. w \in [Elements -> (Configs \X Places) \union {Nowhere}]
  BY <1>8
<1>11. Database(Saved(s, c, lk))
  BY <1>3, <1>5, <1>8, <1>9, <1>10 DEF Database
<1>12. \A e \in Elements : w[e] = IF e \in Ids(placed) THEN <<c, PlaceOf(e, placed)>>
                                  ELSE IF e \in Pruned(s, c, lk, placed) THEN Nowhere
                                  ELSE s.where[e]
  OBVIOUS
<1> HIDE DEF w
<1>13. /\ u = s.used + Cardinality(Created(lk)) /\ placed = Placed(s, lk)
       /\ floorsS = (s.floors \ ({c} \X Cut(lk))) \union ({c} \X lk.plan.levels)
  BY DEF u, placed, floorsS
<1>14. Ids(placed) \subseteq 1..Saved(s, c, lk).used
  BY <1>6, <1>9
<1> QED
  BY <1>3, <1>9, <1>11, <1>12, <1>13, <1>14
-----------------------------------------------------------------------------
(* Types. *)

LEMMA TypesByParts ==
  PlanTypeOK <=> /\ RowTypes /\ MappingTypes /\ DocTypes /\ LockType
                 /\ CountTypes /\ ClientTypes /\ HistoryTypes
BY DEF PlanTypeOK, RowTypes, MappingTypes, DocTypes, LockType, CountTypes, ClientTypes,
       HistoryTypes, Steps

LEMMA TypesByPartsPrime ==
  PlanTypeOK' <=> /\ RowTypes' /\ MappingTypes' /\ DocTypes' /\ LockType'
                  /\ CountTypes' /\ ClientTypes' /\ HistoryTypes'
BY DEF PlanTypeOK, RowTypes, MappingTypes, DocTypes, LockType, CountTypes, ClientTypes,
       HistoryTypes, Steps

LEMMA SidesDiffer == \A i \in Integrators, b \in Builders : i # b
BY FloorPlanAssumption

LEMMA NoThings ==
  /\ NoOp \in Request
  /\ NoPlan \in Plan /\ NoLook \in Reading
  /\ \A u \in Nat : WellFormed(NoPlan, u) /\ AskedWith("idle", NoOp, {}, u)
<1>1. 0 \in 0..MaxElements /\ 0 \in 0..MaxEdits
  BY BoundsAre
<1>2. NoOp \in Request
  BY <1>1 DEF NoOp, Request
<1>3. NoPlan \in Plan
  BY <1>1 DEF NoPlan, Plan
<1>4. NoLook \in Reading
  BY <1>3 DEF NoLook, Reading
<1>5. \A u \in Nat : WellFormed(NoPlan, u)
  BY DEF WellFormed, NoPlan
<1>6. \A u \in Nat : AskedWith("idle", NoOp, {}, u)
  BY DEF AskedWith
<1> QED
  BY <1>2, <1>3, <1>4, <1>5, <1>6

LEMMA MoreIds ==
  ASSUME NEW u \in Nat, NEW v \in Nat, u <= v
  PROVE  /\ 1..u \subseteq 1..v /\ 0..u \subseteq 0..v
         /\ Places \X (1..u) \subseteq Places \X (1..v)
         /\ \A k : WellFormed(k, u) => WellFormed(k, v)
         /\ \A step, o, d : AskedWith(step, o, d, u) => AskedWith(step, o, d, v)
<1>1. 1..u \subseteq 1..v /\ 0..u \subseteq 0..v
  OBVIOUS
<1>2. Places \X (1..u) \subseteq Places \X (1..v) /\ Places \X (0..u) \subseteq Places \X (0..v)
  BY <1>1
<1>3. \A k : WellFormed(k, u) => WellFormed(k, v)
  BY <1>2 DEF WellFormed
<1>4. \A step, o, d : AskedWith(step, o, d, u) => AskedWith(step, o, d, v)
  BY <1>1, <1>2 DEF AskedWith
<1> QED
  BY <1>1, <1>2, <1>3, <1>4

LEMMA LateTypes ==
  ASSUME HistoryTypes, NEW e \in Elements
  PROVE  Late(e) \in [Clients -> SUBSET Elements]
BY DEF Late, HistoryTypes

\* A step of the integration page: its own step, request and document change.
LEMMA IntegratorStep ==
  ASSUME TypeInv, NEW i \in Integrators,
         NEW step \in Steps, at' = [at EXCEPT ![i] = step],
         NEW o \in Request, op' = [op EXCEPT ![i] = o],
         NEW d, draft' = [draft EXCEPT ![i] = d],
         UNCHANGED <<copy, look, lock>>,
         used' \in 0..MaxElements, used' >= used,
         AskedWith(step, o, d, used')
  PROVE  ClientTypes' /\ LockType' /\ Plans' /\ Asked' /\ Alone'
<1>1. ClientTypes /\ LockType /\ RowTypes /\ Plans /\ Asked /\ Alone
  BY TypesByParts DEF TypeInv
<1>2. used \in Nat /\ used' \in Nat /\ used' <= MaxElements
  BY <1>1, BoundsAre DEF RowTypes
<1>3. \A b \in Builders : at'[b] = at[b] /\ op'[b] = op[b]
  BY <1>1, SidesDiffer DEF ClientTypes, Clients
<1>4. ClientTypes'
  <2>1. d \subseteq Places \X Elements
    <3>1. d \subseteq Places \X (1..used')
      BY DEF AskedWith
    <3>2. 1..used' \subseteq Elements
      BY <1>2, BoundsAre DEF Elements
    <3> QED
      BY <3>1, <3>2
  <2>2. at' \in [Clients -> Steps] /\ op' \in [Clients -> Request]
    BY <1>1 DEF ClientTypes
  <2>3. draft' \in [Integrators -> SUBSET (Places \X Elements)]
    BY <1>1, <2>1 DEF ClientTypes
  <2> QED
    BY <1>1, <2>2, <2>3 DEF ClientTypes
<1>5. LockType'
  BY <1>1, <1>3 DEF LockType
<1>6. Plans'
  BY <1>1, <1>2, MoreIds DEF Plans
<1>7. Asked'
  <2>1. \A b \in Builders : AskedBuilder(b)'
    BY <1>1, <1>3 DEF Asked, AskedBuilder
  <2>2. ASSUME NEW j \in Integrators
        PROVE  AskedIntegrator(j)'
    <3>1. CASE j = i
      <4>1. at'[j] = step /\ op'[j] = o /\ draft'[j] = d
        BY <1>1, <3>1 DEF ClientTypes, Clients
      <4> QED
        BY <4>1 DEF AskedIntegrator
    <3>2. CASE j # i
      <4>1. at'[j] = at[j] /\ op'[j] = op[j] /\ draft'[j] = draft[j]
        BY <1>1, <3>2 DEF ClientTypes, Clients
      <4>2. AskedWith(at[j], op[j], draft[j], used)
        BY <1>1 DEF Asked, AskedIntegrator
      <4>3. AskedWith(at[j], op[j], draft[j], used')
        BY <1>2, <4>2, MoreIds
      <4> QED
        BY <4>1, <4>3 DEF AskedIntegrator
    <3> QED
      BY <3>1, <3>2
  <2> QED
    BY <2>1, <2>2 DEF Asked
<1>8. Alone'
  BY <1>1, <1>3 DEF Alone
<1> QED
  BY <1>4, <1>5, <1>6, <1>7, <1>8

\* The last step of a request.
LEMMA FinishedTypes ==
  ASSUME TypeInv, NEW i \in Integrators, Finished(i),
         UNCHANGED <<copy, look, lock, used, requests>>
  PROVE  ClientTypes' /\ LockType' /\ Plans' /\ Asked' /\ Alone' /\ CountTypes'
<1>1. RowTypes /\ CountTypes
  BY TypesByParts DEF TypeInv
<1>2. used' = used /\ used \in Nat /\ used \in 0..MaxElements
  BY <1>1, BoundsAre DEF RowTypes
<1>3. AskedWith("idle", NoOp, {}, used')
  BY <1>2, NoThings
<1>4. ClientTypes' /\ LockType' /\ Plans' /\ Asked' /\ Alone'
  <2>1. /\ at' = [at EXCEPT ![i] = "idle"] /\ op' = [op EXCEPT ![i] = NoOp]
        /\ draft' = [draft EXCEPT ![i] = {}]
    BY DEF Finished, Goto
  <2>2. "idle" \in Steps /\ NoOp \in Request
    BY NoThings DEF Steps
  <2>3. used' \in 0..MaxElements /\ used' >= used
    BY <1>2
  <2> QED
    BY <1>3, <2>1, <2>2, <2>3, IntegratorStep
<1>5. CountTypes'
  BY <1>1, BoundsAre DEF CountTypes, Finished
<1> QED
  BY <1>4, <1>5
LEMMA TypeParts ==
  ASSUME TypeInv
  PROVE  /\ RowTypes /\ MappingTypes /\ DocTypes /\ LockType /\ CountTypes /\ ClientTypes
         /\ HistoryTypes /\ Plans /\ Asked /\ Alone
         /\ used \in 0..MaxElements /\ used \in Nat
  BY TypesByParts, BoundsAre DEF TypeInv, RowTypes

LEMMA RowsKept ==
  ASSUME TypeInv, UNCHANGED rows
  PROVE  RowTypes' /\ MappingTypes' /\ used' = used
<1>1. UNCHANGED <<there, floors, where, used, mapping>>
  BY DEF rows
<1> QED
  BY <1>1, TypeParts DEF RowTypes, MappingTypes

LEMMA DocKept ==
  ASSUME TypeInv, UNCHANGED doc, used' \in Nat, used' >= used
  PROVE  DocTypes'
<1>1. UNCHANGED <<json, version>> /\ DocTypes /\ used \in Nat
  BY TypeParts DEF doc
<1>2. Places \X (1..used) \subseteq Places \X (1..used')
  BY <1>1, MoreIds
<1> QED
  BY <1>1, <1>2 DEF DocTypes

LEMMA DraftKept ==
  ASSUME TypeInv, NEW i \in Integrators
  PROVE  /\ draft = [draft EXCEPT ![i] = draft[i]] /\ op = [op EXCEPT ![i] = op[i]]
         /\ op[i] \in Request /\ AskedWith(at[i], op[i], draft[i], used)
  BY TypeParts DEF ClientTypes, Clients, Asked, AskedIntegrator

\* Steps that change the request but not its document.
LEMMA SameDraft ==
  ASSUME TypeInv, NEW i \in Integrators, NEW step \in Steps, NEW o \in Request,
         at' = [at EXCEPT ![i] = step], op' = [op EXCEPT ![i] = o],
         UNCHANGED <<draft, builder, used>>, AskedWith(step, o, draft[i], used)
  PROVE  ClientTypes' /\ LockType' /\ Plans' /\ Asked' /\ Alone'
<1>1. draft' = [draft EXCEPT ![i] = draft[i]]
  BY DraftKept
<1>2. used' \in 0..MaxElements /\ used' >= used /\ used' = used
  BY TypeParts
<1>3. UNCHANGED <<copy, look, lock>>
  BY DEF builder
<1>4. AskedWith(step, o, draft[i], used')
  BY <1>2
<1> QED
  BY <1>1, <1>2, <1>3, <1>4, IntegratorStep

LEMMA AskTypes ==
  ASSUME TypeInv, NEW i \in Integrators, NEW kind \in {"create", "assign", "unmap"},
         NEW c \in Configs \union {"none"}, NEW p \in Places \union {"none"},
         NEW e \in 0..MaxElements, NEW w \in Locations \union {"none"},
         Ask(i, kind, c, p, e, w), UNCHANGED seen
  PROVE  /\ CountTypes'
         /\ [kind |-> kind, config |-> c, place |-> p, element |-> e, location |-> w] \in Request
         /\ op' = [op EXCEPT ![i] = [kind |-> kind, config |-> c, place |-> p, element |-> e,
                                     location |-> w]]
<1>1. CountTypes'
  BY TypeParts, BoundsAre DEF CountTypes, Ask
<1> QED
  BY <1>1 DEF Ask, Request

\* Asking for a new or another place: nothing is written yet.
LEMMA TypeTarget ==
  ASSUME TypeInv, NEW i \in Integrators, NEW kind \in {"create", "assign"}, NEW c \in Configs,
         NEW p \in Places, NEW e \in 0..MaxElements, kind = "assign" => e \in 1..used,
         Target(i, kind, c, p, e)
  PROVE  TypeInv'
<1> DEFINE o == [kind |-> kind, config |-> c, place |-> p, element |-> e, location |-> "none"]
           step == IF p \in Zones \/ <<c, p>> \in floors THEN "place" ELSE "floor"
<1>1. /\ Ask(i, kind, c, p, e, "none") /\ at' = [at EXCEPT ![i] = step]
      /\ UNCHANGED <<rows, doc, seen, draft, builder, history>>
  BY DEF Target, Goto
<1>2. HistoryTypes /\ used \in Nat
  BY TypeParts
<1>3. RowTypes' /\ MappingTypes' /\ used' = used /\ DocTypes'
  BY <1>1, <1>2, RowsKept, DocKept
<1>4. CountTypes' /\ o \in Request /\ op' = [op EXCEPT ![i] = o]
  BY <1>1, AskTypes
<1>5. AskedWith(step, o, draft[i], used) /\ step \in Steps
  <2>1. draft[i] \subseteq Places \X (1..used)
    BY DraftKept DEF AskedWith
  <2>2. step \in {"floor", "place"} /\ (step = "floor" => p \in Levels)
    BY DEF Places
  <2> HIDE DEF step
  <2> QED
    BY <2>1, <2>2 DEF AskedWith, Steps
<1>6. ClientTypes' /\ LockType' /\ Plans' /\ Asked' /\ Alone'
  <2> HIDE DEF o, step
  <2> QED
    BY <1>1, <1>3, <1>4, <1>5, SameDraft
<1>7. HistoryTypes'
  BY <1>1, <1>2 DEF HistoryTypes, history
<1> QED
  BY <1>3, <1>4, <1>6, <1>7, TypesByPartsPrime DEF TypeInv

LEMMA TypeQuickCreate ==
  ASSUME TypeInv, NEW i \in Integrators, NEW c \in Configs, QuickCreate(i, c)
  PROVE  TypeInv'
<1>1. LowestFloor(c) \in Places /\ 0 \in 0..MaxElements
  BY LowestFloorType, BoundsAre DEF Places
<1>2. Target(i, "create", c, LowestFloor(c), 0)
  BY DEF QuickCreate
<1> QED
  BY <1>1, <1>2, TypeTarget

\* An element with a row has one of the ids given.
LEMMA PlacedIsUsed ==
  ASSUME TypeInv, NEW e \in Elements, where[e] # Nowhere
  PROVE  e \in 1..used /\ e \in 0..MaxElements
<1>1. RowTypes /\ used \in Nat
  BY TypeParts
<1> QED
  BY <1>1, BoundsAre DEF RowTypes, Elements

LEMMA TypeAssign ==
  ASSUME TypeInv, NEW i \in Integrators, NEW c \in Configs, NEW p \in Places, NEW e \in Elements,
         where[e] # Nowhere, Target(i, "assign", c, p, e)
  PROVE  TypeInv'
BY PlacedIsUsed, TypeTarget

LEMMA TypeMakeFloor ==
  ASSUME TypeInv, NEW i \in Integrators, MakeFloor(i)
  PROVE  TypeInv'
<1> DEFINE o == op[i]
<1>1. /\ at[i] = "floor" /\ o.config \in there
      /\ floors' = floors \union {<<o.config, o.place>>} /\ at' = [at EXCEPT ![i] = "place"]
      /\ UNCHANGED <<there, where, used, mapping, doc, integrator, builder, op, requests, history>>
  BY DEF MakeFloor, Goto
<1>2. RowTypes /\ MappingTypes /\ HistoryTypes /\ CountTypes /\ used \in Nat
  BY TypeParts
<1>3. o \in Request /\ AskedWith("floor", o, draft[i], used) /\ op' = [op EXCEPT ![i] = o]
  BY <1>1, DraftKept
<1>4. o.place \in Levels
  BY <1>3 DEF AskedWith
<1>5. RowTypes'
  BY <1>1, <1>2, <1>4 DEF RowTypes
<1>6. MappingTypes'
  BY <1>1, <1>2 DEF MappingTypes
<1>7. DocTypes'
  BY <1>1, <1>2, DocKept
<1>8. AskedWith("place", o, draft[i], used) /\ "place" \in Steps
  BY <1>3 DEF AskedWith, Steps
<1>9. UNCHANGED <<draft, builder, used>>
  BY <1>1 DEF integrator
<1>10. ClientTypes' /\ LockType' /\ Plans' /\ Asked' /\ Alone'
  <2> HIDE DEF o
  <2> QED
    BY <1>1, <1>3, <1>8, <1>9, SameDraft
<1>11. CountTypes' /\ HistoryTypes'
  BY <1>1, <1>2 DEF CountTypes, HistoryTypes, history, integrator
<1> QED
  BY <1>5, <1>6, <1>7, <1>10, <1>11, TypesByPartsPrime DEF TypeInv

\* The row of an element is written where its floor or zone stands.
LEMMA RowWritten ==
  ASSUME TypeInv, NEW c \in Configs, NEW p \in Places, NEW e \in Elements,
         Standing(c, p), where' = [where EXCEPT ![e] = <<c, p>>],
         used' \in 0..MaxElements, used' >= used, e <= used',
         UNCHANGED <<there, floors, mapping>>
  PROVE  RowTypes' /\ MappingTypes'
<1>1. RowTypes /\ MappingTypes /\ used \in Nat /\ used' \in Nat
  BY TypeParts, BoundsAre
<1>2. /\ there \subseteq Configs /\ floors \subseteq there \X Levels
      /\ where \in [Elements -> (there \X Places) \union {Nowhere}]
      /\ \A f \in Elements : where[f] # Nowhere /\ where[f][2] \in Levels => where[f] \in floors
      /\ \A f \in Elements : where[f] # Nowhere => f <= used
  BY <1>1 DEF RowTypes
<1>3. c \in there /\ (p \in Levels => <<c, p>> \in floors)
  BY <1>2, PlacesAre DEF Standing, Zones
<1>4. where'[e] = <<c, p>> /\ \A f \in Elements : f # e => where'[f] = where[f]
  BY <1>2
<1>5. where' \in [Elements -> (there \X Places) \union {Nowhere}]
  BY <1>2, <1>3
<1>6. \A f \in Elements : where'[f] # Nowhere /\ where'[f][2] \in Levels => where'[f] \in floors
  BY <1>2, <1>3, <1>4
<1>7. \A f \in Elements : where'[f] # Nowhere => f <= used'
  <2>1. \A f \in Elements : f <= used => f <= used'
    BY <1>1, BoundsAre DEF Elements
  <2> QED
    BY <1>2, <1>4, <2>1
<1>8. RowTypes'
  BY <1>2, <1>5, <1>6, <1>7 DEF RowTypes
<1>9. MappingTypes'
  <2>1. \A f : where[f] # Nowhere => where'[f] # Nowhere
    BY <1>2, PairIsSomewhere
  <2> QED
    BY <1>1, <2>1 DEF MappingTypes
<1> QED
  BY <1>8, <1>9

LEMMA TypeMakeElement ==
  ASSUME TypeInv, NEW i \in Integrators, MakeElement(i)
  PROVE  TypeInv'
<1> DEFINE e == used + 1
           o == [op[i] EXCEPT !.element = e]
<1>1. /\ at[i] = "place" /\ used < MaxElements /\ Standing(op[i].config, op[i].place)
      /\ op[i].kind = "create"
      /\ where' = [where EXCEPT ![e] = <<op[i].config, op[i].place>>] /\ used' = e
      /\ op' = [op EXCEPT ![i].element = e] /\ at' = [at EXCEPT ![i] = "read"]
      /\ UNCHANGED <<there, floors, mapping, doc, integrator, builder, requests, history>>
  BY DEF MakeElement, Goto
<1>2. HistoryTypes /\ CountTypes /\ used \in Nat /\ used \in 0..MaxElements
  BY TypeParts
<1>3. op[i] \in Request /\ AskedWith("place", op[i], draft[i], used)
  BY <1>1, DraftKept
<1>4. op[i].config \in Configs /\ op[i].place \in Places
      /\ draft[i] \subseteq Places \X (1..used)
  BY <1>3 DEF AskedWith
<1>5. /\ e \in Elements /\ used' \in 0..MaxElements /\ used' >= used /\ used' \in Nat
      /\ e <= used' /\ e \in 0..MaxElements
  BY <1>1, <1>2, BoundsAre DEF Elements
<1>6. RowTypes' /\ MappingTypes'
  <2> HIDE DEF e
  <2> QED
    BY <1>1, <1>4, <1>5, RowWritten
<1>7. DocTypes'
  BY <1>1, <1>5, DocKept
<1>8. op' = [op EXCEPT ![i] = o]
  BY <1>1
<1>9. /\ o \in Request /\ o.config = op[i].config /\ o.place = op[i].place
      /\ o.kind = op[i].kind /\ o.element = e
  <2> HIDE DEF e
  <2> QED
    BY <1>3, <1>5 DEF Request
<1>10. draft[i] \subseteq Places \X (1..used') /\ e \in 1..used'
  BY <1>1, <1>2, <1>4, <1>5, MoreIds
<1>11. AskedWith("read", o, draft[i], used') /\ "read" \in Steps
  <2> HIDE DEF o, e
  <2> QED
    BY <1>1, <1>4, <1>9, <1>10 DEF AskedWith, Steps
<1>12. draft' = [draft EXCEPT ![i] = draft[i]] /\ UNCHANGED <<copy, look, lock>>
  BY <1>1, DraftKept DEF integrator, builder
<1>13. ClientTypes' /\ LockType' /\ Plans' /\ Asked' /\ Alone'
  <2> HIDE DEF o, e
  <2> QED
    BY <1>1, <1>5, <1>8, <1>9, <1>11, <1>12, IntegratorStep
<1>14. CountTypes' /\ HistoryTypes'
  BY <1>1, <1>2 DEF CountTypes, HistoryTypes, history, integrator
<1> QED
  BY <1>6, <1>7, <1>13, <1>14, TypesByPartsPrime DEF TypeInv

LEMMA TypeMoveElement ==
  ASSUME TypeInv, NEW i \in Integrators, MoveElement(i)
  PROVE  TypeInv'
<1> DEFINE o == op[i]
           e == o.element
<1>1. /\ at[i] = "place" /\ o.kind = "assign" /\ where[e] # Nowhere
      /\ Standing(o.config, o.place)
      /\ where' = [where EXCEPT ![e] = <<o.config, o.place>>] /\ late' = Late(e)
      /\ (apart' = apart \union {e} \/ apart' = apart \ {e})
      /\ at' = [at EXCEPT ![i] = "read"]
      /\ UNCHANGED <<there, floors, used, mapping, doc, integrator, builder, op, requests>>
  BY DEF MoveElement, Goto
<1>2. HistoryTypes /\ CountTypes /\ used \in Nat /\ used \in 0..MaxElements
  BY TypeParts
<1>3. o \in Request /\ AskedWith("place", o, draft[i], used) /\ op' = [op EXCEPT ![i] = o]
  BY <1>1, DraftKept
<1>4. o.config \in Configs /\ o.place \in Places /\ e \in 1..used /\ e \in Elements /\ e <= used
  BY <1>1, <1>2, <1>3, BoundsAre DEF AskedWith, Elements
<1>5. RowTypes' /\ MappingTypes'
  <2> HIDE DEF o, e
  <2>1. used' \in 0..MaxElements /\ used' >= used /\ e <= used'
    BY <1>1, <1>2, <1>4
  <2> QED
    BY <1>1, <1>4, <2>1, RowWritten
<1>6. DocTypes'
  BY <1>1, <1>2, DocKept
<1>7. AskedWith("read", o, draft[i], used) /\ "read" \in Steps
  BY <1>1, <1>3, <1>4 DEF AskedWith, Steps
<1>8. UNCHANGED <<draft, builder, used>>
  BY <1>1 DEF integrator
<1>9. ClientTypes' /\ LockType' /\ Plans' /\ Asked' /\ Alone'
  <2> HIDE DEF o, e
  <2> QED
    BY <1>1, <1>3, <1>7, <1>8, SameDraft
<1>10. CountTypes'
  BY <1>1, <1>2 DEF CountTypes, integrator
<1>11. HistoryTypes'
  BY <1>1, <1>2, <1>4, LateTypes DEF HistoryTypes
<1> QED
  BY <1>5, <1>6, <1>9, <1>10, <1>11, TypesByPartsPrime DEF TypeInv

LEMMA TypeBreakOff ==
  ASSUME TypeInv, NEW i \in Integrators, BreakOff(i)
  PROVE  TypeInv'
<1>1. /\ Finished(i) /\ UNCHANGED <<rows, doc, builder, requests, late>>
      /\ (apart' = apart \/ (Between(i) /\ apart' = apart \union {op[i].element}))
  BY DEF BreakOff
<1>2. RowTypes /\ HistoryTypes /\ used \in Nat /\ used \in 0..MaxElements
  BY TypeParts
<1>3. RowTypes' /\ MappingTypes' /\ used' = used /\ DocTypes'
  BY <1>1, <1>2, RowsKept, DocKept
<1>4. ClientTypes' /\ LockType' /\ Plans' /\ Asked' /\ Alone' /\ CountTypes'
  BY <1>1, <1>3, FinishedTypes DEF builder
<1>5. Between(i) => op[i].element \in Elements
  <2>1. AskedWith(at[i], op[i], draft[i], used)
    BY DraftKept
  <2>2. Between(i) => op[i].element \in 1..used
    BY <2>1 DEF AskedWith, Between
  <2> QED
    BY <1>2, <2>2, BoundsAre DEF Elements
<1>6. HistoryTypes'
  BY <1>1, <1>2, <1>5 DEF HistoryTypes
<1> QED
  BY <1>3, <1>4, <1>6, TypesByPartsPrime DEF TypeInv

LEMMA MutatedType ==
  ASSUME TypeInv, NEW kind, NEW p \in Places, NEW e \in 1..used, NEW c \in Configs
  PROVE  Mutated(kind, p, e, json[c]) \subseteq Places \X (1..used)
<1>1. json[c] \subseteq Places \X (1..used)
  BY TypeParts DEF DocTypes
<1>2. {<<p, e>>} \subseteq Places \X (1..used)
  OBVIOUS
<1> QED
  BY <1>1, <1>2 DEF Mutated

LEMMA TypeReadData ==
  ASSUME TypeInv, NEW i \in Integrators, ReadData(i)
  PROVE  TypeInv'
<1> DEFINE o == op[i]
           d == Mutated(o.kind, o.place, o.element, json[o.config])
<1>1. HistoryTypes /\ CountTypes /\ DocTypes /\ used \in Nat /\ used \in 0..MaxElements
  BY TypeParts
<1>2. at[i] = "read" /\ o.kind \in {"create", "assign"}
      /\ UNCHANGED <<rows, doc, builder, requests, apart>>
  BY DEF ReadData
<1>3. RowTypes' /\ MappingTypes' /\ used' = used /\ DocTypes'
  BY <1>1, <1>2, RowsKept, DocKept
<1>4. UNCHANGED <<copy, look, lock, used, requests>>
  BY <1>2, <1>3 DEF builder
<1>5. o \in Request /\ AskedWith("read", o, draft[i], used)
  BY <1>2, DraftKept
<1>6. o.config \in Configs /\ o.place \in Places /\ o.element \in 1..used
  BY <1>2, <1>5 DEF AskedWith
<1>7. CASE o.config \notin there
  <2>1. Finished(i) /\ UNCHANGED late
    BY <1>7 DEF ReadData
  <2>2. ClientTypes' /\ LockType' /\ Plans' /\ Asked' /\ Alone' /\ CountTypes'
    BY <1>4, <2>1, FinishedTypes
  <2>3. HistoryTypes'
    BY <1>1, <1>2, <2>1 DEF HistoryTypes
  <2> QED
    BY <1>3, <2>2, <2>3, TypesByPartsPrime DEF TypeInv
<1>8. CASE o.config \in there
  <2>1. /\ seen' = [seen EXCEPT ![i] = version[o.config]] /\ draft' = [draft EXCEPT ![i] = d]
        /\ late' = [late EXCEPT ![i] = {}] /\ at' = [at EXCEPT ![i] = "write"]
        /\ UNCHANGED <<op, tries>>
    BY <1>8 DEF ReadData, Goto
  <2>2. d \subseteq Places \X (1..used)
    BY <1>6, MutatedType
  <2> HIDE DEF d
  <2>3. AskedWith("write", o, d, used')
    BY <1>3, <1>5, <2>2 DEF AskedWith
  <2>4. ClientTypes' /\ LockType' /\ Plans' /\ Asked' /\ Alone'
    <3>1. op' = [op EXCEPT ![i] = o] /\ "write" \in Steps
      BY <2>1, DraftKept DEF Steps
    <3>2. used' \in 0..MaxElements /\ used' >= used
      BY <1>1, <1>3
    <3> HIDE DEF o
    <3> QED
      BY <1>4, <1>5, <2>1, <2>3, <3>1, <3>2, IntegratorStep
  <2>5. CountTypes'
    <3>1. version[o.config] \in Nat
      BY <1>1, <1>6 DEF DocTypes
    <3> QED
      BY <1>1, <1>4, <2>1, <3>1 DEF CountTypes
  <2>6. HistoryTypes'
    BY <1>1, <1>2, <2>1 DEF HistoryTypes
  <2> QED
    BY <1>3, <2>4, <2>5, <2>6, TypesByPartsPrime DEF TypeInv
<1> QED
  BY <1>7, <1>8

\* Writing a document back, then the end of the request.
LEMMA WrittenTypes ==
  ASSUME TypeInv, NEW i \in Integrators, NEW c \in Configs, NEW d, NEW forced,
         Written(i, c, d, forced), d \subseteq Places \X (1..used), used' = used,
         UNCHANGED late
  PROVE  DocTypes' /\ HistoryTypes'
<1>1. DocTypes /\ HistoryTypes
  BY TypeParts
<1> DEFINE unseen == Differing(json[c], d) \ {op[i].element}
           known == IF forced THEN Elements ELSE late[i]
<1>2. /\ json' = [json EXCEPT ![c] = d] /\ version' = [version EXCEPT ![c] = @ + 1]
      /\ apart' = apart \union (unseen \intersect known)
  BY DEF Written
<1> HIDE DEF unseen
<1>3. DocTypes'
  BY <1>1, <1>2 DEF DocTypes
<1>4. known \subseteq Elements
  BY <1>1 DEF HistoryTypes, Clients
<1> HIDE DEF known
<1>5. HistoryTypes'
  BY <1>1, <1>2, <1>4 DEF HistoryTypes
<1> QED
  BY <1>3, <1>5

LEMMA TypeWriteData ==
  ASSUME TypeInv, NEW i \in Integrators, WriteData(i)
  PROVE  TypeInv'
<1> DEFINE c == op[i].config
           forced == tries[i] = MaxRetries
<1>1. /\ at[i] = "write" /\ Written(i, c, draft[i], forced) /\ Finished(i)
      /\ UNCHANGED <<rows, builder, requests, late>>
  BY DEF WriteData
<1>2. RowTypes' /\ MappingTypes' /\ used' = used
  BY <1>1, RowsKept
<1>3. AskedWith("write", op[i], draft[i], used)
  BY <1>1, DraftKept
<1>4. c \in Configs /\ draft[i] \subseteq Places \X (1..used)
  BY <1>3 DEF AskedWith
<1> HIDE DEF forced
<1>5. DocTypes' /\ HistoryTypes'
  BY <1>1, <1>2, <1>4, WrittenTypes
<1>6. ClientTypes' /\ LockType' /\ Plans' /\ Asked' /\ Alone' /\ CountTypes'
  BY <1>1, <1>2, FinishedTypes DEF builder
<1> QED
  BY <1>2, <1>5, <1>6, TypesByPartsPrime DEF TypeInv

LEMMA TypeRetry ==
  ASSUME TypeInv, NEW i \in Integrators, Retry(i)
  PROVE  TypeInv'
<1>1. /\ at[i] = "write" /\ UNCHANGED <<rows, doc, builder, requests, history>>
      /\ op[i].kind \in {"create", "assign"}
  BY DEF Retry
<1>2. HistoryTypes /\ CountTypes /\ used \in Nat /\ used \in 0..MaxElements
  BY TypeParts
<1>3. RowTypes' /\ MappingTypes' /\ used' = used /\ DocTypes'
  BY <1>1, <1>2, RowsKept, DocKept
<1>4. UNCHANGED <<copy, look, lock, used, requests>>
  BY <1>1, <1>3 DEF builder
<1>5. HistoryTypes'
  BY <1>1, <1>2 DEF HistoryTypes, history
<1>6. CASE tries[i] = MaxRetries
  <2>1. Finished(i)
    BY <1>6 DEF Retry
  <2> QED
    BY <1>3, <1>4, <1>5, <2>1, FinishedTypes, TypesByPartsPrime DEF TypeInv
<1>7. CASE tries[i] # MaxRetries
  <2>1. tries' = [tries EXCEPT ![i] = @ + 1] /\ at' = [at EXCEPT ![i] = "read"]
        /\ UNCHANGED <<op, seen, draft>>
    BY <1>7 DEF Retry, Goto
  <2>2. CountTypes'
    BY <1>2, <1>4, <1>7, <2>1, BoundsAre DEF CountTypes
  <2>3. op[i] \in Request /\ AskedWith("read", op[i], draft[i], used')
    BY <1>1, <1>3, DraftKept DEF AskedWith
  <2>4. op' = [op EXCEPT ![i] = op[i]] /\ draft' = [draft EXCEPT ![i] = draft[i]]
        /\ "read" \in Steps /\ used' \in 0..MaxElements /\ used' >= used
    BY <1>2, <1>3, <2>1, DraftKept DEF Steps
  <2>5. ClientTypes' /\ LockType' /\ Plans' /\ Asked' /\ Alone'
    BY <1>4, <2>1, <2>3, <2>4, IntegratorStep
  <2> QED
    BY <1>3, <1>5, <2>2, <2>5, TypesByPartsPrime DEF TypeInv
<1> QED
  BY <1>6, <1>7
\* Nothing but rows, mappings and history changes.
LEMMA OthersKept ==
  ASSUME TypeInv, UNCHANGED <<integrator, builder, at, op, requests>>, used' = used
  PROVE  CountTypes' /\ ClientTypes' /\ LockType' /\ Plans' /\ Asked' /\ Alone'
<1>1. UNCHANGED <<seen, tries, draft, copy, look, lock, at, op, requests, used>>
  BY DEF integrator, builder
<1>2. CountTypes /\ ClientTypes /\ LockType /\ Plans /\ Asked /\ Alone
  BY TypeParts
<1>3. CountTypes' /\ ClientTypes'
  BY <1>1, <1>2 DEF CountTypes, ClientTypes
<1>4. LockType'
  BY <1>1, <1>2 DEF LockType
<1>5. Plans'
  BY <1>1, <1>2 DEF Plans
<1>6. Asked'
  BY <1>1, <1>2 DEF Asked, AskedBuilder, AskedIntegrator
<1>7. Alone'
  BY <1>1, <1>2 DEF Alone
<1> QED
  BY <1>3, <1>4, <1>5, <1>6, <1>7

LEMMA UnmappedIs ==
  ASSUME MappingTypes, NEW gone
  PROVE  /\ Unmapped(gone) \in [Locations -> 0..MaxElements]
         /\ \A w \in Locations : Unmapped(gone)[w] # 0 =>
               Unmapped(gone)[w] = mapping[w] /\ mapping[w] \notin gone
<1>1. 0 \in 0..MaxElements
  BY BoundsAre
<1> QED
  BY <1>1 DEF MappingTypes, Unmapped

LEMMA TypeSetMapping ==
  ASSUME TypeInv, NEW w \in Locations, NEW e \in Elements, where[e] # Nowhere, SetMapping(w, e)
  PROVE  TypeInv'
<1>1. /\ mapping' = [mapping EXCEPT ![w] = e] /\ late' = Late(e)
      /\ UNCHANGED <<there, floors, where, used, doc, integrator, builder, at, op,
                     requests, apart>>
  BY DEF SetMapping
<1>2. RowTypes /\ MappingTypes /\ HistoryTypes /\ used \in Nat
  BY TypeParts
<1>3. CountTypes' /\ ClientTypes' /\ LockType' /\ Plans' /\ Asked' /\ Alone'
  BY <1>1, OthersKept
<1>4. RowTypes'
  BY <1>1, <1>2 DEF RowTypes
<1>5. MappingTypes'
  <2>1. e \in 0..MaxElements
    BY BoundsAre DEF Elements
  <2> QED
    BY <1>1, <1>2, <2>1 DEF MappingTypes
<1>6. DocTypes'
  BY <1>1, <1>2, DocKept
<1>7. HistoryTypes'
  BY <1>1, <1>2, LateTypes DEF HistoryTypes
<1> QED
  BY <1>3, <1>4, <1>5, <1>6, <1>7, TypesByPartsPrime DEF TypeInv

LEMMA TypeUnmap ==
  ASSUME TypeInv, NEW i \in Integrators, NEW w \in Locations, Unmap(i, w)
  PROVE  TypeInv'
<1> DEFINE e == mapping[w]
           o == [kind |-> "unmap", config |-> "none", place |-> "none", element |-> e,
                 location |-> w]
<1>1. /\ e # 0 /\ Ask(i, "unmap", "none", "none", e, w) /\ at' = [at EXCEPT ![i] = "unmap"]
      /\ UNCHANGED <<rows, doc, seen, draft, builder, history>>
  BY DEF Unmap, Goto
<1>2. RowTypes /\ MappingTypes /\ HistoryTypes /\ used \in Nat
  BY TypeParts
<1>3. e \in 0..MaxElements /\ e \in 1..used
  <2>1. e \in Elements /\ where[e] # Nowhere
    BY <1>1, <1>2, BoundsAre DEF MappingTypes, Elements
  <2> QED
    BY <1>2, <2>1, BoundsAre DEF RowTypes, Elements
<1>4. RowTypes' /\ MappingTypes' /\ used' = used /\ DocTypes'
  BY <1>1, <1>2, RowsKept, DocKept
<1>5. CountTypes' /\ o \in Request /\ op' = [op EXCEPT ![i] = o]
  <2> HIDE DEF e
  <2> QED
    BY <1>1, <1>3, AskTypes
<1>6. AskedWith("unmap", o, draft[i], used)
  BY <1>3, DraftKept DEF AskedWith
<1>7. ClientTypes' /\ LockType' /\ Plans' /\ Asked' /\ Alone'
  <2>1. "unmap" \in Steps
    BY DEF Steps
  <2> HIDE DEF o
  <2> QED
    BY <1>1, <1>4, <1>5, <1>6, <2>1, SameDraft
<1>8. HistoryTypes'
  BY <1>1, <1>2 DEF HistoryTypes, history
<1> QED
  BY <1>4, <1>5, <1>7, <1>8, TypesByPartsPrime DEF TypeInv

LEMMA TypeDeleteMapping ==
  ASSUME TypeInv, NEW i \in Integrators, DeleteMapping(i)
  PROVE  TypeInv'
<1>1. /\ at[i] = "unmap" /\ mapping' = [mapping EXCEPT ![op[i].location] = 0]
      /\ at' = [at EXCEPT ![i] = "count"]
      /\ UNCHANGED <<there, floors, where, used, doc, integrator, builder, op, requests, history>>
  BY DEF DeleteMapping, Goto
<1>2. RowTypes /\ MappingTypes /\ HistoryTypes /\ CountTypes /\ used \in Nat
  BY TypeParts
<1>3. RowTypes'
  BY <1>1, <1>2 DEF RowTypes
<1>4. MappingTypes'
  <2>1. 0 \in 0..MaxElements
    BY BoundsAre
  <2> QED
    BY <1>1, <1>2, <2>1 DEF MappingTypes
<1>5. DocTypes'
  BY <1>1, <1>2, DocKept
<1>6. ClientTypes' /\ LockType' /\ Plans' /\ Asked' /\ Alone'
  <2>1. op[i] \in Request /\ op' = [op EXCEPT ![i] = op[i]] /\ AskedWith("unmap", op[i], draft[i], used)
    BY <1>1, DraftKept
  <2>2. AskedWith("count", op[i], draft[i], used) /\ "count" \in Steps
    BY <2>1 DEF AskedWith, Steps
  <2>3. UNCHANGED <<draft, builder, used>>
    BY <1>1 DEF integrator
  <2> QED
    BY <1>1, <2>1, <2>2, <2>3, SameDraft
<1>7. CountTypes' /\ HistoryTypes'
  BY <1>1, <1>2 DEF CountTypes, HistoryTypes, history, integrator
<1> QED
  BY <1>3, <1>4, <1>5, <1>6, <1>7, TypesByPartsPrime DEF TypeInv

LEMMA TypeCountMappings ==
  ASSUME TypeInv, NEW i \in Integrators, CountMappings(i)
  PROVE  TypeInv'
<1> DEFINE e == op[i].element
<1>1. /\ at[i] = "count" /\ UNCHANGED <<rows, doc, builder, requests, apart>>
  BY DEF CountMappings
<1>2. RowTypes /\ HistoryTypes /\ CountTypes /\ used \in Nat
  BY TypeParts
<1>3. RowTypes' /\ MappingTypes' /\ used' = used /\ DocTypes'
  BY <1>1, <1>2, RowsKept, DocKept
<1>4. op[i] \in Request /\ AskedWith("count", op[i], draft[i], used)
  BY <1>1, DraftKept
<1>5. CASE Mapped(e) \/ where[e] = Nowhere
  <2>1. Finished(i) /\ UNCHANGED late
    BY <1>5 DEF CountMappings
  <2>2. HistoryTypes'
    BY <1>1, <1>2, <2>1 DEF HistoryTypes
  <2>3. UNCHANGED <<copy, look, lock, used, requests>>
    BY <1>1, <1>3 DEF builder
  <2>4. ClientTypes' /\ LockType' /\ Plans' /\ Asked' /\ Alone' /\ CountTypes'
    BY <2>1, <2>3, FinishedTypes
  <2> QED
    BY <1>3, <2>2, <2>4, TypesByPartsPrime DEF TypeInv
<1>6. CASE ~ (Mapped(e) \/ where[e] = Nowhere)
  <2> DEFINE o == [op[i] EXCEPT !.config = where[e][1]]
  <2>1. /\ op' = [op EXCEPT ![i].config = where[e][1]] /\ late' = [late EXCEPT ![i] = {}]
        /\ at' = [at EXCEPT ![i] = "remove"] /\ UNCHANGED integrator
    BY <1>6 DEF CountMappings, Goto
  <2>2. op' = [op EXCEPT ![i] = o]
    BY <2>1
  <2>3. e \in Elements /\ where[e] # Nowhere
    <3>1. e \in 1..used
      BY <1>4 DEF AskedWith
    <3>2. used \in 0..MaxElements
      BY <1>2 DEF RowTypes
    <3> QED
      BY <1>6, <3>1, <3>2, BoundsAre DEF Elements
  <2>4. where[e][1] \in Configs
    <3>1. where[e] \in there \X Places /\ there \subseteq Configs
      BY <1>2, <2>3 DEF RowTypes
    <3> QED
      BY <3>1
  <2>5. o \in Request /\ o.config \in Configs /\ o.element = e /\ o.kind = op[i].kind
    BY <1>4, <2>4 DEF Request
  <2>6. AskedWith("remove", o, draft[i], used) /\ "remove" \in Steps
    <3> HIDE DEF o
    <3> QED
      BY <1>4, <2>5 DEF AskedWith, Steps
  <2>7. ClientTypes' /\ LockType' /\ Plans' /\ Asked' /\ Alone'
    <3>1. UNCHANGED <<draft, builder, used>>
      BY <1>1, <1>3, <2>1 DEF integrator
    <3> HIDE DEF o
    <3> QED
      BY <2>1, <2>2, <2>5, <2>6, <3>1, SameDraft
  <2>8. CountTypes'
    BY <1>1, <1>2, <2>1 DEF CountTypes, integrator
  <2>9. HistoryTypes'
    BY <1>1, <1>2, <2>1 DEF HistoryTypes
  <2> QED
    BY <1>3, <2>7, <2>8, <2>9, TypesByPartsPrime DEF TypeInv
<1> QED
  BY <1>5, <1>6
LEMMA TypeRemoveElement ==
  ASSUME TypeInv, NEW i \in Integrators, RemoveElement(i)
  PROVE  TypeInv'
<1> DEFINE e == op[i].element
<1>1. /\ at[i] = "remove"
      /\ UNCHANGED <<there, floors, used, doc, builder, requests, history>>
  BY DEF RemoveElement
<1>2. RowTypes /\ MappingTypes /\ HistoryTypes /\ CountTypes /\ used \in Nat
  BY TypeParts
<1>3. DocTypes' /\ UNCHANGED <<copy, look, lock, used, requests>>
  BY <1>1, <1>2, DocKept DEF builder
<1>4. op[i] \in Request /\ AskedWith("remove", op[i], draft[i], used)
  BY <1>1, DraftKept
<1>5. CASE where[e] = Nowhere
  <2>1. Finished(i) /\ UNCHANGED <<where, mapping>>
    BY <1>5 DEF RemoveElement
  <2>2. ClientTypes' /\ LockType' /\ Plans' /\ Asked' /\ Alone' /\ CountTypes'
    BY <1>3, <2>1, FinishedTypes
  <2>3. RowTypes' /\ MappingTypes' /\ HistoryTypes'
    BY <1>1, <1>2, <2>1 DEF RowTypes, MappingTypes, HistoryTypes, history
  <2> QED
    BY <1>3, <2>2, <2>3, TypesByPartsPrime DEF TypeInv
<1>6. CASE where[e] # Nowhere
  <2>1. /\ where' = [where EXCEPT ![e] = Nowhere] /\ mapping' = Unmapped({e})
        /\ at' = [at EXCEPT ![i] = "read"] /\ UNCHANGED <<op, integrator>>
    BY <1>6 DEF RemoveElement, Goto
  <2>2. AskedWith("read", op[i], draft[i], used) /\ "read" \in Steps
    BY <1>4 DEF AskedWith, Steps
  <2>3. ClientTypes' /\ LockType' /\ Plans' /\ Asked' /\ Alone'
    <3>1. UNCHANGED <<draft, builder, used>> /\ op' = [op EXCEPT ![i] = op[i]]
      BY <1>1, <2>1, DraftKept DEF integrator
    <3> QED
      BY <1>4, <2>1, <2>2, <3>1, SameDraft
  <2>4. CountTypes'
    BY <1>1, <1>2, <2>1 DEF CountTypes, integrator
  <2>5. HistoryTypes'
    BY <1>1, <1>2 DEF HistoryTypes, history
  <2>6. RowTypes'
    BY <1>1, <1>2, <2>1 DEF RowTypes
  <2>7. MappingTypes'
    <3>1. mapping' \in [Locations -> 0..MaxElements]
          /\ \A w \in Locations : mapping'[w] # 0 => mapping'[w] = mapping[w] /\ mapping[w] # e
      BY <1>2, <2>1, UnmappedIs
    <3>2. \A f \in 1..MaxElements : f # e => where'[f] = where[f]
      BY <1>2, <2>1 DEF RowTypes, Elements
    <3>3. ASSUME NEW w \in Locations, mapping'[w] # 0
          PROVE  where'[mapping'[w]] # Nowhere
      <4>1. mapping[w] \in 1..MaxElements /\ mapping[w] # e /\ mapping'[w] = mapping[w]
        BY <1>2, <3>1, <3>3, BoundsAre DEF MappingTypes
      <4> QED
        BY <1>2, <3>2, <3>3, <4>1 DEF MappingTypes
    <3> QED
      BY <3>1, <3>3 DEF MappingTypes
  <2> QED
    BY <1>3, <2>3, <2>4, <2>5, <2>6, <2>7, TypesByPartsPrime DEF TypeInv
<1> QED
  BY <1>5, <1>6

LEMMA TypeReadToRemove ==
  ASSUME TypeInv, NEW i \in Integrators, ReadToRemove(i)
  PROVE  TypeInv'
<1> DEFINE d == json[op[i].config] \ (Places \X {op[i].element})
<1>1. /\ at[i] = "read" /\ op[i].kind = "unmap"
      /\ UNCHANGED <<rows, doc, builder, requests, history>>
  BY DEF ReadToRemove
<1>2. HistoryTypes /\ CountTypes /\ DocTypes /\ used \in Nat /\ used \in 0..MaxElements
  BY TypeParts
<1>3. RowTypes' /\ MappingTypes' /\ used' = used /\ DocTypes'
  BY <1>1, <1>2, RowsKept, DocKept
<1>4. UNCHANGED <<copy, look, lock, used, requests>>
  BY <1>1, <1>3 DEF builder
<1>5. op[i] \in Request /\ AskedWith("read", op[i], draft[i], used)
  BY <1>1, DraftKept
<1>6. CASE \E p \in Places : <<p, op[i].element>> \in json[op[i].config]
  <2>1. /\ draft' = [draft EXCEPT ![i] = d]
        /\ at' = [at EXCEPT ![i] = "write"] /\ UNCHANGED <<op, seen, tries>>
    BY <1>6 DEF ReadToRemove, Goto
  <2>2. d \subseteq Places \X (1..used)
    <3>1. op[i].config \in Configs
      BY <1>5 DEF AskedWith
    <3> QED
      BY <1>2, <3>1 DEF DocTypes
  <2> HIDE DEF d
  <2>3. AskedWith("write", op[i], d, used')
    BY <1>3, <1>5, <2>2 DEF AskedWith
  <2>4. ClientTypes' /\ LockType' /\ Plans' /\ Asked' /\ Alone'
    <3>1. op' = [op EXCEPT ![i] = op[i]] /\ "write" \in Steps
      BY <2>1, DraftKept DEF Steps
    <3>2. used' \in 0..MaxElements /\ used' >= used
      BY <1>2, <1>3
    <3> QED
      BY <1>4, <1>5, <2>1, <2>3, <3>1, <3>2, IntegratorStep
  <2>5. CountTypes' /\ HistoryTypes'
    BY <1>1, <1>2, <2>1 DEF CountTypes, HistoryTypes, history
  <2> QED
    BY <1>3, <2>4, <2>5, TypesByPartsPrime DEF TypeInv
<1>7. CASE ~ (\E p \in Places : <<p, op[i].element>> \in json[op[i].config])
  <2>1. Finished(i)
    BY <1>7 DEF ReadToRemove
  <2>2. ClientTypes' /\ LockType' /\ Plans' /\ Asked' /\ Alone' /\ CountTypes'
    BY <1>4, <2>1, FinishedTypes
  <2>3. HistoryTypes'
    BY <1>1, <1>2, <2>1 DEF HistoryTypes, history
  <2> QED
    BY <1>3, <2>2, <2>3, TypesByPartsPrime DEF TypeInv
<1> QED
  BY <1>6, <1>7

LEMMA TypeWriteRemoved ==
  ASSUME TypeInv, NEW i \in Integrators, WriteRemoved(i)
  PROVE  TypeInv'
<1> DEFINE c == op[i].config
<1>1. /\ at[i] = "write" /\ Finished(i) /\ UNCHANGED <<rows, builder, requests, late>>
      /\ IF c \in there THEN Written(i, c, draft[i], TRUE) ELSE UNCHANGED <<doc, apart>>
  BY DEF WriteRemoved
<1>2. RowTypes' /\ MappingTypes' /\ used' = used /\ HistoryTypes /\ used \in Nat
  BY <1>1, RowsKept, TypeParts
<1>3. AskedWith("write", op[i], draft[i], used)
  BY <1>1, DraftKept
<1>4. c \in Configs /\ draft[i] \subseteq Places \X (1..used)
  BY <1>3 DEF AskedWith
<1>5. DocTypes' /\ HistoryTypes'
  <2>1. CASE c \in there
    BY <1>1, <1>2, <1>4, <2>1, WrittenTypes
  <2>2. CASE c \notin there
    BY <1>1, <1>2, <2>2, DocKept DEF HistoryTypes
  <2> QED
    BY <2>1, <2>2
<1>6. ClientTypes' /\ LockType' /\ Plans' /\ Asked' /\ Alone' /\ CountTypes'
  BY <1>1, <1>2, FinishedTypes DEF builder
<1> QED
  BY <1>2, <1>5, <1>6, TypesByPartsPrime DEF TypeInv

LEMMA TypeDeleteConfig ==
  ASSUME TypeInv, NEW c \in Configs, DeleteConfig(c)
  PROVE  TypeInv'
<1> DEFINE gone == {e \in Elements : where[e] \in {c} \X Places}
<1>1. /\ there' = there \ {c} /\ floors' = floors \ ({c} \X Levels)
      /\ where' = [e \in Elements |-> IF e \in gone THEN Nowhere ELSE where[e]]
      /\ mapping' = Unmapped(gone)
      /\ json' = [json EXCEPT ![c] = {}] /\ version' = [version EXCEPT ![c] = 0]
      /\ late' = [y \in Clients |-> IF Drafting(y, c) THEN Elements ELSE late[y]]
      /\ UNCHANGED <<used, integrator, builder, at, op, requests, apart>>
  BY DEF DeleteConfig
<1>2. RowTypes /\ MappingTypes /\ HistoryTypes /\ DocTypes /\ used \in Nat
  BY TypeParts
<1>3. CountTypes' /\ ClientTypes' /\ LockType' /\ Plans' /\ Asked' /\ Alone'
  BY <1>1, OthersKept
<1>4. /\ there \subseteq Configs /\ floors \subseteq there \X Levels
      /\ where \in [Elements -> (there \X Places) \union {Nowhere}]
      /\ \A f \in Elements : where[f] # Nowhere /\ where[f][2] \in Levels => where[f] \in floors
      /\ \A f \in Elements : where[f] # Nowhere => f <= used
  BY <1>2 DEF RowTypes
<1>5. \A e \in Elements : where'[e] = IF e \in gone THEN Nowhere ELSE where[e]
  BY <1>1
<1>6. \A e \in Elements : e \notin gone /\ where[e] # Nowhere =>
          where[e] \in (there \ {c}) \X Places
  BY <1>4
<1>7. RowTypes'
  <2>1. floors' \subseteq there' \X Levels
    BY <1>1, <1>4
  <2>2. where' \in [Elements -> (there' \X Places) \union {Nowhere}]
    BY <1>1, <1>5, <1>6
  <2>3. ASSUME NEW f \in Elements, where'[f] # Nowhere, where'[f][2] \in Levels
        PROVE  where'[f] \in floors'
    <3>1. f \notin gone /\ where'[f] = where[f]
      BY <1>5, <2>3
    <3>2. where[f] \in (there \ {c}) \X Places /\ where[f] \in floors
      BY <1>4, <1>6, <2>3, <3>1
    <3> QED
      BY <1>1, <3>1, <3>2
  <2>4. \A f \in Elements : where'[f] # Nowhere => f <= used'
    BY <1>1, <1>4, <1>5
  <2> QED
    BY <1>1, <1>2, <1>4, <2>1, <2>2, <2>3, <2>4 DEF RowTypes
<1>8. MappingTypes'
  <2>1. mapping' \in [Locations -> 0..MaxElements]
        /\ \A w \in Locations : mapping'[w] # 0 => mapping'[w] = mapping[w] /\ mapping[w] \notin gone
    <3> HIDE DEF gone
    <3> QED
      BY <1>1, <1>2, UnmappedIs
  <2>2. ASSUME NEW w \in Locations, mapping'[w] # 0
        PROVE  where'[mapping'[w]] # Nowhere
    <3>1. mapping[w] \in Elements /\ mapping[w] \notin gone /\ mapping'[w] = mapping[w]
      BY <1>2, <2>1, <2>2, BoundsAre DEF MappingTypes, Elements
    <3>2. where[mapping[w]] # Nowhere
      BY <1>2, <2>2, <3>1 DEF MappingTypes
    <3> QED
      BY <1>5, <3>1, <3>2
  <2> QED
    BY <2>1, <2>2 DEF MappingTypes
<1>9. DocTypes' /\ HistoryTypes'
  BY <1>1, <1>2 DEF DocTypes, HistoryTypes
<1> QED
  BY <1>3, <1>7, <1>8, <1>9, TypesByPartsPrime DEF TypeInv
\* A step of the builder: its own step, plan, copy and reading change.
LEMMA BuilderStep ==
  ASSUME TypeInv, NEW b \in Builders,
         NEW step \in {"idle", "loaded", "saving"}, at' = [at EXCEPT ![b] = step],
         NEW o \in Request, op' = [op EXCEPT ![b] = o], step # "idle" => o.config \in Configs,
         NEW k \in Plan, copy' = [copy EXCEPT ![b] = k],
         NEW r, look' = [look EXCEPT ![b] = r],
         UNCHANGED <<draft>>, used' \in 0..MaxElements, used' >= used,
         WellFormed(k, used'), SaneLook(r, used')
  PROVE  ClientTypes' /\ Plans' /\ Asked'
<1>1. ClientTypes /\ RowTypes /\ Plans /\ Asked /\ used \in Nat
  BY TypeParts
<1>2. used' \in Nat /\ used' <= MaxElements
  BY BoundsAre
<1>3. r \in Reading /\ WellFormed(r.plan, used') /\ r.existing \subseteq 1..used'
  BY DEF SaneLook
<1>4. ClientTypes'
  <2>1. step \in Steps
    BY DEF Steps
  <2> QED
    BY <1>1, <1>3, <2>1 DEF ClientTypes
<1>5. Plans'
  <2>1. ASSUME NEW a \in Builders
        PROVE  /\ WellFormed(copy'[a], used') /\ WellFormed(look'[a].plan, used')
               /\ look'[a].existing \subseteq 1..used'
    <3>1. CASE a = b
      <4>1. copy'[a] = k /\ look'[a] = r
        BY <1>1, <3>1 DEF ClientTypes
      <4> QED
        BY <1>3, <4>1
    <3>2. CASE a # b
      <4>1. copy'[a] = copy[a] /\ look'[a] = look[a]
        BY <1>1, <3>2 DEF ClientTypes
      <4>2. /\ WellFormed(copy[a], used) /\ WellFormed(look[a].plan, used)
            /\ look[a].existing \subseteq 1..used
        BY <1>1 DEF Plans
      <4> QED
        BY <1>1, <1>2, <4>1, <4>2, MoreIds
    <3> QED
      BY <3>1, <3>2
  <2> QED
    BY <2>1 DEF Plans
<1>6. Asked'
  <2>1. ASSUME NEW i \in Integrators
        PROVE  AskedIntegrator(i)'
    <3>1. at'[i] = at[i] /\ op'[i] = op[i] /\ draft'[i] = draft[i]
      BY <1>1, SidesDiffer DEF ClientTypes, Clients
    <3>2. AskedWith(at[i], op[i], draft[i], used')
      BY <1>1, <1>2, DraftKept, MoreIds
    <3> QED
      BY <3>1, <3>2 DEF AskedIntegrator
  <2>2. ASSUME NEW a \in Builders
        PROVE  AskedBuilder(a)'
    <3>1. CASE a = b
      <4>1. at'[a] = step /\ op'[a] = o
        BY <1>1, <3>1 DEF ClientTypes, Clients
      <4> QED
        BY <4>1 DEF AskedBuilder
    <3>2. CASE a # b
      <4>1. at'[a] = at[a] /\ op'[a] = op[a]
        BY <1>1, <3>2 DEF ClientTypes, Clients
      <4> QED
        BY <1>1, <4>1 DEF Asked, AskedBuilder
    <3> QED
      BY <3>1, <3>2
  <2> QED
    BY <2>1, <2>2 DEF Asked
<1> QED
  BY <1>4, <1>5, <1>6

LEMMA CopyKept ==
  ASSUME TypeInv, NEW b \in Builders
  PROVE  /\ at = [at EXCEPT ![b] = at[b]] /\ op = [op EXCEPT ![b] = op[b]] /\ op[b] \in Request
         /\ copy = [copy EXCEPT ![b] = copy[b]] /\ copy[b] \in Plan /\ WellFormed(copy[b], used)
         /\ look = [look EXCEPT ![b] = look[b]] /\ SaneLook(look[b], used)
         /\ at[b] \in {"idle", "loaded", "saving"} /\ (at[b] # "idle" => op[b].config \in Configs)
<1>1. ClientTypes /\ Plans /\ Asked
  BY TypeParts
<1>2. at = [at EXCEPT ![b] = at[b]] /\ op = [op EXCEPT ![b] = op[b]] /\ op[b] \in Request
  BY <1>1 DEF ClientTypes, Clients
<1>3. copy = [copy EXCEPT ![b] = copy[b]] /\ copy[b] \in Plan
  BY <1>1 DEF ClientTypes
<1>4. look = [look EXCEPT ![b] = look[b]] /\ look[b] \in Reading
  BY <1>1 DEF ClientTypes
<1> QED
  BY <1>1, <1>2, <1>3, <1>4 DEF Plans, Asked, AskedBuilder, SaneLook

\* Opening a plan, old or new.
LEMMA TypeOpen ==
  ASSUME TypeInv, NEW b \in Builders, NEW c \in Configs, NEW k \in Plan, WellFormed(k, used),
         at[b] = "idle", requests < MaxRequests, requests' = requests + 1,
         copy' = [copy EXCEPT ![b] = k], op' = [op EXCEPT ![b] = [NoOp EXCEPT !.config = c]],
         Goto(b, "loaded"), UNCHANGED <<rows, doc, integrator, look, lock, history>>
  PROVE  TypeInv'
<1> DEFINE o == [NoOp EXCEPT !.config = c]
<1>1. /\ RowTypes /\ HistoryTypes /\ CountTypes /\ ClientTypes /\ LockType /\ Alone
      /\ used \in Nat /\ used \in 0..MaxElements
  BY TypeParts
<1>2. RowTypes' /\ MappingTypes' /\ used' = used /\ DocTypes'
  BY <1>1, RowsKept, DocKept
<1>3. o \in Request /\ o.config = c
  BY NoThings DEF Request, NoOp
<1>4. at' = [at EXCEPT ![b] = "loaded"]
  BY DEF Goto
<1>5. ClientTypes' /\ Plans' /\ Asked'
  <2>1. look' = [look EXCEPT ![b] = look[b]] /\ SaneLook(look[b], used')
    BY <1>2, CopyKept
  <2>2. WellFormed(k, used') /\ used' \in 0..MaxElements /\ used' >= used /\ draft' = draft
    BY <1>1, <1>2 DEF integrator
  <2> HIDE DEF o
  <2> QED
    BY <1>3, <1>4, <2>1, <2>2, BuilderStep DEF o
<1>6. \A a \in Builders : /\ at'[a] = "saving" <=> at[a] = "saving"
                          /\ at[a] = "saving" => op'[a] = op[a]
  BY <1>1, <1>4 DEF ClientTypes, Clients
<1>7. LockType'
  BY <1>1, <1>6 DEF LockType
<1>8. Alone'
  BY <1>1, <1>6 DEF Alone
<1>9. CountTypes'
  <2>1. requests' \in 0..MaxRequests /\ UNCHANGED <<seen, tries>>
    BY <1>1, BoundsAre DEF CountTypes, integrator
  <2> QED
    BY <1>1, <2>1 DEF CountTypes
<1>10. HistoryTypes'
  BY <1>1 DEF HistoryTypes, history
<1> QED
  BY <1>2, <1>5, <1>7, <1>8, <1>9, <1>10, TypesByPartsPrime DEF TypeInv

LEMMA TypeLoadPlan ==
  ASSUME TypeInv, NEW b \in Builders, NEW c \in Configs, LoadPlan(b, c)
  PROVE  TypeInv'
<1>1. PlanTypeOK
  BY DEF TypeInv
<1>2. Database(Now(c)) /\ Now(c).used = used
  BY <1>1, NowIsDatabase
<1>3. View(Now(c), c) \in Plan /\ WellFormed(View(Now(c), c), used)
  BY <1>2, ViewIs
<1> DEFINE k == View(Now(c), c)
<1>4. /\ at[b] = "idle" /\ requests < MaxRequests /\ requests' = requests + 1
      /\ copy' = [copy EXCEPT ![b] = k] /\ op' = [op EXCEPT ![b] = [NoOp EXCEPT !.config = c]]
      /\ Goto(b, "loaded") /\ UNCHANGED <<rows, doc, integrator, look, lock, history>>
  BY DEF LoadPlan
<1> HIDE DEF k
<1> QED
  BY <1>3, <1>4, TypeOpen DEF k

LEMMA TypeNewPlan ==
  ASSUME TypeInv, NEW b \in Builders, NEW c \in Configs, NewPlan(b, c)
  PROVE  TypeInv'
<1> DEFINE k == [NoPlan EXCEPT !.levels = {Ground}]
<1>1. k = [levels |-> {Ground}, on |-> {}, edits |-> 0]
  BY DEF NoPlan
<1>2. k \in Plan /\ WellFormed(k, used)
  BY <1>1, PlacesAre, BoundsAre DEF Plan, WellFormed
<1>3. /\ at[b] = "idle" /\ requests < MaxRequests /\ requests' = requests + 1
      /\ copy' = [copy EXCEPT ![b] = k] /\ op' = [op EXCEPT ![b] = [NoOp EXCEPT !.config = c]]
      /\ Goto(b, "loaded") /\ UNCHANGED <<rows, doc, integrator, look, lock, history>>
  BY DEF NewPlan
<1> HIDE DEF k
<1> QED
  BY <1>2, <1>3, TypeOpen
\* Drawing, taking away and moving keep a copy in order.
LEMMA EditedIs ==
  ASSUME NEW u \in Nat, u <= MaxElements, NEW k \in Plan, WellFormed(k, u), NEW j \in Edited(k)
  PROVE  j \in Plan /\ WellFormed(j, u) /\ j.edits = k.edits
<1>1. k = [levels |-> k.levels, on |-> k.on, edits |-> k.edits] /\ k.levels \subseteq Levels
      /\ k.on \subseteq Pairs /\ k.edits \in 0..MaxEdits
  BY DEF Plan
<1>2. /\ k.on \subseteq Places \X (0..u)
      /\ \A x \in k.on : x[1] \in Levels => x[1] \in k.levels
      /\ \A x \in k.on : x[1] = "merch" => x[2] # Drawn
  BY DEF WellFormed
<1>3. Places \X (0..u) \subseteq Pairs
  <2>1. 0..u \subseteq Elements \union {Drawn}
    BY BoundsAre DEF Elements, Drawn
  <2> QED
    BY <2>1 DEF Pairs
<1>4. ASSUME NEW L \in SUBSET Levels, NEW O,
             j = [levels |-> L, on |-> O, edits |-> k.edits],
             O \subseteq Places \X (0..u), \A x \in O : x[1] \in Levels => x[1] \in L,
             \A x \in O : x[1] = "merch" => x[2] # Drawn
      PROVE  j \in Plan /\ WellFormed(j, u) /\ j.edits = k.edits
  <2>1. O \in SUBSET Pairs
    BY <1>3, <1>4
  <2>2. j \in Plan
    BY <1>1, <1>4, <2>1 DEF Plan
  <2>3. j.levels = L /\ j.on = O /\ j.edits = k.edits
    BY <1>4
  <2> QED
    BY <1>4, <2>2, <2>3 DEF WellFormed
<1>5. \A p \in k.levels \union {"forecourt"} :
         p \in Places /\ p # "merch" /\ (p \in Levels => p \in k.levels)
  BY <1>1, PlacesAre DEF Places
<1>6. ASSUME NEW p \in k.levels \union {"forecourt"}, j = [k EXCEPT !.on = @ \union {<<p, Drawn>>}]
      PROVE  j \in Plan /\ WellFormed(j, u) /\ j.edits = k.edits
  <2> DEFINE O == k.on \union {<<p, Drawn>>}
  <2>1. j = [levels |-> k.levels, on |-> O, edits |-> k.edits]
    BY <1>1, <1>6
  <2>2. p \in Places /\ p # "merch" /\ (p \in Levels => p \in k.levels) /\ Drawn \in 0..u
    BY <1>5 DEF Drawn
  <2>3. O \subseteq Places \X (0..u)
    BY <1>2, <2>2
  <2>4. \A x \in O : x \in k.on \/ x[1] = p
    OBVIOUS
  <2>5. (\A x \in O : x[1] \in Levels => x[1] \in k.levels)
        /\ (\A x \in O : x[1] = "merch" => x[2] # Drawn)
    BY <1>2, <2>2, <2>4
  <2> HIDE DEF O
  <2> QED
    BY <1>1, <1>4, <2>1, <2>3, <2>5
<1>7. ASSUME NEW x \in k.on, j = [k EXCEPT !.on = @ \ {x}]
      PROVE  j \in Plan /\ WellFormed(j, u) /\ j.edits = k.edits
  <2> DEFINE O == k.on \ {x}
  <2>1. j = [levels |-> k.levels, on |-> O, edits |-> k.edits]
    BY <1>1, <1>7
  <2>2. O \subseteq k.on
    OBVIOUS
  <2> HIDE DEF O
  <2> QED
    BY <1>1, <1>2, <1>4, <2>1, <2>2
<1>8. ASSUME NEW x \in k.on, NEW p \in k.levels \union {"forecourt"},
             j = [k EXCEPT !.on = (@ \ {x}) \union {<<p, x[2]>>}]
      PROVE  j \in Plan /\ WellFormed(j, u) /\ j.edits = k.edits
  <2> DEFINE O == (k.on \ {x}) \union {<<p, x[2]>>}
  <2>1. j = [levels |-> k.levels, on |-> O, edits |-> k.edits]
    BY <1>1, <1>8
  <2>2. p \in Places /\ p # "merch" /\ (p \in Levels => p \in k.levels) /\ x[2] \in 0..u
    BY <1>2, <1>5
  <2>3. O \subseteq Places \X (0..u)
    BY <1>2, <2>2
  <2>4. \A y \in O : y \in k.on \/ y[1] = p
    OBVIOUS
  <2>5. (\A y \in O : y[1] \in Levels => y[1] \in k.levels)
        /\ (\A y \in O : y[1] = "merch" => y[2] # Drawn)
    BY <1>2, <2>2, <2>4
  <2> HIDE DEF O
  <2> QED
    BY <1>1, <1>4, <2>1, <2>3, <2>5
<1>9. ASSUME NEW l \in Levels, j = [k EXCEPT !.levels = @ \union {l}]
      PROVE  j \in Plan /\ WellFormed(j, u) /\ j.edits = k.edits
  <2> DEFINE L == k.levels \union {l}
  <2>1. j = [levels |-> L, on |-> k.on, edits |-> k.edits]
    BY <1>1, <1>9
  <2>2. L \in SUBSET Levels /\ k.levels \subseteq L
    BY <1>1
  <2> HIDE DEF L
  <2> QED
    BY <1>2, <1>4, <2>1, <2>2
<1>10. ASSUME NEW l \in k.levels,
              j = [k EXCEPT !.levels = @ \ {l}, !.on = {x \in @ : x[1] # l}]
      PROVE  j \in Plan /\ WellFormed(j, u) /\ j.edits = k.edits
  <2> DEFINE L == k.levels \ {l}
             O == {x \in k.on : x[1] # l}
  <2>1. j = [levels |-> L, on |-> O, edits |-> k.edits]
    <3> HIDE DEF L, O
    <3>1. j = [k EXCEPT !.levels = L, !.on = O]
      BY <1>10 DEF L, O
    <3> QED
      BY <3>1, PlanUpdate
  <2>2. L \in SUBSET Levels
    BY <1>1
  <2>3. O \subseteq k.on /\ \A x \in O : x[1] # l
    OBVIOUS
  <2>4. \A x \in O : x[1] \in Levels => x[1] \in L
    BY <1>2, <2>3
  <2> HIDE DEF L, O
  <2> QED
    BY <1>2, <1>4, <2>1, <2>2, <2>3, <2>4
<1>11. CASE j \in Drawings(k)
  BY <1>6, <1>11 DEF Drawings
<1>12. CASE j \in Removals(k)
  BY <1>7, <1>12 DEF Removals
<1>13. CASE j \in Moves(k)
  BY <1>8, <1>13 DEF Moves
<1>14. CASE j \in NewFloors(k)
  BY <1>9, <1>14 DEF NewFloors
<1>15. CASE j \in FloorsGone(k)
  BY <1>10, <1>15 DEF FloorsGone
<1> QED
  BY <1>11, <1>12, <1>13, <1>14, <1>15 DEF Edited

LEMMA TypeEdit ==
  ASSUME TypeInv, NEW b \in Builders, Edit(b)
  PROVE  TypeInv'
<1>1. PICK k \in Edited(copy[b]) : copy' = [copy EXCEPT ![b] = [k EXCEPT !.edits = @ + 1]]
  BY DEF Edit
<1>2. /\ at[b] = "loaded" /\ copy[b].edits < MaxEdits
      /\ UNCHANGED <<rows, doc, integrator, look, lock, at, op, requests, history>>
  BY DEF Edit
<1>3. /\ HistoryTypes /\ CountTypes /\ ClientTypes /\ LockType /\ Alone
      /\ used \in 0..MaxElements /\ used \in Nat /\ used <= MaxElements
  BY TypeParts, BoundsAre
<1>4. RowTypes' /\ MappingTypes' /\ used' = used /\ DocTypes'
  BY <1>2, <1>3, RowsKept, DocKept
<1>5. /\ copy[b] \in Plan /\ WellFormed(copy[b], used) /\ op[b] \in Request
      /\ op' = [op EXCEPT ![b] = op[b]] /\ at' = [at EXCEPT ![b] = at[b]]
      /\ look' = [look EXCEPT ![b] = look[b]] /\ SaneLook(look[b], used)
      /\ op[b].config \in Configs
  BY <1>2, CopyKept
<1>6. k \in Plan /\ WellFormed(k, used) /\ k.edits = copy[b].edits
  BY <1>1, <1>3, <1>5, EditedIs
<1> DEFINE j == [k EXCEPT !.edits = @ + 1]
<1>7. j = [levels |-> k.levels, on |-> k.on, edits |-> k.edits + 1]
  BY <1>6 DEF Plan
<1>8. j \in Plan /\ WellFormed(j, used)
  <2>1. k.edits + 1 \in 0..MaxEdits
    BY <1>2, <1>6, BoundsAre DEF Plan
  <2> QED
    BY <1>6, <1>7, <2>1 DEF Plan, WellFormed
<1> HIDE DEF j
<1>9. ClientTypes' /\ Plans' /\ Asked'
  <2>1. used' \in 0..MaxElements /\ used' >= used /\ draft' = draft
    BY <1>2, <1>3, <1>4 DEF integrator
  <2>2. WellFormed(j, used') /\ SaneLook(look[b], used')
    BY <1>4, <1>5, <1>8
  <2>3. copy' = [copy EXCEPT ![b] = j] /\ at[b] \in {"idle", "loaded", "saving"}
    BY <1>1, <1>2 DEF j
  <2> QED
    BY <1>5, <1>8, <2>1, <2>2, <2>3, BuilderStep
<1>10. LockType' /\ Alone'
  BY <1>2, <1>3 DEF LockType, Alone
<1>11. CountTypes' /\ HistoryTypes'
  BY <1>2, <1>3 DEF CountTypes, HistoryTypes, integrator, history
<1> QED
  BY <1>4, <1>9, <1>10, <1>11, TypesByPartsPrime DEF TypeInv

LEMMA LockIs ==
  ASSUME TypeInv, NEW c \in Configs
  PROVE  lock[c] = {b \in Builders : at[b] = "saving" /\ op[b].config = c}
  BY TypeParts DEF LockType

LEMMA TypeSaveBegin ==
  ASSUME TypeInv, NEW b \in Builders, SaveBegin(b)
  PROVE  TypeInv'
<1> DEFINE c == op[b].config
           r == Look(Now(c), c, copy[b])
<1>1. /\ at[b] = "loaded" /\ lock[c] = {} /\ lock' = [lock EXCEPT ![c] = {b}]
      /\ look' = [look EXCEPT ![b] = r] /\ late' = [late EXCEPT ![b] = {}]
      /\ at' = [at EXCEPT ![b] = "saving"]
      /\ UNCHANGED <<rows, doc, integrator, copy, op, requests, apart>>
  BY DEF SaveBegin, Goto
<1>2. /\ HistoryTypes /\ CountTypes /\ ClientTypes /\ LockType /\ Alone
      /\ used \in 0..MaxElements /\ used \in Nat /\ PlanTypeOK
  BY TypeParts DEF TypeInv
<1>3. RowTypes' /\ MappingTypes' /\ used' = used /\ DocTypes'
  BY <1>1, <1>2, RowsKept, DocKept
<1>4. /\ copy[b] \in Plan /\ WellFormed(copy[b], used) /\ op[b] \in Request
      /\ op' = [op EXCEPT ![b] = op[b]] /\ copy' = [copy EXCEPT ![b] = copy[b]]
      /\ c \in Configs
  BY <1>1, CopyKept
<1>5. SaneLook(r, used)
  <2>1. Database(Now(c)) /\ Now(c).used = used
    BY <1>2, <1>4, NowIsDatabase
  <2> QED
    BY <1>4, <2>1, LookIs DEF SaneLook
<1> HIDE DEF r
<1>6. ClientTypes' /\ Plans' /\ Asked'
  <2>1. used' \in 0..MaxElements /\ used' >= used /\ draft' = draft
    BY <1>1, <1>2, <1>3 DEF integrator
  <2>2. WellFormed(copy[b], used') /\ SaneLook(r, used')
    BY <1>3, <1>4, <1>5
  <2> QED
    BY <1>1, <1>4, <2>1, <2>2, BuilderStep
<1>7. \A a \in Builders : /\ op'[a] = op[a] /\ at'[a] = IF a = b THEN "saving" ELSE at[a]
  BY <1>1, <1>2 DEF ClientTypes, Clients
<1>8. \A a \in Builders : at[a] = "saving" => op[a].config # c
  BY <1>1, <1>4, LockIs
<1>9. LockType'
  <2>1. lock' = [d \in Configs |-> IF d = c THEN {b} ELSE lock[d]]
    BY <1>1, <1>2 DEF LockType
  <2>2. ASSUME NEW d \in Configs
        PROVE  lock'[d] = {a \in Builders : at'[a] = "saving" /\ op'[a].config = d}
    <3>1. CASE d = c
      <4>1. \A a \in Builders : at'[a] = "saving" /\ op'[a].config = c <=> a = b
        BY <1>7, <1>8
      <4> QED
        BY <2>1, <3>1, <4>1
    <3>2. CASE d # c
      <4>1. \A a \in Builders : at'[a] = "saving" /\ op'[a].config = d
                                <=> at[a] = "saving" /\ op[a].config = d
        BY <1>1, <1>7, <3>2
      <4>2. lock'[d] = {a \in Builders : at[a] = "saving" /\ op[a].config = d}
        BY <2>1, <3>2, LockIs
      <4> QED
        BY <4>1, <4>2
    <3> QED
      BY <3>1, <3>2
  <2> QED
    BY <2>1, <2>2 DEF LockType
<1>10. Alone'
  BY <1>2, <1>7, <1>8 DEF Alone
<1>11. CountTypes' /\ HistoryTypes'
  BY <1>1, <1>2 DEF CountTypes, HistoryTypes, integrator
<1> QED
  BY <1>3, <1>6, <1>9, <1>10, <1>11, TypesByPartsPrime DEF TypeInv
\* The end of a save, kept or undone.
LEMMA SaveEndsTypes ==
  ASSUME TypeInv, NEW b \in Builders, at[b] = "saving", SaveEnds(b),
         UNCHANGED <<draft>>, used' \in 0..MaxElements, used' >= used
  PROVE  ClientTypes' /\ Plans' /\ Asked' /\ LockType' /\ Alone'
<1> DEFINE c == op[b].config
<1>1. /\ lock' = [lock EXCEPT ![c] = {}] /\ copy' = [copy EXCEPT ![b] = NoPlan]
      /\ look' = [look EXCEPT ![b] = NoLook] /\ op' = [op EXCEPT ![b] = NoOp]
      /\ at' = [at EXCEPT ![b] = "idle"]
  BY DEF SaveEnds, Goto
<1>2. ClientTypes /\ LockType /\ Alone
  BY TypeParts
<1>3. used' \in Nat
  BY BoundsAre
<1>4. c \in Configs
  BY CopyKept
<1>5. ClientTypes' /\ Plans' /\ Asked'
  <2>1. WellFormed(NoPlan, used') /\ SaneLook(NoLook, used')
    <3>1. NoLook.plan = NoPlan /\ NoLook.existing = {}
      BY DEF NoLook
    <3> QED
      BY <1>3, <3>1, NoThings DEF SaneLook
  <2>2. NoOp \in Request /\ NoPlan \in Plan
    BY NoThings
  <2> QED
    BY <1>1, <2>1, <2>2, BuilderStep
<1>6. \A a \in Builders : /\ a # b => op'[a] = op[a] /\ at'[a] = at[a]
                          /\ a = b => at'[a] = "idle"
  BY <1>1, <1>2 DEF ClientTypes, Clients
<1>7. LockType'
  <2>1. lock' = [d \in Configs |-> IF d = c THEN {} ELSE lock[d]]
    BY <1>1, <1>2 DEF LockType
  <2>2. ASSUME NEW d \in Configs
        PROVE  lock'[d] = {a \in Builders : at'[a] = "saving" /\ op'[a].config = d}
    <3>1. CASE d = c
      <4>1. \A a \in Builders : ~ (at'[a] = "saving" /\ op'[a].config = c)
        BY <1>2, <1>6 DEF Alone
      <4> QED
        BY <2>1, <3>1, <4>1
    <3>2. CASE d # c
      <4>1. \A a \in Builders : at'[a] = "saving" /\ op'[a].config = d
                                <=> at[a] = "saving" /\ op[a].config = d
        BY <1>6, <3>2
      <4>2. lock'[d] = {a \in Builders : at[a] = "saving" /\ op[a].config = d}
        BY <2>1, <3>2, LockIs
      <4> QED
        BY <4>1, <4>2
    <3> QED
      BY <3>1, <3>2
  <2> QED
    BY <2>1, <2>2 DEF LockType
<1>8. Alone'
  BY <1>2, <1>6 DEF Alone
<1> QED
  BY <1>5, <1>7, <1>8

LEMMA TypeSaveFails ==
  ASSUME TypeInv, NEW b \in Builders, SaveFails(b)
  PROVE  TypeInv'
<1>1. at[b] = "saving" /\ SaveEnds(b) /\ UNCHANGED <<rows, doc, integrator, requests, history>>
  BY DEF SaveFails
<1>2. HistoryTypes /\ CountTypes /\ used \in 0..MaxElements /\ used \in Nat
  BY TypeParts
<1>3. RowTypes' /\ MappingTypes' /\ used' = used /\ DocTypes'
  BY <1>1, <1>2, RowsKept, DocKept
<1>4. ClientTypes' /\ Plans' /\ Asked' /\ LockType' /\ Alone'
  <2>1. UNCHANGED <<draft>> /\ used' \in 0..MaxElements /\ used' >= used
    BY <1>1, <1>2, <1>3 DEF integrator
  <2> QED
    BY <1>1, <2>1, SaveEndsTypes
<1>5. CountTypes' /\ HistoryTypes'
  BY <1>1, <1>2 DEF CountTypes, HistoryTypes, integrator, history
<1> QED
  BY <1>3, <1>4, <1>5, TypesByPartsPrime DEF TypeInv

\* The rows of a save in progress and what it leaves.
LEMMA CommitIs ==
  ASSUME TypeInv, NEW b \in Builders, SaveCommit(b)
  PROVE  LET c == op[b].config
             lk == look[b]
             placed == Placed(Now(c), lk)
             s == Saved(Now(c), c, lk)
         IN  /\ c \in Configs /\ SaneLook(lk, used)
             /\ placed \subseteq Reconcilable \X (1..used')
             /\ \A x \in placed : x[1] \in Levels => x[1] \in lk.plan.levels
             /\ \A x \in Reconciled(lk) \ Created(lk) : x \in placed /\ where[x[2]] # Nowhere
             /\ \A x \in placed : x \in Reconciled(lk) \ Created(lk) \/ x[2] > used
             /\ Ids(placed) \subseteq 1..used'
             /\ \A e \in Elements : where'[e] =
                    IF e \in Ids(placed) THEN <<c, PlaceOf(e, placed)>>
                    ELSE IF e \in Pruned(Now(c), c, lk, placed) THEN Nowhere
                    ELSE where[e]
             /\ json' = [json EXCEPT ![c] = s.json] /\ s.json = Stored(lk, placed)
             /\ s.json \subseteq Places \X (1..used')
             /\ floors' = (floors \ ({c} \X Cut(lk))) \union ({c} \X lk.plan.levels)
             /\ mapping' = Unmapped({e \in Elements : where'[e] = Nowhere})
             /\ used' \in 0..MaxElements /\ used' >= used /\ used' \in Nat
             /\ where' \in [Elements -> (Configs \X Places) \union {Nowhere}]
             /\ \A e \in Elements : where'[e] # Nowhere => e <= used'
             /\ there' = there \union {c}
<1> DEFINE c == op[b].config
           lk == look[b]
           placed == Placed(Now(c), lk)
           s == Saved(Now(c), c, lk)
<1>1. /\ at[b] = "saving"
      /\ \A x \in Reconciled(lk) \ Created(lk) : where[x[2]] # Nowhere
      /\ used + Cardinality(Created(lk)) <= MaxElements
      /\ there' = there \union {c} /\ floors' = s.floors /\ where' = s.where /\ used' = s.used
      /\ json' = [json EXCEPT ![c] = s.json]
      /\ mapping' = Unmapped({e \in Elements : s.where[e] = Nowhere})
  BY DEF SaveCommit
<1>2. c \in Configs /\ SaneLook(lk, used) /\ used \in Nat /\ PlanTypeOK
  BY <1>1, CopyKept, TypeParts DEF TypeInv
<1>3. Database(Now(c)) /\ Now(c).where = where /\ Now(c).floors = floors /\ Now(c).used = used
  BY <1>2, NowIsDatabase
<1> DEFINE n == Now(c)
<1>4. n.used \in Nat /\ SaneLook(lk, n.used) /\ n.used + Cardinality(Created(lk)) <= MaxElements
  BY <1>1, <1>2, <1>3
<1>5. /\ s.used = n.used + Cardinality(Created(lk))
      /\ s.used >= n.used /\ s.json = Stored(lk, placed)
      /\ s.floors = (n.floors \ ({c} \X Cut(lk))) \union ({c} \X lk.plan.levels)
      /\ \A e \in Elements : s.where[e] =
                    IF e \in Ids(placed) THEN <<c, PlaceOf(e, placed)>>
                    ELSE IF e \in Pruned(n, c, lk, placed) THEN Nowhere
                    ELSE n.where[e]
      /\ Database(s) /\ Ids(placed) \subseteq 1..s.used
  <2> HIDE DEF n, lk
  <2>1. Database(n)
    BY <1>3 DEF n
  <2> QED
    BY <1>2, <1>4, <2>1, SavedIs DEF n
<1>6. /\ placed \subseteq Reconcilable \X (1 .. n.used + Cardinality(Created(lk)))
      /\ \A x \in placed : x[1] \in Levels => x[1] \in lk.plan.levels
      /\ \A x \in Reconciled(lk) \ Created(lk) : x \in placed
      /\ \A x \in placed : x \in Reconciled(lk) \ Created(lk) \/ x[2] > n.used
  <2> HIDE DEF n, lk
  <2> QED
    BY <1>4, PlacedIs DEF n
<1> HIDE DEF placed, s, lk
<1>7. s.used \in 0..MaxElements /\ s.json \subseteq Places \X (1..s.used)
      /\ s.where \in [Elements -> (Configs \X Places) \union {Nowhere}]
      /\ \A e \in Elements : s.where[e] # Nowhere => e <= s.used
  BY <1>5 DEF Database
<1>8. s.used \in Nat
  BY <1>7, BoundsAre
<1> HIDE DEF n
<1>9. n.where = where /\ n.floors = floors /\ n.used = used
  BY <1>3 DEF n
<1>10. placed \subseteq Reconcilable \X (1..used')
  BY <1>1, <1>5, <1>6
<1>11. \A x \in Reconciled(lk) \ Created(lk) : x \in placed /\ where[x[2]] # Nowhere
  BY <1>1, <1>6
<1>12. \A x \in placed : x \in Reconciled(lk) \ Created(lk) \/ x[2] > used
  BY <1>6, <1>9
<1>13. \A e \in Elements : where'[e] = IF e \in Ids(placed) THEN <<c, PlaceOf(e, placed)>>
                                       ELSE IF e \in Pruned(n, c, lk, placed) THEN Nowhere
                                       ELSE where[e]
  BY <1>1, <1>5, <1>9
<1>14. floors' = (floors \ ({c} \X Cut(lk))) \union ({c} \X lk.plan.levels)
       /\ mapping' = Unmapped({e \in Elements : where'[e] = Nowhere})
  BY <1>1, <1>5, <1>9
<1>15. used' \in 0..MaxElements /\ used' >= used /\ used' \in Nat
  BY <1>1, <1>5, <1>7, <1>8, <1>9
<1>16. Ids(placed) \subseteq 1..used' /\ s.json \subseteq Places \X (1..used')
       /\ where' \in [Elements -> (Configs \X Places) \union {Nowhere}]
       /\ \A e \in Elements : where'[e] # Nowhere => e <= used'
  BY <1>1, <1>5, <1>7
<1>17. json' = [json EXCEPT ![c] = s.json] /\ s.json = Stored(lk, placed) /\ there' = there \union {c}
  BY <1>1, <1>5
<1> QED
  BY <1>2, <1>6, <1>10, <1>11, <1>12, <1>13, <1>14, <1>15, <1>16, <1>17 DEF n, placed, s, lk
LEMMA TypeSaveCommit ==
  ASSUME TypeInv, NEW b \in Builders, SaveCommit(b)
  PROVE  TypeInv'
<1> DEFINE c == op[b].config
           lk == look[b]
           placed == Placed(Now(c), lk)
           s == Saved(Now(c), c, lk)
           pruned == Pruned(Now(c), c, lk, placed)
<1>1. /\ at[b] = "saving" /\ SaveEnds(b)
      /\ late' = [y \in Clients |-> IF Drafting(y, c)
                                    THEN late[y] \union Differing(json[c], s.json)
                                    ELSE late[y]]
      /\ apart' = SetApart(s, c, placed)
      /\ UNCHANGED <<version, integrator, requests>>
  BY DEF SaveCommit
<1>2. /\ c \in Configs /\ SaneLook(lk, used)
      /\ placed \subseteq Reconcilable \X (1..used')
      /\ \A x \in placed : x[1] \in Levels => x[1] \in lk.plan.levels
      /\ Ids(placed) \subseteq 1..used'
      /\ \A e \in Elements : where'[e] = IF e \in Ids(placed) THEN <<c, PlaceOf(e, placed)>>
                                         ELSE IF e \in pruned THEN Nowhere
                                         ELSE where[e]
      /\ json' = [json EXCEPT ![c] = s.json]
      /\ s.json \subseteq Places \X (1..used')
      /\ floors' = (floors \ ({c} \X Cut(lk))) \union ({c} \X lk.plan.levels)
      /\ mapping' = Unmapped({e \in Elements : where'[e] = Nowhere})
      /\ used' \in 0..MaxElements /\ used' >= used /\ used' \in Nat
      /\ where' \in [Elements -> (Configs \X Places) \union {Nowhere}]
      /\ \A e \in Elements : where'[e] # Nowhere => e <= used'
      /\ there' = there \union {c}
  BY CommitIs
<1>3. /\ RowTypes /\ MappingTypes /\ DocTypes /\ HistoryTypes /\ CountTypes
      /\ used \in 0..MaxElements /\ used \in Nat
  BY TypeParts
<1>4. \A e \in pruned : e \in Elements
  BY DEF Pruned
<1>5. \A e \in Elements : where[e] \in {c} \X Cut(lk) => e \in pruned
  BY <1>2, NowIsDatabase DEF Pruned, Now
<1> HIDE DEF placed, s, pruned, lk
<1>6. lk.plan.levels \subseteq Levels
  BY <1>2 DEF SaneLook, Reading, Plan
<1>7. /\ there \subseteq Configs /\ floors \subseteq there \X Levels
      /\ where \in [Elements -> (there \X Places) \union {Nowhere}]
      /\ \A f \in Elements : where[f] # Nowhere /\ where[f][2] \in Levels => where[f] \in floors
  BY <1>3 DEF RowTypes
<1>8. \A e \in Ids(placed) : PlaceOf(e, placed) \in Reconcilable /\ <<PlaceOf(e, placed), e>> \in placed
  BY <1>2, PlaceOfIs
<1>9. RowTypes'
  <2>1. floors' \subseteq there' \X Levels
    BY <1>2, <1>6, <1>7
  <2>2. ASSUME NEW e \in Elements
        PROVE  where'[e] \in (there' \X Places) \union {Nowhere}
    <3>1. CASE e \in Ids(placed)
      <4>1. PlaceOf(e, placed) \in Places
        BY <1>8, <3>1, PlacesAre DEF Reconcilable, Places
      <4> QED
        BY <1>2, <3>1, <4>1
    <3>2. CASE e \notin Ids(placed)
      BY <1>2, <1>7, <3>2
    <3> QED
      BY <3>1, <3>2
  <2>3. where' \in [Elements -> (there' \X Places) \union {Nowhere}]
    BY <1>2, <2>2
  <2>4. ASSUME NEW e \in Elements, where'[e] # Nowhere, where'[e][2] \in Levels
        PROVE  where'[e] \in floors'
    <3>1. CASE e \in Ids(placed)
      <4> DEFINE p == PlaceOf(e, placed)
      <4>1. where'[e] = <<c, p>> /\ p \in Levels
        BY <1>2, <2>4, <3>1
      <4>2. <<p, e>> \in placed
        BY <1>8, <3>1
      <4> HIDE DEF p
      <4>3. p \in lk.plan.levels
        <5>1. <<p, e>>[1] = p
          OBVIOUS
        <5> QED
          BY <1>2, <4>1, <4>2, <5>1
      <4> QED
        BY <1>2, <4>1, <4>3
    <3>2. CASE e \notin Ids(placed)
      <4>1. e \notin pruned /\ where'[e] = where[e]
        BY <1>2, <2>4, <3>2
      <4>2. where[e] \in floors
        BY <1>7, <2>4, <4>1
      <4>3. where[e] \notin {c} \X Cut(lk)
        BY <1>5, <4>1
      <4> QED
        BY <1>2, <4>1, <4>2, <4>3
    <3> QED
      BY <3>1, <3>2
  <2>5. there' \subseteq Configs
    BY <1>2, <1>7
  <2> QED
    BY <1>2, <2>1, <2>3, <2>4, <2>5 DEF RowTypes
<1>10. MappingTypes'
  <2> DEFINE gone == {e \in Elements : where'[e] = Nowhere}
  <2>1. mapping' \in [Locations -> 0..MaxElements]
        /\ \A w \in Locations : mapping'[w] # 0 => mapping'[w] = mapping[w] /\ mapping[w] \notin gone
    <3> HIDE DEF gone
    <3>1. mapping' = Unmapped(gone)
      BY <1>2 DEF gone
    <3> QED
      BY <1>3, <3>1, UnmappedIs
  <2>2. ASSUME NEW w \in Locations, mapping'[w] # 0
        PROVE  where'[mapping'[w]] # Nowhere
    <3>1. mapping[w] \in Elements /\ mapping[w] \notin gone /\ mapping'[w] = mapping[w]
      BY <1>3, <2>1, <2>2, BoundsAre DEF MappingTypes, Elements
    <3> QED
      BY <3>1
  <2> QED
    BY <2>1, <2>2 DEF MappingTypes
<1>11. DocTypes'
  <2>1. Places \X (1..used) \subseteq Places \X (1..used')
    BY <1>2, <1>3, MoreIds
  <2> QED
    BY <1>1, <1>2, <1>3, <2>1 DEF DocTypes
<1>12. HistoryTypes'
  <2>1. 1..used' \subseteq Elements /\ 1..used \subseteq Elements
    BY <1>2, <1>3, BoundsAre DEF Elements
  <2>2. json[c] \subseteq Places \X Elements /\ s.json \subseteq Places \X Elements
    BY <1>2, <1>3, <2>1 DEF DocTypes
  <2>3. Differing(json[c], s.json) \subseteq Elements
    BY <2>2 DEF Differing, Ids
  <2>4. late' \in [Clients -> SUBSET Elements]
    BY <1>1, <1>3, <2>3 DEF HistoryTypes
  <2>5. SetApart(s, c, placed) \subseteq Elements
    <3>1. Split(placed) \subseteq Elements
      BY <1>2, <2>1 DEF Split
    <3>2. Ids({x \in json[c] \ s.json : x[1] \in Zones}) \subseteq Elements
      BY <2>2 DEF Ids
    <3> QED
      BY <1>3, <3>1, <3>2 DEF SetApart, HistoryTypes
  <2> QED
    BY <1>1, <2>4, <2>5 DEF HistoryTypes
<1>13. CountTypes'
  BY <1>1, <1>3 DEF CountTypes, integrator
<1>14. ClientTypes' /\ Plans' /\ Asked' /\ LockType' /\ Alone'
  BY <1>1, <1>2, SaveEndsTypes DEF integrator
<1> QED
  BY <1>9, <1>10, <1>11, <1>12, <1>13, <1>14, TypesByPartsPrime DEF TypeInv

-----------------------------------------------------------------------------
LEMMA TypeInvInit == PlanInit => TypeInv
<1> SUFFICES ASSUME PlanInit
             PROVE  TypeInv
  OBVIOUS
<1>1. 0 \in 0..MaxElements /\ 0 \in 0..MaxRetries /\ 0 \in 0..MaxRequests /\ 0 \in Nat
  BY BoundsAre
<1>2. RowTypes /\ MappingTypes /\ DocTypes /\ LockType
  BY <1>1 DEF PlanInit, RowTypes, MappingTypes, DocTypes, LockType, Clients
<1>3. CountTypes /\ HistoryTypes
  BY <1>1 DEF PlanInit, CountTypes, HistoryTypes
<1>4. ClientTypes
  BY NoThings DEF PlanInit, ClientTypes, Steps
<1>5. Plans
  BY <1>1, NoThings DEF PlanInit, Plans, NoLook
<1>6. Asked
  BY <1>1, NoThings DEF PlanInit, Asked, AskedBuilder, AskedIntegrator, Clients
<1>7. Alone
  BY DEF PlanInit, Alone, Clients
<1> QED
  BY <1>2, <1>3, <1>4, <1>5, <1>6, <1>7, TypesByParts DEF TypeInv

LEMMA TypeInvStutter == ASSUME TypeInv, UNCHANGED planVars PROVE TypeInv'
<1>1. UNCHANGED <<rows, doc, integrator, builder, at, op, requests, history>>
  BY DEF planVars
<1>2. HistoryTypes /\ used \in Nat
  BY TypeParts
<1>3. RowTypes' /\ MappingTypes' /\ used' = used /\ DocTypes'
  BY <1>1, <1>2, RowsKept, DocKept
<1>4. HistoryTypes'
  BY <1>1, <1>2 DEF HistoryTypes, history
<1> QED
  BY <1>1, <1>3, <1>4, OthersKept, TypesByPartsPrime DEF TypeInv

LEMMA TypeMoves ==
  ASSUME TypeInv, NEW i \in Integrators, NEW c \in Configs, NEW e \in Elements
  PROVE  /\ \A l \in Levels : AssignElementsToFloorLevel(i, c, l, e) => TypeInv'
         /\ AssignElementsToForecourt(i, c, e) => TypeInv'
         /\ AssignElementsToExternalMerch(i, c, e) => TypeInv'
<1>1. ASSUME NEW l \in Levels, AssignElementsToFloorLevel(i, c, l, e)
      PROVE  TypeInv'
  <2>1. l \in Places
    BY DEF Places
  <2> QED
    BY <1>1, <2>1, TypeAssign DEF AssignElementsToFloorLevel
<1>2. ASSUME AssignElementsToForecourt(i, c, e)
      PROVE  TypeInv'
  BY <1>2, PlacesAre, TypeAssign DEF AssignElementsToForecourt
<1>3. ASSUME AssignElementsToExternalMerch(i, c, e)
      PROVE  TypeInv'
  BY <1>3, PlacesAre, TypeAssign DEF AssignElementsToExternalMerch
<1> QED
  BY <1>1, <1>2, <1>3

LEMMA TypeInvStep == TypeInv /\ [PlanNext]_planVars => TypeInv'
<1> SUFFICES ASSUME TypeInv, [PlanNext]_planVars
             PROVE  TypeInv'
  OBVIOUS
<1>1. ASSUME NEW b \in Builders, Build(b)
      PROVE  TypeInv'
  BY <1>1, TypeLoadPlan, TypeNewPlan, TypeEdit, TypeSaveBegin, TypeSaveCommit, TypeSaveFails DEF Build
<1>2. ASSUME NEW i \in Integrators, Integrate(i)
      PROVE  TypeInv'
  BY <1>2, TypeQuickCreate, TypeMoves, TypeMakeFloor, TypeMakeElement, TypeMoveElement,
     TypeBreakOff, TypeReadData, TypeWriteData, TypeRetry, TypeUnmap,
     TypeDeleteMapping, TypeCountMappings, TypeRemoveElement, TypeReadToRemove, TypeWriteRemoved
     DEF Integrate
<1>3. ASSUME NEW w \in Locations, NEW e \in Elements, MapLocation(w, e) \/ MapUnchecked(w, e)
      PROVE  TypeInv'
  BY <1>3, TypeSetMapping DEF MapLocation, MapUnchecked
<1> QED
  BY <1>1, <1>2, <1>3, TypeDeleteConfig, TypeInvStutter DEF PlanNext

LEMMA TypeInvAlways == PlanSpec => []TypeInv
  BY TypeInvInit, TypeInvStep, PTL DEF PlanSpec

\* The rows, documents, mappings, copies and requests stay well typed; a floor
\* row is there for every element on a level; the row lock is held by the one
\* builder that is saving.
THEOREM PlanTypeCorrect == PlanSpec => []PlanTypeOK
<1>1. TypeInv => PlanTypeOK
  BY DEF TypeInv
<1> QED
  BY <1>1, TypeInvAlways, PTL

-----------------------------------------------------------------------------
(* Mappings. *)

\* What a save in progress is about to delete has no mapping it could have seen.
SparedBy(b) ==
    at[b] = "saving" =>
        \A e \in Elements : Mapped(e) /\ e \notin late[b] =>
            /\ e \in look[b].existing => e \in look[b].protected
            /\ \A l \in Levels : where[e] = <<op[b].config, l>> => l \in look[b].holding

\* Nor has what a removal is about to delete.
KnownUnmapped(i) ==
    at[i] = "remove" /\ Mapped(op[i].element) => op[i].element \in late[i]

Spared == (\A b \in Builders : SparedBy(b)) /\ (\A i \in Integrators : KnownUnmapped(i))

\* The clients of X take a step of their own; what the others know stays true
\* when no mapping appears, and no mapped element moves, behind their backs.
LEMMA SparedKept ==
  ASSUME TypeInv, Spared, NEW X \in SUBSET Clients,
         \A y \in Clients \ X : at'[y] = at[y] /\ op'[y] = op[y] /\ late[y] \subseteq late'[y],
         \A b \in Builders \ X : look'[b] = look[b],
         \A y \in Clients \ X, w \in Locations : at[y] \in {"saving", "remove"} /\ mapping'[w] # 0 =>
             mapping'[w] = mapping[w] \/ mapping'[w] \in late'[y],
         \A b \in Builders \ X, e \in Elements, l \in Levels :
             at[b] = "saving" /\ (\E w \in Locations : mapping'[w] = e)
                 /\ where'[e] = <<op[b].config, l>> =>
             where[e] = where'[e] \/ e \in late'[b],
         \A b \in Builders \intersect X : SparedBy(b)',
         \A i \in Integrators \intersect X : KnownUnmapped(i)'
  PROVE  Spared'
<1>1. 0 \notin Elements
  BY DEF Elements
<1>2. ASSUME NEW b \in Builders
      PROVE  SparedBy(b)'
  <2>1. CASE b \in X
    BY <2>1
  <2>2. CASE b \notin X
    <3>1. /\ at'[b] = at[b] /\ op'[b] = op[b] /\ late[b] \subseteq late'[b] /\ look'[b] = look[b]
          /\ b \in Clients \ X
      BY <2>2 DEF Clients
    <3>2. SUFFICES ASSUME at[b] = "saving", NEW e \in Elements, NEW w \in Locations,
                          mapping'[w] = e, e \notin late'[b]
                   PROVE  /\ e \in look[b].existing => e \in look[b].protected
                          /\ \A l \in Levels : where'[e] = <<op[b].config, l>> =>
                                 l \in look[b].holding
      BY <3>1 DEF SparedBy, Mapped
    <3>3. mapping[w] = e
      BY <1>1, <3>1, <3>2
    <3>4. /\ e \in look[b].existing => e \in look[b].protected
          /\ \A l \in Levels : where[e] = <<op[b].config, l>> => l \in look[b].holding
      BY <3>1, <3>2, <3>3 DEF Spared, SparedBy, Mapped
    <3>5. \A l \in Levels : where'[e] = <<op[b].config, l>> => where[e] = <<op[b].config, l>>
      BY <2>2, <3>2
    <3> QED
      BY <3>4, <3>5
  <2> QED
    BY <2>1, <2>2
<1>3. ASSUME NEW i \in Integrators
      PROVE  KnownUnmapped(i)'
  <2>1. CASE i \in X
    BY <2>1
  <2>2. CASE i \notin X
    <3>1. /\ at'[i] = at[i] /\ op'[i] = op[i] /\ late[i] \subseteq late'[i] /\ i \in Clients \ X
      BY <2>2 DEF Clients
    <3>2. SUFFICES ASSUME at[i] = "remove", NEW w \in Locations,
                          mapping'[w] = op[i].element, op[i].element \notin late'[i]
                   PROVE  FALSE
      BY <3>1 DEF KnownUnmapped, Mapped
    <3>3. op[i].element # 0
      <4>1. AskedWith(at[i], op[i], draft[i], used) /\ used \in Nat
        BY DraftKept, TypeParts
      <4> QED
        BY <3>2, <4>1 DEF AskedWith
    <3>4. mapping[w] = op[i].element
      BY <3>1, <3>2, <3>3
    <3> QED
      BY <3>1, <3>2, <3>4 DEF Spared, KnownUnmapped, Mapped
  <2> QED
    BY <2>1, <2>2
<1> QED
  BY <1>2, <1>3 DEF Spared

\* Steps of one client that leave rows and mappings alone.
LEMMA SparedQuietly ==
  ASSUME TypeInv, Spared, NEW x \in Clients, NEW step, NEW o,
         at' = [at EXCEPT ![x] = step], step \notin {"saving", "remove"},
         op' = [op EXCEPT ![x] = o] \/ op' = op,
         \A b \in Builders : b # x => look'[b] = look[b],
         \A y \in Clients : y # x => late[y] \subseteq late'[y],
         UNCHANGED <<where, mapping>>
  PROVE  Spared'
<1>1. ClientTypes
  BY TypeParts
<1>2. at'[x] = step /\ \A y \in Clients \ {x} : at'[y] = at[y] /\ op'[y] = op[y]
  BY <1>1 DEF ClientTypes
<1>3. x \in Builders => SparedBy(x)'
  BY <1>2 DEF SparedBy
<1>4. x \in Integrators => KnownUnmapped(x)'
  BY <1>2 DEF KnownUnmapped
<1> DEFINE X == {x}
<1>5. /\ \A y \in Clients \ X : at'[y] = at[y] /\ op'[y] = op[y] /\ late[y] \subseteq late'[y]
      /\ \A b \in Builders \ X : look'[b] = look[b]
      /\ \A b \in Builders \intersect X : SparedBy(b)'
      /\ \A i \in Integrators \intersect X : KnownUnmapped(i)'
      /\ X \in SUBSET Clients
  BY <1>2, <1>3, <1>4
<1> HIDE DEF X
<1> QED
  BY <1>5, SparedKept
LEMMA SparedFinished ==
  ASSUME TypeInv, Spared, NEW i \in Integrators, Finished(i), UNCHANGED <<where, mapping, late, look>>
  PROVE  Spared'
<1>1. at' = [at EXCEPT ![i] = "idle"] /\ op' = [op EXCEPT ![i] = NoOp] /\ i \in Clients
      /\ UNCHANGED <<where, mapping, late>> /\ \A b \in Builders : b # i => look'[b] = look[b]
  BY DEF Finished, Goto, Clients
<1> QED
  BY <1>1, SparedQuietly

\* The quiet steps of a request.
LEMMA SparedRequests ==
  ASSUME TypeInv, Spared, NEW i \in Integrators,
         \/ ReadData(i) \/ WriteData(i) \/ Retry(i) \/ ReadToRemove(i) \/ WriteRemoved(i)
         \/ MakeFloor(i) \/ BreakOff(i) \/ \E w \in Locations : Unmap(i, w)
         \/ \E kind, c, p, e : Target(i, kind, c, p, e)
  PROVE  Spared'
<1>1. UNCHANGED <<where, mapping, look>>
  BY DEF ReadData, WriteData, Retry, ReadToRemove, WriteRemoved, MakeFloor, BreakOff, Unmap,
     Target, rows, builder, history
<1>2. late' = late \/ late' = [late EXCEPT ![i] = {}]
  BY DEF ReadData, WriteData, Retry, ReadToRemove, WriteRemoved, MakeFloor, BreakOff, Unmap,
     Target, history
<1>3. \A y \in Clients : y # i => late[y] \subseteq late'[y]
  BY <1>2, TypeParts DEF HistoryTypes
<1> DEFINE Quietly == {"idle", "floor", "place", "read", "write", "unmap"}
<1>4. \E step \in Quietly : at' = [at EXCEPT ![i] = step]
  BY DEF ReadData, WriteData, Retry, ReadToRemove, WriteRemoved, MakeFloor, BreakOff, Unmap,
     Target, Finished, Goto
<1>5. op' = op \/ \E o : op' = [op EXCEPT ![i] = o]
  BY DEF ReadData, WriteData, Retry, ReadToRemove, WriteRemoved, MakeFloor, BreakOff, Unmap,
     Target, Finished, Ask
<1>6. PICK step \in Quietly : at' = [at EXCEPT ![i] = step]
  BY <1>4
<1>7. i \in Clients /\ (\A b \in Builders : b # i => look'[b] = look[b])
      /\ step \notin {"saving", "remove"}
  BY <1>1 DEF Clients
<1> HIDE DEF Quietly
<1>8. CASE op' = op
  BY <1>1, <1>3, <1>6, <1>7, <1>8, SparedQuietly
<1>9. ASSUME NEW o, op' = [op EXCEPT ![i] = o]
      PROVE  Spared'
  BY <1>1, <1>3, <1>6, <1>7, <1>9, SparedQuietly
<1> QED
  BY <1>5, <1>8, <1>9

\* Asking for a place.
LEMMA SparedTarget ==
  ASSUME TypeInv, Spared, NEW i \in Integrators, NEW c \in Configs, NEW e \in Elements,
         \/ QuickCreate(i, c)
         \/ \E l \in Levels : AssignElementsToFloorLevel(i, c, l, e)
         \/ AssignElementsToForecourt(i, c, e)
         \/ AssignElementsToExternalMerch(i, c, e)
  PROVE  Spared'
<1>1. \E kind, d, p, f : Target(i, kind, d, p, f)
  BY DEF QuickCreate, AssignElementsToFloorLevel, AssignElementsToForecourt,
     AssignElementsToExternalMerch
<1> QED
  BY <1>1, SparedRequests

LEMMA SparedMakeElement ==
  ASSUME TypeInv, Spared, NEW i \in Integrators, MakeElement(i)
  PROVE  Spared'
<1> DEFINE X == {i}
           n == used + 1
<1>1. /\ where' = [where EXCEPT ![n] = <<op[i].config, op[i].place>>]
      /\ op' = [op EXCEPT ![i].element = n] /\ at' = [at EXCEPT ![i] = "read"]
      /\ UNCHANGED <<mapping, look, late>> /\ used < MaxElements
  BY DEF MakeElement, Goto, history, builder
<1>2. ClientTypes /\ RowTypes /\ MappingTypes /\ used \in Nat
  BY TypeParts
<1>3. /\ \A y \in Clients \ X : at'[y] = at[y] /\ op'[y] = op[y] /\ late[y] \subseteq late'[y]
      /\ at'[i] = "read" /\ look' = look
  BY <1>1, <1>2 DEF ClientTypes, Clients
<1>4. KnownUnmapped(i)'
  BY <1>3 DEF KnownUnmapped
<1>5. n \in Elements /\ where[n] = Nowhere
  <2>1. n \in Elements /\ ~ (n <= used)
    BY <1>1, <1>2, BoundsAre DEF Elements
  <2> QED
    BY <1>2, <2>1 DEF RowTypes
<1> HIDE DEF n
<1>6. ASSUME NEW e \in Elements, NEW w \in Locations, mapping'[w] = e
      PROVE  where'[e] = where[e]
  <2>1. mapping[w] = e /\ e # 0
    BY <1>1, <1>6 DEF Elements
  <2>2. where[e] # Nowhere
    BY <1>2, <2>1 DEF MappingTypes
  <2> QED
    BY <1>1, <1>2, <1>5, <2>2 DEF RowTypes
<1>7. X \in SUBSET Clients /\ (\A b \in Builders \intersect X : SparedBy(b)')
      /\ (\A j \in Integrators \intersect X : KnownUnmapped(j)')
  BY <1>4, SidesDiffer DEF Clients
<1> HIDE DEF X
<1> QED
  BY <1>1, <1>3, <1>6, <1>7, SparedKept

LEMMA SparedMoveElement ==
  ASSUME TypeInv, Spared, NEW i \in Integrators, MoveElement(i)
  PROVE  Spared'
<1> DEFINE X == {i}
           e == op[i].element
           v == <<op[i].config, op[i].place>>
<1>1. /\ where' = [where EXCEPT ![e] = v]
      /\ at' = [at EXCEPT ![i] = "read"] /\ late' = Late(e) /\ UNCHANGED <<mapping, op, look>>
  BY DEF MoveElement, Goto, builder
<1>2. ClientTypes /\ RowTypes /\ HistoryTypes
  BY TypeParts
<1>3. /\ \A y \in Clients \ X : at'[y] = at[y] /\ op'[y] = op[y] /\ late[y] \subseteq late'[y]
      /\ at'[i] = "read" /\ look' = look
  <2>1. \A y \in Clients : late[y] \subseteq late'[y]
    BY <1>1 DEF Late
  <2> QED
    BY <1>1, <1>2, <2>1 DEF ClientTypes, Clients
<1>4. KnownUnmapped(i)'
  BY <1>3 DEF KnownUnmapped
<1>5. \A b \in Builders, f \in Elements : at[b] = "saving" => where[f] = where'[f] \/ f \in late'[b]
  <2>1. \A b \in Builders : at[b] = "saving" => e \in late'[b]
    BY <1>1 DEF Late, Clients
  <2> QED
    BY <1>1, <1>2, <2>1 DEF RowTypes
<1>6. X \in SUBSET Clients /\ (\A b \in Builders \intersect X : SparedBy(b)')
      /\ (\A j \in Integrators \intersect X : KnownUnmapped(j)')
  BY <1>4, SidesDiffer DEF Clients
<1> HIDE DEF X
<1> QED
  BY <1>1, <1>3, <1>5, <1>6, SparedKept

LEMMA SparedSetMapping ==
  ASSUME TypeInv, Spared, NEW w \in Locations, NEW e \in Elements, SetMapping(w, e)
  PROVE  Spared'
<1>1. /\ mapping' = [mapping EXCEPT ![w] = e] /\ late' = Late(e)
      /\ UNCHANGED <<where, builder, at, op>>
  BY DEF SetMapping
<1>2. MappingTypes
  BY TypeParts
<1>3. \A y \in Clients : late[y] \subseteq late'[y] /\ (at[y] \in {"saving", "remove"} => e \in late'[y])
  BY <1>1 DEF Late
<1>4. \A v \in Locations : mapping'[v] = mapping[v] \/ mapping'[v] = e
  BY <1>1, <1>2 DEF MappingTypes
<1> DEFINE X == {}
<1>5. /\ X \in SUBSET Clients
      /\ \A y \in Clients \ X : at'[y] = at[y] /\ op'[y] = op[y] /\ late[y] \subseteq late'[y]
      /\ \A b \in Builders \ X : look'[b] = look[b]
      /\ \A b \in Builders \intersect X : SparedBy(b)'
      /\ \A i \in Integrators \intersect X : KnownUnmapped(i)'
  BY <1>1, <1>3 DEF builder
<1>6. \A y \in Clients \ X, v \in Locations : at[y] \in {"saving", "remove"} /\ mapping'[v] # 0 =>
          mapping'[v] = mapping[v] \/ mapping'[v] \in late'[y]
  BY <1>3, <1>4
<1>7. \A b \in Builders \ X, f \in Elements, l \in Levels :
          at[b] = "saving" /\ (\E v \in Locations : mapping'[v] = f)
              /\ where'[f] = <<op[b].config, l>> =>
          where[f] = where'[f] \/ f \in late'[b]
  BY <1>1
<1> HIDE DEF X
<1> QED
  BY <1>5, <1>6, <1>7, SparedKept

LEMMA SparedMappings ==
  ASSUME TypeInv, Spared, NEW i \in Integrators, DeleteMapping(i) \/ CountMappings(i) \/ RemoveElement(i)
  PROVE  Spared'
<1> DEFINE X == {i}
<1>1. ClientTypes /\ RowTypes /\ MappingTypes /\ HistoryTypes
  BY TypeParts
<1>2. look' = look
  BY DEF DeleteMapping, CountMappings, RemoveElement, builder
<1>3. CASE Finished(i) /\ UNCHANGED <<where, mapping, late>>
  BY <1>2, <1>3, SparedFinished
<1>4. ASSUME \A y \in Clients \ X : at'[y] = at[y] /\ op'[y] = op[y] /\ late[y] \subseteq late'[y],
             \A w \in Locations : mapping'[w] # 0 => mapping'[w] = mapping[w],
             \A e \in Elements : where'[e] = where[e] \/ where'[e] = Nowhere,
             KnownUnmapped(i)'
      PROVE  Spared'
  <2>1. X \in SUBSET Clients /\ (\A b \in Builders \intersect X : SparedBy(b)')
        /\ (\A j \in Integrators \intersect X : KnownUnmapped(j)')
    BY <1>4, SidesDiffer DEF Clients
  <2>2. \A b \in Builders \ X, e \in Elements, l \in Levels :
            at[b] = "saving" /\ (\E w \in Locations : mapping'[w] = e)
                /\ where'[e] = <<op[b].config, l>> =>
            where[e] = where'[e] \/ e \in late'[b]
    <3>1. \A d, l : \A e \in Elements : where'[e] = <<d, l>> => where'[e] = where[e]
      BY <1>4, PairIsSomewhere
    <3> QED
      BY <3>1
  <2>3. \A y \in Clients \ X, w \in Locations : at[y] \in {"saving", "remove"} /\ mapping'[w] # 0 =>
            mapping'[w] = mapping[w] \/ mapping'[w] \in late'[y]
    BY <1>4
  <2>4. \A b \in Builders \ X : look'[b] = look[b]
    BY <1>2
  <2> HIDE DEF X
  <2> QED
    BY <1>4, <2>1, <2>2, <2>3, <2>4, SparedKept
<1>5. CASE DeleteMapping(i)
  <2>1. /\ mapping' = [mapping EXCEPT ![op[i].location] = 0] /\ at' = [at EXCEPT ![i] = "count"]
        /\ UNCHANGED <<where, op, late>>
    BY <1>5 DEF DeleteMapping, Goto, history
  <2>2. at'[i] = "count" /\ \A y \in Clients \ X : at'[y] = at[y]
    BY <1>1, <2>1 DEF ClientTypes, Clients
  <2>3. KnownUnmapped(i)'
    BY <2>2 DEF KnownUnmapped
  <2>4. \A w \in Locations : mapping'[w] # 0 => mapping'[w] = mapping[w]
    BY <1>1, <2>1 DEF MappingTypes
  <2> QED
    BY <1>4, <2>1, <2>2, <2>3, <2>4
<1>6. CASE CountMappings(i) /\ ~ (Finished(i) /\ UNCHANGED <<where, mapping, late>>)
  <2> DEFINE e == op[i].element
  <2>1. UNCHANGED <<where, mapping>>
    BY <1>6 DEF CountMappings, rows
  <2>2. /\ ~Mapped(e) /\ op' = [op EXCEPT ![i].config = where[e][1]]
        /\ late' = [late EXCEPT ![i] = {}] /\ at' = [at EXCEPT ![i] = "remove"]
    BY <1>6, <2>1 DEF CountMappings, Goto
  <2>3. /\ \A y \in Clients \ X : at'[y] = at[y] /\ op'[y] = op[y] /\ late[y] \subseteq late'[y]
        /\ op'[i].element = e
    <3>1. op[i] \in Request /\ i \in Clients /\ op' = [op EXCEPT ![i] = [op[i] EXCEPT !.config = where[e][1]]]
      BY <2>2, DraftKept DEF Clients
    <3>2. op'[i] = [op[i] EXCEPT !.config = where[e][1]]
      BY <1>1, <3>1 DEF ClientTypes
    <3>3. op'[i].element = e
      BY <3>1, <3>2 DEF Request
    <3> QED
      BY <1>1, <2>2, <3>1, <3>3 DEF ClientTypes, HistoryTypes
  <2>4. KnownUnmapped(i)'
    BY <2>1, <2>2, <2>3 DEF KnownUnmapped, Mapped
  <2> QED
    BY <1>4, <2>1, <2>3, <2>4
<1>7. CASE RemoveElement(i) /\ ~ (Finished(i) /\ UNCHANGED <<where, mapping, late>>)
  <2> DEFINE e == op[i].element
  <2>1. late' = late
    BY <1>7 DEF RemoveElement, history
  <2>2. /\ where' = [where EXCEPT ![e] = Nowhere] /\ mapping' = Unmapped({e})
        /\ at' = [at EXCEPT ![i] = "read"] /\ op' = op
    BY <1>7, <2>1 DEF RemoveElement, Goto
  <2>3. at'[i] = "read" /\ \A y \in Clients \ X : at'[y] = at[y]
    BY <1>1, <2>2 DEF ClientTypes, Clients
  <2>4. KnownUnmapped(i)'
    BY <2>3 DEF KnownUnmapped
  <2>5. \A w \in Locations : mapping'[w] # 0 => mapping'[w] = mapping[w]
    BY <1>1, <2>2, UnmappedIs
  <2>6. \A f \in Elements : where'[f] = where[f] \/ where'[f] = Nowhere
    BY <1>1, <2>2 DEF RowTypes
  <2> QED
    BY <1>4, <2>1, <2>2, <2>3, <2>4, <2>5, <2>6
<1> QED
  BY <1>3, <1>5, <1>6, <1>7

LEMMA SparedDeleteConfig ==
  ASSUME TypeInv, Spared, NEW c \in Configs, DeleteConfig(c)
  PROVE  Spared'
<1> DEFINE gone == {e \in Elements : where[e] \in {c} \X Places}
<1>1. /\ where' = [e \in Elements |-> IF e \in gone THEN Nowhere ELSE where[e]]
      /\ mapping' = Unmapped(gone) /\ UNCHANGED <<builder, at, op>>
      /\ late' = [y \in Clients |-> IF Drafting(y, c) THEN Elements ELSE late[y]]
  BY DEF DeleteConfig
<1>2. MappingTypes /\ HistoryTypes
  BY TypeParts
<1>3. \A d, l : \A e \in Elements : where'[e] = <<d, l>> => where'[e] = where[e]
  <2>1. \A e \in Elements : where'[e] = where[e] \/ where'[e] = Nowhere
    BY <1>1
  <2> QED
    BY <2>1, PairIsSomewhere
<1> HIDE DEF gone
<1>4. \A w \in Locations : mapping'[w] # 0 => mapping'[w] = mapping[w]
  BY <1>1, <1>2, UnmappedIs
<1> DEFINE X == {}
<1>5. /\ X \in SUBSET Clients
      /\ \A y \in Clients \ X : at'[y] = at[y] /\ op'[y] = op[y] /\ late[y] \subseteq late'[y]
      /\ \A b \in Builders \ X : look'[b] = look[b]
      /\ \A b \in Builders \intersect X : SparedBy(b)'
      /\ \A i \in Integrators \intersect X : KnownUnmapped(i)'
  BY <1>1, <1>2 DEF builder, HistoryTypes
<1>6. \A y \in Clients \ X, w \in Locations : at[y] \in {"saving", "remove"} /\ mapping'[w] # 0 =>
          mapping'[w] = mapping[w] \/ mapping'[w] \in late'[y]
  BY <1>4
<1>7. \A b \in Builders \ X, e \in Elements, l \in Levels :
          at[b] = "saving" /\ (\E w \in Locations : mapping'[w] = e)
              /\ where'[e] = <<op[b].config, l>> =>
          where[e] = where'[e] \/ e \in late'[b]
  BY <1>3
<1> HIDE DEF X
<1> QED
  BY <1>5, <1>6, <1>7, SparedKept
LEMMA SparedCopies ==
  ASSUME TypeInv, Spared, NEW b \in Builders,
         \/ Edit(b) \/ SaveFails(b)
         \/ \E c \in Configs : LoadPlan(b, c) \/ NewPlan(b, c)
  PROVE  Spared'
<1>1. UNCHANGED <<where, mapping, late>> /\ b \in Clients
  BY DEF Edit, SaveFails, LoadPlan, NewPlan, rows, history, Clients
<1>2. CASE Edit(b)
  <2>1. at' = [at EXCEPT ![b] = "loaded"] /\ op' = op /\ look' = look
    BY <1>2, CopyKept DEF Edit
  <2> QED
    BY <1>1, <2>1, SparedQuietly
<1>3. CASE SaveFails(b)
  <2>1. at' = [at EXCEPT ![b] = "idle"] /\ op' = [op EXCEPT ![b] = NoOp]
        /\ look' = [look EXCEPT ![b] = NoLook]
    BY <1>3 DEF SaveFails, SaveEnds, Goto
  <2>2. \A a \in Builders : a # b => look'[a] = look[a]
    BY <2>1, TypeParts DEF ClientTypes
  <2> QED
    BY <1>1, <2>1, <2>2, SparedQuietly
<1>4. ASSUME NEW c \in Configs, LoadPlan(b, c) \/ NewPlan(b, c)
      PROVE  Spared'
  <2>1. /\ at' = [at EXCEPT ![b] = "loaded"] /\ look' = look
        /\ op' = [op EXCEPT ![b] = [NoOp EXCEPT !.config = c]]
    BY <1>4 DEF LoadPlan, NewPlan, Goto
  <2> QED
    BY <1>1, <2>1, SparedQuietly
<1> QED
  BY <1>2, <1>3, <1>4

LEMMA SparedSaveBegin ==
  ASSUME TypeInv, Spared, NEW b \in Builders, SaveBegin(b)
  PROVE  Spared'
<1> DEFINE X == {b}
           c == op[b].config
           s == Now(c)
           r == Look(s, c, copy[b])
<1>1. /\ at[b] = "loaded" /\ look' = [look EXCEPT ![b] = r] /\ late' = [late EXCEPT ![b] = {}]
      /\ at' = [at EXCEPT ![b] = "saving"] /\ UNCHANGED <<where, mapping, op>>
  BY DEF SaveBegin, Goto, rows
<1>2. ClientTypes /\ HistoryTypes /\ PlanTypeOK
  BY TypeParts DEF TypeInv
<1>3. copy[b] \in Plan /\ WellFormed(copy[b], used) /\ c \in Configs
  BY <1>1, CopyKept
<1>4. Database(s) /\ s.where = where /\ s.used = used
  BY <1>2, <1>3, NowIsDatabase
<1> HIDE DEF s
<1>5. /\ r.existing = RowsRead(s, c)
      /\ \A e \in Elements : e \in r.existing /\ Mapped(e) => e \in r.protected
      /\ \A e \in r.protected, l \in Levels : s.where[e] = <<c, l>> => l \in r.holding
  <2> DEFINE k == copy[b]
  <2>1. k \in Plan /\ WellFormed(k, s.used) /\ Database(s)
    BY <1>3, <1>4
  <2> HIDE DEF c, k
  <2>2. Look(s, c, k).existing = RowsRead(s, c)
    BY <2>1, LookIs
  <2>3. \A e \in Elements : e \in Look(s, c, k).existing /\ Mapped(e)
                             => e \in Look(s, c, k).protected
    BY <2>1, LookIs
  <2>4. \A e \in Look(s, c, k).protected, l \in Levels :
            s.where[e] = <<c, l>> => l \in Look(s, c, k).holding
    BY <2>1, LookIs
  <2> QED
    BY <2>2, <2>3, <2>4 DEF k
<1> HIDE DEF r
<1>6. ASSUME NEW e \in Elements, Mapped(e)
      PROVE  /\ e \in r.existing => e \in r.protected
             /\ \A l \in Levels : where[e] = <<c, l>> => l \in r.holding
  <2>1. e \in r.existing => e \in r.protected
    BY <1>5, <1>6
  <2>2. ASSUME NEW l \in Levels, where[e] = <<c, l>>
        PROVE  l \in r.holding
    <3>1. e \in r.existing
      <4>1. s.where[e] = <<c, l>>
        BY <1>4, <2>2
      <4>2. s.where[e] \in {c} \X (Levels \union {"forecourt"})
        BY <4>1
      <4> QED
        BY <1>5, <4>2 DEF RowsRead
    <3> QED
      BY <1>4, <1>5, <2>1, <2>2, <3>1
  <2> QED
    BY <2>1, <2>2
<1>7. at'[b] = "saving" /\ look'[b] = r /\ op'[b] = op[b]
  BY <1>1, <1>2 DEF ClientTypes, Clients
<1>8. SparedBy(b)'
  BY <1>1, <1>6, <1>7 DEF SparedBy, Mapped
<1>9. /\ \A y \in Clients \ X : at'[y] = at[y] /\ op'[y] = op[y] /\ late[y] \subseteq late'[y]
      /\ \A a \in Builders \ X : look'[a] = look[a]
      /\ \A a \in Builders \intersect X : SparedBy(a)'
      /\ \A i \in Integrators \intersect X : KnownUnmapped(i)'
      /\ X \in SUBSET Clients
  BY <1>1, <1>2, <1>8, SidesDiffer DEF ClientTypes, HistoryTypes, Clients
<1> HIDE DEF X
<1> QED
  BY <1>1, <1>9, SparedKept

LEMMA SparedSaveCommit ==
  ASSUME TypeInv, Spared, NEW b \in Builders, SaveCommit(b)
  PROVE  Spared'
<1> DEFINE X == {b}
           c == op[b].config
           placed == Placed(Now(c), look[b])
           pruned == Pruned(Now(c), c, look[b], placed)
           gone == {e \in Elements : where'[e] = Nowhere}
<1>1. /\ at[b] = "saving" /\ at' = [at EXCEPT ![b] = "idle"] /\ op' = [op EXCEPT ![b] = NoOp]
      /\ look' = [look EXCEPT ![b] = NoLook]
      /\ \A y \in Clients : late[y] \subseteq late'[y]
  BY DEF SaveCommit, SaveEnds, Goto
<1>2. /\ mapping' = Unmapped(gone)
      /\ \A e \in Elements : where'[e] = IF e \in Ids(placed) THEN <<c, PlaceOf(e, placed)>>
                                         ELSE IF e \in pruned THEN Nowhere
                                         ELSE where[e]
  BY CommitIs
<1>3. ClientTypes /\ MappingTypes /\ Alone
  BY TypeParts
<1> HIDE DEF placed, pruned, gone
<1>4. \A w \in Locations : mapping'[w] # 0 => mapping'[w] = mapping[w]
  BY <1>2, <1>3, UnmappedIs
<1>5. ASSUME NEW a \in Builders, a # b, at[a] = "saving", NEW e \in Elements, NEW l,
             where'[e] = <<op[a].config, l>>
      PROVE  where[e] = where'[e]
  <2>1. op[a].config # c
    BY <1>1, <1>3, <1>5 DEF Alone
  <2>2. e \notin Ids(placed)
    <3>1. ASSUME e \in Ids(placed)
          PROVE  FALSE
      <4>1. <<c, PlaceOf(e, placed)>> = <<op[a].config, l>>
        BY <1>2, <1>5, <3>1
      <4> QED
        BY <2>1, <4>1
    <3> QED
      BY <3>1
  <2>3. where'[e] # Nowhere
    BY <1>5, PairIsSomewhere
  <2> QED
    BY <1>2, <2>2, <2>3
<1>6. at'[b] = "idle"
  BY <1>1, <1>3 DEF ClientTypes, Clients
<1>7. SparedBy(b)'
  BY <1>6 DEF SparedBy
<1>8. /\ \A y \in Clients \ X : at'[y] = at[y] /\ op'[y] = op[y] /\ late[y] \subseteq late'[y]
      /\ \A a \in Builders \ X : look'[a] = look[a]
      /\ \A a \in Builders \intersect X : SparedBy(a)'
      /\ \A i \in Integrators \intersect X : KnownUnmapped(i)'
      /\ X \in SUBSET Clients
  BY <1>1, <1>3, <1>7, SidesDiffer DEF ClientTypes, Clients
<1>9. \A a \in Builders \ X, e \in Elements, l \in Levels :
          at[a] = "saving" /\ (\E w \in Locations : mapping'[w] = e)
              /\ where'[e] = <<op[a].config, l>> =>
          where[e] = where'[e] \/ e \in late'[a]
  BY <1>5
<1>10. \A y \in Clients \ X, w \in Locations : at[y] \in {"saving", "remove"} /\ mapping'[w] # 0 =>
          mapping'[w] = mapping[w] \/ mapping'[w] \in late'[y]
  BY <1>4
<1> HIDE DEF X
<1> QED
  BY <1>8, <1>9, <1>10, SparedKept

LEMMA SparedStep ==
  ASSUME TypeInv, Spared, [PlanNext]_planVars
  PROVE  Spared'
<1>1. ASSUME NEW b \in Builders, Build(b)
      PROVE  Spared'
  BY <1>1, SparedCopies, SparedSaveBegin, SparedSaveCommit DEF Build
<1>2. ASSUME NEW i \in Integrators, Integrate(i)
      PROVE  Spared'
  <2>1. CASE \E c \in Configs, e \in Elements :
                 \/ \E l \in Levels : AssignElementsToFloorLevel(i, c, l, e)
                 \/ AssignElementsToForecourt(i, c, e)
                 \/ AssignElementsToExternalMerch(i, c, e)
    BY <2>1, SparedTarget
  <2>2. \A c \in Configs : QuickCreate(i, c) => Spared'
    <3>1. \A c \in Configs : QuickCreate(i, c) => Target(i, "create", c, LowestFloor(c), 0)
      BY DEF QuickCreate
    <3> QED
      BY <3>1, SparedRequests
  <2> QED
    BY <1>2, <2>1, <2>2, SparedRequests, SparedMakeElement, SparedMoveElement, SparedMappings
       DEF Integrate
<1>3. ASSUME NEW w \in Locations, NEW e \in Elements, MapLocation(w, e) \/ MapUnchecked(w, e)
      PROVE  Spared'
  BY <1>3, SparedSetMapping DEF MapLocation, MapUnchecked
<1>4. CASE UNCHANGED planVars
  <2>1. UNCHANGED <<where, mapping, late, at, op, look>>
    BY <1>4 DEF planVars, rows, history, builder
  <2> QED
    BY <2>1 DEF Spared, SparedBy, KnownUnmapped, Mapped
<1> QED
  BY <1>1, <1>2, <1>3, <1>4, SparedDeleteConfig DEF PlanNext

LEMMA SparedInit == PlanInit => Spared
  BY DEF PlanInit, Spared, SparedBy, KnownUnmapped, Clients

LEMMA SparedAlways == PlanSpec => [](TypeInv /\ Spared)
<1>1. PlanInit => TypeInv /\ Spared
  BY TypeInvInit, SparedInit
<1>2. TypeInv /\ Spared /\ [PlanNext]_planVars => (TypeInv /\ Spared)'
  BY TypeInvStep, SparedStep
<1> QED
  BY <1>1, <1>2, PTL DEF PlanSpec
\* Why a mapping may go.
Excused(w) ==
    \/ \E i \in Integrators : at[i] = "unmap" /\ op[i].location = w /\ at'[i] = "count"
    \/ \E c \in Configs : c \in there \ there'
    \/ \E x \in Clients : /\ at[x] \in {"saving", "remove"} /\ at'[x] # at[x]
                          /\ mapping[w] \in late[x]

LEMMA ExcusedDeleteMapping ==
  ASSUME TypeInv, NEW i \in Integrators, DeleteMapping(i),
         NEW w \in Locations, mapping[w] # 0, mapping'[w] = 0
  PROVE  Excused(w)
<1>1. /\ at[i] = "unmap" /\ mapping' = [mapping EXCEPT ![op[i].location] = 0]
      /\ at' = [at EXCEPT ![i] = "count"]
  BY DEF DeleteMapping, Goto
<1>2. ClientTypes /\ MappingTypes
  BY TypeParts
<1>3. op[i].location = w
  BY <1>1, <1>2 DEF MappingTypes
<1>4. at'[i] = "count"
  BY <1>1, <1>2 DEF ClientTypes, Clients
<1> QED
  BY <1>1, <1>3, <1>4 DEF Excused

LEMMA ExcusedRemoveElement ==
  ASSUME TypeInv, Spared, NEW i \in Integrators, RemoveElement(i),
         NEW w \in Locations, mapping[w] # 0, mapping'[w] = 0
  PROVE  Excused(w)
<1> DEFINE e == op[i].element
<1>1. at[i] = "remove" /\ mapping' = Unmapped({e}) /\ at' = [at EXCEPT ![i] = "read"]
  BY DEF RemoveElement, Goto
<1>2. ClientTypes /\ MappingTypes
  BY TypeParts
<1>3. mapping[w] = e
  BY <1>1 DEF Unmapped
<1>4. e \in late[i]
  BY <1>1, <1>3 DEF Spared, KnownUnmapped, Mapped
<1>5. at'[i] = "read" /\ i \in Clients
  BY <1>1, <1>2 DEF ClientTypes, Clients
<1> QED
  BY <1>1, <1>3, <1>4, <1>5 DEF Excused

LEMMA ExcusedSaveCommit ==
  ASSUME TypeInv, Spared, NEW b \in Builders, SaveCommit(b),
         NEW w \in Locations, mapping[w] # 0, mapping'[w] = 0
  PROVE  Excused(w)
<1> DEFINE c == op[b].config
           lk == look[b]
           placed == Placed(Now(c), lk)
           pruned == Pruned(Now(c), c, lk, placed)
           gone == {f \in Elements : where'[f] = Nowhere}
           e == mapping[w]
<1>1. at[b] = "saving" /\ at' = [at EXCEPT ![b] = "idle"]
  BY DEF SaveCommit, SaveEnds, Goto
<1>2. /\ mapping' = Unmapped(gone) /\ SaneLook(lk, used)
      /\ \A f \in Elements : where'[f] = IF f \in Ids(placed) THEN <<c, PlaceOf(f, placed)>>
                                         ELSE IF f \in pruned THEN Nowhere
                                         ELSE where[f]
  BY CommitIs
<1>3. /\ ClientTypes /\ MappingTypes /\ e \in Elements /\ where[e] # Nowhere
  BY TypeParts, BoundsAre DEF MappingTypes, Elements
<1>4. e \in gone
  <2> HIDE DEF gone
  <2> QED
    BY <1>2 DEF Unmapped
<1>5. \A f \in pruned : \/ f \in lk.existing /\ f \notin lk.protected
                        \/ where[f] \in {c} \X Cut(lk)
  BY DEF Pruned, Now
<1>6. Cut(lk) \subseteq Levels /\ \A l \in Cut(lk) : l \notin lk.holding
  BY <1>2 DEF SaneLook, Reading, Cut
<1> HIDE DEF pruned, placed, lk
<1>7. e \in pruned
  BY <1>2, <1>3, <1>4, PairIsSomewhere
<1>8. Mapped(e)
  BY DEF Mapped
<1>9. e \in late[b]
  <2> SUFFICES ASSUME e \notin late[b]
               PROVE  FALSE
    OBVIOUS
  <2>1. /\ e \in lk.existing => e \in lk.protected
        /\ \A l \in Levels : where[e] = <<c, l>> => l \in lk.holding
    BY <1>1, <1>3, <1>8 DEF Spared, SparedBy, lk
  <2>2. where[e] \in {c} \X Cut(lk)
    BY <1>5, <1>7, <2>1
  <2>3. PICK l \in Cut(lk) : where[e] = <<c, l>>
    BY <2>2
  <2> QED
    BY <1>6, <2>1, <2>3
<1>10. at'[b] = "idle" /\ b \in Clients
  BY <1>1, <1>3 DEF ClientTypes, Clients
<1> QED
  BY <1>1, <1>9, <1>10 DEF Excused

LEMMA ExcusedDeleteConfig ==
  ASSUME NEW c \in Configs, DeleteConfig(c), NEW w \in Locations
  PROVE  Excused(w)
<1>1. c \in there /\ there' = there \ {c}
  BY DEF DeleteConfig
<1> QED
  BY <1>1 DEF Excused

\* The other steps leave mappings alone, or make them.
LEMMA OthersUnmapNothing ==
  ASSUME TypeInv, NEW w \in Locations, mapping[w] # 0,
         \/ \E b \in Builders, c \in Configs : LoadPlan(b, c) \/ NewPlan(b, c)
         \/ \E b \in Builders : Edit(b) \/ SaveBegin(b) \/ SaveFails(b)
         \/ \E i \in Integrators, c \in Configs : QuickCreate(i, c)
         \/ \E i \in Integrators, c \in Configs, e \in Elements :
                \/ \E l \in Levels : AssignElementsToFloorLevel(i, c, l, e)
                \/ AssignElementsToForecourt(i, c, e)
                \/ AssignElementsToExternalMerch(i, c, e)
         \/ \E i \in Integrators : \/ ReadData(i) \/ WriteData(i) \/ Retry(i)
                                   \/ CountMappings(i) \/ ReadToRemove(i) \/ WriteRemoved(i)
                                   \/ MakeFloor(i) \/ MakeElement(i) \/ MoveElement(i)
                                   \/ BreakOff(i)
         \/ \E i \in Integrators, v \in Locations : Unmap(i, v)
         \/ \E v \in Locations, e \in Elements : MapLocation(v, e) \/ MapUnchecked(v, e)
         \/ UNCHANGED planVars
  PROVE  mapping'[w] # 0
<1>1. CASE \E v \in Locations, e \in Elements : MapLocation(v, e) \/ MapUnchecked(v, e)
  <2>1. PICK v \in Locations, e \in Elements : mapping' = [mapping EXCEPT ![v] = e]
    BY <1>1 DEF MapLocation, MapUnchecked, SetMapping
  <2> QED
    BY <2>1, TypeParts DEF MappingTypes, Elements
<1>2. ASSUME NEW b \in Builders,
             Edit(b) \/ SaveBegin(b) \/ SaveFails(b) \/ \E c \in Configs : LoadPlan(b, c) \/ NewPlan(b, c)
      PROVE  mapping' = mapping
  BY <1>2 DEF LoadPlan, NewPlan, Edit, SaveBegin, SaveFails, rows
<1>3. ASSUME NEW i \in Integrators, NEW kind, NEW c, NEW p, NEW e, Target(i, kind, c, p, e)
      PROVE  mapping' = mapping
  BY <1>3 DEF Target, rows
<1>4. ASSUME NEW i \in Integrators, MakeFloor(i) \/ MakeElement(i) \/ MoveElement(i) \/ BreakOff(i)
      PROVE  mapping' = mapping
  BY <1>4 DEF MakeFloor, MakeElement, MoveElement, BreakOff, rows
<1>5. ASSUME NEW i \in Integrators,
             \/ ReadData(i) \/ WriteData(i) \/ Retry(i) \/ CountMappings(i) \/ ReadToRemove(i)
             \/ WriteRemoved(i) \/ \E v \in Locations : Unmap(i, v)
      PROVE  mapping' = mapping
  BY <1>5 DEF ReadData, WriteData, Retry, CountMappings, ReadToRemove, WriteRemoved, Unmap, rows
<1>6. UNCHANGED planVars => mapping' = mapping
  BY DEF planVars, rows
<1>7. \/ mapping' = mapping
      \/ \E v \in Locations, e \in Elements : MapLocation(v, e) \/ MapUnchecked(v, e)
  BY <1>2, <1>3, <1>4, <1>5, <1>6 DEF QuickCreate, AssignElementsToFloorLevel,
     AssignElementsToForecourt, AssignElementsToExternalMerch
<1> QED
  BY <1>1, <1>7

LEMMA ExcusedStep ==
  ASSUME TypeInv, Spared, [PlanNext]_planVars, NEW w \in Locations, mapping[w] # 0, mapping'[w] = 0
  PROVE  Excused(w)
<1>1. ASSUME NEW b \in Builders, Build(b)
      PROVE  Excused(w)
  BY <1>1, ExcusedSaveCommit, OthersUnmapNothing DEF Build
<1>2. ASSUME NEW i \in Integrators, Integrate(i)
      PROVE  Excused(w)
  BY <1>2, ExcusedDeleteMapping, ExcusedRemoveElement, OthersUnmapNothing DEF Integrate
<1> QED
  BY <1>1, <1>2, ExcusedDeleteConfig, OthersUnmapNothing DEF PlanNext

\* A mapping goes only when its removal is asked for or its plan is deleted,
\* or when it was made, or its element moved, after the save or the removal
\* that deletes the element had looked for mappings.
THEOREM MappingsAreKept == PlanSpec => MappingsKept
<1>1. TypeInv /\ Spared /\ [PlanNext]_planVars =>
          [\A w \in Locations : mapping[w] # 0 /\ mapping'[w] = 0 =>
              \/ \E i \in Integrators : at[i] = "unmap" /\ op[i].location = w /\ at'[i] = "count"
              \/ \E c \in Configs : c \in there \ there'
              \/ \E x \in Clients : /\ at[x] \in {"saving", "remove"} /\ at'[x] # at[x]
                                    /\ mapping[w] \in late[x]]_planVars
  BY ExcusedStep DEF Excused
<1> QED
  BY <1>1, SparedAlways, PTL DEF PlanSpec, MappingsKept

-----------------------------------------------------------------------------
(* The document and the rows. *)

\* A request that has changed its row and has yet to write the document.
Pending(i) == Between(i) /\ op[i].kind # "unmap"

Wants(i, e, c) == Pending(i) /\ op[i].element = e /\ op[i].config = c

\* A document shows an element at p and, when that is a floor, on no other.
Whole(d, e, p) ==
    /\ <<p, e>> \in d
    /\ p \in Levels => \A l \in Levels : <<l, e>> \in d => l = p

\* Two documents show an element alike.
Alike(e, d1, d2) == \A p \in Places : <<p, e>> \in d1 <=> <<p, e>> \in d2

\* A row is in the document, or a request will put it there.
InStep ==
    \A e \in Elements \ apart, c \in Configs, p \in Places : where[e] = <<c, p>> =>
        Whole(json[c], e, p) \/ \E i \in Integrators : Wants(i, e, c)

\* A pending request knows where its element is,
OwnsBy(i) ==
    Pending(i) /\ op[i].element \notin apart =>
        \A p \in Places : where[op[i].element] = <<op[i].config, p>> => p = op[i].place

\* and one that made it does not find it on another floor.
SingleBy(i) ==
    Pending(i) /\ op[i].kind = "create" /\ op[i].element \notin apart =>
        \A p, l \in Levels : where[op[i].element] = <<op[i].config, p>>
                                /\ <<l, op[i].element>> \in json[op[i].config] => l = p

\* What is about to be written shows the others as the document does, but those
\* that changed meanwhile; the version tells whether another has written it.
OthersBy(i) ==
    at[i] = "write" /\ Pending(i) =>
        \/ Elements \subseteq late[i]
        \/ /\ seen[i] <= version[op[i].config]
           /\ seen[i] = version[op[i].config] =>
                 \A f \in Elements \ (late[i] \union {op[i].element}) :
                     Alike(f, draft[i], json[op[i].config])

\* It shows the element where its row is.
DraftBy(i) ==
    at[i] = "write" /\ Pending(i) /\ op[i].element \notin apart =>
        \A p \in Places : where[op[i].element] = <<op[i].config, p>> =>
            Whole(draft[i], op[i].element, p)

\* A removal takes the row first.
RemovedBy(i) == Between(i) /\ op[i].kind = "unmap" => where[op[i].element] = Nowhere

ForRequest(i) == OwnsBy(i) /\ SingleBy(i) /\ OthersBy(i) /\ DraftBy(i) /\ RemovedBy(i)

\* A save in progress has read every row on a level of its plan, and will
\* reconcile or delete it, unless a request has moved it since.
ReadsBy(b) ==
    at[b] = "saving" =>
        \A e \in Elements \ apart, l \in Levels : where[e] = <<op[b].config, l>> =>
            \/ /\ e \in look[b].existing
               /\ e \in look[b].protected => e \in Ids(Reconciled(look[b]))
            \/ \E i \in Integrators : Wants(i, e, op[b].config)

DocInv ==
    /\ InStep
    /\ \A i \in Integrators : ForRequest(i)
    /\ \A b \in Builders : ReadsBy(b)

LEMMA ElementAsked ==
  ASSUME TypeInv, NEW i \in Integrators, at[i] \notin {"idle", "floor", "place"}
  PROVE  op[i].element \in Elements /\ op[i].element <= used /\ op[i].element # 0
<1>1. AskedWith(at[i], op[i], draft[i], used) /\ used \in 0..MaxElements
  BY DraftKept, TypeParts
<1> QED
  BY <1>1, BoundsAre DEF AskedWith, Elements

\* A request's row and document after its row was written.
LEMMA BetweenIs ==
  ASSUME TypeInv, NEW i \in Integrators, Between(i)
  PROVE  op[i].element \in Elements /\ op[i].element <= used /\ op[i].config \in Configs
<1>1. at[i] \in {"read", "write"}
  BY DEF Between
<1>2. AskedWith(at[i], op[i], draft[i], used)
  BY DraftKept
<1> QED
  BY <1>1, <1>2, ElementAsked DEF AskedWith

\* A client that is not between holds nothing.
LEMMA NothingHeld ==
  ASSUME NEW i, ~Between(i)
  PROVE  ForRequest(i)
<1>1. at[i] # "write"
  BY DEF Between
<1> QED
  BY <1>1 DEF ForRequest, OwnsBy, SingleBy, OthersBy, DraftBy, RemovedBy, Pending

LEMMA NothingHeldThen ==
  ASSUME NEW i, ~Between(i)'
  PROVE  ForRequest(i)'
<1>1. at'[i] # "write"
  BY DEF Between
<1> QED
  BY <1>1 DEF ForRequest, OwnsBy, SingleBy, OthersBy, DraftBy, RemovedBy, Pending

LEMMA AlikeWhole ==
  ASSUME NEW e, NEW d1, NEW d2, Alike(e, d1, d2), NEW p \in Places
  PROVE  Whole(d1, e, p) <=> Whole(d2, e, p)
<1>1. Levels \subseteq Places
  BY DEF Places
<1> QED
  BY <1>1 DEF Alike, Whole

LEMMA NotDiffering ==
  ASSUME NEW d1, NEW d2, NEW e, e \notin Differing(d1, d2)
  PROVE  Alike(e, d1, d2)
<1>1. ASSUME NEW p, <<p, e>> \in (d1 \ d2) \union (d2 \ d1)
      PROVE  FALSE
  <2>1. <<p, e>>[2] \in Differing(d1, d2)
    BY <1>1 DEF Differing, Ids
  <2> QED
    BY <2>1
<1> QED
  BY <1>1 DEF Alike

SameRequest(i) ==
    /\ UNCHANGED <<at[i], op[i], seen[i], draft[i]>>
    /\ at[i] = "write" => UNCHANGED late[i]

\* What a request wants it still wants, or the element is set apart, or the
\* plan is gone.
KeepsWants(i) ==
    \A e, c : Wants(i, e, c) => Wants(i, e, c)' \/ e \in apart' \/ c \notin there

LEMMA SameWants == ASSUME NEW i, SameRequest(i) PROVE KeepsWants(i)
  BY DEF SameRequest, KeepsWants, Wants, Pending, Between

\* What a request holds survives steps that leave the document alone and move
\* no row.
LEMMA SameHeld ==
  ASSUME TypeInv, NEW i \in Integrators, ForRequest(i), SameRequest(i),
         UNCHANGED <<json, version>>, apart \subseteq apart',
         \A e \in Elements : where'[e] = where[e] \/ where'[e] = Nowhere
  PROVE  ForRequest(i)'
<1>1. /\ at'[i] = at[i] /\ op'[i] = op[i] /\ seen'[i] = seen[i] /\ draft'[i] = draft[i]
      /\ at[i] = "write" => late'[i] = late[i]
  BY DEF SameRequest
<1>2. Between(i)' = Between(i) /\ Pending(i)' = Pending(i)
  BY <1>1 DEF Between, Pending
<1>3. CASE ~Between(i)
  BY <1>2, <1>3, NothingHeldThen
<1>4. CASE Between(i)
  <2>1. op[i].element \in Elements
    BY <1>4, BetweenIs
  <2>2. \A d, p : where'[op[i].element] = <<d, p>> => where[op[i].element] = <<d, p>>
    BY <2>1, PairIsSomewhere
  <2>3. op[i].element \notin apart' => op[i].element \notin apart
    OBVIOUS
  <2>4. OwnsBy(i) /\ SingleBy(i) /\ OthersBy(i) /\ DraftBy(i) /\ RemovedBy(i)
    BY DEF ForRequest
  <2>5. OwnsBy(i)'
    BY <1>1, <1>2, <2>2, <2>3, <2>4 DEF OwnsBy
  <2>6. SingleBy(i)'
    BY <1>1, <1>2, <2>2, <2>3, <2>4 DEF SingleBy
  <2>7. OthersBy(i)'
    BY <1>1, <1>2, <2>4 DEF OthersBy, Alike
  <2>8. DraftBy(i)'
    BY <1>1, <1>2, <2>2, <2>3, <2>4 DEF DraftBy, Whole
  <2>9. RemovedBy(i)'
    BY <1>1, <1>2, <2>1, <2>4 DEF RemovedBy
  <2> QED
    BY <2>5, <2>6, <2>7, <2>8, <2>9 DEF ForRequest
<1> QED
  BY <1>3, <1>4

\* What a save has read stays so as long as rows only go and requests keep
\* what they want.
LEMMA ReadsKept ==
  ASSUME TypeInv, NEW b \in Builders, ReadsBy(b),
         at'[b] = at[b], op'[b] = op[b], look'[b] = look[b], apart \subseteq apart',
         \A e \in Elements : where'[e] = where[e] \/ where'[e] = Nowhere,
         \A i \in Integrators : KeepsWants(i)
  PROVE  ReadsBy(b)'
<1>1. PICK c : c = op[b].config
  OBVIOUS
<1>2. SUFFICES ASSUME at[b] = "saving", NEW e \in Elements \ apart', NEW l \in Levels, where'[e] = <<c, l>>
               PROVE  \/ /\ e \in look[b].existing
                         /\ e \in look[b].protected => e \in Ids(Reconciled(look[b]))
                      \/ \E i \in Integrators : Wants(i, e, c)'
  <2>1. Ids(Reconciled(look'[b])) = Ids(Reconciled(look[b])) /\ op'[b].config = c
    BY <1>1
  <2> QED
    BY <2>1 DEF ReadsBy, Wants, Pending
<1>3. where[e] = <<c, l>> /\ e \notin apart
  BY <1>2, PairIsSomewhere
<1>4. where[e] \in (there \X Places) \union {Nowhere}
  BY TypeParts DEF RowTypes
<1>5. c \in there
  BY <1>3, <1>4, PairIsSomewhere
<1> QED
  BY <1>1, <1>2, <1>3, <1>5 DEF ReadsBy, KeepsWants

\* Steps that leave the document alone and move no row.
LEMMA DocCalm ==
  ASSUME TypeInv, DocInv, UNCHANGED <<there, json, version>>, apart \subseteq apart',
         \A e \in Elements : where'[e] = where[e] \/ where'[e] = Nowhere,
         \A i \in Integrators : SameRequest(i) \/ (KeepsWants(i) /\ ForRequest(i)'),
         \A b \in Builders : \/ at'[b] = at[b] /\ op'[b] = op[b] /\ look'[b] = look[b]
                             \/ ReadsBy(b)'
  PROVE  DocInv'
<1>1. \A i \in Integrators : KeepsWants(i)
  BY SameWants
<1>2. ASSUME NEW i \in Integrators
      PROVE  ForRequest(i)'
  BY SameHeld DEF DocInv
<1>3. ASSUME NEW b \in Builders
      PROVE  ReadsBy(b)'
  BY <1>1, ReadsKept DEF DocInv
<1>4. InStep'
  <2>1. ASSUME NEW e \in Elements \ apart', NEW c \in Configs, NEW p \in Places, where'[e] = <<c, p>>
        PROVE  Whole(json'[c], e, p) \/ \E i \in Integrators : Wants(i, e, c)'
    <3>1. where[e] = <<c, p>> /\ e \notin apart /\ json' = json
      BY <2>1, PairIsSomewhere
    <3>2. where[e] \in (there \X Places) \union {Nowhere}
      BY TypeParts DEF RowTypes
    <3>3. c \in there
      BY <3>1, <3>2, PairIsSomewhere
    <3>4. Whole(json[c], e, p) \/ \E i \in Integrators : Wants(i, e, c)
      BY <2>1, <3>1 DEF DocInv, InStep
    <3> QED
      BY <1>1, <2>1, <3>1, <3>3, <3>4 DEF KeepsWants
  <2> QED
    BY <2>1 DEF InStep, Whole
<1> QED
  BY <1>2, <1>3, <1>4 DEF DocInv

\* A builder's step short of a commit.
LEMMA DocBuilderStep ==
  ASSUME TypeInv, DocInv, NEW b \in Builders, NEW step, at' = [at EXCEPT ![b] = step],
         UNCHANGED <<rows, doc, integrator, apart>>,
         op' = op \/ \E o : op' = [op EXCEPT ![b] = o],
         look' = look \/ \E r : look' = [look EXCEPT ![b] = r],
         late' = late \/ \E v : late' = [late EXCEPT ![b] = v],
         ReadsBy(b)'
  PROVE  DocInv'
<1>1. ClientTypes /\ HistoryTypes
  BY TypeParts
<1>2. \A a \in Builders : a # b => at'[a] = at[a] /\ op'[a] = op[a] /\ look'[a] = look[a]
  BY <1>1 DEF ClientTypes, Clients
<1>3. \A i \in Integrators : at'[i] = at[i] /\ op'[i] = op[i] /\ late'[i] = late[i]
  BY <1>1, SidesDiffer DEF ClientTypes, HistoryTypes, Clients
<1>4. \A i \in Integrators : SameRequest(i)
  BY <1>3 DEF SameRequest, integrator
<1>5. UNCHANGED <<there, json, version>> /\ apart \subseteq apart' /\ where' = where
  BY DEF rows, doc
<1> QED
  BY <1>2, <1>4, <1>5, DocCalm

LEMMA DocCopies ==
  ASSUME TypeInv, DocInv, NEW b \in Builders,
         \/ Edit(b) \/ SaveFails(b)
         \/ \E c \in Configs : LoadPlan(b, c) \/ NewPlan(b, c)
  PROVE  DocInv'
<1>1. UNCHANGED <<rows, doc, integrator, late, apart>>
  BY DEF Edit, SaveFails, LoadPlan, NewPlan, history
<1>2. op' = op \/ \E o : op' = [op EXCEPT ![b] = o]
  BY DEF Edit, SaveFails, SaveEnds, LoadPlan, NewPlan
<1>3. look' = look \/ \E r : look' = [look EXCEPT ![b] = r]
  BY DEF Edit, SaveFails, SaveEnds, LoadPlan, NewPlan
<1>4. \E step : step # "saving" /\ at' = [at EXCEPT ![b] = step]
  <2>1. CASE Edit(b)
    <3>1. at' = [at EXCEPT ![b] = "loaded"]
      BY <2>1, CopyKept DEF Edit
    <3> QED
      BY <3>1
  <2>2. CASE SaveFails(b)
    <3>1. at' = [at EXCEPT ![b] = "idle"]
      BY <2>2 DEF SaveFails, SaveEnds, Goto
    <3> QED
      BY <3>1
  <2>3. ASSUME NEW c \in Configs, LoadPlan(b, c) \/ NewPlan(b, c)
        PROVE  \E step : step # "saving" /\ at' = [at EXCEPT ![b] = step]
    <3>1. at' = [at EXCEPT ![b] = "loaded"]
      BY <2>3 DEF LoadPlan, NewPlan, Goto
    <3> QED
      BY <3>1
  <2> QED
    BY <2>1, <2>2, <2>3
<1>5. PICK step : step # "saving" /\ at' = [at EXCEPT ![b] = step]
  BY <1>4
<1>6. at'[b] = step
  BY <1>5, TypeParts DEF ClientTypes, Clients
<1>7. ReadsBy(b)'
  BY <1>5, <1>6 DEF ReadsBy
<1> QED
  BY <1>1, <1>2, <1>3, <1>5, <1>7, DocBuilderStep

LEMMA DocSaveBegin ==
  ASSUME TypeInv, DocInv, NEW b \in Builders, SaveBegin(b)
  PROVE  DocInv'
<1> DEFINE c == op[b].config
           s == Now(c)
           k == copy[b]
           r == Look(s, c, k)
<1>1. /\ at[b] = "loaded" /\ look' = [look EXCEPT ![b] = r]
      /\ at' = [at EXCEPT ![b] = "saving"] /\ op' = op /\ late' = [late EXCEPT ![b] = {}]
      /\ UNCHANGED <<rows, doc, integrator, apart>>
  BY DEF SaveBegin, Goto
<1>2. ClientTypes /\ PlanTypeOK
  BY TypeParts DEF TypeInv
<1>3. k \in Plan /\ WellFormed(k, used) /\ c \in Configs
  BY <1>1, CopyKept
<1>4. Database(s) /\ s.where = where /\ s.used = used
  BY <1>2, <1>3, NowIsDatabase
<1>5. /\ r.existing = RowsRead(s, c)
      /\ \A e \in r.protected, l \in Levels : s.where[e] = <<c, l>> => e \in Ids(Reconciled(r))
  <2>1. WellFormed(k, s.used)
    BY <1>3, <1>4
  <2> HIDE DEF c, k, s
  <2>2. Look(s, c, k).existing = RowsRead(s, c)
    BY <1>3, <1>4, <2>1, LookIs
  <2>3. \A e \in Look(s, c, k).protected, l \in Levels :
            s.where[e] = <<c, l>> => e \in Ids(Reconciled(Look(s, c, k)))
    BY <1>3, <1>4, <2>1, LookIs
  <2> QED
    BY <2>2, <2>3
<1>6. at'[b] = "saving" /\ look'[b] = r /\ op'[b] = op[b] /\ where' = where
  BY <1>1, <1>2 DEF ClientTypes, Clients, rows
<1> HIDE DEF r, s
<1>7. ASSUME NEW e \in Elements, NEW l \in Levels, where[e] = <<c, l>>
      PROVE  e \in r.existing /\ (e \in r.protected => e \in Ids(Reconciled(r)))
  <2>1. s.where[e] = <<c, l>>
    BY <1>4, <1>7
  <2>2. s.where[e] \in {c} \X (Levels \union {"forecourt"})
    BY <2>1
  <2> QED
    BY <1>5, <2>1, <2>2 DEF RowsRead
<1>8. ReadsBy(b)'
  BY <1>6, <1>7 DEF ReadsBy
<1>9. /\ look' = look \/ \E q : look' = [look EXCEPT ![b] = q]
      /\ late' = late \/ \E v : late' = [late EXCEPT ![b] = v]
  BY <1>1
<1> QED
  BY <1>1, <1>8, <1>9, DocBuilderStep

\* What a step of one request changes.
OnlyRequest(i, step) ==
    /\ at' = [at EXCEPT ![i] = step]
    /\ op' = op \/ \E o : op' = [op EXCEPT ![i] = o]
    /\ seen' = seen \/ \E v : seen' = [seen EXCEPT ![i] = v]
    /\ draft' = draft \/ \E d : draft' = [draft EXCEPT ![i] = d]

LEMMA OnlyRequestIs ==
  ASSUME TypeInv, NEW i \in Integrators, NEW step, OnlyRequest(i, step)
  PROVE  /\ at'[i] = step
         /\ \A x \in Clients : x # i => at'[x] = at[x] /\ op'[x] = op[x]
         /\ \A j \in Integrators : j # i => seen'[j] = seen[j] /\ draft'[j] = draft[j]
         /\ \A j \in Integrators : j # i => at'[j] = at[j] /\ op'[j] = op[j]
<1>1. at'[i] = step /\ \A x \in Clients : x # i => at'[x] = at[x] /\ op'[x] = op[x]
  BY TypeParts DEF OnlyRequest, ClientTypes, Clients
<1>2. \A j \in Integrators : j # i => seen'[j] = seen[j]
  BY TypeParts DEF OnlyRequest, CountTypes
<1>3. \A j \in Integrators : j # i => draft'[j] = draft[j]
  BY TypeParts DEF OnlyRequest, ClientTypes
<1> QED
  BY <1>1, <1>2, <1>3 DEF Clients

LEMMA FinishedIs ==
  ASSUME NEW i \in Integrators, Finished(i)
  PROVE  OnlyRequest(i, "idle")
<1>1. /\ at' = [at EXCEPT ![i] = "idle"] /\ op' = [op EXCEPT ![i] = NoOp]
      /\ seen' = [seen EXCEPT ![i] = 0] /\ draft' = [draft EXCEPT ![i] = {}]
  BY DEF Finished, Goto
<1> QED
  BY <1>1 DEF OnlyRequest

\* A request's step that leaves the document alone, and moves no row.
LEMMA DocRequestStep ==
  ASSUME TypeInv, DocInv, NEW i \in Integrators, NEW step, OnlyRequest(i, step),
         UNCHANGED <<there, json, version, look>>, apart \subseteq apart',
         \A e \in Elements : where'[e] = where[e] \/ where'[e] = Nowhere,
         \A j \in Integrators : j # i /\ at[j] = "write" => late'[j] = late[j],
         KeepsWants(i), ForRequest(i)'
  PROVE  DocInv'
<1>1. /\ \A x \in Clients : x # i => at'[x] = at[x] /\ op'[x] = op[x]
      /\ \A j \in Integrators : j # i => seen'[j] = seen[j] /\ draft'[j] = draft[j]
      /\ \A j \in Integrators : j # i => at'[j] = at[j] /\ op'[j] = op[j]
  BY OnlyRequestIs
<1>2. \A b \in Builders : at'[b] = at[b] /\ op'[b] = op[b] /\ look'[b] = look[b]
  BY <1>1, SidesDiffer DEF Clients
<1>3. \A j \in Integrators : j # i => SameRequest(j)
  BY <1>1 DEF SameRequest
<1>4. UNCHANGED <<there, json, version>>
  OBVIOUS
<1> QED
  BY <1>2, <1>3, <1>4, DocCalm

\* A request that holds nothing, before and after.
LEMMA DocIdle ==
  ASSUME TypeInv, DocInv, NEW i \in Integrators, NEW step, step \notin {"read", "write"},
         OnlyRequest(i, step), UNCHANGED <<there, json, version, look, where>>,
         apart \subseteq apart',
         \A j \in Integrators : j # i /\ at[j] = "write" => late'[j] = late[j],
         KeepsWants(i)
  PROVE  DocInv'
<1>1. ~Between(i)'
  BY OnlyRequestIs DEF Between
<1>2. ForRequest(i)'
  BY <1>1, NothingHeldThen
<1> QED
  BY <1>2, DocRequestStep

LEMMA WantsNothing == ASSUME NEW i, ~Pending(i) PROVE KeepsWants(i)
  BY DEF KeepsWants, Wants

\* The steps of a request up to the row, and those of a removal.
LEMMA DocAsking ==
  ASSUME TypeInv, DocInv, NEW i \in Integrators,
         \/ \E kind, c, p, e : Target(i, kind, c, p, e)
         \/ MakeFloor(i) \/ DeleteMapping(i) \/ CountMappings(i)
         \/ \E w \in Locations : Unmap(i, w)
  PROVE  DocInv'
<1>1. at[i] \in {"idle", "floor", "unmap", "count"}
  BY DEF DeleteMapping, CountMappings, Unmap, Ask, MakeFloor, Target
<1>2. UNCHANGED <<there, json, version, look, where, apart>>
  BY DEF DeleteMapping, CountMappings, Unmap, Target, MakeFloor, rows, doc, builder, history
<1>3. \A j \in Integrators : j # i => late'[j] = late[j]
  BY TypeParts DEF DeleteMapping, CountMappings, Unmap, Target, MakeFloor, history, HistoryTypes,
     Clients
<1>4. \E step \in {"idle", "floor", "place", "unmap", "count", "remove"} : OnlyRequest(i, step)
  <2>1. CASE \E w \in Locations : Unmap(i, w)
    BY <2>1 DEF Unmap, Ask, Goto, OnlyRequest
  <2>2. CASE DeleteMapping(i)
    BY <2>2 DEF DeleteMapping, Goto, OnlyRequest, integrator
  <2>3. CASE CountMappings(i) /\ Finished(i)
    BY <2>3, FinishedIs
  <2>4. CASE CountMappings(i) /\ ~Finished(i)
    <3> DEFINE o == [op[i] EXCEPT !.config = where[op[i].element][1]]
    <3>1. /\ at' = [at EXCEPT ![i] = "remove"] /\ seen' = seen /\ draft' = draft
          /\ op' = [op EXCEPT ![i] = o]
      BY <2>4 DEF CountMappings, Goto, integrator
    <3> HIDE DEF o
    <3>2. OnlyRequest(i, "remove")
      BY <3>1 DEF OnlyRequest
    <3> QED
      BY <3>2
  <2>5. ASSUME NEW kind, NEW c, NEW p, NEW e, Target(i, kind, c, p, e)
        PROVE  \E step \in {"floor", "place"} : OnlyRequest(i, step)
    <3> DEFINE step == IF p \in Zones \/ <<c, p>> \in floors THEN "place" ELSE "floor"
    <3>1. /\ at' = [at EXCEPT ![i] = step] /\ seen' = seen /\ draft' = draft
          /\ \E o : op' = [op EXCEPT ![i] = o]
      BY <2>5 DEF Target, Ask, Goto
    <3>2. step \in {"floor", "place"}
      OBVIOUS
    <3> HIDE DEF step
    <3>3. OnlyRequest(i, step)
      BY <3>1 DEF OnlyRequest
    <3> QED
      BY <3>2, <3>3
  <2>6. CASE MakeFloor(i)
    BY <2>6 DEF MakeFloor, Goto, OnlyRequest, integrator
  <2> QED
    BY <2>1, <2>2, <2>3, <2>4, <2>5, <2>6
<1>5. KeepsWants(i)
  BY <1>1, WantsNothing DEF Pending, Between
<1> QED
  BY <1>2, <1>3, <1>4, <1>5, DocIdle

LEMMA DocSetMapping ==
  ASSUME TypeInv, DocInv, NEW w \in Locations, NEW e \in Elements, SetMapping(w, e)
  PROVE  DocInv'
<1>1. UNCHANGED <<there, json, version, apart, look, where, at, op, seen, draft>> /\ late' = Late(e)
  BY DEF SetMapping, doc, integrator, builder
<1>2. \A i \in Integrators : at[i] = "write" => late'[i] = late[i]
  BY <1>1 DEF Late, Clients
<1>3. \A i \in Integrators : SameRequest(i)
  BY <1>1, <1>2 DEF SameRequest
<1>4. UNCHANGED <<there, json, version>> /\ apart \subseteq apart'
      /\ (\A f \in Elements : where'[f] = where[f] \/ where'[f] = Nowhere)
      /\ \A b \in Builders : at'[b] = at[b] /\ op'[b] = op[b] /\ look'[b] = look[b]
  BY <1>1
<1> QED
  BY <1>3, <1>4, DocCalm

\* A request broken off leaves its element set apart.
LEMMA DocBreakOff ==
  ASSUME TypeInv, DocInv, NEW i \in Integrators, BreakOff(i)
  PROVE  DocInv'
<1>1. /\ Finished(i) /\ UNCHANGED <<there, json, version, look, where, late>>
      /\ apart' = IF Between(i) /\ op[i].kind # "unmap" THEN apart \union {op[i].element} ELSE apart
  BY DEF BreakOff, rows, doc, builder
<1>2. OnlyRequest(i, "idle")
  BY <1>1, FinishedIs
<1>3. KeepsWants(i)
  BY <1>1 DEF KeepsWants, Wants, Pending
<1>4. \A j \in Integrators : j # i /\ at[j] = "write" => late'[j] = late[j]
  BY <1>1
<1> QED
  BY <1>1, <1>2, <1>3, <1>4, DocIdle

LEMMA DocRemoveElement ==
  ASSUME TypeInv, DocInv, NEW i \in Integrators, RemoveElement(i)
  PROVE  DocInv'
<1> DEFINE e == op[i].element
<1>1. at[i] = "remove" /\ UNCHANGED <<there, json, version, look, late, apart>>
  BY DEF RemoveElement, doc, builder, history
<1>2. KeepsWants(i)
  BY <1>1, WantsNothing DEF Pending, Between
<1>3. \A j \in Integrators : j # i /\ at[j] = "write" => late'[j] = late[j]
  BY <1>1
<1>4. CASE Finished(i) /\ UNCHANGED <<where, mapping>>
  BY <1>1, <1>2, <1>3, <1>4, FinishedIs, DocIdle
<1>5. CASE ~ (Finished(i) /\ UNCHANGED <<where, mapping>>)
  <2>1. /\ where' = [where EXCEPT ![e] = Nowhere]
        /\ at' = [at EXCEPT ![i] = "read"] /\ UNCHANGED <<op, integrator>>
    BY <1>5 DEF RemoveElement, Goto
  <2>2. OnlyRequest(i, "read")
    BY <2>1 DEF OnlyRequest, integrator
  <2>3. e \in Elements /\ op[i].kind = "unmap"
    BY <1>1, ElementAsked, DraftKept DEF AskedWith
  <2>4. where'[e] = Nowhere /\ \A f \in Elements : where'[f] = where[f] \/ where'[f] = Nowhere
    BY <2>1, <2>3, TypeParts DEF RowTypes
  <2>5. at'[i] = "read" /\ op'[i] = op[i]
    BY <2>1, <2>2, OnlyRequestIs
  <2>6. ~Pending(i)' /\ RemovedBy(i)'
    BY <2>3, <2>4, <2>5 DEF Pending, RemovedBy
  <2>7. ForRequest(i)'
    BY <2>6 DEF ForRequest, OwnsBy, SingleBy, OthersBy, DraftBy
  <2> QED
    BY <1>1, <1>2, <1>3, <2>2, <2>4, <2>7, DocRequestStep
<1> QED
  BY <1>4, <1>5

LEMMA DocReadToRemove ==
  ASSUME TypeInv, DocInv, NEW i \in Integrators, ReadToRemove(i)
  PROVE  DocInv'
<1>1. /\ at[i] = "read" /\ op[i].kind = "unmap"
      /\ UNCHANGED <<there, where, json, version, look, late, apart>>
  BY DEF ReadToRemove, rows, doc, builder, history
<1>2. KeepsWants(i)
  BY <1>1, WantsNothing DEF Pending
<1>3. \A j \in Integrators : j # i /\ at[j] = "write" => late'[j] = late[j]
  BY <1>1
<1>4. CASE Finished(i)
  BY <1>1, <1>2, <1>3, <1>4, FinishedIs, DocIdle
<1>5. CASE ~Finished(i)
  <2>1. /\ \E d : draft' = [draft EXCEPT ![i] = d]
        /\ at' = [at EXCEPT ![i] = "write"] /\ UNCHANGED <<op, seen, tries>>
    BY <1>5 DEF ReadToRemove, Goto
  <2>2. OnlyRequest(i, "write")
    BY <2>1 DEF OnlyRequest
  <2>3. at'[i] = "write" /\ op'[i] = op[i]
    BY <2>1, <2>2, OnlyRequestIs
  <2>4. RemovedBy(i)
    BY DEF DocInv, ForRequest
  <2>5. ~Pending(i)' /\ RemovedBy(i)'
    BY <1>1, <2>3, <2>4 DEF Pending, RemovedBy, Between
  <2>6. ForRequest(i)'
    BY <2>5 DEF ForRequest, OwnsBy, SingleBy, OthersBy, DraftBy
  <2> QED
    BY <1>1, <1>2, <1>3, <2>2, <2>6, DocRequestStep
<1> QED
  BY <1>4, <1>5

LEMMA DocRetry ==
  ASSUME TypeInv, DocInv, NEW i \in Integrators, Retry(i)
  PROVE  DocInv'
<1> DEFINE c == op[i].config
<1>1. /\ at[i] = "write" /\ op[i].kind \in {"create", "assign"}
      /\ UNCHANGED <<there, json, version, look, where, late, apart>>
  BY DEF Retry, rows, doc, builder, history
<1>2. \A j \in Integrators : j # i /\ at[j] = "write" => late'[j] = late[j]
  BY <1>1
<1>3. CASE tries[i] = MaxRetries
  <2>1. Finished(i) /\ c \notin there
    BY <1>3 DEF Retry, MayWrite
  <2>2. KeepsWants(i)
    BY <2>1 DEF KeepsWants, Wants
  <2> QED
    BY <1>1, <1>2, <2>1, <2>2, FinishedIs, DocIdle
<1>4. CASE tries[i] # MaxRetries
  <2>1. at' = [at EXCEPT ![i] = "read"] /\ UNCHANGED <<op, seen, draft>>
    BY <1>4 DEF Retry, Goto
  <2>2. OnlyRequest(i, "read")
    BY <2>1 DEF OnlyRequest
  <2>3. at'[i] = "read" /\ op'[i] = op[i]
    BY <2>1, <2>2, OnlyRequestIs
  <2>4. Between(i) /\ Between(i)' /\ Pending(i)' = Pending(i)
    BY <1>1, <2>3 DEF Between, Pending
  <2>5. KeepsWants(i)
    BY <2>3, <2>4 DEF KeepsWants, Wants
  <2>6. OwnsBy(i) /\ SingleBy(i) /\ RemovedBy(i)
    BY DEF DocInv, ForRequest
  <2>7. OwnsBy(i)' /\ SingleBy(i)' /\ RemovedBy(i)'
    BY <1>1, <2>3, <2>4, <2>6 DEF OwnsBy, SingleBy, RemovedBy
  <2>8. OthersBy(i)' /\ DraftBy(i)'
    BY <2>3 DEF OthersBy, DraftBy
  <2>9. ForRequest(i)'
    BY <2>7, <2>8 DEF ForRequest
  <2> QED
    BY <1>1, <1>2, <2>2, <2>5, <2>9, DocRequestStep
<1> QED
  BY <1>3, <1>4

\* The document a request has read, with the element where it belongs.
LEMMA MutatedIs ==
  ASSUME NEW kind, NEW p \in Places, NEW e, NEW d, where[e] # Nowhere
  PROVE  /\ \A f : f # e => Alike(f, Mutated(kind, p, e, d), d)
         /\ kind = "create" /\ (\A l \in Levels : p \in Levels /\ <<l, e>> \in d => l = p)
                => Whole(Mutated(kind, p, e, d), e, p)
         /\ kind # "create" => Whole(Mutated(kind, p, e, d), e, p)
<1>1. Levels \subseteq Cleared(p)
  BY DEF Cleared
<1>2. kind = "create" => Mutated(kind, p, e, d) = d \union {<<p, e>>}
  BY DEF Mutated
<1>3. kind # "create" => Mutated(kind, p, e, d) = (d \ (Cleared(p) \X {e})) \union {<<p, e>>}
  BY DEF Mutated
<1>4. ASSUME NEW f, f # e
      PROVE  Alike(f, Mutated(kind, p, e, d), d)
  <2>1. \A q : <<q, f>> # <<p, e>> /\ <<q, f>> \notin Cleared(p) \X {e}
    BY <1>4
  <2> QED
    BY <1>2, <1>3, <2>1 DEF Alike
<1>5. ASSUME kind = "create", \A l \in Levels : p \in Levels /\ <<l, e>> \in d => l = p
      PROVE  Whole(Mutated(kind, p, e, d), e, p)
  BY <1>2, <1>5 DEF Whole
<1>6. ASSUME kind # "create"
      PROVE  Whole(Mutated(kind, p, e, d), e, p)
  BY <1>1, <1>3, <1>6 DEF Whole
<1> QED
  BY <1>4, <1>5, <1>6

LEMMA DocReadData ==
  ASSUME TypeInv, DocInv, NEW i \in Integrators, ReadData(i)
  PROVE  DocInv'
<1> DEFINE c == op[i].config
           e == op[i].element
           p == op[i].place
           d == Mutated(op[i].kind, p, e, json[c])
<1>1. /\ at[i] = "read" /\ op[i].kind \in {"create", "assign"}
      /\ UNCHANGED <<there, json, version, apart, look, where>>
  BY DEF ReadData, rows, doc, builder
<1>2. Between(i) /\ Pending(i)
  BY <1>1 DEF Between, Pending
<1>3. e \in Elements /\ c \in Configs /\ p \in Places
  BY <1>1, <1>2, BetweenIs, DraftKept DEF AskedWith
<1>4. CASE c \notin there
  <2>1. Finished(i) /\ UNCHANGED late
    BY <1>4 DEF ReadData
  <2>2. KeepsWants(i)
    BY <1>4 DEF KeepsWants, Wants
  <2> QED
    BY <1>1, <2>1, <2>2, FinishedIs, DocIdle
<1>5. CASE c \in there
  <2>1. /\ seen' = [seen EXCEPT ![i] = version[c]] /\ draft' = [draft EXCEPT ![i] = d]
        /\ late' = [late EXCEPT ![i] = {}] /\ at' = [at EXCEPT ![i] = "write"]
        /\ UNCHANGED <<op, tries>>
    BY <1>5 DEF ReadData, Goto
  <2> HIDE DEF d
  <2>2. OnlyRequest(i, "write")
    BY <2>1 DEF OnlyRequest
  <2>3. /\ draft'[i] = d /\ seen'[i] = version[c] /\ late'[i] = {}
        /\ \A j \in Integrators : j # i => late'[j] = late[j]
    BY <2>1, TypeParts DEF ClientTypes, HistoryTypes, CountTypes, Clients
  <2>4. at'[i] = "write" /\ op'[i] = op[i]
    BY <2>1, <2>2, OnlyRequestIs
  <2>5. Between(i)' /\ Pending(i)'
    BY <1>1, <2>4 DEF Between, Pending
  <2>6. KeepsWants(i)
    BY <2>4, <2>5 DEF KeepsWants, Wants
  <2>7. OwnsBy(i) /\ SingleBy(i) /\ RemovedBy(i)
    BY DEF DocInv, ForRequest
  <2>8. OwnsBy(i)' /\ SingleBy(i)' /\ RemovedBy(i)'
    BY <1>1, <1>2, <2>4, <2>5, <2>7 DEF OwnsBy, SingleBy, RemovedBy
  <2>9. \A f \in Elements : f # e => Alike(f, d, json[c])
    <3> DEFINE from == Cleared(p) \X {e}
    <3>1. \A q, f : f # e => <<q, f>> \notin from /\ <<q, f>> # <<p, e>>
      OBVIOUS
    <3> HIDE DEF from
    <3>2. d = json[c] \union {<<p, e>>} \/ d = (json[c] \ from) \union {<<p, e>>} \/ d = json[c] \ from
      BY DEF d, Mutated, from
    <3> HIDE DEF c, e, p
    <3> QED
      BY <3>1, <3>2 DEF Alike
  <2>10. OthersBy(i)'
    <3>1. version[c] \in Nat
      BY <1>3, TypeParts DEF DocTypes
    <3>2. /\ seen'[i] = version'[op'[i].config] /\ seen'[i] <= version'[op'[i].config]
          /\ late'[i] = {} /\ draft'[i] = d /\ json'[op'[i].config] = json[c] /\ op'[i].element = e
      BY <1>1, <2>3, <2>4, <3>1
    <3> QED
      BY <2>9, <3>2 DEF OthersBy, Alike
  <2>11. DraftBy(i)'
    <3> SUFFICES ASSUME e \notin apart, NEW q \in Places, where[e] = <<c, q>>
                 PROVE  Whole(d, e, q)
      BY <1>1, <2>3, <2>4 DEF DraftBy, Whole
    <3>1. q = p /\ where[e] # Nowhere
      BY <1>2, <2>7, PairIsSomewhere DEF OwnsBy
    <3>2. CASE op[i].kind = "create"
      <4>1. \A l \in Levels : p \in Levels /\ <<l, e>> \in json[c] => l = p
        BY <1>2, <2>7, <3>1, <3>2 DEF SingleBy
      <4> HIDE DEF c, e, p
      <4> QED
        BY <1>3, <3>1, <3>2, <4>1, MutatedIs DEF d
    <3>3. CASE op[i].kind # "create"
      <4> HIDE DEF c, e, p
      <4> QED
        BY <1>3, <3>1, <3>3, MutatedIs DEF d
    <3> QED
      BY <3>2, <3>3
  <2>12. ForRequest(i)'
    BY <2>8, <2>10, <2>11 DEF ForRequest
  <2> QED
    BY <1>1, <2>2, <2>3, <2>6, <2>12, DocRequestStep
<1> QED
  BY <1>4, <1>5

\* Other elements are shown as before by what is written, or are set apart.
LEMMA OthersWritten ==
  ASSUME TypeInv, DocInv, NEW i \in Integrators, at[i] = "write", NEW forced \in BOOLEAN,
         Written(i, op[i].config, draft[i], forced),
         forced \/ (Pending(i) /\ version[op[i].config] = seen[i]),
         NEW f \in Elements \ apart', f # op[i].element
  PROVE  f \notin apart /\ Alike(f, draft[i], json[op[i].config])
<1> DEFINE c == op[i].config
           diff == Differing(json[c], draft[i])
<1>1. apart' = apart \union ((diff \ {op[i].element}) \intersect (IF forced THEN Elements ELSE late[i]))
  BY DEF Written
<1>2. f \notin diff => Alike(f, draft[i], json[c])
  BY NotDiffering DEF Alike
<1> HIDE DEF diff
<1>3. CASE forced \/ f \in late[i]
  BY <1>1, <1>2, <1>3
<1>4. CASE ~forced /\ f \notin late[i]
  <2>1. OthersBy(i)
    BY DEF DocInv, ForRequest
  <2>2. ~(Elements \subseteq late[i]) /\ f \notin late[i] \union {op[i].element}
    BY <1>4
  <2> QED
    BY <1>1, <1>4, <2>1, <2>2 DEF OthersBy
<1> QED
  BY <1>3, <1>4

\* And the element where its row is.
LEMMA ItselfWritten ==
  ASSUME TypeInv, DocInv, NEW i \in Integrators, at[i] = "write", op[i].element \notin apart,
         NEW p \in Places, where[op[i].element] = <<op[i].config, p>>
  PROVE  Whole(draft[i], op[i].element, p)
<1>1. DraftBy(i) /\ RemovedBy(i) /\ Between(i)
  BY DEF DocInv, ForRequest, Between
<1>2. Pending(i)
  BY <1>1, PairIsSomewhere DEF Pending, RemovedBy
<1> QED
  BY <1>1, <1>2 DEF DraftBy

LEMMA DocWritten ==
  ASSUME TypeInv, DocInv, NEW i \in Integrators, at[i] = "write", lock[op[i].config] = {},
         NEW forced \in BOOLEAN, Written(i, op[i].config, draft[i], forced), Finished(i),
         forced \/ (Pending(i) /\ version[op[i].config] = seen[i]),
         UNCHANGED <<there, look, where, late>>
  PROVE  DocInv'
<1> DEFINE c == op[i].config
           x == op[i].element
<1>1. /\ json' = [json EXCEPT ![c] = draft[i]] /\ version' = [version EXCEPT ![c] = @ + 1]
      /\ apart \subseteq apart'
  BY DEF Written
<1>2. Between(i) /\ c \in Configs /\ x \in Elements
  BY BetweenIs DEF Between
<1>3. /\ json'[c] = draft[i] /\ \A g \in Configs : g # c => json'[g] = json[g] /\ version'[g] = version[g]
      /\ version'[c] = version[c] + 1 /\ version[c] \in Nat
  BY <1>1, <1>2, TypeParts DEF DocTypes
<1>4. /\ at'[i] = "idle"
      /\ \A y \in Clients : y # i => at'[y] = at[y] /\ op'[y] = op[y]
      /\ \A j \in Integrators : j # i =>
             at'[j] = at[j] /\ op'[j] = op[j] /\ seen'[j] = seen[j] /\ draft'[j] = draft[j]
  BY FinishedIs, OnlyRequestIs
<1>5. \A f \in Elements \ apart' : f # x => f \notin apart /\ Alike(f, draft[i], json[c])
  BY OthersWritten
<1>6. \A p \in Places : x \notin apart /\ where[x] = <<c, p>> => Whole(draft[i], x, p)
  BY ItselfWritten
<1>7. \A j \in Integrators : j # i => \A e, g : Wants(j, e, g)' = Wants(j, e, g)
  BY <1>4 DEF Wants, Pending, Between
<1>8. \A e, g : Wants(i, e, g) => e = x /\ g = c
  BY DEF Wants
<1> HIDE DEF c, x
<1>9. InStep'
  <2>1. ASSUME NEW e \in Elements \ apart', NEW g \in Configs, NEW p \in Places, where[e] = <<g, p>>
        PROVE  Whole(json'[g], e, p) \/ \E j \in Integrators : Wants(j, e, g)'
    <3>1. Whole(json[g], e, p) \/ \E j \in Integrators : Wants(j, e, g)
      BY <1>1, <2>1 DEF DocInv, InStep
    <3>2. CASE g # c
      <4>1. json'[g] = json[g]
        BY <1>3, <3>2
      <4> QED
        BY <1>7, <1>8, <3>1, <3>2, <4>1
    <3>3. CASE g = c /\ e = x
      BY <1>1, <1>3, <1>6, <2>1, <3>3
    <3>4. CASE g = c /\ e # x
      <4>1. Alike(e, draft[i], json[c])
        BY <1>5, <2>1, <3>4
      <4>2. Whole(json[g], e, p) => Whole(json'[g], e, p)
        BY <1>3, <3>4, <4>1, AlikeWhole
      <4> QED
        BY <1>7, <1>8, <3>1, <3>4, <4>2
    <3> QED
      BY <3>2, <3>3, <3>4
  <2> QED
    BY <2>1 DEF InStep, Whole
<1>10. ASSUME NEW j \in Integrators
       PROVE  ForRequest(j)'
  <2>1. CASE j = i \/ ~Between(j)
    <3>1. ~Between(j)'
      BY <1>4, <2>1 DEF Between
    <3> QED
      BY <3>1, NothingHeldThen
  <2>2. CASE j # i /\ Between(j)
    <3> DEFINE g == op[j].config
               y == op[j].element
    <3>1. /\ at'[j] = at[j] /\ op'[j] = op[j] /\ seen'[j] = seen[j] /\ draft'[j] = draft[j]
          /\ where' = where /\ late' = late
      BY <1>4, <2>2
    <3>2. y \in Elements /\ g \in Configs
      BY <2>2, BetweenIs
    <3>3. Pending(j)' = Pending(j) /\ Between(j)' = Between(j)
      BY <3>1 DEF Pending, Between
    <3>4. OwnsBy(j) /\ SingleBy(j) /\ OthersBy(j) /\ DraftBy(j) /\ RemovedBy(j)
      BY DEF DocInv, ForRequest
    <3>5. OwnsBy(j)'
      BY <1>1, <3>1, <3>3, <3>4 DEF OwnsBy
    <3>6. RemovedBy(j)'
      BY <3>1, <3>3, <3>4 DEF RemovedBy
    <3>7. DraftBy(j)'
      BY <1>1, <3>1, <3>3, <3>4 DEF DraftBy, Whole
    <3>8. SingleBy(j)'
      <4> SUFFICES ASSUME Pending(j), op[j].kind = "create", y \notin apart', NEW p \in Levels,
                          NEW l \in Levels, where[y] = <<g, p>>, <<l, y>> \in json'[g]
                   PROVE  l = p
        BY <3>1, <3>3 DEF SingleBy
      <4>1. p \in Places /\ l \in Places
        BY DEF Places
      <4>2. CASE g # c
        BY <1>1, <1>3, <3>2, <3>4, <4>2 DEF SingleBy
      <4>3. CASE g = c /\ y = x
        BY <1>1, <1>3, <1>6, <4>1, <4>3 DEF Whole
      <4>4. CASE g = c /\ y # x
        <5>1. <<l, y>> \in json[g]
          BY <1>3, <1>5, <3>2, <4>1, <4>4 DEF Alike
        <5> QED
          BY <1>1, <3>4, <5>1 DEF SingleBy
      <4> QED
        BY <4>2, <4>3, <4>4
    <3>9. OthersBy(j)'
      <4>1. CASE g # c
        <5>1. json'[g] = json[g] /\ version'[g] = version[g]
          BY <1>3, <3>2, <4>1
        <5> HIDE DEF g
        <5> QED
          BY <3>1, <3>3, <3>4, <5>1 DEF OthersBy, Alike, g
      <4>2. CASE g = c
        <5>1. seen[j] \in Nat
          BY TypeParts DEF CountTypes
        <5>2. seen[j] <= version[g] => seen'[j] <= version'[g] /\ seen'[j] # version'[g]
          BY <1>3, <3>1, <4>2, <5>1
        <5> HIDE DEF g
        <5> QED
          BY <3>1, <3>3, <3>4, <5>2 DEF OthersBy, g
      <4> QED
        BY <4>1, <4>2
    <3> QED
      BY <3>5, <3>6, <3>7, <3>8, <3>9 DEF ForRequest
  <2> QED
    BY <2>1, <2>2
<1>11. ASSUME NEW b \in Builders
       PROVE  ReadsBy(b)'
  <2>1. at'[b] = at[b] /\ op'[b] = op[b] /\ look'[b] = look[b] /\ where' = where
    BY <1>4, SidesDiffer DEF Clients
  <2>2. Ids(Reconciled(look'[b])) = Ids(Reconciled(look[b]))
    BY <2>1
  <2>3. PICK g : g = op[b].config
    OBVIOUS
  <2>4. SUFFICES ASSUME at[b] = "saving", NEW e \in Elements \ apart', NEW l \in Levels,
                        where[e] = <<g, l>>
                 PROVE  \/ /\ e \in look[b].existing
                           /\ e \in look[b].protected => e \in Ids(Reconciled(look[b]))
                        \/ \E j \in Integrators : Wants(j, e, g)'
    BY <2>1, <2>2, <2>3 DEF ReadsBy, Wants, Pending
  <2>5. g # c
    BY <1>2, <2>3, <2>4, LockIs DEF c
  <2>6. \/ /\ e \in look[b].existing
           /\ e \in look[b].protected => e \in Ids(Reconciled(look[b]))
        \/ \E j \in Integrators : Wants(j, e, g)
    BY <1>1, <2>3, <2>4 DEF DocInv, ReadsBy
  <2> QED
    BY <1>7, <1>8, <2>5, <2>6
<1> QED
  BY <1>9, <1>10, <1>11 DEF DocInv

LEMMA DocWriteData ==
  ASSUME TypeInv, DocInv, NEW i \in Integrators, WriteData(i)
  PROVE  DocInv'
<1> DEFINE forced == tries[i] = MaxRetries
<1>1. /\ at[i] = "write" /\ op[i].kind \in {"create", "assign"} /\ lock[op[i].config] = {}
      /\ MayWrite(i, op[i].config) /\ Written(i, op[i].config, draft[i], forced) /\ Finished(i)
      /\ UNCHANGED <<there, look, where, late>>
  BY DEF WriteData, rows, builder
<1>2. forced \in BOOLEAN /\ Pending(i)
  BY <1>1 DEF Pending, Between
<1>3. forced \/ version[op[i].config] = seen[i]
  BY <1>1 DEF MayWrite
<1> HIDE DEF forced
<1> QED
  BY <1>1, <1>2, <1>3, DocWritten

LEMMA DocWriteRemoved ==
  ASSUME TypeInv, DocInv, NEW i \in Integrators, WriteRemoved(i)
  PROVE  DocInv'
<1> DEFINE c == op[i].config
<1>1. /\ at[i] = "write" /\ op[i].kind = "unmap" /\ lock[c] = {} /\ Finished(i)
      /\ UNCHANGED <<there, look, where, late>>
  BY DEF WriteRemoved, rows, builder
<1>2. CASE c \in there
  <2>1. Written(i, c, draft[i], TRUE)
    BY <1>2 DEF WriteRemoved
  <2> QED
    BY <1>1, <2>1, DocWritten
<1>3. CASE c \notin there
  <2>1. UNCHANGED <<json, version, apart>>
    BY <1>3 DEF WriteRemoved, doc
  <2>2. KeepsWants(i)
    BY <1>1, WantsNothing DEF Pending
  <2>3. \A j \in Integrators : j # i /\ at[j] = "write" => late'[j] = late[j]
    BY <1>1
  <2> QED
    BY <1>1, <2>1, <2>2, <2>3, FinishedIs, DocIdle
<1> QED
  BY <1>2, <1>3

LEMMA DocDeleteConfig ==
  ASSUME TypeInv, DocInv, NEW c \in Configs, DeleteConfig(c)
  PROVE  DocInv'
<1> DEFINE gone == {e \in Elements : where[e] \in {c} \X Places}
<1>1. /\ there' = there \ {c}
      /\ where' = [e \in Elements |-> IF e \in gone THEN Nowhere ELSE where[e]]
      /\ json' = [json EXCEPT ![c] = {}] /\ version' = [version EXCEPT ![c] = 0]
      /\ late' = [y \in Clients |-> IF Drafting(y, c) THEN Elements ELSE late[y]]
      /\ UNCHANGED <<integrator, builder, at, op, apart>>
  BY DEF DeleteConfig
<1>2. json \in [Configs -> SUBSET (Places \X (1..used))] /\ version \in [Configs -> Nat]
  BY TypeParts DEF DocTypes
<1>3. \A e \in Elements : where'[e] = where[e] \/ where'[e] = Nowhere
  BY <1>1
<1>4. \A d, p : \A e \in Elements : where'[e] = <<d, p>> => where[e] = <<d, p>>
  BY <1>3, PairIsSomewhere
<1>5. \A e \in Elements, p \in Places : where'[e] # <<c, p>>
  <2>1. ASSUME NEW e \in Elements, NEW p \in Places, where'[e] = <<c, p>>
        PROVE  FALSE
    <3>1. where[e] = <<c, p>>
      BY <1>4, <2>1
    <3>2. e \in gone
      BY <3>1
    <3>3. where'[e] = Nowhere
      BY <1>1, <3>2
    <3> QED
      BY <2>1, <3>3, PairIsSomewhere
  <2> QED
    BY <2>1
<1> HIDE DEF gone
<1>6. /\ at' = at /\ op' = op /\ look' = look /\ seen' = seen /\ draft' = draft /\ apart' = apart
      /\ \A d \in Configs : d # c => json'[d] = json[d] /\ version'[d] = version[d]
  BY <1>1, <1>2 DEF integrator, builder
<1>7. \A i \in Integrators : /\ Pending(i)' = Pending(i) /\ Between(i)' = Between(i)
                             /\ \A e, d : Wants(i, e, d)' = Wants(i, e, d)
  BY <1>6 DEF Wants, Pending, Between
<1>8. InStep'
  <2>1. ASSUME NEW e \in Elements \ apart, NEW d \in Configs, NEW p \in Places, where'[e] = <<d, p>>
        PROVE  Whole(json'[d], e, p) \/ \E i \in Integrators : Wants(i, e, d)
    <3>1. d # c /\ where[e] = <<d, p>>
      BY <1>4, <1>5, <2>1
    <3>2. json'[d] = json[d]
      BY <1>6, <3>1
    <3> QED
      BY <2>1, <3>1, <3>2 DEF DocInv, InStep
  <2> QED
    BY <1>6, <1>7, <2>1 DEF InStep, Whole
<1>9. ASSUME NEW i \in Integrators
      PROVE  ForRequest(i)'
  <2> SUFFICES ASSUME Between(i)
               PROVE  ForRequest(i)'
    BY <1>7, NothingHeldThen
  <2> DEFINE g == op[i].config
  <2>1. OwnsBy(i) /\ SingleBy(i) /\ OthersBy(i) /\ DraftBy(i) /\ RemovedBy(i)
    BY DEF DocInv, ForRequest
  <2>2. op[i].element \in Elements /\ g \in Configs
    BY BetweenIs
  <2>3. OwnsBy(i)'
    BY <1>4, <1>6, <1>7, <2>1, <2>2 DEF OwnsBy
  <2>4. DraftBy(i)'
    BY <1>4, <1>6, <1>7, <2>1, <2>2 DEF DraftBy, Whole
  <2>5. RemovedBy(i)'
    BY <1>3, <1>6, <1>7, <2>1, <2>2 DEF RemovedBy
  <2>6. SingleBy(i)'
    <3>1. Levels \subseteq Places
      BY DEF Places
    <3>2. g # c => json'[g] = json[g]
      BY <1>6, <2>2
    <3>3. \A p \in Levels : where'[op[i].element] = <<g, p>> =>
              g # c /\ where[op[i].element] = <<g, p>>
      BY <1>4, <1>5, <2>2, <3>1
    <3> QED
      BY <1>6, <1>7, <2>1, <3>2, <3>3 DEF SingleBy
  <2>7. OthersBy(i)'
    <3>1. CASE g = c
      <4>1. at[i] = "write" => Elements \subseteq late'[i]
        BY <1>1, <3>1 DEF Drafting, Clients
      <4> QED
        BY <1>6, <4>1 DEF OthersBy
    <3>2. CASE g # c
      <4>1. json'[g] = json[g] /\ version'[g] = version[g]
        BY <1>6, <2>2, <3>2
      <4>2. late'[i] = late[i]
        BY <1>1, <3>2 DEF Drafting, Clients
      <4> HIDE DEF g
      <4> QED
        BY <1>6, <1>7, <2>1, <4>1, <4>2 DEF OthersBy, Alike, g
    <3> QED
      BY <3>1, <3>2
  <2> QED
    BY <2>3, <2>4, <2>5, <2>6, <2>7 DEF ForRequest
<1>10. ASSUME NEW b \in Builders
       PROVE  ReadsBy(b)'
  <2>1. ReadsBy(b)
    BY DEF DocInv
  <2> QED
    BY <1>4, <1>6, <1>7, <2>1 DEF ReadsBy, Reconciled, Ids
<1> QED
  BY <1>8, <1>9, <1>10 DEF DocInv

\* A row is written, new or moved to where it is wanted: the request goes on
\* to the document, and who else has the element for that plan sets it apart.
RowPlaced(i, e, c, p) ==
  /\ at[i] = "place" /\ at' = [at EXCEPT ![i] = "read"]
  /\ op'[i].kind \in {"create", "assign"} /\ op'[i].config = c /\ op'[i].place = p
  /\ op'[i].element = e /\ \A x \in Clients : x # i => op'[x] = op[x]
  /\ where' = [where EXCEPT ![e] = <<c, p>>]
  /\ UNCHANGED <<there, json, version, seen, draft, look>>
  /\ \A j \in Integrators : at[j] = "write" => late'[j] = late[j]
  /\ apart \ {e} \subseteq apart'
  /\ \A j \in Integrators : Between(j) /\ op[j].element = e =>
         where[e] # Nowhere /\ (op[j].config = c => e \in apart')
  /\ op'[i].kind = "create" => \A l \in Levels : <<l, e>> \notin json[c]

LEMMA DocRow ==
  ASSUME TypeInv, DocInv, NEW i \in Integrators, NEW e \in Elements, NEW c \in Configs,
         NEW p \in Places, RowPlaced(i, e, c, p)
  PROVE  DocInv'
<1> USE DEF RowPlaced
<1>1. at'[i] = "read" /\ \A x \in Clients : x # i => at'[x] = at[x] /\ op'[x] = op[x]
  BY TypeParts DEF ClientTypes, Clients
<1>2. Wants(i, e, c)' /\ Pending(i)' /\ ~Pending(i)
  BY <1>1 DEF Wants, Pending, Between
<1>3. \A j \in Integrators : j # i => at'[j] = at[j] /\ op'[j] = op[j]
  BY <1>1 DEF Clients
<1>4. where'[e] = <<c, p>> /\ \A f \in Elements : f # e => where'[f] = where[f]
  BY TypeParts DEF RowTypes
<1>5. \A j \in Integrators : \A f, d : Wants(j, f, d) => Wants(j, f, d)'
  BY <1>2, <1>3 DEF Wants, Pending, Between
<1>6. \A f \in Elements \ apart' : f # e => f \notin apart
  OBVIOUS
<1>7. InStep'
  <2>1. ASSUME NEW f \in Elements \ apart', NEW d \in Configs, NEW q \in Places, where'[f] = <<d, q>>
        PROVE  Whole(json'[d], f, q) \/ \E j \in Integrators : Wants(j, f, d)'
    <3>1. CASE f = e
      <4>1. d = c
        BY <1>4, <2>1, <3>1
      <4> QED
        BY <1>2, <3>1, <4>1
    <3>2. CASE f # e
      <4>1. where[f] = <<d, q>> /\ f \notin apart /\ json' = json
        BY <1>4, <1>6, <2>1, <3>2
      <4> QED
        BY <1>5, <2>1, <4>1 DEF DocInv, InStep
    <3> QED
      BY <3>1, <3>2
  <2> QED
    BY <2>1 DEF InStep, Whole
<1>8. ForRequest(i)'
  <2>1. OwnsBy(i)'
    BY <1>4 DEF OwnsBy
  <2>2. SingleBy(i)'
    BY DEF SingleBy
  <2>3. RemovedBy(i)'
    BY DEF RemovedBy
  <2>4. OthersBy(i)' /\ DraftBy(i)'
    BY <1>1 DEF OthersBy, DraftBy
  <2> QED
    BY <2>1, <2>2, <2>3, <2>4 DEF ForRequest
<1>9. ASSUME NEW j \in Integrators, j # i
      PROVE  ForRequest(j)'
  <2>1. /\ at'[j] = at[j] /\ op'[j] = op[j] /\ seen' = seen /\ draft' = draft
        /\ at[j] = "write" => late'[j] = late[j]
        /\ UNCHANGED <<there, json, version>>
    BY <1>3, <1>9
  <2>2. Between(j)' = Between(j) /\ Pending(j)' = Pending(j)
    BY <2>1 DEF Between, Pending
  <2>3. SUFFICES ASSUME Between(j)
                 PROVE  ForRequest(j)'
    BY <2>2, NothingHeldThen
  <2>4. OwnsBy(j) /\ SingleBy(j) /\ OthersBy(j) /\ DraftBy(j) /\ RemovedBy(j)
    BY DEF DocInv, ForRequest
  <2>5. op[j].element \in Elements
    BY <2>3, BetweenIs
  <2>6. OthersBy(j)'
    BY <2>1, <2>2, <2>4 DEF OthersBy, Alike
  <2>7. op[j].element \notin apart' =>
            \/ \A q : where'[op[j].element] # <<op[j].config, q>>
            \/ where'[op[j].element] = where[op[j].element] /\ op[j].element \notin apart
    <3>1. CASE op[j].element = e
      <4>1. op[j].element \notin apart' => op[j].config # c
        BY <2>3, <3>1
      <4> QED
        BY <1>4, <3>1, <4>1
    <3>2. CASE op[j].element # e
      BY <1>4, <1>6, <2>5, <3>2
    <3> QED
      BY <3>1, <3>2
  <2>8. OwnsBy(j)'
    BY <2>1, <2>2, <2>4, <2>7 DEF OwnsBy
  <2>9. SingleBy(j)'
    BY <2>1, <2>2, <2>4, <2>7 DEF SingleBy
  <2>10. DraftBy(j)'
    BY <2>1, <2>2, <2>4, <2>7 DEF DraftBy, Whole
  <2>11. RemovedBy(j)'
    BY <1>4, <2>1, <2>2, <2>3, <2>4, <2>5 DEF RemovedBy
  <2> QED
    BY <2>6, <2>8, <2>9, <2>10, <2>11 DEF ForRequest
<1>10. ASSUME NEW b \in Builders
       PROVE  ReadsBy(b)'
  <2>1. at'[b] = at[b] /\ op'[b] = op[b] /\ look'[b] = look[b]
    BY <1>1, SidesDiffer DEF Clients
  <2>2. Ids(Reconciled(look'[b])) = Ids(Reconciled(look[b]))
    BY <2>1
  <2>3. PICK g : g = op[b].config
    OBVIOUS
  <2>4. SUFFICES ASSUME at[b] = "saving", NEW f \in Elements \ apart', NEW l \in Levels,
                        where'[f] = <<g, l>>
                 PROVE  \/ /\ f \in look[b].existing
                           /\ f \in look[b].protected => f \in Ids(Reconciled(look[b]))
                        \/ \E j \in Integrators : Wants(j, f, g)'
    BY <2>1, <2>2, <2>3 DEF ReadsBy, Wants, Pending
  <2>5. CASE f = e
    <3>1. g = c
      BY <1>4, <2>4, <2>5
    <3> QED
      BY <1>2, <2>5, <3>1
  <2>6. CASE f # e
    <3>1. where[f] = <<g, l>> /\ f \notin apart
      BY <1>4, <1>6, <2>4, <2>6
    <3>2. \/ /\ f \in look[b].existing
             /\ f \in look[b].protected => f \in Ids(Reconciled(look[b]))
          \/ \E j \in Integrators : Wants(j, f, g)
      BY <2>3, <2>4, <3>1 DEF DocInv, ReadsBy
    <3> QED
      BY <1>5, <3>2
  <2> QED
    BY <2>5, <2>6
<1> QED
  BY <1>7, <1>8, <1>9, <1>10 DEF DocInv

LEMMA DocMakeElement ==
  ASSUME TypeInv, DocInv, NEW i \in Integrators, MakeElement(i)
  PROVE  DocInv'
<1> DEFINE e == used + 1
           c == op[i].config
           p == op[i].place
<1>1. /\ at[i] = "place" /\ op[i].kind = "create" /\ used < MaxElements
      /\ where' = [where EXCEPT ![e] = <<c, p>>] /\ op' = [op EXCEPT ![i].element = e]
      /\ at' = [at EXCEPT ![i] = "read"]
      /\ UNCHANGED <<there, json, version, seen, draft, look, late, apart>>
  BY DEF MakeElement, Goto, doc, integrator, builder, history
<1>2. c \in Configs /\ p \in Places
  BY <1>1, DraftKept DEF AskedWith
<1>3. used \in Nat /\ e \in Elements
  BY <1>1, TypeParts, BoundsAre DEF Elements
<1>4. op \in [Clients -> Request] /\ i \in Clients
  BY TypeParts DEF ClientTypes, Clients
<1>5. /\ op'[i].kind = "create" /\ op'[i].config = c /\ op'[i].place = p /\ op'[i].element = e
      /\ \A x \in Clients : x # i => op'[x] = op[x]
  BY <1>1, <1>4 DEF Request
<1>6. \A j \in Integrators : Between(j) => op[j].element # e
  <2>1. ASSUME NEW j \in Integrators, Between(j)
        PROVE  op[j].element # e
    <3>1. op[j].element \in Nat /\ op[j].element <= used
      BY <2>1, BetweenIs DEF Elements
    <3> QED
      BY <1>3, <3>1
  <2> QED
    BY <2>1
<1>7. \A l \in Levels : <<l, e>> \notin json[c]
  <2>1. json[c] \subseteq Places \X (1..used)
    BY <1>2, TypeParts DEF DocTypes
  <2>2. e \notin 1..used
    BY <1>3
  <2> QED
    BY <2>1, <2>2
<1>8. PICK f \in Elements, d \in Configs, q \in Places : f = e /\ d = c /\ q = p
  BY <1>2, <1>3
<1> HIDE DEF e, c, p
<1>9. RowPlaced(i, f, d, q)
  BY <1>1, <1>5, <1>6, <1>7, <1>8 DEF RowPlaced
<1> QED
  BY <1>9, DocRow

LEMMA DocMoveElement ==
  ASSUME TypeInv, DocInv, NEW i \in Integrators, MoveElement(i)
  PROVE  DocInv'
<1>1. at[i] = "place" /\ op[i].kind = "assign"
  BY DEF MoveElement
<1>2. /\ op[i].config \in Configs /\ op[i].place \in Places
      /\ op[i].element \in 1..used /\ used \in 0..MaxElements
  BY <1>1, DraftKept, TypeParts DEF AskedWith
<1>3. op[i].element \in Elements
  BY <1>2, BoundsAre DEF Elements
<1>4. PICK e \in Elements, c \in Configs, p \in Places :
          e = op[i].element /\ c = op[i].config /\ p = op[i].place
  BY <1>2, <1>3
<1>5. /\ where[e] # Nowhere /\ where' = [where EXCEPT ![e] = <<c, p>>] /\ late' = Late(op[i].element)
      /\ apart' = IF Contended(i) THEN apart \union {e} ELSE apart \ {e}
      /\ at' = [at EXCEPT ![i] = "read"] /\ op' = op
      /\ UNCHANGED <<there, json, version, seen, draft, look>>
  BY <1>4 DEF MoveElement, Goto, doc, integrator, builder
<1>6. \A j \in Integrators : at[j] = "write" => late'[j] = late[j]
  BY <1>5 DEF Late, Clients
<1>7. apart \ {e} \subseteq apart'
  BY <1>5
<1>8. ASSUME NEW j \in Integrators, Between(j), op[j].element = e, op[j].config = c
      PROVE  e \in apart'
  <2>1. j # i
    BY <1>1, <1>8 DEF Between
  <2>2. Contended(i)
    BY <1>4, <1>8, <2>1 DEF Contended
  <2> QED
    BY <1>5, <2>2
<1>9. /\ op'[i].kind = "assign" /\ op'[i].config = c /\ op'[i].place = p /\ op'[i].element = e
      /\ \A x \in Clients : x # i => op'[x] = op[x]
  BY <1>1, <1>4, <1>5
<1>10. \A j \in Integrators : Between(j) /\ op[j].element = e =>
           where[e] # Nowhere /\ (op[j].config = c => e \in apart')
  BY <1>5, <1>8
<1>11. /\ at' = [at EXCEPT ![i] = "read"] /\ where' = [where EXCEPT ![e] = <<c, p>>]
       /\ UNCHANGED <<there, json, version, seen, draft, look>>
  BY <1>5
<1>12. RowPlaced(i, e, c, p)
  BY <1>1, <1>6, <1>7, <1>9, <1>10, <1>11 DEF RowPlaced
<1> QED
  BY <1>12, DocRow

Busy == {op[i].element : i \in {j \in Integrators : Between(j)}}

\* What a save stores and sets apart, and what its document shows.
SaveStored(s, c, lk, placed, u) ==
  /\ s.json = Stored(lk, placed) /\ placed \subseteq Reconcilable \X (1..u)
  /\ apart' = (apart \ (Ids(placed) \ Busy))
                   \union {e \in Busy \intersect Elements : s.where[e] # where[e]}
                   \union Split(placed)
                   \union (Ids({x \in json[c] \ s.json : x[1] \in Zones}) \ Ids(placed))

SaveShows(s, c, placed) ==
  /\ \A x \in s.json : x[1] \in Levels => x \in placed
  /\ \A f \in Ids(placed) \ apart' : Whole(s.json, f, PlaceOf(f, placed))
  /\ \A f : f \notin apart' /\ f \notin Ids(placed) => f \notin apart
  /\ \A f, p : f \notin apart' /\ f \notin Ids(placed) /\ p \in Zones
                   /\ <<p, f>> \in json[c] => <<p, f>> \in s.json
  /\ \A i \in Integrators : Between(i) /\ op[i].element \in Elements \ apart' =>
         op[i].element \notin apart /\ s.where[op[i].element] = where[op[i].element]

LEMMA SavedShows ==
  ASSUME NEW s, NEW c, NEW lk, NEW placed, NEW u, SaveStored(s, c, lk, placed, u)
  PROVE  SaveShows(s, c, placed)
<1> USE DEF SaveStored
<1> DEFINE left == Ids({x \in json[c] \ s.json : x[1] \in Zones}) \ Ids(placed)
<1>1. apart' = (apart \ (Ids(placed) \ Busy))
                   \union {e \in Busy \intersect Elements : s.where[e] # where[e]}
                   \union Split(placed) \union left
  OBVIOUS
<1>2. \A x \in s.json : x[1] \in Levels => x \in placed
  <2>1. "merch" \notin Levels
    BY PlacesAre
  <2> QED
    BY <2>1 DEF Stored, Reconciled
<1>3. ASSUME NEW f \in Ids(placed), f \notin apart'
      PROVE  Whole(s.json, f, PlaceOf(f, placed))
  <2> DEFINE p == PlaceOf(f, placed)
  <2>1. <<p, f>> \in placed
    BY PlaceOfIs
  <2>2. <<p, f>> \in s.json
    BY <2>1 DEF Stored
  <2> HIDE DEF p
  <2>3. ASSUME p \in Levels, NEW l \in Levels, <<l, f>> \in s.json
        PROVE  l = p
    <3>1. <<l, f>> \in placed
      BY <1>2, <2>3
    <3>2. f \notin Split(placed)
      BY <1>1, <1>3
    <3> QED
      BY <1>3, <2>1, <2>3, <3>1, <3>2 DEF Split
  <2> QED
    BY <2>2, <2>3 DEF Whole, p
<1>4. ASSUME NEW f, NEW p \in Zones, f \notin apart', f \notin Ids(placed), <<p, f>> \in json[c],
             <<p, f>> \notin s.json
      PROVE  FALSE
  <2>1. <<p, f>> \in {x \in json[c] \ s.json : x[1] \in Zones}
    BY <1>4
  <2>2. <<p, f>>[2] \in left
    BY <1>4, <2>1 DEF Ids
  <2> HIDE DEF left
  <2> QED
    BY <1>1, <1>4, <2>2
<1>5. ASSUME NEW i \in Integrators, Between(i), op[i].element \in Elements \ apart'
      PROVE  op[i].element \notin apart /\ s.where[op[i].element] = where[op[i].element]
  <2>1. op[i].element \in Busy
    BY <1>5 DEF Busy
  <2> HIDE DEF left
  <2> QED
    BY <1>1, <1>5, <2>1
<1>6. \A f : f \notin apart' /\ f \notin Ids(placed) => f \notin apart
  <2> HIDE DEF left
  <2> QED
    BY <1>1
<1> QED
  BY <1>2, <1>3, <1>4, <1>5, <1>6 DEF SaveShows

\* A save: what it reconciled is in the document it leaves, the rows it did
\* not meet it deletes, and what it took off a zone it sets apart.
LEMMA DocSaveCommit ==
  ASSUME TypeInv, DocInv, NEW b \in Builders, SaveCommit(b)
  PROVE  DocInv'
<1> DEFINE c == op[b].config
           lk == look[b]
           placed == Placed(Now(c), lk)
           s == Saved(Now(c), c, lk)
           pruned == Pruned(Now(c), c, lk, placed)
<1>1. /\ at[b] = "saving" /\ at' = [at EXCEPT ![b] = "idle"] /\ op' = [op EXCEPT ![b] = NoOp]
      /\ look' = [look EXCEPT ![b] = NoLook] /\ where' = s.where
      /\ late' = [y \in Clients |-> IF Drafting(y, c)
                                    THEN late[y] \union Differing(json[c], s.json)
                                    ELSE late[y]]
      /\ apart' = (apart \ (Ids(placed) \ Busy))
                      \union {e \in Busy \intersect Elements : s.where[e] # where[e]}
                      \union Split(placed)
                      \union (Ids({x \in json[c] \ s.json : x[1] \in Zones}) \ Ids(placed))
      /\ UNCHANGED <<version, seen, draft>>
  BY DEF SaveCommit, SaveEnds, SetApart, Busy, Goto, integrator
<1>2. /\ c \in Configs /\ SaneLook(lk, used)
      /\ placed \subseteq Reconcilable \X (1..used')
      /\ \A x \in Reconciled(lk) \ Created(lk) : x \in placed /\ where[x[2]] # Nowhere
      /\ \A x \in placed : x \in Reconciled(lk) \ Created(lk) \/ x[2] > used
      /\ \A e \in Elements : where'[e] = IF e \in Ids(placed) THEN <<c, PlaceOf(e, placed)>>
                                         ELSE IF e \in pruned THEN Nowhere
                                         ELSE where[e]
      /\ json' = [json EXCEPT ![c] = s.json] /\ s.json = Stored(lk, placed)
  BY CommitIs
<1>3. /\ ClientTypes /\ Alone /\ used \in Nat
      /\ json \in [Configs -> SUBSET (Places \X (1..used))]
  BY TypeParts DEF DocTypes
<1>4. \A x \in Reconciled(lk) : x[2] \in lk.existing => x \notin Created(lk)
  BY DEF Created
<1>5. \A e \in lk.existing : e \in lk.protected \/ e \in Ids(placed) \/ e \in pruned
  <2>1. lk.existing \subseteq Elements
    BY <1>2 DEF SaneLook, Reading
  <2> QED
    BY <2>1 DEF Pruned
<1> HIDE DEF placed, pruned, s
<1>6. /\ \A x \in s.json : x[1] \in Levels => x \in placed
      /\ \A f \in Ids(placed) \ apart' : Whole(s.json, f, PlaceOf(f, placed))
      /\ \A f : f \notin apart' /\ f \notin Ids(placed) => f \notin apart
      /\ \A f, p : f \notin apart' /\ f \notin Ids(placed) /\ p \in Zones
                       /\ <<p, f>> \in json[c] => <<p, f>> \in s.json
      /\ \A i \in Integrators : Between(i) /\ op[i].element \in Elements \ apart' =>
             op[i].element \notin apart /\ s.where[op[i].element] = where[op[i].element]
  <2>1. PICK n : n = used'
    OBVIOUS
  <2>2. PICK r, d, k, q : r = s /\ d = c /\ k = lk /\ q = placed
    OBVIOUS
  <2> HIDE DEF c, lk
  <2>3. SaveStored(r, d, k, q, n)
    BY <1>1, <1>2, <2>1, <2>2 DEF SaveStored
  <2>4. SaveShows(r, d, q)
    BY <2>3, SavedShows
  <2> QED
    BY <2>2, <2>4 DEF SaveShows
<1>7. \A e \in Elements : \A d, p : where'[e] = <<d, p>> /\ e \notin Ids(placed) =>
          where[e] = <<d, p>> /\ e \notin pruned
  BY <1>2, PairIsSomewhere
<1>8. \A e \in Elements : \A d, p : where'[e] = <<d, p>> /\ d # c =>
          where[e] = <<d, p>> /\ e \notin Ids(placed)
  <2>1. ASSUME NEW d, NEW p, NEW e \in Elements, where'[e] = <<d, p>>, d # c, e \in Ids(placed)
        PROVE  FALSE
    <3>1. <<c, PlaceOf(e, placed)>> = <<d, p>>
      BY <1>2, <2>1
    <3> QED
      BY <2>1, <3>1
  <2> QED
    BY <1>7, <2>1
<1>9. \A e \in Ids(placed) : \A p : e \in Elements /\ where'[e] = <<c, p>> => p = PlaceOf(e, placed)
  <2>1. ASSUME NEW e \in Ids(placed), NEW p, e \in Elements, where'[e] = <<c, p>>
        PROVE  p = PlaceOf(e, placed)
    <3>1. <<c, PlaceOf(e, placed)>> = <<c, p>>
      BY <1>2, <2>1
    <3> QED
      BY <3>1
  <2> QED
    BY <2>1
<1>10. \A i \in Integrators : Between(i) /\ where[op[i].element] = Nowhere =>
           where'[op[i].element] = Nowhere
  <2>1. ASSUME NEW i \in Integrators, Between(i), where[op[i].element] = Nowhere,
               op[i].element \in Ids(placed)
        PROVE  FALSE
    <3>1. PICK x \in placed : x[2] = op[i].element
      BY <2>1 DEF Ids
    <3>2. ~ (x[2] > used)
      BY <1>3, <2>1, <3>1, BetweenIs DEF Elements
    <3> QED
      BY <1>2, <2>1, <3>1, <3>2
  <2> QED
    BY <1>2, <2>1, BetweenIs
<1>11. /\ \A i \in Integrators : at'[i] = at[i] /\ op'[i] = op[i] /\ seen'[i] = seen[i] /\ draft'[i] = draft[i]
       /\ \A a \in Builders : a # b => at'[a] = at[a] /\ op'[a] = op[a] /\ look'[a] = look[a]
       /\ at'[b] = "idle"
  BY <1>1, <1>3, SidesDiffer DEF ClientTypes, Clients
<1>12. \A i \in Integrators : /\ \A e, d : Wants(i, e, d)' = Wants(i, e, d)
                              /\ Pending(i)' = Pending(i) /\ Between(i)' = Between(i)
  BY <1>11 DEF Wants, Pending, Between
<1>13. json'[c] = s.json /\ \A d \in Configs : d # c => json'[d] = json[d]
  BY <1>2, <1>3
<1>14. InStep'
  <2>1. ASSUME NEW e \in Elements \ apart', NEW d \in Configs, NEW p \in Places, where'[e] = <<d, p>>
        PROVE  Whole(json'[d], e, p) \/ \E i \in Integrators : Wants(i, e, d)
    <3>1. CASE d # c
      <4>1. where[e] = <<d, p>> /\ e \notin apart
        BY <1>6, <1>8, <2>1, <3>1
      <4> QED
        BY <1>13, <2>1, <3>1, <4>1 DEF DocInv, InStep
    <3>2. CASE d = c /\ e \in Ids(placed)
      <4>1. p = PlaceOf(e, placed)
        BY <1>9, <2>1, <3>2
      <4> QED
        BY <1>6, <1>13, <2>1, <3>2, <4>1
    <3>3. CASE d = c /\ e \notin Ids(placed)
      <4>1. where[e] = <<c, p>> /\ e \notin pruned /\ e \notin apart
        BY <1>6, <1>7, <2>1, <3>3
      <4>2. SUFFICES ASSUME \A i \in Integrators : ~Wants(i, e, c)
                     PROVE  Whole(json'[d], e, p)
        BY <3>3
      <4>3. CASE p \in Levels
        <5>1. e \in lk.existing /\ (e \in lk.protected => e \in Ids(Reconciled(lk)))
          <6>1. ReadsBy(b)
            BY DEF DocInv
          <6> QED
            BY <1>1, <2>1, <4>1, <4>2, <4>3, <6>1 DEF ReadsBy
        <5>2. e \in Ids(Reconciled(lk))
          BY <1>5, <3>3, <4>1, <5>1
        <5>3. PICK x \in Reconciled(lk) : x[2] = e
          BY <5>2 DEF Ids
        <5>4. x \in placed
          BY <1>2, <1>4, <5>1, <5>3
        <5>5. e \in Ids(placed)
          BY <5>3, <5>4 DEF Ids
        <5> QED
          BY <3>3, <5>5
      <4>4. CASE p \in Zones
        <5>1. <<p, e>> \in json[c]
          BY <1>2, <2>1, <4>1, <4>2 DEF DocInv, InStep, Whole
        <5>2. <<p, e>> \in s.json
          BY <1>6, <2>1, <3>3, <4>4, <5>1
        <5>3. p \notin Levels
          BY <4>4, PlacesAre DEF Zones
        <5> QED
          BY <1>13, <3>3, <5>2, <5>3 DEF Whole
      <4> QED
        BY <4>3, <4>4 DEF Places
    <3> QED
      BY <3>1, <3>2, <3>3
  <2> QED
    BY <1>12, <2>1 DEF InStep, Whole
<1>15. ASSUME NEW i \in Integrators
       PROVE  ForRequest(i)'
  <2> SUFFICES ASSUME Between(i)
               PROVE  ForRequest(i)'
    BY <1>12, NothingHeldThen
  <2> DEFINE g == op[i].config
             y == op[i].element
  <2>1. OwnsBy(i) /\ SingleBy(i) /\ OthersBy(i) /\ DraftBy(i) /\ RemovedBy(i)
    BY DEF DocInv, ForRequest
  <2>2. y \in Elements /\ g \in Configs
    BY BetweenIs
  <2>3. at'[i] = at[i] /\ op'[i] = op[i] /\ seen'[i] = seen[i] /\ draft'[i] = draft[i]
        /\ Pending(i)' = Pending(i) /\ Between(i)' = Between(i)
    BY <1>11, <1>12
  <2>4. y \notin apart' => y \notin apart /\ where'[y] = where[y]
    BY <1>1, <1>6, <2>2
  <2>5. RemovedBy(i)'
    BY <1>10, <2>1, <2>3 DEF RemovedBy
  <2>6. OwnsBy(i)'
    BY <2>1, <2>3, <2>4 DEF OwnsBy
  <2>7. DraftBy(i)'
    BY <2>1, <2>3, <2>4 DEF DraftBy, Whole
  <2>8. SingleBy(i)'
    <3>1. SUFFICES ASSUME Pending(i), op[i].kind = "create", y \notin apart', NEW p \in Levels,
                          NEW l \in Levels, where'[y] = <<g, p>>, <<l, y>> \in json'[g]
                   PROVE  l = p
      BY <2>3 DEF SingleBy
    <3>2. CASE g # c
      <4>1. json'[g] = json[g]
        BY <1>13, <2>2, <3>2
      <4> QED
        BY <2>1, <2>4, <3>1, <4>1 DEF SingleBy
    <3>3. CASE g = c
      <4>1. <<l, y>> \in placed /\ <<l, y>> \in s.json
        BY <1>6, <1>13, <3>1, <3>3
      <4>2. <<l, y>>[2] \in Ids(placed)
        BY <4>1 DEF Ids
      <4>3. p = PlaceOf(y, placed) /\ Whole(s.json, y, p)
        BY <1>6, <1>9, <2>2, <3>1, <3>3, <4>2
      <4> HIDE DEF y
      <4> QED
        BY <3>1, <4>1, <4>3 DEF Whole
    <3> QED
      BY <3>2, <3>3
  <2>9. OthersBy(i)'
    <3>1. version' = version /\ i \in Clients
      BY <1>1 DEF Clients
    <3>2. CASE g # c
      <4>1. json'[g] = json[g]
        BY <1>13, <2>2, <3>2
      <4>2. late'[i] = late[i]
        BY <1>1, <3>1, <3>2 DEF Drafting
      <4> HIDE DEF g
      <4> QED
        BY <2>1, <2>3, <3>1, <4>1, <4>2 DEF OthersBy, Alike, g
    <3>3. CASE g = c
      <4>1. at[i] = "write" => late'[i] = late[i] \union Differing(json[c], s.json)
        BY <1>1, <3>1, <3>3 DEF Drafting
      <4>2. json'[g] = s.json /\ json[g] = json[c]
        BY <1>13, <3>3
      <4>3. \A f : f \notin Differing(json[c], s.json) => Alike(f, json[g], json'[g])
        BY <4>2, NotDiffering
      <4> HIDE DEF g
      <4> QED
        BY <2>1, <2>3, <3>1, <4>1, <4>3 DEF OthersBy, Alike, g
    <3> QED
      BY <3>2, <3>3
  <2> QED
    BY <2>5, <2>6, <2>7, <2>8, <2>9 DEF ForRequest
<1>16. ASSUME NEW a \in Builders
       PROVE  ReadsBy(a)'
  <2>1. CASE a = b
    BY <1>11, <2>1 DEF ReadsBy
  <2>2. CASE a # b
    <3>1. at'[a] = at[a] /\ op'[a] = op[a] /\ look'[a] = look[a] /\ ReadsBy(a)
      BY <1>11, <2>2 DEF DocInv
    <3>2. Ids(Reconciled(look'[a])) = Ids(Reconciled(look[a]))
      BY <3>1
    <3>3. PICK g : g = op[a].config
      OBVIOUS
    <3>4. SUFFICES ASSUME at[a] = "saving", NEW e \in Elements \ apart', NEW l \in Levels,
                          where'[e] = <<g, l>>
                   PROVE  \/ /\ e \in look[a].existing
                             /\ e \in look[a].protected => e \in Ids(Reconciled(look[a]))
                          \/ \E i \in Integrators : Wants(i, e, g)
      BY <1>12, <3>1, <3>2, <3>3 DEF ReadsBy
    <3>5. g # c
      BY <1>1, <1>3, <2>2, <3>3, <3>4 DEF Alone
    <3>6. where[e] = <<g, l>> /\ e \notin apart
      BY <1>6, <1>8, <3>4, <3>5
    <3> QED
      BY <3>1, <3>3, <3>4, <3>6 DEF ReadsBy
  <2> QED
    BY <2>1, <2>2
<1> QED
  BY <1>14, <1>15, <1>16 DEF DocInv

LEMMA DocInit == ASSUME PlanInit PROVE DocInv
<1>1. /\ where = [e \in Elements |-> Nowhere] /\ at = [x \in Clients |-> "idle"]
  BY DEF PlanInit
<1>2. InStep
  BY <1>1, PairIsSomewhere DEF InStep
<1>3. \A i \in Integrators : ForRequest(i)
  BY <1>1, NothingHeld DEF Between, Clients
<1> QED
  BY <1>1, <1>2, <1>3 DEF DocInv, ReadsBy, Clients

LEMMA DocStutter == ASSUME TypeInv, DocInv, UNCHANGED planVars PROVE DocInv'
<1>1. UNCHANGED <<there, json, version, apart, look, where, late, at, op, seen, draft>>
  BY DEF planVars, rows, doc, integrator, builder, history
<1>2. \A i \in Integrators : SameRequest(i)
  BY <1>1 DEF SameRequest
<1>3. UNCHANGED <<there, json, version>> /\ apart \subseteq apart'
      /\ (\A f \in Elements : where'[f] = where[f] \/ where'[f] = Nowhere)
      /\ \A b \in Builders : at'[b] = at[b] /\ op'[b] = op[b] /\ look'[b] = look[b]
  BY <1>1
<1> QED
  BY <1>2, <1>3, DocCalm

LEMMA DocStep ==
  ASSUME TypeInv, DocInv, [PlanNext]_planVars
  PROVE  DocInv'
<1>1. ASSUME NEW b \in Builders, Build(b)
      PROVE  DocInv'
  BY <1>1, DocCopies, DocSaveBegin, DocSaveCommit DEF Build
<1>2. ASSUME NEW i \in Integrators, Integrate(i)
      PROVE  DocInv'
  <2>1. CASE \/ \E c \in Configs, e \in Elements :
                    \/ \E l \in Levels : AssignElementsToFloorLevel(i, c, l, e)
                    \/ AssignElementsToForecourt(i, c, e)
                    \/ AssignElementsToExternalMerch(i, c, e)
             \/ \E c \in Configs : QuickCreate(i, c)
    <3>1. \E kind, c, p, e : Target(i, kind, c, p, e)
      BY <2>1 DEF AssignElementsToFloorLevel, AssignElementsToForecourt,
         AssignElementsToExternalMerch, QuickCreate
    <3> QED
      BY <3>1, DocAsking
  <2>2. CASE MakeFloor(i) \/ DeleteMapping(i) \/ CountMappings(i)
             \/ \E w \in Locations : Unmap(i, w)
    BY <2>2, DocAsking
  <2>3. CASE MakeElement(i) \/ MoveElement(i) \/ ReadData(i) \/ WriteData(i) \/ Retry(i) \/ BreakOff(i)
    BY <2>3, DocMakeElement, DocMoveElement, DocReadData, DocWriteData, DocRetry, DocBreakOff
  <2>4. CASE RemoveElement(i) \/ ReadToRemove(i) \/ WriteRemoved(i)
    BY <2>4, DocRemoveElement, DocReadToRemove, DocWriteRemoved
  <2> QED
    BY <1>2, <2>1, <2>2, <2>3, <2>4 DEF Integrate
<1>3. ASSUME NEW w \in Locations, NEW e \in Elements, MapLocation(w, e) \/ MapUnchecked(w, e)
      PROVE  DocInv'
  BY <1>3, DocSetMapping DEF MapLocation, MapUnchecked
<1> QED
  BY <1>1, <1>2, <1>3, DocDeleteConfig, DocStutter DEF PlanNext

LEMMA DocAlways == PlanSpec => [](TypeInv /\ DocInv)
<1>1. PlanInit => TypeInv /\ DocInv
  BY TypeInvInit, DocInit
<1>2. TypeInv /\ DocInv /\ [PlanNext]_planVars => (TypeInv /\ DocInv)'
  BY TypeInvStep, DocStep
<1> QED
  BY <1>1, <1>2, PTL DEF PlanSpec

\* When no request is under way, the document of a plan shows every row at its
\* place, and no row on two floors, but the elements set apart.
THEOREM JsonIsFollowed == PlanSpec => []JsonFollowsRows
<1>1. TypeInv /\ DocInv => JsonFollowsRows
  <2> SUFFICES ASSUME TypeInv, DocInv, Quiet, NEW e \in Elements \ apart, where[e] # Nowhere
               PROVE  Shown(e, where[e][1], where[e][2])
    BY DEF JsonFollowsRows
  <2>1. PICK c \in Configs, p \in Places : where[e] = <<c, p>>
    BY TypeParts DEF RowTypes
  <2>2. c = where[e][1] /\ p = where[e][2]
    BY <2>1
  <2>3. \A i \in Integrators : ~Wants(i, e, c)
    BY DEF Quiet, Wants, Pending, Between
  <2>4. Whole(json[c], e, p)
    BY <2>1, <2>3 DEF DocInv, InStep
  <2> QED
    BY <2>2, <2>4 DEF Shown, Whole
<1> QED
  BY <1>1, DocAlways, PTL

-----------------------------------------------------------------------------
(* A save of a plan as it was loaded. *)

Relook(s, c) == Look(s, c, View(s, c))

LEMMA RelookIs ==
  ASSUME NEW s, NEW c, Database(s)
  PROVE  /\ Relook(s, c).plan = View(s, c)
         /\ Relook(s, c).existing = RowsRead(s, c)
         /\ \A e \in Elements : e \in RowsRead(s, c) /\ Mapped(e) => e \in Relook(s, c).protected
         /\ \A e \in Elements : e \in Relook(s, c).protected => Mapped(e)
         /\ Cut(Relook(s, c)) = {}
         /\ SaneLook(Relook(s, c), s.used)
<1> DEFINE v == View(s, c)
<1>1. /\ v \in Plan /\ WellFormed(v, s.used)
      /\ \A e \in Elements, l \in Levels : s.where[e] = <<c, l>> => <<l, e>> \in v.on
      /\ v.levels = {l \in Levels : <<c, l>> \in s.floors \/ \E x \in v.on : x[1] = l}
  BY ViewIs
<1> HIDE DEF v
<1>2. \A e \in Elements, l \in Levels :
          s.where[e] = <<c, l>> => e \in Ids({y \in v.on : y[1] # "merch"})
  <2>1. ASSUME NEW e \in Elements, NEW l \in Levels, s.where[e] = <<c, l>>
        PROVE  e \in Ids({y \in v.on : y[1] # "merch"})
    <3>1. <<l, e>> \in {y \in v.on : y[1] # "merch"} /\ <<l, e>>[2] = e
      BY <1>1, <2>1, PlacesAre
    <3> QED
      BY <3>1 DEF Ids
  <2> QED
    BY <2>1
<1>3. Look(s, c, v).plan = v
  BY <1>1, <1>2, LookIs
<1>4. Look(s, c, v).existing = RowsRead(s, c) /\ SaneLook(Look(s, c, v), s.used)
  BY <1>1, LookIs DEF SaneLook
<1>5. \A e \in Elements : e \in Look(s, c, v).protected <=> e \in Look(s, c, v).existing /\ Mapped(e)
  BY <1>1, LookIs
<1>6. \A l \in Look(s, c, v).levels : l \in Levels /\ <<c, l>> \in s.floors
  BY <1>1, LookIs
<1>7. Cut(Look(s, c, v)) = {}
  <2>1. Look(s, c, v).levels \subseteq v.levels
    BY <1>1, <1>6
  <2> QED
    BY <1>3, <2>1 DEF Cut
<1> QED
  BY <1>3, <1>4, <1>5, <1>7 DEF Relook, v

\* What the first save leaves.
LEMMA SavedOnce ==
  ASSUME NEW s, NEW c \in Configs, Database(s),
         s.used + Cardinality(Created(Relook(s, c))) <= MaxElements
  PROVE  LET lk == Relook(s, c)
             placed == Placed(s, lk)
             once == Saved(s, c, lk)
         IN  /\ Database(once)
             /\ placed \subseteq Reconcilable \X (1..once.used)
             /\ \A e \in Ids(placed) : e \in Elements => once.where[e] = <<c, PlaceOf(e, placed)>>
             /\ \A x \in once.json : x \in placed \/ x[1] = "merch"
             /\ placed \subseteq once.json
             /\ \A l \in Levels : <<c, l>> \in once.floors => l \in View(s, c).levels
             /\ \A l \in View(s, c).levels : <<c, l>> \in once.floors
             /\ \A x \in placed : x[1] \in Levels => x[1] \in View(s, c).levels
             /\ \A e \in Elements \ Ids(placed), p \in Places : once.where[e] = <<c, p>> =>
                    p \notin Levels /\ (p = "forecourt" => Mapped(e))
             /\ once = [floors |-> once.floors, where |-> once.where, used |-> once.used,
                        json |-> once.json]
             /\ once.used \in Nat /\ once.used <= MaxElements
<1> DEFINE lk == Relook(s, c)
           placed == Placed(s, lk)
           once == Saved(s, c, lk)
           pruned == Pruned(s, c, lk, placed)
           v == View(s, c)
           n == Cardinality(Created(lk))
<1>1. /\ lk.plan = v /\ lk.existing = RowsRead(s, c) /\ Cut(lk) = {} /\ SaneLook(lk, s.used)
      /\ \A e \in Elements : e \in lk.protected => Mapped(e)
  BY RelookIs
<1>2. s.used \in Nat
  BY BoundsAre DEF Database
<1>3. once = [floors |-> once.floors, where |-> once.where, used |-> once.used, json |-> once.json]
  BY DEF Saved
<1> HIDE DEF lk
<1>4. /\ once.used = s.used + n /\ once.json = Stored(lk, placed)
      /\ once.floors = (s.floors \ ({c} \X Cut(lk))) \union ({c} \X lk.plan.levels)
      /\ \A e \in Elements : once.where[e] = IF e \in Ids(placed) THEN <<c, PlaceOf(e, placed)>>
                                             ELSE IF e \in pruned THEN Nowhere
                                             ELSE s.where[e]
      /\ Database(once)
  BY <1>1, SavedIs DEF lk
<1>5. /\ placed \subseteq Reconcilable \X (1 .. s.used + n)
      /\ \A x \in placed : x[1] \in Levels => x[1] \in lk.plan.levels
      /\ \A x \in Reconciled(lk) \ Created(lk) : x \in placed
  BY <1>1, <1>2, PlacedIs
<1>6. \A x \in Stored(lk, placed) : x \in placed \/ (x \in lk.plan.on /\ x[1] = "merch")
  BY <1>1, <1>2, StoredIs
<1>7. placed \subseteq Stored(lk, placed)
  BY DEF Stored
<1>8. \A e \in Elements, l \in Levels : s.where[e] = <<c, l>> => <<l, e>> \in v.on
  BY ViewIs
<1>9. \A e \in Elements : e \in lk.existing => e \in pruned \/ e \in Ids(placed) \/ e \in lk.protected
  BY DEF Pruned
<1> HIDE DEF placed, once, pruned, v
<1>10. ASSUME NEW e \in Elements \ Ids(placed), NEW p \in Places, once.where[e] = <<c, p>>
       PROVE  p \notin Levels /\ (p = "forecourt" => Mapped(e))
  <2>1. e \notin pruned /\ s.where[e] = <<c, p>>
    BY <1>4, <1>10, PairIsSomewhere
  <2>2. p \in Levels \/ p = "forecourt" => e \in lk.existing
    <3>1. p \in Levels \/ p = "forecourt" => s.where[e] \in {c} \X (Levels \union {"forecourt"})
      BY <2>1
    <3> QED
      BY <1>1, <3>1 DEF RowsRead
  <2>3. p = "forecourt" => Mapped(e)
    BY <1>1, <1>9, <2>1, <2>2
  <2>4. ASSUME p \in Levels
        PROVE  FALSE
    <3>1. <<p, e>> \in lk.plan.on /\ <<p, e>>[1] # "merch" /\ <<p, e>>[2] = e
      BY <1>1, <1>8, <2>1, <2>4, PlacesAre
    <3>2. <<p, e>> \in Reconciled(lk)
      BY <3>1 DEF Reconciled
    <3>3. <<p, e>> \notin Created(lk)
      BY <2>2, <2>4, <3>1 DEF Created
    <3>4. <<p, e>> \in placed
      BY <1>5, <3>2, <3>3
    <3> QED
      BY <1>10, <3>1, <3>4 DEF Ids
  <2> QED
    BY <2>3, <2>4
<1>11. once.floors = s.floors \union ({c} \X v.levels)
  <2>1. {c} \X Cut(lk) = {}
    BY <1>1
  <2> QED
    BY <1>1, <1>4, <2>1
<1>12. \A l \in Levels : <<c, l>> \in once.floors => l \in v.levels
  <2>1. v.levels = {l \in Levels : <<c, l>> \in s.floors \/ \E x \in v.on : x[1] = l}
    BY ViewIs DEF v
  <2> QED
    BY <1>11, <2>1
<1>13. once.used \in Nat /\ once.used <= MaxElements
  BY <1>4, BoundsAre DEF Database
<1>14. \A l \in v.levels : <<c, l>> \in once.floors
  BY <1>11
<1>15. \A e \in Ids(placed) : e \in Elements => once.where[e] = <<c, PlaceOf(e, placed)>>
  BY <1>4
<1> QED
  BY <1>1, <1>3, <1>4, <1>5, <1>6, <1>7, <1>10, <1>12, <1>13, <1>14, <1>15 DEF lk, placed, once, v
\* The second load shows what the first save stored, and the second save
\* finds every id.
LEMMA SavedTwice ==
  ASSUME NEW s, NEW c \in Configs, Database(s),
         s.used + Cardinality(Created(Relook(s, c))) <= MaxElements
  PROVE  LET once == Saved(s, c, Relook(s, c))
         IN  /\ once.used + Cardinality(Created(Relook(once, c))) <= MaxElements
             /\ Saved(once, c, Relook(once, c)) = once
<1> DEFINE first == Relook(s, c)
           placed == Placed(s, first)
           once == Saved(s, c, first)
           v == View(s, c)
<1>1. /\ Database(once)
      /\ placed \subseteq Reconcilable \X (1..once.used)
      /\ \A e \in Ids(placed) : e \in Elements => once.where[e] = <<c, PlaceOf(e, placed)>>
      /\ \A x \in once.json : x \in placed \/ x[1] = "merch"
      /\ placed \subseteq once.json
      /\ \A l \in Levels : <<c, l>> \in once.floors => l \in v.levels
      /\ \A l \in v.levels : <<c, l>> \in once.floors
      /\ \A x \in placed : x[1] \in Levels => x[1] \in v.levels
      /\ \A e \in Elements \ Ids(placed), p \in Places : once.where[e] = <<c, p>> =>
             p \notin Levels /\ (p = "forecourt" => Mapped(e))
      /\ once = [floors |-> once.floors, where |-> once.where, used |-> once.used,
                 json |-> once.json]
      /\ once.used \in Nat /\ once.used <= MaxElements
  BY SavedOnce
<1>2. v.levels \subseteq Levels
  BY ViewIs DEF Plan
<1> HIDE DEF placed, once, v, first
<1> DEFINE lk == Relook(once, c)
           again == Saved(once, c, lk)
           w == View(once, c)
<1>3. /\ lk.plan = w /\ lk.existing = RowsRead(once, c)
      /\ \A e \in Elements : e \in RowsRead(once, c) /\ Mapped(e) => e \in lk.protected
      /\ Cut(lk) = {} /\ SaneLook(lk, once.used)
  BY <1>1, RelookIs
<1>4. /\ w.on \subseteq Places \X (1..once.used) /\ once.json \subseteq w.on
      /\ \A x \in w.on : x \in once.json \/ (x[1] \in Levels /\ once.where[x[2]] = <<c, x[1]>>)
      /\ w.levels = {l \in Levels : <<c, l>> \in once.floors \/ \E x \in w.on : x[1] = l}
  BY <1>1, ViewIs
<1>5. 1..once.used \subseteq Elements
  BY <1>1, BoundsAre DEF Elements
<1>6. again = [floors |-> (once.floors \ ({c} \X Cut(lk))) \union ({c} \X lk.plan.levels),
               where |-> [e \in Elements |->
                            IF e \in Ids(Placed(once, lk)) THEN <<c, PlaceOf(e, Placed(once, lk))>>
                            ELSE IF e \in Pruned(once, c, lk, Placed(once, lk)) THEN Nowhere
                            ELSE once.where[e]],
               used |-> once.used + Cardinality(Created(lk)),
               json |-> Stored(lk, Placed(once, lk))]
  BY DEF Saved
<1> HIDE DEF lk, again, w
<1>7. \A e \in Ids(placed) : PlaceOf(e, placed) \in Reconcilable /\ <<PlaceOf(e, placed), e>> \in placed
                             /\ e \in Elements
  <2>1. \A e \in Ids(placed) : e \in Elements
    BY <1>1, <1>5 DEF Ids
  <2> QED
    BY <1>1, <2>1, PlaceOfIs
<1>8. w.on = once.json
  <2>1. ASSUME NEW x \in w.on, x[1] \in Levels, once.where[x[2]] = <<c, x[1]>>
        PROVE  x \in once.json
    <3>1. x = <<x[1], x[2]>> /\ x[2] \in Elements /\ x[1] \in Places
      BY <1>4, <1>5
    <3>2. x[2] \in Ids(placed)
      BY <1>1, <2>1, <3>1
    <3>3. <<c, PlaceOf(x[2], placed)>> = <<c, x[1]>>
      BY <1>1, <2>1, <3>1, <3>2
    <3>4. PlaceOf(x[2], placed) = x[1]
      BY <3>3
    <3> QED
      BY <1>1, <1>7, <3>1, <3>2, <3>4
  <2> QED
    BY <1>4, <2>1
<1>9. w.levels = v.levels
  <2>1. ASSUME NEW l \in Levels, NEW x \in w.on, x[1] = l
        PROVE  l \in v.levels
    <3>1. x \in placed
      BY <1>1, <1>8, <2>1, PlacesAre
    <3> QED
      BY <1>1, <2>1, <3>1
  <2>2. \A l : l \in w.levels <=> l \in v.levels
    BY <1>1, <1>2, <1>4, <2>1
  <2> QED
    BY <2>2, <1>2, <1>4
<1>10. Reconciled(lk) = placed
  <2>1. \A x \in placed : x[1] # "merch"
    BY <1>1, PlacesAre DEF Reconcilable
  <2> QED
    BY <1>1, <1>3, <1>8, <2>1 DEF Reconciled
<1>11. Created(lk) = {}
  <2>1. ASSUME NEW x \in placed
        PROVE  x[2] \in lk.existing
    <3>1. x[2] \in Ids(placed)
      BY DEF Ids
    <3>2. x[2] \in Elements /\ once.where[x[2]] = <<c, PlaceOf(x[2], placed)>>
          /\ PlaceOf(x[2], placed) \in Reconcilable
      BY <1>1, <1>7, <3>1
    <3>3. once.where[x[2]] \in {c} \X (Levels \union {"forecourt"})
      BY <3>2 DEF Reconcilable
    <3> QED
      BY <1>3, <3>2, <3>3 DEF RowsRead
  <2> QED
    BY <1>10, <2>1 DEF Created
<1>12. Cardinality(Created(lk)) = 0
  BY <1>11, FS_EmptySet
<1>13. Placed(once, lk) = placed
  <2>1. Placed(once, lk) = {<<x[1], x[2]>> : x \in placed}
    BY <1>10, <1>11 DEF Placed
  <2>2. \A x \in placed : x = <<x[1], x[2]>>
    BY <1>1
  <2> QED
    BY <2>1, <2>2
<1>14. Stored(lk, placed) = once.json
  BY <1>1, <1>3, <1>8, <1>10 DEF Stored
<1>15. (once.floors \ ({c} \X Cut(lk))) \union ({c} \X lk.plan.levels) = once.floors
  <2>1. {c} \X Cut(lk) = {}
    BY <1>3
  <2>2. {c} \X lk.plan.levels \subseteq once.floors
    BY <1>1, <1>3, <1>9
  <2> QED
    BY <2>1, <2>2
<1>16. ASSUME NEW e \in Elements, e \notin Ids(placed)
       PROVE  e \in Pruned(once, c, lk, placed) => once.where[e] = Nowhere
  <2> SUFFICES ASSUME e \in Pruned(once, c, lk, placed)
               PROVE  FALSE
    OBVIOUS
  <2>1. e \in lk.existing /\ e \notin lk.protected
    BY <1>3 DEF Pruned
  <2>2. once.where[e] \in {c} \X (Levels \union {"forecourt"}) /\ ~Mapped(e)
    BY <1>3, <2>1 DEF RowsRead
  <2>3. PICK p \in Levels \union {"forecourt"} : once.where[e] = <<c, p>>
    BY <2>2
  <2> QED
    BY <1>1, <1>16, <2>2, <2>3, PlacesAre DEF Places
<1>17. [e \in Elements |-> IF e \in Ids(placed) THEN <<c, PlaceOf(e, placed)>>
                           ELSE IF e \in Pruned(once, c, lk, placed) THEN Nowhere
                           ELSE once.where[e]] = once.where
  <2>1. once.where \in [Elements -> (Configs \X Places) \union {Nowhere}]
    BY <1>1 DEF Database
  <2> QED
    BY <1>1, <1>16, <2>1
<1>18. once.used + Cardinality(Created(lk)) = once.used
  BY <1>1, <1>12
<1>19. again = once
  <2>1. again = [floors |-> once.floors, where |-> once.where, used |-> once.used,
                 json |-> once.json]
    BY <1>6, <1>13, <1>14, <1>15, <1>17, <1>18
  <2> QED
    BY <1>1, <2>1
<1> QED
  BY <1>1, <1>18, <1>19 DEF lk, again, once, first

\* Loading a plan and saving it as it is, twice, does no more than once: ids
\* given by the first save are the ones the second finds.
THEOREM SavesDoSettle == PlanSpec => []SaveSettles
<1>1. TypeInv => SaveSettles
  <2> SUFFICES ASSUME TypeInv, NEW c \in there, RoomFor(Now(c), c)
               PROVE  LET once == Resaved(Now(c), c) IN
                      RoomFor(once, c) /\ Resaved(once, c) = once
    BY DEF SaveSettles
  <2>1. c \in Configs /\ PlanTypeOK
    BY TypeParts DEF TypeInv, RowTypes
  <2>2. Database(Now(c))
    BY <2>1, NowIsDatabase
  <2> DEFINE s == Now(c)
             once == Saved(s, c, Relook(s, c))
  <2>3. Database(s) /\ s.used + Cardinality(Created(Relook(s, c))) <= MaxElements
    BY <2>2 DEF RoomFor, Relook
  <2> HIDE DEF s
  <2>4. once.used + Cardinality(Created(Relook(once, c))) <= MaxElements
        /\ Saved(once, c, Relook(once, c)) = once
    BY <2>1, <2>3, SavedTwice
  <2> QED
    BY <2>4 DEF RoomFor, Resaved, Relook, s
<1> QED
  BY <1>1, TypeInvAlways, PTL
=============================================================================
