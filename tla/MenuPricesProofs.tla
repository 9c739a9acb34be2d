-------------------------- MODULE MenuPricesProofs --------------------------
(***************************************************************************)
(* What is proved of MenuPrices for any items, products, spaces, prices    *)
(* and requests at once: mapped items are shown, every price is archived,  *)
(* and applying prices moves only those asked for.                         *)
(*                                                                         *)
(* Mapped items: a product is only left mapped to a deleted item by a pair *)
(* that slipped through.  The invariant (IInv) adds what a mapping in      *)
(* progress knows: the items it is about to map are there, or were removed *)
(* since it revived them.                                                  *)
(*                                                                         *)
(* Prices: the invariant (PricesInv) follows a price from the request      *)
(* through what it has read to the list of its writes.  A price that was   *)
(* read is archived, one that is to be written has its row before it or in *)
(* the same transaction, and the columns to write differ from those of the *)
(* table only as asked, unless somebody else has written them since.       *)
(***************************************************************************)
EXTENDS MenuPrices, FiniteSetTheorems, SequenceTheorems, TLAPS

Steps == {"idle", "mapped", "resolve", "write", "insert", "upsert", "attach", "purge"}

TypeInv ==
    /\ life \in [Items -> {"new", "there", "deleted"}]
    /\ mapping \in [Products -> Items \union {NoItem}]
    /\ at \in [Clients -> Steps]
    /\ req = [x \in Clients |-> req[x]]

Mapping(x) == at[x] \in {"insert", "upsert"}

\* What a request is about to map to an item.
InFlight ==
    \A x \in Clients : Mapping(x) =>
        /\ DOMAIN req[x].new \subseteq Products
        /\ \A p \in DOMAIN req[x].new :
               /\ req[x].new[p] \in Items
               /\ life[req[x].new[p]] = "deleted" => <<p, req[x].new[p]>> \in crossed

LeftBehind ==
    \A p \in Products : \A i \in Items :
        mapping[p] = i /\ life[i] = "deleted" =>
            \/ <<p, i>> \in crossed
            \/ \E x \in Clients : at[x] = "purge" /\ req[x].item = i

IInv == TypeInv /\ InFlight /\ LeftBehind

LEMMA ShownFollows == TypeInv /\ LeftBehind => MappedItemsAreShown
  BY DEF TypeInv, LeftBehind, MappedItemsAreShown, BeingRemoved, ProductsOf

LEMMA Initially == Init => IInv
  BY DEF Init, IInv, TypeInv, Steps, InFlight, LeftBehind, Mapping

\* A step that takes no part in mapping: a request moves between other steps.
LEMMA Elsewhere ==
  ASSUME IInv, NEW x \in Clients, NEW step \in Steps \ {"insert", "upsert", "purge"}, NEW r,
         at[x] # "purge",
         at' = [at EXCEPT ![x] = step], req' = [req EXCEPT ![x] = r],
         life' = life, mapping' = mapping, crossed' = crossed
  PROVE  IInv'
<1>1. TypeInv'
  BY DEF IInv, TypeInv, Steps
<1>2. InFlight'
  <2> SUFFICES ASSUME NEW y \in Clients, Mapping(y)'
               PROVE  y # x /\ req'[y] = req[y] /\ Mapping(y)
    BY DEF IInv, InFlight
  <2> QED
    BY DEF IInv, TypeInv, Mapping
<1>3. LeftBehind'
  <2> SUFFICES ASSUME NEW y \in Clients, at[y] = "purge"
               PROVE  at'[y] = "purge" /\ req'[y] = req[y]
    BY DEF IInv, LeftBehind
  <2> QED
    BY DEF IInv, TypeInv
<1> QED
  BY <1>1, <1>2, <1>3 DEF IInv

\* The variables the invariant reads do not change.
LEMMA Untouched ==
  ASSUME IInv, UNCHANGED <<life, mapping, at, req, crossed>>
  PROVE  IInv'
  BY DEF IInv, TypeInv, InFlight, LeftBehind, Mapping

LEMMA WriteOrEndElsewhere ==
  ASSUME IInv, NEW x \in Clients, NEW r, NEW writes, at[x] # "purge", WriteOrEnd(x, r, writes),
         life' = life, mapping' = mapping, crossed' = crossed
  PROVE  IInv'
  BY Elsewhere DEF WriteOrEnd, End, Goto, Steps

LEMMA BeginElsewhere ==
  ASSUME IInv, NEW x \in Clients, NEW step \in {"resolve", "mapped"}, NEW r, Begin(x, step, r),
         UNCHANGED <<items, outside, typed, crossed>>
  PROVE  IInv'
  BY Elsewhere DEF Begin, Goto, Steps, items, outside

LEMMA PricesKeepIInv ==
  ASSUME IInv, NEW x \in Clients,
         \/ \E i, p, key, shown : ApplyPrice(x, i, p, key, shown)
         \/ \E asked, key, shown : ApplyBulk(x, asked, key, shown)
         \/ \E only, over : Backfill(x, only, over)
         \/ ResolveOne(x) \/ ResolveAll(x) \/ ReadBackfill(x) \/ ResolveBackfill(x)
         \/ Write(x) \/ WriteFails(x)
  PROVE  IInv'
<1>1. ASSUME NEW i, NEW p, NEW key, NEW shown, ApplyPrice(x, i, p, key, shown)
      PROVE  IInv'
  <2>1. PICK r : Begin(x, "resolve", r) /\ UNCHANGED <<items, outside, typed, crossed>>
    BY <1>1, Zenon DEF ApplyPrice
  <2> QED
    BY <2>1, BeginElsewhere
<1>2. ASSUME NEW asked, NEW key, NEW shown, ApplyBulk(x, asked, key, shown)
      PROVE  IInv'
  <2>1. PICK r : Begin(x, "mapped", r) /\ UNCHANGED <<items, outside, typed, crossed>>
    BY <1>2, Zenon DEF ApplyBulk
  <2> QED
    BY <2>1, BeginElsewhere
<1>3. ASSUME NEW only, NEW over, Backfill(x, only, over)
      PROVE  IInv'
  <2>1. PICK r : Begin(x, "mapped", r) /\ UNCHANGED <<items, outside, typed, crossed>>
    BY <1>3, Zenon DEF Backfill
  <2> QED
    BY <2>1, BeginElsewhere
<1>4. CASE ResolveOne(x)
  <2> DEFINE found == Candidates(req[x].item, req[x].product)
             writes(p) == SetToSeq(Changes(req[x].seen, req[x].space, req[x].item,
                                           Inherited(p, req[x].space, req[x].shown)))
  <2>1. /\ at[x] = "resolve" /\ life' = life /\ mapping' = mapping /\ crossed' = crossed
        /\ IF found = {} THEN End(x) ELSE \E p \in found : WriteOrEnd(x, req[x], writes(p))
    BY <1>4 DEF ResolveOne, items, outside, ghosts
  <2> HIDE DEF found, writes
  <2>2. CASE End(x)
    BY <2>1, <2>2, Elsewhere DEF End, Steps
  <2>3. CASE \E p \in found : WriteOrEnd(x, req[x], writes(p))
    BY <2>1, <2>3, WriteOrEndElsewhere
  <2> QED
    BY <2>1, <2>2, <2>3
<1>5. CASE ResolveAll(x)
  BY <1>5, WriteOrEndElsewhere DEF ResolveAll, items, outside
<1>6. CASE ReadBackfill(x)
  BY <1>6, Elsewhere DEF ReadBackfill, Goto, Steps, items, outside
<1>7. CASE ResolveBackfill(x)
  BY <1>7, WriteOrEndElsewhere DEF ResolveBackfill, items, outside, ghosts
<1>8. CASE Write(x)
  BY <1>8, Elsewhere DEF Write, End, Goto, Steps, outside
<1>9. CASE WriteFails(x)
  BY <1>9, Elsewhere DEF WriteFails, End, Steps, items, outside, ghosts
<1> QED
  BY <1>1, <1>2, <1>3, <1>4, <1>5, <1>6, <1>7, <1>8, <1>9

\* A request that starts mapping has revived all its items.
LEMMA MapProductsKeepsIInv ==
  ASSUME IInv, NEW x \in Clients, NEW S \in SUBSET Products, NEW new \in [S -> Items], NEW s,
         MapProducts(x, new, s)
  PROVE  IInv'
<1> USE DEF IInv
<1>1. /\ at[x] = "idle"
      /\ at' = [at EXCEPT ![x] = "insert"]
      /\ req' = [req EXCEPT ![x] = [do |-> "map", new |-> new, done |-> {}, space |-> s]]
      /\ life' = Revived(Range(new))
      /\ crossed' = {pair \in crossed : pair[2] \notin Range(new)}
      /\ mapping' = mapping
  BY DEF MapProducts, Goto, outside
<1>2. \A i \in Items : /\ life'[i] = "deleted" => life[i] = "deleted" /\ i \notin Range(new)
                       /\ i \in Range(new) => life'[i] # "deleted"
  BY <1>1 DEF Revived, TypeInv
<1>3. TypeInv'
  BY <1>1 DEF TypeInv, Steps, Revived
<1>4. InFlight'
  <2> SUFFICES ASSUME NEW y \in Clients, Mapping(y)'
               PROVE  /\ DOMAIN req'[y].new \subseteq Products
                      /\ \A p \in DOMAIN req'[y].new :
                             /\ req'[y].new[p] \in Items
                             /\ life'[req'[y].new[p]] = "deleted" => <<p, req'[y].new[p]>> \in crossed'
    BY DEF InFlight
  <2>1. CASE y = x
    <3>1. req'[y].new = new
      BY <1>1, <2>1 DEF TypeInv
    <3>2. \A p \in S : new[p] \in Range(new)
      BY DEF Range
    <3> QED
      BY <3>1, <3>2, <1>2
  <2>2. CASE y # x
    <3>1. req'[y] = req[y] /\ Mapping(y)
      BY <1>1, <2>2 DEF TypeInv, Mapping
    <3> QED
      BY <3>1, <1>1, <1>2 DEF InFlight
  <2> QED
    BY <2>1, <2>2
<1>5. LeftBehind'
  <2> SUFFICES ASSUME NEW p \in Products, NEW i \in Items, mapping'[p] = i, life'[i] = "deleted"
               PROVE  \/ <<p, i>> \in crossed'
                      \/ \E y \in Clients : at'[y] = "purge" /\ req'[y].item = i
    BY DEF LeftBehind
  <2>1. \/ <<p, i>> \in crossed
        \/ \E y \in Clients : at[y] = "purge" /\ req[y].item = i
    BY <1>1, <1>2 DEF LeftBehind
  <2>2. ASSUME NEW y \in Clients, at[y] = "purge"
        PROVE  at'[y] = "purge" /\ req'[y] = req[y]
    BY <1>1, <2>2 DEF TypeInv
  <2> QED
    BY <1>1, <1>2, <2>1, <2>2
<1> QED
  BY <1>3, <1>4, <1>5

\* A single mapping revives nothing, and says so of an item that is deleted.
LEMMA MapProductKeepsIInv ==
  ASSUME IInv, NEW x \in Clients, NEW p \in Products, NEW i \in Items, NEW s,
         MapProduct(x, p, i, s)
  PROVE  IInv'
<1> USE DEF IInv
<1> DEFINE new == [q \in {p} |-> i]
           r == [do |-> "map", new |-> new, done |-> {}, space |-> s]
<1>1. /\ at[x] = "idle"
      /\ at' = [at EXCEPT ![x] = "upsert"]
      /\ req' = [req EXCEPT ![x] = r]
      /\ crossed \subseteq crossed' /\ (life[i] = "deleted" => <<p, i>> \in crossed')
      /\ life' = life /\ mapping' = mapping
  BY DEF MapProduct, Goto, items, outside
<1>2. r.new = new /\ DOMAIN new = {p} /\ new[p] = i
  OBVIOUS
<1> HIDE DEF r, new
<1>3. TypeInv'
  BY <1>1 DEF TypeInv, Steps
<1>4. InFlight'
  <2> SUFFICES ASSUME NEW y \in Clients, Mapping(y)'
               PROVE  /\ DOMAIN req'[y].new \subseteq Products
                      /\ \A q \in DOMAIN req'[y].new :
                             /\ req'[y].new[q] \in Items
                             /\ life[req'[y].new[q]] = "deleted" => <<q, req'[y].new[q]>> \in crossed'
    BY <1>1 DEF InFlight
  <2>1. CASE y = x
    <3>1. req'[y] = r
      BY <1>1, <2>1 DEF TypeInv
    <3> QED
      BY <3>1, <1>1, <1>2
  <2>2. CASE y # x
    <3>1. req'[y] = req[y] /\ Mapping(y)
      BY <1>1, <2>2 DEF TypeInv, Mapping
    <3> QED
      BY <3>1, <1>1 DEF InFlight
  <2> QED
    BY <2>1, <2>2
<1>5. LeftBehind'
  <2>1. ASSUME NEW y \in Clients, at[y] = "purge"
        PROVE  at'[y] = "purge" /\ req'[y] = req[y]
    BY <1>1, <2>1 DEF TypeInv
  <2> QED
    BY <1>1, <2>1 DEF LeftBehind
<1> QED
  BY <1>3, <1>4, <1>5

\* When request x writes new to the mappings of products and leaves the rest.
LEMMA MappedStep ==
  ASSUME IInv, NEW x \in Clients, Mapping(x),
         NEW step \in Steps \ {"purge"}, NEW r,
         at' = [at EXCEPT ![x] = step], req' = [req EXCEPT ![x] = r],
         step \in {"insert", "upsert"} =>
             /\ DOMAIN r.new \subseteq DOMAIN req[x].new
             /\ \A p \in DOMAIN r.new : r.new[p] = req[x].new[p],
         mapping' \in [Products -> Items \union {NoItem}],
         \A p \in Products : \/ mapping'[p] = mapping[p]
                             \/ p \in DOMAIN req[x].new /\ mapping'[p] = req[x].new[p],
         life' = life, crossed' = crossed
  PROVE  IInv'
<1> USE DEF IInv
<1>1. TypeInv'
  BY DEF TypeInv, Steps
<1>2. InFlight'
  <2> SUFFICES ASSUME NEW y \in Clients, Mapping(y)'
               PROVE  /\ DOMAIN req'[y].new \subseteq Products
                      /\ \A p \in DOMAIN req'[y].new :
                             /\ req'[y].new[p] \in Items
                             /\ life[req'[y].new[p]] = "deleted" => <<p, req'[y].new[p]>> \in crossed
    BY DEF InFlight
  <2>1. CASE y = x
    <3>1. req'[y] = r /\ step \in {"insert", "upsert"}
      BY <2>1 DEF TypeInv, Mapping
    <3> QED
      BY <3>1 DEF InFlight
  <2>2. CASE y # x
    <3>1. req'[y] = req[y] /\ Mapping(y)
      BY <2>2 DEF TypeInv, Mapping
    <3> QED
      BY <3>1 DEF InFlight
  <2> QED
    BY <2>1, <2>2
<1>3. LeftBehind'
  <2> SUFFICES ASSUME NEW p \in Products, NEW i \in Items, mapping'[p] = i, life[i] = "deleted"
               PROVE  \/ <<p, i>> \in crossed
                      \/ \E y \in Clients : at'[y] = "purge" /\ req'[y].item = i
    BY DEF LeftBehind
  <2>1. CASE mapping[p] = i
    <3>1. ASSUME NEW y \in Clients, at[y] = "purge"
          PROVE  at'[y] = "purge" /\ req'[y] = req[y]
      BY <3>1 DEF TypeInv, Mapping
    <3> QED
      BY <2>1, <3>1 DEF LeftBehind
  <2>2. CASE p \in DOMAIN req[x].new /\ mapping'[p] = req[x].new[p]
    BY <2>2 DEF InFlight
  <2> QED
    BY <2>1, <2>2
<1> QED
  BY <1>1, <1>2, <1>3

LEMMA InsertsKeepIInv ==
  ASSUME IInv, NEW x \in Clients,
         Insert(x) \/ InsertFails(x) \/ \E p \in Products : Upsert(x, p)
  PROVE  IInv'
<1>1. CASE Insert(x)
  <2>1. /\ Mapping(x) /\ life' = life /\ crossed' = crossed
        /\ mapping' = [p \in Products |-> IF p \in DOMAIN req[x].new THEN req[x].new[p] ELSE mapping[p]]
    BY <1>1 DEF Insert, Mapping, items, ghosts
  <2>2. PICK step \in {"idle", "attach"} :
          \E r : at' = [at EXCEPT ![x] = step] /\ req' = [req EXCEPT ![x] = r]
    BY <1>1 DEF Insert, AfterMapping, End, Goto
  <2>3. PICK r : at' = [at EXCEPT ![x] = step] /\ req' = [req EXCEPT ![x] = r]
    BY <2>2
  <2>4. mapping' \in [Products -> Items \union {NoItem}]
    BY <2>1 DEF IInv, TypeInv, InFlight
  <2> QED
    BY <2>1, <2>3, <2>4, MappedStep DEF Steps
<1>2. CASE InsertFails(x)
  BY <1>2, MappedStep DEF InsertFails, Goto, Mapping, Steps, items, outside, ghosts, IInv, TypeInv
<1>3. ASSUME NEW p \in Products, Upsert(x, p)
      PROVE  IInv'
  <2> DEFINE rest == [q \in DOMAIN req[x].new \ {p} |-> req[x].new[q]]
  <2>1. /\ Mapping(x) /\ life' = life /\ crossed' = crossed
        /\ p \in DOMAIN req[x].new
        /\ \/ mapping' = mapping
           \/ mapping' = [mapping EXCEPT ![p] = req[x].new[p]]
    BY <1>3 DEF Upsert, Mapping, items, ghosts
  <2>2. mapping' \in [Products -> Items \union {NoItem}]
    BY <2>1 DEF IInv, TypeInv, InFlight
  <2>3. \A q \in Products : \/ mapping'[q] = mapping[q]
                            \/ q \in DOMAIN req[x].new /\ mapping'[q] = req[x].new[q]
    BY <2>1 DEF IInv, TypeInv
  <2>4. \/ \E step \in {"idle", "attach"} :
           \E r : at' = [at EXCEPT ![x] = step] /\ req' = [req EXCEPT ![x] = r]
        \/ \E done : Goto(x, "upsert", [do |-> "map", new |-> rest, done |-> done, space |-> req[x].space])
    BY <1>3 DEF Upsert, AfterMapping, End, Goto
  <2>5. ASSUME NEW step \in {"idle", "attach"},
               NEW r, at' = [at EXCEPT ![x] = step] /\ req' = [req EXCEPT ![x] = r]
        PROVE  IInv'
    BY <2>1, <2>2, <2>3, <2>5, MappedStep DEF Steps
  <2>6. ASSUME NEW done,
               Goto(x, "upsert", [do |-> "map", new |-> rest, done |-> done, space |-> req[x].space])
        PROVE  IInv'
    <3> DEFINE r == [do |-> "map", new |-> rest, done |-> done, space |-> req[x].space]
    <3>1. at' = [at EXCEPT ![x] = "upsert"] /\ req' = [req EXCEPT ![x] = r]
      BY <2>6 DEF Goto
    <3>2. r.new = rest
      OBVIOUS
    <3>3. DOMAIN rest \subseteq DOMAIN req[x].new /\ \A q \in DOMAIN rest : rest[q] = req[x].new[q]
      OBVIOUS
    <3> HIDE DEF r, rest
    <3> QED
      BY <2>1, <2>2, <2>3, <3>1, <3>2, <3>3, MappedStep DEF Steps
  <2> QED
    BY <2>4, <2>5, <2>6
<1> QED
  BY <1>1, <1>2, <1>3

LEMMA RemoveKeepsIInv ==
  ASSUME IInv, NEW x \in Clients, NEW i \in Items, RemoveItem(x, i)
  PROVE  IInv'
<1> USE DEF IInv
<1>1. /\ at[x] = "idle"
      /\ at' = [at EXCEPT ![x] = "purge"]
      /\ req' = [req EXCEPT ![x] = [do |-> "remove", item |-> i]]
      /\ life' = [life EXCEPT ![i] = "deleted"]
      /\ crossed' = crossed \union (BeingMapped(i) \X {i})
      /\ mapping' = mapping
  BY DEF RemoveItem, Goto, outside
<1>2. TypeInv'
  BY <1>1 DEF TypeInv, Steps
<1>3. InFlight'
  <2> SUFFICES ASSUME NEW y \in Clients, Mapping(y)'
               PROVE  /\ DOMAIN req'[y].new \subseteq Products
                      /\ \A p \in DOMAIN req'[y].new :
                             /\ req'[y].new[p] \in Items
                             /\ life'[req'[y].new[p]] = "deleted" => <<p, req'[y].new[p]>> \in crossed'
    BY DEF InFlight
  <2>1. y # x /\ req'[y] = req[y] /\ Mapping(y)
    BY <1>1 DEF TypeInv, Mapping
  <2>2. \A p \in DOMAIN req[y].new : req[y].new[p] = i => p \in BeingMapped(i)
    BY <2>1 DEF BeingMapped, Mapping, InFlight
  <2> QED
    BY <1>1, <2>1, <2>2 DEF InFlight, TypeInv
<1>4. LeftBehind'
  <2> SUFFICES ASSUME NEW p \in Products, NEW j \in Items, mapping'[p] = j, life'[j] = "deleted"
               PROVE  \/ <<p, j>> \in crossed'
                      \/ \E y \in Clients : at'[y] = "purge" /\ req'[y].item = j
    BY DEF LeftBehind
  <2>1. CASE j = i
    BY <1>1, <2>1 DEF TypeInv
  <2>2. CASE j # i
    <3>1. life[j] = "deleted"
      BY <1>1, <2>2 DEF TypeInv
    <3>2. ASSUME NEW y \in Clients, at[y] = "purge"
          PROVE  at'[y] = "purge" /\ req'[y] = req[y]
      BY <1>1, <3>2 DEF TypeInv
    <3> QED
      BY <1>1, <3>1, <3>2 DEF LeftBehind
  <2> QED
    BY <2>1, <2>2
<1> QED
  BY <1>2, <1>3, <1>4

LEMMA PurgeKeepsIInv ==
  ASSUME IInv, NEW x \in Clients, Purge(x) \/ PurgeFails(x)
  PROVE  IInv'
<1> USE DEF IInv
<1>1. /\ at[x] = "purge" /\ life' = life
      /\ at' = [at EXCEPT ![x] = "idle"]
      /\ req' = [req EXCEPT ![x] = NoRequest]
      /\ crossed \subseteq crossed'
      /\ \/ mapping' = [p \in Products |-> IF mapping[p] = req[x].item THEN NoItem ELSE mapping[p]]
         \/ mapping' = mapping /\ ProductsOf(req[x].item) \X {req[x].item} \subseteq crossed'
  BY DEF Purge, PurgeFails, End, items, outside, ghosts
<1>2. TypeInv'
  BY <1>1 DEF TypeInv, Steps
<1>3. InFlight'
  <2> SUFFICES ASSUME NEW y \in Clients, Mapping(y)'
               PROVE  y # x /\ req'[y] = req[y] /\ Mapping(y)
    BY <1>1 DEF InFlight
  <2> QED
    BY <1>1 DEF TypeInv, Mapping
<1>4. LeftBehind'
  <2> SUFFICES ASSUME NEW p \in Products, NEW j \in Items, mapping'[p] = j, life[j] = "deleted"
               PROVE  \/ <<p, j>> \in crossed'
                      \/ \E y \in Clients : at'[y] = "purge" /\ req'[y].item = j
    BY <1>1 DEF LeftBehind
  <2>1. mapping[p] = j /\ (j = req[x].item => <<p, j>> \in crossed')
    BY <1>1, MenuPricesAssumption DEF TypeInv, ProductsOf
  <2>2. ASSUME NEW y \in Clients, at[y] = "purge", y # x
        PROVE  at'[y] = "purge" /\ req'[y] = req[y]
    BY <1>1, <2>2 DEF TypeInv
  <2> QED
    BY <1>1, <2>1, <2>2 DEF LeftBehind
<1> QED
  BY <1>2, <1>3, <1>4

\* No request takes part in what users and the imports do.
LEMMA OthersKeepIInv ==
  ASSUME IInv,
         \/ \E i \in Items, sheet \in Sheets : CreateItem(i, sheet) \/ UpdateItem(i, sheet)
         \/ \E p \in Products : UnmapProduct(p)
         \/ \E p \in Products, l \in Everywhere, k \in Paid : Sell(p, l, k)
         \/ \E l \in Locations, s \in Spaces \union {AllSpaces} : MapLocation(l, s)
  PROVE  IInv'
<1>1. ASSUME NEW i \in Items, NEW sheet \in Sheets, CreateItem(i, sheet)
      PROVE  IInv'
  BY <1>1 DEF CreateItem, Typed, outside, IInv, TypeInv, InFlight, LeftBehind, Mapping
<1>2. ASSUME NEW i \in Items, NEW sheet \in Sheets, UpdateItem(i, sheet)
      PROVE  IInv'
  BY <1>2, Untouched DEF UpdateItem, Typed, outside
<1>3. ASSUME NEW p \in Products, UnmapProduct(p)
      PROVE  IInv'
  BY <1>3, MenuPricesAssumption
     DEF UnmapProduct, items, ghosts, IInv, TypeInv, InFlight, LeftBehind, Mapping
<1>4. ASSUME NEW p \in Products, NEW l \in Everywhere, NEW k \in Paid, Sell(p, l, k)
      PROVE  IInv'
  BY <1>4, Untouched DEF Sell, items, ghosts
<1>5. ASSUME NEW l \in Locations, NEW s \in Spaces \union {AllSpaces}, MapLocation(l, s)
      PROVE  IInv'
  BY <1>5, Untouched DEF MapLocation, items, ghosts
<1> QED
  BY <1>1, <1>2, <1>3, <1>4, <1>5

LEMMA NextKeepsIInv == IInv /\ [Next]_vars => IInv'
<1> SUFFICES ASSUME IInv, [Next]_vars
             PROVE  IInv'
  OBVIOUS
<1>1. ASSUME NEW x \in Clients, Ask(x)
      PROVE  IInv'
  <2>1. ASSUME NEW S \in SUBSET Products \ {{}}, NEW new \in [S -> Items],
               NEW s \in Spaces \union {AllSpaces}, MapProducts(x, new, s)
        PROVE  IInv'
    BY <2>1, MapProductsKeepsIInv
  <2>2. ASSUME NEW i \in Items, RemoveItem(x, i)
        PROVE  IInv'
    BY <2>2, RemoveKeepsIInv
  <2>3. ASSUME NEW p \in Products, NEW i \in Items, NEW s \in Spaces \union {AllSpaces},
               MapProduct(x, p, i, s)
        PROVE  IInv'
    BY <2>3, MapProductKeepsIInv
  <2> QED
    BY <1>1, <2>1, <2>2, <2>3, PricesKeepIInv DEF Ask
<1>2. ASSUME NEW x \in Clients, Work(x)
      PROVE  IInv'
  <2>1. CASE Attach(x)
    BY <2>1, Elsewhere DEF Attach, End, Steps, outside, ghosts
  <2> QED
    BY <1>2, <2>1, PricesKeepIInv, InsertsKeepIInv, PurgeKeepsIInv DEF Work
<1>3. CASE UNCHANGED vars
  BY <1>3, Untouched DEF vars, items, outside, ghosts
<1> QED
  BY <1>1, <1>2, <1>3, OthersKeepIInv DEF Next

\* A product is only mapped to a deleted item while the item is being removed,
\* or by a pair that a removal crossed or broke off at, or that was mapped
\* alone to an item already deleted; for any number of items, products, spaces
\* and concurrent requests.
\* MenuItemsService.remove, MappingsService.bulkProductMappings,
\* WeezeventController.mapProductToMenuItem
THEOREM MappedAreShown == Spec => []MappedItemsAreShown
<1>1. Init => IInv
  BY Initially
<1>2. IInv /\ [Next]_vars => IInv'
  BY NextKeepsIInv
<1>3. IInv => MappedItemsAreShown
  BY ShownFollows DEF IInv
<1> QED
  BY <1>1, <1>2, <1>3, PTL DEF Spec

(***************************************************************************)
(* The operators of the model: a set as a sequence, the last of some       *)
(* writes, the prices that are found and what is written for one of them.  *)
(***************************************************************************)
LEMMA SetToSeqIs ==
  ASSUME NEW S, IsFiniteSet(S)
  PROVE  /\ SetToSeq(S) \in Seq(S) /\ Len(SetToSeq(S)) = Cardinality(S)
         /\ \A e \in S : \E n \in 1..Len(SetToSeq(S)) : SetToSeq(S)[n] = e
<1> DEFINE n == Cardinality(S)
<1>1. n \in Nat
  BY FS_CardinalityType
<1>2. IsFiniteSet(1..n) /\ Cardinality(1..n) = n
  BY <1>1, FS_Interval
<1>3. ExistsBijection(1..n, S)
  BY <1>2, FS_SameCardinalityBij
<1>4. \E f \in [1..n -> S] : IsInjective(f)
  BY <1>3 DEF ExistsBijection, Bijection, Injection, IsInjective
<1> DEFINE f == SetToSeq(S)
<1>5. f \in [1..n -> S] /\ IsInjective(f)
  BY <1>4 DEF SetToSeq
<1>6. f \in Injection(1..n, S)
  BY <1>5 DEF Injection, IsInjective
<1>7. f \in Surjection(1..n, S)
  BY <1>2, <1>6, FS_Injection
<1>8. f \in Seq(S) /\ Len(f) = n
  BY <1>1, <1>5
<1> QED
  BY <1>7, <1>8 DEF Surjection

\* Every non-empty set of naturals has a least element.
LEMMA LeastNatural ==
  ASSUME NEW N \in SUBSET Nat, N # {}
  PROVE  \E m \in N : \A n \in N : m <= n
<1>1. PICK m \in N : \A n \in N : ~ (<<n, m>> \in OpToRel(<, Nat))
  <2> HIDE DEF OpToRel
  <2> QED
    BY NatLessThanWellFounded, WFMin
<1>2. \A n \in N : ~ (n < m)
  BY <1>1 DEF OpToRel
<1> QED
  BY <1>2

\* Every non-empty set of indices has a greatest one.
LEMMA MaxIsThere ==
  ASSUME NEW n \in Nat, NEW N \in SUBSET (1..n), N # {}
  PROVE  Max(N) \in N
<1> DEFINE Gaps == {g \in Nat : \E m \in N : g = n - m}
<1>1. \A m \in N : m \in 1..n /\ n - m \in Nat
  OBVIOUS
<1>2. Gaps \in SUBSET Nat /\ Gaps # {}
  BY <1>1
<1>3. PICK g \in Gaps : \A h \in Gaps : g <= h
  <2> HIDE DEF Gaps
  <2> QED
    BY <1>2, LeastNatural
<1>4. PICK m \in N : g = n - m
  OBVIOUS
<1>5. \A k \in N : m >= k
  BY <1>1, <1>3, <1>4
<1> QED
  BY <1>4, <1>5 DEF Max

\* Writes, and the prices that items had when they were read.
RowWrites == [what : {"row"}, item : Items, key : Keys, price : Prices]
MapWrites == [what : {"map"}, item : Items, map : SpacePrices]
BaseWrites == [what : {"base"}, item : Items, price : Prices]
Writes == RowWrites \union MapWrites \union BaseWrites

Columns == [base : Prices \union {0}, map : SpacePrices]

IsSeen(seen) ==
    /\ DOMAIN seen \subseteq Items
    /\ \A i \in DOMAIN seen : seen[i] \in Columns

Found == Prices \union {NoPrice}

LEMMA Numbers ==
  /\ Prices \subseteq Nat /\ NoPrice \notin Prices /\ NoPrice = -1
  /\ Base \in Keys /\ Spaces \subseteq Keys /\ Base \notin Spaces
  BY MenuPricesAssumption DEF NoPrice, Keys

LEMMA IsSpacePrices ==
  ASSUME NEW map
  PROVE  map \in SpacePrices <=> DOMAIN map \subseteq Spaces /\ map \in [DOMAIN map -> Prices]
  BY DEF SpacePrices

SalesTyped == sales \in Seq([product : Products, location : Everywhere, price : Paid])

LEMMA LatestIsPrice ==
  ASSUME SalesTyped, NEW p, NEW where
  PROVE  Latest(p, where) \in Found
<1> DEFINE seen == {n \in DOMAIN sales : /\ sales[n].product = p
                                         /\ sales[n].location \in where
                                         /\ sales[n].price > 0}
<1>1. Len(sales) \in Nat /\ DOMAIN sales = 1..Len(sales)
  BY DEF SalesTyped
<1>2. CASE seen = {}
  BY <1>2 DEF Latest, Found
<1>3. CASE seen # {}
  <2>1. seen \in SUBSET (1..Len(sales))
    BY <1>1
  <2>2. Max(seen) \in seen
    <3> HIDE DEF seen
    <3> QED
      BY <1>1, <1>3, <2>1, MaxIsThere
  <2>3. Max(seen) \in 1..Len(sales)
    BY <2>1, <2>2
  <2>4. sales[Max(seen)].price \in Paid
    <3> DEFINE m == Max(seen)
    <3>1. m \in 1..Len(sales)
      BY <2>3
    <3> HIDE DEF m, seen
    <3>2. sales[m] \in [product : Products, location : Everywhere, price : Paid]
      BY <3>1, ElementOfSeq DEF SalesTyped
    <3> QED
      BY <3>2 DEF m
  <2>5. Latest(p, where) = sales[Max(seen)].price
    BY <1>3 DEF Latest
  <2> QED
    BY <2>4, <2>5, MenuPricesAssumption DEF Found
<1> QED
  BY <1>2, <1>3

LEMMA ObservedIsPrice ==
  ASSUME SalesTyped, NEW p, NEW s
  PROVE  Observed(p, s) \in Found
  BY LatestIsPrice DEF Observed

LEMMA InheritedIsPrice ==
  ASSUME SalesTyped, NEW p \in Products, NEW s, NEW shown \in Shown \union {NoPrice}
  PROVE  Inherited(p, s, shown) \in Found
<1>1. Observed(p, s) \in Found /\ Catalogue[p] \in Found /\ (shown # NoPrice => shown \in Prices)
  BY ObservedIsPrice, MenuPricesAssumption DEF Found
<1> QED
  BY <1>1 DEF Inherited, Found

LEMMA WithIs ==
  ASSUME NEW map \in SpacePrices, NEW s \in Spaces, NEW k \in Prices
  PROVE  /\ With(map, s, k) \in SpacePrices
         /\ \A t \in DOMAIN With(map, s, k) :
               \/ t = s /\ With(map, s, k)[t] = k
               \/ t # s /\ t \in DOMAIN map /\ With(map, s, k)[t] = map[t]
         /\ \A t \in Spaces \ {s} : Price(With(map, s, k), t) = Price(map, t)
<1>1. DOMAIN map \subseteq Spaces /\ map \in [DOMAIN map -> Prices]
  BY IsSpacePrices
<1>2. With(map, s, k) = [t \in DOMAIN map \union {s} |-> IF t = s THEN k ELSE map[t]]
  BY DEF With
<1>3. With(map, s, k) \in SpacePrices
  <2>1. /\ DOMAIN With(map, s, k) \subseteq Spaces
        /\ With(map, s, k) \in [DOMAIN map \union {s} -> Prices]
    BY <1>1, <1>2
  <2> QED
    BY <2>1 DEF SpacePrices
<1> QED
  BY <1>2, <1>3 DEF Price

\* What W may hold: the column of the key of an item that was seen, at the
\* price f says, and its row.
ChangesFor(W, seen, key, f) ==
    /\ IsFiniteSet(W) /\ W \subseteq Writes
    /\ \A w \in W :
          /\ w.item \in DOMAIN seen
          /\ w.what = "map" => /\ key \in Spaces /\ f[w.item] \in Prices
                               /\ w.map = With(seen[w.item].map, key, f[w.item])
                               /\ Row(w.item, key, f[w.item]) \in W
          /\ w.what = "base" => /\ key = Base /\ w.price = f[w.item]
                                /\ Row(w.item, Base, w.price) \in W

LEMMA PairIsFinite ==
  ASSUME NEW a, NEW b
  PROVE  IsFiniteSet({a, b})
<1>1. IsFiniteSet({} \cup {a})
  BY FS_EmptySet, FS_AddElement
<1>2. IsFiniteSet(({} \cup {a}) \cup {b})
  BY <1>1, FS_AddElement
<1>3. ({} \cup {a}) \cup {b} = {a, b}
  OBVIOUS
<1> QED
  BY <1>2, <1>3

LEMMA ChangesOfOne ==
  ASSUME NEW seen, IsSeen(seen), NEW key \in Keys, NEW f \in [DOMAIN seen -> Found],
         NEW i \in DOMAIN seen
  PROVE  ChangesFor(Changes(seen, key, i, f[i]), seen, key, f)
<1> DEFINE W == Changes(seen, key, i, f[i])
           row == Row(i, key, f[i])
           column == Column(seen, key, i, f[i])
<1>1. CASE W = {}
  <2>1. IsFiniteSet(W)
    BY <1>1, FS_EmptySet
  <2> QED
    BY <1>1, <2>1 DEF ChangesFor
<1>2. CASE W # {}
  <2>1. f[i] # NoPrice /\ W = {row, column}
    BY <1>2 DEF Changes
  <2>2. f[i] \in Prices /\ i \in Items /\ seen[i] \in Columns
    BY <2>1 DEF Found, IsSeen
  <2>3. row \in RowWrites /\ row.item = i /\ row.what = "row"
    BY <2>2 DEF Row, RowWrites
  <2>4. IsFiniteSet(W)
    BY <2>1, PairIsFinite
  <2>5. /\ column \in Writes /\ column.item = i
        /\ column.what = "map" => /\ key \in Spaces
                                  /\ column.map = With(seen[i].map, key, f[i])
        /\ column.what = "base" => key = Base /\ column.price = f[i]
    <3>1. CASE key = Base
      <4>1. column = BasePrice(i, f[i])
        BY <3>1 DEF Column
      <4> QED
        BY <2>2, <3>1, <4>1 DEF BasePrice, BaseWrites, Writes
    <3>2. CASE key # Base
      <4>1. key \in Spaces
        BY <3>2 DEF Keys
      <4> DEFINE map == With(seen[i].map, key, f[i])
      <4>2. column = Map(i, map)
        BY <3>2 DEF Column
      <4>3. map \in SpacePrices
        BY <2>2, <4>1, WithIs DEF Columns
      <4> HIDE DEF map
      <4>4. Map(i, map) \in MapWrites /\ Map(i, map).item = i /\ Map(i, map).what = "map"
            /\ Map(i, map).map = map
        BY <2>2, <4>3 DEF Map, MapWrites
      <4> QED
        BY <4>1, <4>2, <4>4 DEF Writes, map
    <3> QED
      BY <3>1, <3>2
  <2> HIDE DEF W, row, column
  <2>6. W \subseteq Writes
    BY <2>1, <2>3, <2>5 DEF Writes
  <2>7. ASSUME NEW w \in W
        PROVE  /\ w.item \in DOMAIN seen
               /\ w.what = "map" => /\ key \in Spaces /\ f[w.item] \in Prices
                                    /\ w.map = With(seen[w.item].map, key, f[w.item])
                                    /\ Row(w.item, key, f[w.item]) \in W
               /\ w.what = "base" => /\ key = Base /\ w.price = f[w.item]
                                     /\ Row(w.item, Base, w.price) \in W
    <3>1. w = row \/ w = column
      BY <2>1
    <3>2. Row(i, key, f[i]) \in W
      BY <2>1 DEF row
    <3>3. CASE w = row
      BY <2>3, <3>3
    <3>4. CASE w = column
      BY <2>2, <2>5, <3>2, <3>4
    <3> QED
      BY <3>1, <3>3, <3>4
  <2>8. ChangesFor(W, seen, key, f)
    BY <2>4, <2>6, <2>7 DEF ChangesFor
  <2> QED
    BY <2>8 DEF W
<1> QED
  BY <1>1, <1>2

LEMMA ChangesOfAll ==
  ASSUME NEW seen, IsSeen(seen), NEW key \in Keys, NEW f \in [DOMAIN seen -> Found]
  PROVE  ChangesFor(UNION {Changes(seen, key, i, f[i]) : i \in DOMAIN seen}, seen, key, f)
<1> DEFINE e == [i \in DOMAIN seen |-> Changes(seen, key, i, f[i])]
           E == {Changes(seen, key, i, f[i]) : i \in DOMAIN seen}
<1>1. IsFiniteSet(DOMAIN seen)
  BY MenuPricesAssumption, FS_Subset DEF IsSeen
<1>2. e \in Surjection(DOMAIN seen, E)
  BY DEF Surjection
<1>3. IsFiniteSet(E)
  BY <1>1, <1>2, FS_Surjection
<1>4. \A i \in DOMAIN seen : ChangesFor(e[i], seen, key, f)
  BY ChangesOfOne
<1>5. \A W \in E : ChangesFor(W, seen, key, f)
  BY <1>4
<1>6. IsFiniteSet(UNION E)
  BY <1>3, <1>5, FS_UNION DEF ChangesFor
<1> HIDE DEF E
<1> QED
  BY <1>5, <1>6 DEF ChangesFor, E

(***************************************************************************)
(* The invariant of the prices.  Besides the types of the tables, each     *)
(* request has asked for what a user may ask and has read what it was to   *)
(* read (Asked); the prices it has read are archived, and those it is to   *)
(* write are too, or will be by a row that it writes before or in the same *)
(* transaction (Backed); and unless another changed the prices of an item  *)
(* since, what it is to write differs from them only where it was asked to *)
(* (Fitting).                                                              *)
(***************************************************************************)
Pricing == {"apply", "bulk", "backfill"}

Asking(r) ==
    \/ r.do \in {"apply", "bulk"} /\ r.space \in Keys /\ r.over = TRUE
    \/ r.do = "backfill" /\ r.space \in Spaces \union {AllSpaces} /\ r.over \in BOOLEAN

MayMove(r, map, s) == r.space \in {s, AllSpaces} /\ (r.over \/ Price(map, s) <= 0)

WriteRequests ==
    [do : Pricing, space : Keys \union {AllSpaces}, over : BOOLEAN, writes : Seq(Writes)]

MapRequests ==
    [do : {"map"}, new : UNION {[S -> Items] : S \in SUBSET Products}, done : SUBSET Items,
     space : Spaces \union {AllSpaces}]

Asked(x) ==
    /\ at[x] = "idle" => req[x] = NoRequest
    /\ at[x] = "mapped" =>
           /\ Asking(req[x]) /\ DOMAIN req[x].of \subseteq Items
           /\ \/ req[x].do = "bulk" /\ req[x].shown \in Shown \union {NoPrice}
                 /\ \A i \in DOMAIN req[x].of : req[x].of[i] \in Products
              \/ req[x].do = "backfill"
                 /\ \A i \in DOMAIN req[x].of : req[x].of[i] \subseteq Products
    /\ at[x] = "resolve" =>
           /\ Asking(req[x]) /\ IsSeen(req[x].seen)
           /\ \/ req[x].do = "apply" /\ req[x].shown \in Shown \union {NoPrice}
                 /\ DOMAIN req[x].seen = {req[x].item}
              \/ /\ req[x].do = "backfill"
                 /\ \A i \in DOMAIN req[x].seen : req[x].of[i] \in Products
                 /\ \A pair \in req[x].todo :
                        /\ pair = <<pair[1], pair[2]>>
                        /\ pair[1] \in DOMAIN req[x].seen /\ pair[2] \in Spaces
                        /\ MayMove(req[x], req[x].seen[pair[1]].map, pair[2])
    /\ at[x] = "write" => Asking(req[x]) /\ req[x] \in WriteRequests
    /\ at[x] \in {"insert", "upsert", "attach"} => req[x] \in MapRequests
    /\ at[x] = "attach" => req[x].space \in Spaces
    /\ at[x] = "purge" => req[x].do = "remove" /\ req[x].item \in Items

Archived(i) == history[i] \union typed[i]

\* The row of a price is written first, or with it.
RowFor(r, n, i, key, k) ==
    \E m \in 1..Len(r.writes) : (m < n \/ r.do # "backfill") /\ r.writes[m] = Row(i, key, k)

Backing(r, n, i, key, k) == <<key, k>> \in Archived(i) \/ RowFor(r, n, i, key, k)

Backed(x) ==
    /\ at[x] = "resolve" =>
           \A i \in DOMAIN req[x].seen :
               PriceRows(req[x].seen[i].base, req[x].seen[i].map) \subseteq Archived(i)
    /\ at[x] = "write" =>
           \A n \in 1..Len(req[x].writes) :
               /\ req[x].writes[n].what = "map" =>
                      \A s \in DOMAIN req[x].writes[n].map :
                          Backing(req[x], n, req[x].writes[n].item, s, req[x].writes[n].map[s])
               /\ req[x].writes[n].what = "base" =>
                      Backing(req[x], n, req[x].writes[n].item, Base, req[x].writes[n].price)

\* Only what was asked for differs from the prices of item i.
Differs(r, i, map) ==
    \A s \in Spaces : Price(map, s) # Price(prices[i], s) => MayMove(r, prices[i], s)

Fitting(x) ==
    /\ at[x] = "resolve" =>
           \A i \in DOMAIN req[x].seen :
               /\ life[i] # "new"
               /\ i \notin moved[x] => req[x].seen[i].map = prices[i]
    /\ at[x] = "write" =>
           \A n \in 1..Len(req[x].writes) :
               /\ life[req[x].writes[n].item] # "new"
               /\ req[x].writes[n].what = "map" =>
                      /\ req[x].writes[n].item \notin moved[x]
                         => Differs(req[x], req[x].writes[n].item, req[x].writes[n].map)
                      /\ \A m \in 1..Len(req[x].writes) :
                             req[x].writes[m].what = "map"
                             /\ req[x].writes[m].item = req[x].writes[n].item
                             => req[x].writes[m].map = req[x].writes[n].map

OfRequest(x) == Asked(x) /\ Backed(x) /\ Fitting(x)

Tables ==
    /\ base \in [Items -> Prices \union {0}]
    /\ spaceIds \in [Items -> SUBSET Spaces]
    /\ prices \in [Items -> SpacePrices]
    /\ history = [i \in Items |-> history[i]]
    /\ \A i \in Items : history[i] \subseteq Keys \X Prices
    /\ place \in [Locations -> Spaces \union {AllSpaces}]
    /\ SalesTyped
    /\ requests \in 0..MaxRequests
    /\ typed = [i \in Items |-> typed[i]]
    /\ moved \in [Clients -> SUBSET Items]
    /\ crossed \subseteq Products \X Items

PricesInv ==
    /\ IInv
    /\ Tables
    /\ \A x \in Clients : OfRequest(x)
    /\ PricesAreArchived

LEMMA PricesInitially == Init => PricesInv
<1> SUFFICES ASSUME Init PROVE PricesInv
  OBVIOUS
<1>1. \A x \in Clients : OfRequest(x)
  BY DEF Init, OfRequest, Asked, Backed, Fitting
<1>2. PricesAreArchived
  BY DEF Init, PricesAreArchived
<1>3. prices \in [Items -> SpacePrices]
  <2>1. <<>> \in [{} -> Prices] /\ {} \in SUBSET Spaces
    OBVIOUS
  <2>2. <<>> \in SpacePrices
    BY <2>1 DEF SpacePrices
  <2> QED
    BY <2>2 DEF Init
<1>4. SalesTyped
  BY DEF Init, SalesTyped
<1>5. Tables
  BY <1>3, <1>4, MenuPricesAssumption DEF Init, Tables
<1> QED
  BY <1>1, <1>2, <1>5, Initially DEF PricesInv

\* What a step takes from a request that it is not of: rows stay, and if the
\* prices of an item change the request is told.
LEMMA RequestStays ==
  ASSUME PricesInv, NEW y \in Clients, at'[y] = at[y], req'[y] = req[y],
         \A i \in Items : Archived(i) \subseteq Archived(i)',
         at[y] \in {"resolve", "write"} =>
             \A i \in Items : life[i] # "new" =>
                 /\ life'[i] # "new"
                 /\ i \notin moved'[y] => i \notin moved[y] /\ prices'[i] = prices[i]
  PROVE  OfRequest(y)'
<1>1. Asked(y) /\ Backed(y) /\ Fitting(y)
  BY DEF PricesInv, OfRequest
<1>2. Asked(y)'
  BY <1>1 DEF Asked
<1>3. ASSUME at[y] = "write", NEW n \in 1..Len(req[y].writes)
      PROVE  req[y].writes[n].item \in Items
  <2>1. req[y].writes \in Seq(Writes)
    BY <1>1, <1>3 DEF Asked, WriteRequests
  <2>2. req[y].writes[n] \in Writes
    BY <2>1, ElementOfSeq
  <2> QED
    BY <2>2 DEF Writes, RowWrites, MapWrites, BaseWrites
<1>4. at[y] = "resolve" => DOMAIN req[y].seen \subseteq Items
  BY <1>1 DEF Asked, IsSeen
<1>5. Backed(y)'
  <2>1. at[y] = "resolve" =>
           \A i \in DOMAIN req[y].seen :
               PriceRows(req[y].seen[i].base, req[y].seen[i].map) \subseteq Archived(i)'
    BY <1>1, <1>4 DEF Backed
  <2>2. ASSUME at[y] = "write", NEW n \in 1..Len(req[y].writes)
        PROVE  /\ req[y].writes[n].what = "map" =>
                      \A s \in DOMAIN req[y].writes[n].map :
                          Backing(req[y], n, req[y].writes[n].item, s, req[y].writes[n].map[s])'
               /\ req[y].writes[n].what = "base" =>
                      Backing(req[y], n, req[y].writes[n].item, Base, req[y].writes[n].price)'
    <3>1. /\ at'[y] = "write" /\ req'[y] = req[y]
          /\ \A i \in Items : Archived(i) \subseteq Archived(i)'
      BY <2>2
    <3>2. \A i \in Items : \A key, k : Backing(req[y], n, i, key, k) => Backing(req[y], n, i, key, k)'
      BY <3>1 DEF Backing, RowFor
    <3> QED
      BY <1>1, <1>3, <2>2, <3>2 DEF Backed
  <2> QED
    <3>1. at'[y] = at[y] /\ req'[y] = req[y]
      OBVIOUS
    <3> QED
      BY <2>1, <2>2, <3>1 DEF Backed
<1>6. Fitting(y)'
  <2>1. CASE at[y] = "resolve"
    BY <1>1, <1>4, <2>1 DEF Fitting
  <2>2. CASE at[y] = "write"
    <3>1. ASSUME NEW n \in 1..Len(req[y].writes)
          PROVE  /\ life'[req[y].writes[n].item] # "new"
                 /\ req[y].writes[n].what = "map" /\ req[y].writes[n].item \notin moved'[y]
                    => Differs(req[y], req[y].writes[n].item, req[y].writes[n].map)'
      <4> DEFINE i == req[y].writes[n].item
      <4>1. i \in Items /\ life[i] # "new"
        BY <1>1, <1>3, <2>2 DEF Fitting
      <4>2. life'[i] # "new" /\ (i \notin moved'[y] => i \notin moved[y] /\ prices'[i] = prices[i])
        BY <2>2, <4>1
      <4>3. req[y].writes[n].what = "map" /\ i \notin moved[y] => Differs(req[y], i, req[y].writes[n].map)
        BY <1>1, <2>2 DEF Fitting
      <4> QED
        BY <4>2, <4>3 DEF Differs
    <3> QED
      <4>1. \A n \in 1..Len(req[y].writes) :
                req[y].writes[n].what = "map" =>
                    \A m \in 1..Len(req[y].writes) :
                        req[y].writes[m].what = "map"
                        /\ req[y].writes[m].item = req[y].writes[n].item
                        => req[y].writes[m].map = req[y].writes[n].map
        BY <1>1, <2>2 DEF Fitting
      <4>2. \A n \in 1..Len(req'[y].writes) :
                /\ life'[req'[y].writes[n].item] # "new"
                /\ req'[y].writes[n].what = "map" /\ req'[y].writes[n].item \notin moved'[y]
                   => Differs(req[y], req[y].writes[n].item, req[y].writes[n].map)'
        BY <3>1
      <4>3. at'[y] = "write" /\ req'[y] = req[y]
        BY <2>2
      <4> QED
        BY <4>1, <4>2, <4>3 DEF Fitting
  <2>3. CASE at[y] \notin {"resolve", "write"}
    BY <2>3 DEF Fitting
  <2> QED
    BY <2>1, <2>2, <2>3
<1> QED
  BY <1>2, <1>5, <1>6 DEF OfRequest
\* If the prices of an item change, request y is told.
Told(y) ==
    at[y] \in {"resolve", "write"} =>
        \A i \in Items : life[i] # "new" =>
            /\ life'[i] # "new"
            /\ i \notin moved'[y] => i \notin moved[y] /\ prices'[i] = prices[i]

LEMMA PricesStep ==
  ASSUME PricesInv, IInv', Tables', PricesAreArchived',
         \A i \in Items : Archived(i) \subseteq Archived(i)',
         \A y \in Clients : \/ OfRequest(y)'
                            \/ at'[y] = at[y] /\ req'[y] = req[y] /\ Told(y)
  PROVE  PricesInv'
<1>1. ASSUME NEW y \in Clients, at'[y] = at[y], req'[y] = req[y], Told(y)
      PROVE  OfRequest(y)'
  BY <1>1, RequestStays DEF Told
<1>2. \A y \in Clients : OfRequest(y)'
  BY <1>1
<1> QED
  BY <1>2 DEF PricesInv

\* A step of request x that changes no price.
LEMMA QuietStep ==
  ASSUME PricesInv, IInv', NEW x \in Clients, NEW step, NEW r,
         at' = [at EXCEPT ![x] = step], req' = [req EXCEPT ![x] = r],
         UNCHANGED <<items, outside, typed, crossed>>, requests' \in 0..MaxRequests,
         moved' = moved \/ moved' = [moved EXCEPT ![x] = {}],
         OfRequest(x)'
  PROVE  PricesInv'
<1>1. /\ UNCHANGED <<life, base, spaceIds, prices, history, mapping, place, sales, typed, crossed>>
      /\ Tables /\ IInv /\ PricesAreArchived
  BY DEF PricesInv, items, outside
<1>2. moved' \in [Clients -> SUBSET Items] /\ \A y \in Clients \ {x} : moved'[y] = moved[y]
  BY <1>1 DEF Tables
<1>3. Tables'
  BY <1>1, <1>2 DEF Tables, SalesTyped
<1>4. PricesAreArchived'
  BY <1>1 DEF PricesAreArchived
<1>5. ASSUME NEW y \in Clients, y # x
      PROVE  at'[y] = at[y] /\ req'[y] = req[y] /\ Told(y)
  <2>1. at'[y] = at[y] /\ req'[y] = req[y]
    BY <1>1, <1>5 DEF IInv, TypeInv
  <2> QED
    BY <1>1, <1>2, <1>5, <2>1 DEF Told
<1>6. \A i \in Items : Archived(i) \subseteq Archived(i)'
  BY <1>1 DEF Archived
<1> QED
  BY <1>3, <1>4, <1>5, <1>6, PricesStep

\* The prices that a user types are among those given by users.
LEMMA TypedKeeps ==
  ASSUME PricesInv, NEW i \in Items, NEW sheet \in Sheets, Typed(i, sheet),
         requests' \in 0..MaxRequests, moved' \in [Clients -> SUBSET Items],
         \A j \in Items \ {i} : life'[j] = life[j]
  PROVE  /\ Tables' /\ PricesAreArchived'
         /\ \A j \in Items : Archived(j) \subseteq Archived(j)'
         /\ \A j \in Items \ {i} : prices'[j] = prices[j]
<1>1. Tables /\ PricesAreArchived
  BY DEF PricesInv
<1>2. sheet.base \in Prices /\ sheet.spaces \in SUBSET Spaces /\ sheet.prices \in SpacePrices
  BY MenuPricesAssumption DEF SpacePrices
<1> DEFINE rows == PriceRows(sheet.base, sheet.prices)
<1>3. /\ base' = [base EXCEPT ![i] = sheet.base]
      /\ spaceIds' = [spaceIds EXCEPT ![i] = sheet.spaces]
      /\ prices' = [prices EXCEPT ![i] = sheet.prices]
      /\ typed' = [typed EXCEPT ![i] = @ \union rows]
      /\ UNCHANGED <<history, mapping, place, sales, at, req, crossed>>
  BY DEF Typed, outside
<1> HIDE DEF rows
<1>4. Tables'
  BY <1>1, <1>2, <1>3 DEF Tables, SalesTyped
<1>5. /\ base'[i] = sheet.base /\ prices'[i] = sheet.prices /\ typed'[i] = typed[i] \union rows
      /\ \A j \in Items \ {i} : base'[j] = base[j] /\ prices'[j] = prices[j] /\ typed'[j] = typed[j]
  BY <1>1, <1>3 DEF Tables
<1>6. \A j \in Items : Archived(j) \subseteq Archived(j)'
  BY <1>3, <1>5 DEF Archived
<1>7. PricesAreArchived'
  <2> SUFFICES ASSUME NEW j \in Items, life'[j] # "new", NEW pair \in PriceRows(base'[j], prices'[j])
               PROVE  pair \in history'[j] \union typed'[j]
    BY DEF PricesAreArchived
  <2>1. CASE j = i
    BY <1>5, <2>1 DEF rows
  <2>2. CASE j # i
    BY <1>1, <1>3, <1>5, <2>2 DEF PricesAreArchived
  <2> QED
    BY <2>1, <2>2
<1> QED
  BY <1>4, <1>5, <1>6, <1>7

LEMMA UsersKeepPrices ==
  ASSUME PricesInv, IInv', NEW i \in Items, NEW sheet \in Sheets,
         CreateItem(i, sheet) \/ UpdateItem(i, sheet)
  PROVE  PricesInv'
<1>1. Tables /\ IInv
  BY DEF PricesInv
<1>2. CASE CreateItem(i, sheet)
  <2>1. /\ life[i] = "new" /\ life' = [life EXCEPT ![i] = "there"] /\ Typed(i, sheet)
        /\ requests' = requests /\ moved' = moved /\ at' = at /\ req' = req
    BY <1>2 DEF CreateItem, Typed
  <2>2. \A j \in Items \ {i} : life'[j] = life[j]
    BY <1>1, <2>1 DEF IInv, TypeInv
  <2>3. /\ Tables' /\ PricesAreArchived'
        /\ \A j \in Items : Archived(j) \subseteq Archived(j)'
        /\ \A j \in Items \ {i} : prices'[j] = prices[j]
    BY <1>1, <2>1, <2>2, TypedKeeps DEF Tables
  <2>4. \A y \in Clients : Told(y)
    BY <2>1, <2>2, <2>3 DEF Told
  <2> QED
    BY <2>1, <2>3, <2>4, PricesStep
<1>3. CASE UpdateItem(i, sheet)
  <2>1. /\ life[i] = "there" /\ life' = life /\ Typed(i, sheet) /\ OneRequest
        /\ Moved({i}, Clients) /\ at' = at /\ req' = req
    BY <1>3 DEF UpdateItem, Typed
  <2>2. requests' \in 0..MaxRequests
    BY <1>1, <2>1, MenuPricesAssumption DEF OneRequest, Tables
  <2>3. /\ moved' \in [Clients -> SUBSET Items]
        /\ \A y \in Clients : at[y] \in {"resolve", "write"} => moved'[y] = moved[y] \union {i}
    BY <1>1, <2>1 DEF Moved, Tables
  <2>4. /\ Tables' /\ PricesAreArchived'
        /\ \A j \in Items : Archived(j) \subseteq Archived(j)'
        /\ \A j \in Items \ {i} : prices'[j] = prices[j]
    BY <2>1, <2>2, <2>3, TypedKeeps
  <2>5. \A y \in Clients : Told(y)
    BY <2>1, <2>3, <2>4 DEF Told
  <2> QED
    BY <2>1, <2>4, <2>5, PricesStep
<1> QED
  BY <1>2, <1>3

LEMMA ImportsKeepPrices ==
  ASSUME PricesInv, IInv',
         \/ \E p \in Products : UnmapProduct(p)
         \/ \E p \in Products, l \in Everywhere, k \in Paid : Sell(p, l, k)
         \/ \E l \in Locations, s \in Spaces \union {AllSpaces} : MapLocation(l, s)
  PROVE  PricesInv'
<1>1. Tables /\ IInv /\ PricesAreArchived
  BY DEF PricesInv
<1>2. /\ UNCHANGED <<life, base, spaceIds, prices, history, at, req, typed, moved, crossed>>
      /\ requests' = requests \/ OneRequest
  BY DEF UnmapProduct, Sell, MapLocation, items, ghosts
<1>3. requests' \in 0..MaxRequests
  BY <1>1, <1>2, MenuPricesAssumption DEF OneRequest, Tables
<1>4. SalesTyped'
  <2>1. CASE sales' = sales
    BY <1>1, <2>1 DEF Tables, SalesTyped
  <2>2. ASSUME NEW p \in Products, NEW l \in Everywhere, NEW k \in Paid, Sell(p, l, k)
        PROVE  SalesTyped'
    <3> DEFINE sale == [product |-> p, location |-> l, price |-> k]
    <3>1. sale \in [product : Products, location : Everywhere, price : Paid] /\ sales' = Append(sales, sale)
      BY <2>2 DEF Sell
    <3> HIDE DEF sale
    <3> QED
      BY <1>1, <3>1 DEF Tables, SalesTyped
  <2> QED
    BY <2>1, <2>2 DEF UnmapProduct, MapLocation
<1>5. place' \in [Locations -> Spaces \union {AllSpaces}]
  <2>1. \/ place' = place
        \/ \E l \in Locations, s \in Spaces \union {AllSpaces} : place' = [place EXCEPT ![l] = s]
    BY DEF UnmapProduct, Sell, MapLocation
  <2> QED
    BY <1>1, <2>1 DEF Tables
<1>6. Tables'
  BY <1>1, <1>2, <1>3, <1>4, <1>5 DEF Tables
<1>7. PricesAreArchived'
  BY <1>1, <1>2 DEF PricesAreArchived
<1>8. \A y \in Clients : Told(y)
  BY <1>2 DEF Told
<1>9. \A i \in Items : Archived(i) \subseteq Archived(i)'
  BY <1>2 DEF Archived
<1> QED
  BY <1>2, <1>6, <1>7, <1>8, <1>9, PricesStep
\* What a request reads of items is archived and their current prices.
LEMMA ReadIs ==
  ASSUME PricesInv, NEW S \in SUBSET Items, \A i \in S : life[i] # "new"
  PROVE  /\ IsSeen(Read(S)) /\ DOMAIN Read(S) = S
         /\ \A i \in S :
               /\ Read(S)[i].map = prices[i]
               /\ PriceRows(Read(S)[i].base, Read(S)[i].map) \subseteq Archived(i)
<1>1. Tables /\ PricesAreArchived
  BY DEF PricesInv
<1>2. \A i \in S : Read(S)[i] = [base |-> base[i], map |-> prices[i]]
  BY DEF Read
<1>3. ASSUME NEW i \in S
      PROVE  Read(S)[i] \in Columns
  <2>1. base[i] \in Prices \union {0} /\ prices[i] \in SpacePrices
    BY <1>1 DEF Tables
  <2>2. \A b \in Prices \union {0}, map \in SpacePrices : [base |-> b, map |-> map] \in Columns
    BY DEF Columns
  <2> QED
    BY <1>2, <2>1, <2>2
<1>4. \A i \in S : PriceRows(base[i], prices[i]) \subseteq Archived(i)
  BY <1>1 DEF PricesAreArchived, Archived
<1> QED
  BY <1>2, <1>3, <1>4 DEF IsSeen, Read

\* A request that has just read: what is left to show is what it asked for.
LEMMA ReadingStep ==
  ASSUME PricesInv, IInv', NEW x \in Clients, NEW r, NEW S \in SUBSET Items,
         \A i \in S : life[i] # "new", r.seen = Read(S),
         at' = [at EXCEPT ![x] = "resolve"], req' = [req EXCEPT ![x] = r],
         UNCHANGED <<items, outside, typed, crossed>>, requests' \in 0..MaxRequests,
         moved' = [moved EXCEPT ![x] = {}], Asking(r),
         \/ r.do = "apply" /\ r.shown \in Shown \union {NoPrice} /\ S = {r.item}
         \/ /\ r.do = "backfill"
            /\ \A i \in S : r.of[i] \in Products
            /\ \A pair \in r.todo : /\ pair = <<pair[1], pair[2]>> /\ pair[1] \in S /\ pair[2] \in Spaces
                                    /\ MayMove(r, prices[pair[1]], pair[2])
  PROVE  PricesInv'
<1>1. Tables /\ IInv
  BY DEF PricesInv
<1>2. at'[x] = "resolve" /\ req'[x] = r /\ moved'[x] = {}
  BY <1>1 DEF IInv, TypeInv, Tables
<1>3. /\ IsSeen(r.seen) /\ DOMAIN r.seen = S
      /\ \A i \in S : /\ r.seen[i].map = prices[i]
                      /\ PriceRows(r.seen[i].base, r.seen[i].map) \subseteq Archived(i)
  BY ReadIs
<1>4. UNCHANGED <<life, prices, history, typed>>
  BY DEF items
<1>5. Asked(x)'
  <2>1. /\ at'[x] = "resolve" /\ Asking(req'[x]) /\ IsSeen(req'[x].seen)
        /\ req'[x] = r /\ DOMAIN r.seen = S
    BY <1>2, <1>3
  <2>2. CASE r.do = "apply" /\ r.shown \in Shown \union {NoPrice} /\ S = {r.item}
    BY <2>1, <2>2 DEF Asked
  <2>3. CASE /\ r.do = "backfill"
             /\ \A i \in S : r.of[i] \in Products
             /\ \A pair \in r.todo : /\ pair = <<pair[1], pair[2]>>
                                     /\ pair[1] \in S /\ pair[2] \in Spaces
                                     /\ MayMove(r, prices[pair[1]], pair[2])
    <3>1. \A pair \in r.todo : /\ pair = <<pair[1], pair[2]>>
                               /\ pair[1] \in DOMAIN r.seen /\ pair[2] \in Spaces
                               /\ MayMove(r, r.seen[pair[1]].map, pair[2])
      BY <1>3, <2>3
    <3> QED
      BY <2>1, <2>3, <3>1 DEF Asked
  <2> QED
    BY <2>2, <2>3
<1>6. Backed(x)'
  BY <1>2, <1>3, <1>4 DEF Backed, Archived
<1>7. Fitting(x)'
  BY <1>2, <1>3, <1>4 DEF Fitting
<1> QED
  BY <1>5, <1>6, <1>7, QuietStep DEF OfRequest

LEMMA ApplyPriceKeepsPrices ==
  ASSUME PricesInv, IInv', NEW x \in Clients, NEW i \in Items, NEW p \in Products \union {AnyProduct},
         NEW key \in Keys, NEW shown \in Shown \union {NoPrice}, ApplyPrice(x, i, p, key, shown)
  PROVE  PricesInv'
<1> DEFINE r == [do |-> "apply", item |-> i, product |-> p, space |-> key,
                 shown |-> shown, over |-> TRUE, seen |-> Read({i})]
<1>1. /\ life[i] = "there" /\ OneRequest
      /\ at' = [at EXCEPT ![x] = "resolve"] /\ req' = [req EXCEPT ![x] = r]
      /\ UNCHANGED <<items, outside, typed, crossed>> /\ moved' = [moved EXCEPT ![x] = {}]
  BY DEF ApplyPrice, Begin, Goto
<1>2. requests' \in 0..MaxRequests
  BY <1>1, MenuPricesAssumption DEF OneRequest, PricesInv, Tables
<1>3. /\ Asking(r) /\ r.seen = Read({i}) /\ r.do = "apply" /\ r.shown = shown /\ r.item = i
  BY DEF Asking
<1> HIDE DEF r
<1>4. {i} \in SUBSET Items /\ \A j \in {i} : life[j] # "new"
  BY <1>1
<1> QED
  BY <1>1, <1>2, <1>3, <1>4, ReadingStep

\* A request that has yet to read the items.
LEMMA MappedRequestStep ==
  ASSUME PricesInv, IInv', NEW x \in Clients, NEW r, Begin(x, "mapped", r),
         UNCHANGED <<items, outside, typed, crossed>>,
         Asking(r), DOMAIN r.of \subseteq Items,
         \/ r.do = "bulk" /\ r.shown \in Shown \union {NoPrice}
            /\ \A i \in DOMAIN r.of : r.of[i] \in Products
         \/ r.do = "backfill" /\ \A i \in DOMAIN r.of : r.of[i] \subseteq Products
  PROVE  PricesInv'
<1>1. /\ OneRequest /\ at' = [at EXCEPT ![x] = "mapped"] /\ req' = [req EXCEPT ![x] = r]
      /\ moved' = [moved EXCEPT ![x] = {}]
  BY DEF Begin, Goto
<1>2. requests' \in 0..MaxRequests
  BY <1>1, MenuPricesAssumption DEF OneRequest, PricesInv, Tables
<1>3. at'[x] = "mapped" /\ req'[x] = r
  BY <1>1 DEF PricesInv, IInv, TypeInv
<1>4. Asked(x)'
  BY <1>3 DEF Asked
<1>5. Backed(x)' /\ Fitting(x)'
  BY <1>3 DEF Backed, Fitting
<1> QED
  BY <1>1, <1>2, <1>4, <1>5, QuietStep DEF OfRequest

LEMMA ApplyBulkKeepsPrices ==
  ASSUME PricesInv, IInv', NEW x \in Clients, NEW S \in SUBSET Items, NEW asked \in [S -> {AnyProduct}],
         NEW key \in Keys, ApplyBulk(x, asked, key, NoPrice)
  PROVE  PricesInv'
<1> DEFINE found == {i \in DOMAIN asked : Candidates(i, asked[i]) # {}}
           of == [i \in found |-> CHOOSE p \in Candidates(i, asked[i]) : TRUE]
           r == [do |-> "bulk", space |-> key, shown |-> NoPrice, over |-> TRUE, of |-> of]
<1>1. Begin(x, "mapped", r) /\ UNCHANGED <<items, outside, typed, crossed>>
  BY DEF ApplyBulk
<1>2. found \subseteq Items
  OBVIOUS
<1>3. \A i \in found : of[i] \in Products
  <2> SUFFICES ASSUME NEW i \in found PROVE of[i] \in Products
    OBVIOUS
  <2>1. of[i] \in Candidates(i, asked[i])
    OBVIOUS
  <2> QED
    BY <2>1 DEF Candidates, ProductsOf
<1> HIDE DEF found
<1>4. DOMAIN of = found
  OBVIOUS
<1> HIDE DEF of
<1>5. Asking(r) /\ r.of = of /\ r.do = "bulk" /\ r.shown = NoPrice
  BY DEF Asking
<1> HIDE DEF r
<1> QED
  BY <1>1, <1>2, <1>3, <1>4, <1>5, MappedRequestStep

LEMMA BackfillKeepsPrices ==
  ASSUME PricesInv, IInv', NEW x \in Clients, NEW only \in Spaces \union {AllSpaces}, NEW over \in BOOLEAN,
         Backfill(x, only, over)
  PROVE  PricesInv'
<1> DEFINE of == [i \in {j \in Items : ProductsOf(j) # {}} |-> ProductsOf(i)]
           r == [do |-> "backfill", space |-> only, over |-> over, of |-> of]
<1>1. Begin(x, "mapped", r) /\ UNCHANGED <<items, outside, typed, crossed>>
  BY DEF Backfill
<1>2. DOMAIN of \subseteq Items /\ \A i \in DOMAIN of : of[i] \subseteq Products
  BY DEF ProductsOf
<1> HIDE DEF of
<1>3. Asking(r) /\ r.of = of /\ r.do = "backfill"
  BY DEF Asking
<1> HIDE DEF r
<1> QED
  BY <1>1, <1>2, <1>3, MappedRequestStep

LEMMA ReadBackfillKeepsPrices ==
  ASSUME PricesInv, IInv', NEW x \in Clients, ReadBackfill(x)
  PROVE  PricesInv'
<1> DEFINE q == req[x]
           single == {i \in There \intersect DOMAIN q.of : Cardinality(q.of[i]) = 1}
           of == [i \in single |-> CHOOSE p \in q.of[i] : TRUE]
           todo == UNION {{i} \X Unpriced(i, q.space, q.over) : i \in single}
           r == [do |-> "backfill", space |-> q.space, over |-> q.over, of |-> of,
                 seen |-> Read(single), todo |-> todo]
<1>1. /\ at[x] = "mapped" /\ q.do = "backfill" /\ requests' = requests
      /\ at' = [at EXCEPT ![x] = "resolve"] /\ req' = [req EXCEPT ![x] = r]
      /\ UNCHANGED <<items, outside, typed, crossed>> /\ moved' = [moved EXCEPT ![x] = {}]
  BY DEF ReadBackfill, Goto
<1>2. Tables /\ Asked(x)
  BY DEF PricesInv, OfRequest
<1>3. /\ q.space \in Spaces \union {AllSpaces} /\ q.over \in BOOLEAN
      /\ \A i \in DOMAIN q.of : q.of[i] \subseteq Products
  BY <1>1, <1>2 DEF Asked, Asking
<1>4. single \subseteq Items /\ \A i \in single : life[i] # "new"
  BY DEF There
<1>5. \A i \in single : of[i] \in Products
  <2> SUFFICES ASSUME NEW i \in single PROVE of[i] \in Products
    OBVIOUS
  <2>1. q.of[i] # {}
    BY FS_EmptySet
  <2>2. of[i] \in q.of[i]
    BY <2>1
  <2> QED
    BY <1>3, <2>2
<1>6. ASSUME NEW pair \in todo
      PROVE  /\ pair = <<pair[1], pair[2]>> /\ pair[1] \in single /\ pair[2] \in Spaces
             /\ q.space \in {AllSpaces, pair[2]}
             /\ q.over \/ Price(prices[pair[1]], pair[2]) <= 0
  <2>1. PICK i \in single : pair \in {i} \X Unpriced(i, q.space, q.over)
    OBVIOUS
  <2>2. PICK s \in Unpriced(i, q.space, q.over) : pair = <<i, s>>
    BY <2>1
  <2>3. s \in Spaces
    BY <1>2, <1>4, <2>2 DEF Unpriced, Tables
  <2> HIDE DEF single
  <2> QED
    BY <2>1, <2>2, <2>3 DEF Unpriced
<1>7. requests' \in 0..MaxRequests
  BY <1>1, <1>2 DEF Tables
<1> HIDE DEF of, todo, single
<1>8. r.seen = Read(single) /\ r.do = "backfill" /\ r.of = of /\ r.todo = todo /\ r.space = q.space /\ r.over = q.over
  OBVIOUS
<1> HIDE DEF r
<1>9. Asking(r)
  BY <1>3, <1>8 DEF Asking
<1>10. \A pair \in todo : MayMove(r, prices[pair[1]], pair[2])
  BY <1>6, <1>8 DEF MayMove
<1> QED
  BY <1>1, <1>4, <1>5, <1>6, <1>7, <1>8, <1>9, <1>10, ReadingStep
\* A request that has found the prices it is to write.
LEMMA WritesStep ==
  ASSUME PricesInv, IInv', NEW x \in Clients, NEW q, NEW writes \in Seq(Writes), NEW r,
         r = [do |-> q.do, space |-> q.space, over |-> q.over, writes |-> writes],
         Asking(q), WriteOrEnd(x, q, writes),
         UNCHANGED <<items, outside, requests, typed, crossed>>,
         moved' = moved \/ moved' = [moved EXCEPT ![x] = {}],
         \A n \in 1..Len(writes) : life[writes[n].item] # "new",
         \A n \in 1..Len(writes) : writes[n].what = "base" =>
             Backing(r, n, writes[n].item, Base, writes[n].price),
         \A n \in 1..Len(writes) : writes[n].what = "map" =>
             /\ \A s \in DOMAIN writes[n].map : Backing(r, n, writes[n].item, s, writes[n].map[s])
             /\ writes[n].item \notin moved'[x] => Differs(q, writes[n].item, writes[n].map)
             /\ \A m \in 1..Len(writes) :
                    writes[m].what = "map" /\ writes[m].item = writes[n].item
                    => writes[m].map = writes[n].map
  PROVE  PricesInv'
<1>1. Tables /\ IInv /\ UNCHANGED <<life, prices, history, typed>>
  BY DEF PricesInv, items
<1>2. requests' \in 0..MaxRequests
  BY <1>1 DEF Tables
<1>3. CASE writes = <<>>
  <2>1. at' = [at EXCEPT ![x] = "idle"] /\ req' = [req EXCEPT ![x] = NoRequest]
    BY <1>3 DEF WriteOrEnd, End
  <2>2. at'[x] = "idle" /\ req'[x] = NoRequest
    BY <1>1, <2>1 DEF IInv, TypeInv
  <2>3. OfRequest(x)'
    BY <2>2 DEF OfRequest, Asked, Backed, Fitting
  <2> QED
    BY <1>2, <2>1, <2>3, QuietStep
<1>4. CASE writes # <<>>
  <2>1. at' = [at EXCEPT ![x] = "write"] /\ req' = [req EXCEPT ![x] = r]
    BY <1>4 DEF WriteOrEnd, Goto
  <2>2. at'[x] = "write" /\ req'[x] = r
    BY <1>1, <2>1 DEF IInv, TypeInv
  <2>3. r.writes = writes /\ r.do = q.do /\ r.space = q.space /\ r.over = q.over
    OBVIOUS
  <2>4. Asking(r) /\ r \in WriteRequests
    BY DEF Asking, WriteRequests, Pricing, Keys
  <2>5. Asked(x)'
    BY <2>2, <2>4 DEF Asked
  <2>6. Backed(x)'
    <3>1. ASSUME NEW n, NEW i, NEW key, NEW k, Backing(r, n, i, key, k)
          PROVE  Backing(req[x], n, i, key, k)'
      BY <1>1, <2>2, <3>1 DEF Backing, Archived, RowFor
    <3>2. ASSUME NEW n \in 1..Len(writes)
          PROVE  /\ writes[n].what = "map" =>
                        \A s \in DOMAIN writes[n].map :
                            Backing(req[x], n, writes[n].item, s, writes[n].map[s])'
                 /\ writes[n].what = "base" =>
                        Backing(req[x], n, writes[n].item, Base, writes[n].price)'
      BY <3>1, <3>2
    <3>3. at'[x] = "write" /\ req'[x].writes = writes
      BY <2>2, <2>3
    <3> HIDE <2>2
    <3> QED
      BY <3>2, <3>3 DEF Backed
  <2>7. ASSUME NEW i, NEW map, Differs(q, i, map)
        PROVE  Differs(r, i, map)'
    BY <1>1, <2>3, <2>7 DEF Differs, MayMove
  <2>8. Fitting(x)'
    <3> SUFFICES ASSUME NEW n \in 1..Len(writes)
                 PROVE  /\ life'[writes[n].item] # "new"
                        /\ writes[n].what = "map" =>
                              /\ writes[n].item \notin moved'[x]
                                 => Differs(r, writes[n].item, writes[n].map)'
                              /\ \A m \in 1..Len(writes) :
                                     writes[m].what = "map" /\ writes[m].item = writes[n].item
                                     => writes[m].map = writes[n].map
      BY <2>2, <2>3 DEF Fitting, Differs
    <3> QED
      BY <1>1, <2>7
  <2> QED
    BY <1>2, <2>1, <2>5, <2>6, <2>8, QuietStep DEF OfRequest
<1> QED
  BY <1>3, <1>4

\* The user asked for the price of one key, and it was resolved.
LEMMA ResolvedStep ==
  ASSUME PricesInv, IInv', NEW x \in Clients, NEW q, Asking(q), q.do # "backfill",
         NEW seen, IsSeen(seen), NEW f \in [DOMAIN seen -> Found],
         NEW W, ChangesFor(W, seen, q.space, f), WriteOrEnd(x, q, SetToSeq(W)),
         UNCHANGED <<items, outside, requests, typed, crossed>>,
         moved' = moved \/ moved' = [moved EXCEPT ![x] = {}],
         \A i \in DOMAIN seen :
             /\ life[i] # "new"
             /\ i \notin moved'[x] => seen[i].map = prices[i]
             /\ PriceRows(seen[i].base, seen[i].map) \subseteq Archived(i)
  PROVE  PricesInv'
<1> DEFINE writes == SetToSeq(W)
           r == [do |-> q.do, space |-> q.space, over |-> q.over, writes |-> writes]
<1>1. q.space \in Keys /\ q.over = TRUE
  BY DEF Asking
<1>2. /\ IsFiniteSet(W) /\ W \subseteq Writes
      /\ \A w \in W :
            /\ w.item \in DOMAIN seen
            /\ w.what = "map" => /\ q.space \in Spaces /\ f[w.item] \in Prices
                                 /\ w.map = With(seen[w.item].map, q.space, f[w.item])
                                 /\ Row(w.item, q.space, f[w.item]) \in W
            /\ w.what = "base" => /\ q.space = Base /\ w.price = f[w.item]
                                  /\ Row(w.item, Base, w.price) \in W
  BY DEF ChangesFor
<1>3. /\ writes \in Seq(W)
      /\ \A e \in W : \E n \in 1..Len(writes) : writes[n] = e
  BY <1>2, SetToSeqIs
<1>4. r.writes = writes /\ r.do = q.do
  OBVIOUS
<1> HIDE DEF writes
<1>5. \A n \in 1..Len(writes) : writes[n] \in W
  BY <1>3, ElementOfSeq
<1>6. writes \in Seq(Writes)
  BY <1>2, <1>3
<1>7. r = [do |-> q.do, space |-> q.space, over |-> q.over, writes |-> writes]
  OBVIOUS
<1> HIDE DEF r
<1>8. ASSUME NEW n, NEW i, NEW key, NEW k, Row(i, key, k) \in W
      PROVE  Backing(r, n, i, key, k)
  BY <1>3, <1>4, <1>8 DEF Backing, RowFor
<1>9. ASSUME NEW n \in 1..Len(writes)
      PROVE  /\ life[writes[n].item] # "new"
             /\ writes[n].what = "base" => Backing(r, n, writes[n].item, Base, writes[n].price)
  BY <1>2, <1>5, <1>8
<1>10. ASSUME NEW n \in 1..Len(writes), writes[n].what = "map"
       PROVE  /\ \A s \in DOMAIN writes[n].map : Backing(r, n, writes[n].item, s, writes[n].map[s])
              /\ writes[n].item \notin moved'[x] => Differs(q, writes[n].item, writes[n].map)
              /\ \A m \in 1..Len(writes) :
                     writes[m].what = "map" /\ writes[m].item = writes[n].item
                     => writes[m].map = writes[n].map
  <2> DEFINE i == writes[n].item
             key == q.space
             old == seen[i].map
             new == writes[n].map
  <2>1. /\ i \in DOMAIN seen /\ key \in Spaces /\ f[i] \in Prices
        /\ new = With(old, key, f[i]) /\ Row(i, key, f[i]) \in W
    BY <1>2, <1>5, <1>10
  <2>2. old \in SpacePrices
    BY <2>1 DEF IsSeen, Columns
  <2>3. /\ \A t \in DOMAIN new : \/ t = key /\ new[t] = f[i]
                                 \/ t # key /\ t \in DOMAIN old /\ new[t] = old[t]
        /\ \A t \in Spaces \ {key} : Price(new, t) = Price(old, t)
    <3> HIDE DEF i, old, key, new
    <3> QED
      BY <2>1, <2>2, WithIs
  <2>4. \A s \in DOMAIN new : Backing(r, n, i, s, new[s])
    <3> SUFFICES ASSUME NEW s \in DOMAIN new PROVE Backing(r, n, i, s, new[s])
      OBVIOUS
    <3>1. CASE s = key
      BY <1>8, <2>1, <2>3, <3>1
    <3>2. CASE s # key
      <4>1. s \in DOMAIN old /\ new[s] = old[s]
        BY <2>3, <3>2
      <4>2. <<s, old[s]>> \in PriceRows(seen[i].base, old)
        BY <4>1 DEF PriceRows
      <4>3. <<s, new[s]>> \in Archived(i)
        BY <2>1, <4>1, <4>2
      <4> QED
        BY <4>3 DEF Backing
    <3> QED
      BY <3>1, <3>2
  <2>5. i \notin moved'[x] => Differs(q, i, new)
    <3> SUFFICES ASSUME old = prices[i], NEW s \in Spaces, Price(new, s) # Price(prices[i], s)
                 PROVE  MayMove(q, prices[i], s)
      BY <2>1 DEF Differs
    <3> QED
      BY <1>1, <2>3 DEF MayMove
  <2>6. ASSUME NEW m \in 1..Len(writes), writes[m].what = "map", writes[m].item = i
        PROVE  writes[m].map = new
    BY <1>2, <1>5, <2>1, <2>6
  <2> QED
    BY <2>4, <2>5, <2>6
<1>11. WriteOrEnd(x, q, writes)
  BY DEF writes
<1> QED
  BY <1>6, <1>7, <1>9, <1>10, <1>11, WritesStep

LEMMA ResolveOneKeepsPrices ==
  ASSUME PricesInv, IInv', NEW x \in Clients, ResolveOne(x)
  PROVE  PricesInv'
<1> DEFINE r == req[x]
           found == Candidates(r.item, r.product)
           price(p) == Inherited(p, r.space, r.shown)
           W(p) == Changes(r.seen, r.space, r.item, price(p))
<1>1. /\ at[x] = "resolve" /\ r.do = "apply"
      /\ IF found = {} THEN End(x) ELSE \E p \in found : WriteOrEnd(x, r, SetToSeq(W(p)))
      /\ UNCHANGED <<items, outside, requests, typed, crossed>> /\ moved' = moved
  BY DEF ResolveOne, ghosts
<1>2. Tables /\ IInv /\ Asked(x) /\ Backed(x) /\ Fitting(x)
  BY DEF PricesInv, OfRequest
<1>3. /\ Asking(r) /\ IsSeen(r.seen) /\ r.space \in Keys
      /\ r.shown \in Shown \union {NoPrice} /\ DOMAIN r.seen = {r.item}
  BY <1>1, <1>2 DEF Asked, Asking
<1>4. \A i \in DOMAIN r.seen :
         /\ life[i] # "new" /\ (i \notin moved'[x] => r.seen[i].map = prices[i])
         /\ PriceRows(r.seen[i].base, r.seen[i].map) \subseteq Archived(i)
  BY <1>1, <1>2 DEF Backed, Fitting
<1>5. found \subseteq Products
  BY DEF Candidates, ProductsOf
<1>6. CASE found = {}
  <2>1. at' = [at EXCEPT ![x] = "idle"] /\ req' = [req EXCEPT ![x] = NoRequest]
    BY <1>1, <1>6 DEF End
  <2>2. at'[x] = "idle" /\ req'[x] = NoRequest
    BY <1>2, <2>1 DEF IInv, TypeInv
  <2>3. OfRequest(x)'
    BY <2>2 DEF OfRequest, Asked, Backed, Fitting
  <2>4. requests' \in 0..MaxRequests
    BY <1>1, <1>2 DEF Tables
  <2> QED
    BY <1>1, <2>1, <2>3, <2>4, QuietStep
<1>7. ASSUME NEW p \in found, WriteOrEnd(x, r, SetToSeq(W(p)))
      PROVE  PricesInv'
  <2> DEFINE f == [i \in DOMAIN r.seen |-> price(p)]
  <2>1. price(p) \in Found
    BY <1>2, <1>3, <1>5, <1>7, InheritedIsPrice DEF Tables
  <2> HIDE DEF price
  <2>2. f \in [DOMAIN r.seen -> Found] /\ f[r.item] = price(p) /\ r.item \in DOMAIN r.seen
    BY <1>3, <2>1
  <2> HIDE DEF f, r
  <2>3. ChangesFor(W(p), r.seen, r.space, f)
    BY <1>3, <2>2, ChangesOfOne
  <2> HIDE DEF W
  <2> QED
    BY <1>1, <1>3, <1>4, <1>7, <2>2, <2>3, ResolvedStep
<1> QED
  BY <1>1, <1>6, <1>7

LEMMA ResolveAllKeepsPrices ==
  ASSUME PricesInv, IInv', NEW x \in Clients, ResolveAll(x)
  PROVE  PricesInv'
<1> DEFINE r == req[x]
           S == There \intersect DOMAIN r.of
           seen == Read(S)
           f == [i \in DOMAIN seen |-> Inherited(r.of[i], r.space, r.shown)]
           W == UNION {Changes(seen, r.space, i, Inherited(r.of[i], r.space, r.shown)) : i \in DOMAIN seen}
<1>1. /\ at[x] = "mapped" /\ r.do = "bulk" /\ WriteOrEnd(x, r, SetToSeq(W))
      /\ UNCHANGED <<items, outside, requests, typed, crossed>> /\ moved' = [moved EXCEPT ![x] = {}]
  BY DEF ResolveAll
<1>2. Tables /\ IInv /\ Asked(x)
  BY DEF PricesInv, OfRequest
<1>3. /\ Asking(r) /\ r.space \in Keys /\ r.shown \in Shown \union {NoPrice}
      /\ \A i \in DOMAIN r.of : r.of[i] \in Products
  BY <1>1, <1>2 DEF Asked, Asking
<1>4. S \in SUBSET Items /\ \A i \in S : life[i] # "new"
  BY DEF There
<1> HIDE DEF r
<1>5. /\ IsSeen(seen) /\ DOMAIN seen = S
      /\ \A i \in S : /\ seen[i].map = prices[i]
                      /\ PriceRows(seen[i].base, seen[i].map) \subseteq Archived(i)
  <2> HIDE DEF S
  <2> QED
    BY <1>4, ReadIs
<1>6. \A i \in DOMAIN seen : Inherited(r.of[i], r.space, r.shown) \in Found
  <2> SUFFICES ASSUME NEW i \in S PROVE Inherited(r.of[i], r.space, r.shown) \in Found
    BY <1>5
  <2>1. r.of[i] \in Products
    BY <1>3
  <2> QED
    BY <1>2, <1>3, <2>1, InheritedIsPrice DEF Tables
<1> HIDE DEF S, seen
<1>7. f \in [DOMAIN seen -> Found]
  BY <1>6
<1>8. W = UNION {Changes(seen, r.space, i, f[i]) : i \in DOMAIN seen}
  OBVIOUS
<1> HIDE DEF f, W
<1>9. ChangesFor(W, seen, r.space, f)
  BY <1>3, <1>5, <1>7, <1>8, ChangesOfAll
<1> QED
  BY <1>1, <1>3, <1>4, <1>5, <1>7, <1>9, ResolvedStep
\* A backfill writes the row of each price it has found, and then the prices of
\* each item with those filled in.
LEMMA ResolveBackfillKeepsPrices ==
  ASSUME PricesInv, IInv', NEW x \in Clients, ResolveBackfill(x)
  PROVE  PricesInv'
<1> DEFINE q == req[x]
           priced == {pair \in q.todo : Observed(q.of[pair[1]], pair[2]) > 0}
           found == [pair \in priced |-> Observed(q.of[pair[1]], pair[2])]
           old(i) == q.seen[i].map
           filled(i) == [s \in DOMAIN q.seen[i].map \union {t \in Spaces : <<i, t>> \in priced} |->
                            IF <<i, s>> \in priced THEN found[<<i, s>>] ELSE q.seen[i].map[s]]
           touched == {pair[1] : pair \in priced}
           pairs == SetToSeq(priced)
           rows == [n \in DOMAIN pairs |-> Row(pairs[n][1], pairs[n][2], found[pairs[n]])]
           its == SetToSeq(touched)
           maps == [n \in DOMAIN its |-> Map(its[n], filled(its[n]))]
           writes == rows \o maps
           r == [do |-> q.do, space |-> q.space, over |-> q.over, writes |-> writes]
<1>1. /\ at[x] = "resolve" /\ q.do = "backfill" /\ WriteOrEnd(x, q, writes)
      /\ UNCHANGED <<items, outside, requests, typed, crossed>> /\ moved' = moved
  BY DEF ResolveBackfill, InOrder, ghosts
<1>2. Tables /\ Asked(x) /\ Backed(x) /\ Fitting(x)
  BY DEF PricesInv, OfRequest
<1>3. /\ Asking(q) /\ IsSeen(q.seen)
      /\ \A pair \in q.todo :
             /\ pair = <<pair[1], pair[2]>> /\ pair[1] \in DOMAIN q.seen /\ pair[2] \in Spaces
             /\ MayMove(q, q.seen[pair[1]].map, pair[2])
  BY <1>1, <1>2 DEF Asked
<1>4. \A i \in DOMAIN q.seen :
         /\ life[i] # "new" /\ (i \notin moved'[x] => old(i) = prices[i])
         /\ PriceRows(q.seen[i].base, old(i)) \subseteq Archived(i)
         /\ i \in Items /\ old(i) \in SpacePrices
  BY <1>1, <1>2, <1>3 DEF Backed, Fitting, IsSeen, Columns
<1>5. ASSUME NEW pair \in priced
      PROVE  /\ pair = <<pair[1], pair[2]>> /\ pair[1] \in DOMAIN q.seen /\ pair[2] \in Spaces
             /\ MayMove(q, old(pair[1]), pair[2]) /\ found[pair] \in Prices
  <2>1. found[pair] = Observed(q.of[pair[1]], pair[2]) /\ found[pair] > 0
    OBVIOUS
  <2>2. found[pair] \in Found
    BY <1>2, <2>1, ObservedIsPrice DEF Tables
  <2>3. found[pair] \in Prices
    BY <2>1, <2>2, Numbers DEF Found
  <2> QED
    BY <1>3, <2>3
<1> HIDE DEF q, found, old, priced
<1>6. IsFiniteSet(priced) /\ IsFiniteSet(touched)
  <2>1. IsFiniteSet(Items \X Spaces)
    BY MenuPricesAssumption, FS_Product
  <2>2. priced \subseteq Items \X Spaces
    <3> SUFFICES ASSUME NEW pair \in priced PROVE pair \in Items \X Spaces
      OBVIOUS
    <3>1. <<pair[1], pair[2]>> \in Items \X Spaces
      BY <1>4, <1>5
    <3> QED
      BY <1>5, <3>1
  <2>3. touched \subseteq Items
    BY <1>4, <1>5
  <2> QED
    BY <2>1, <2>2, <2>3, MenuPricesAssumption, FS_Subset
<1>7. /\ pairs \in Seq(priced) /\ \A pair \in priced : \E n \in 1..Len(pairs) : pairs[n] = pair
      /\ its \in Seq(touched)
  <2> HIDE DEF touched
  <2> QED
    BY <1>6, SetToSeqIs
<1> HIDE DEF pairs, its
<1>8. Len(pairs) \in Nat /\ DOMAIN pairs = 1..Len(pairs) /\ Len(its) \in Nat /\ DOMAIN its = 1..Len(its)
  BY <1>7
<1>9. ASSUME NEW n \in 1..Len(pairs)
      PROVE  /\ rows[n] = Row(pairs[n][1], pairs[n][2], found[pairs[n]])
             /\ pairs[n] \in priced /\ rows[n] \in RowWrites
             /\ rows[n].what = "row" /\ rows[n].item = pairs[n][1]
  <2>1. pairs[n] \in priced
    BY <1>7, ElementOfSeq
  <2>2. pairs[n][1] \in Items /\ pairs[n][2] \in Spaces /\ found[pairs[n]] \in Prices
    BY <1>4, <1>5, <2>1
  <2>3. rows[n] = Row(pairs[n][1], pairs[n][2], found[pairs[n]])
    BY <1>8
  <2> HIDE DEF rows
  <2> QED
    BY <2>1, <2>2, <2>3 DEF Row, RowWrites, Keys
<1>10. rows \in Seq(Writes) /\ Len(rows) = Len(pairs)
  <2>1. rows \in [1..Len(pairs) -> Writes]
    BY <1>8, <1>9 DEF Writes
  <2> HIDE DEF rows
  <2> QED
    BY <1>8, <2>1
<1>11. ASSUME NEW i \in touched
       PROVE  /\ i \in DOMAIN q.seen /\ filled(i) \in SpacePrices
              /\ \A s \in DOMAIN filled(i) :
                    \/ <<i, s>> \in priced /\ filled(i)[s] = found[<<i, s>>]
                    \/ <<i, s>> \notin priced /\ s \in DOMAIN old(i) /\ filled(i)[s] = old(i)[s]
              /\ \A s \in Spaces : <<i, s>> \notin priced => Price(filled(i), s) = Price(old(i), s)
  <2>1. i \in DOMAIN q.seen
    BY <1>5
  <2> DEFINE new == filled(i)
             D == DOMAIN old(i) \union {t \in Spaces : <<i, t>> \in priced}
  <2>2. DOMAIN old(i) \subseteq Spaces /\ old(i) \in [DOMAIN old(i) -> Prices]
    BY <1>4, <2>1, IsSpacePrices
  <2>3. new = [s \in D |-> IF <<i, s>> \in priced THEN found[<<i, s>>] ELSE old(i)[s]]
    BY DEF old
  <2>4. \A s \in D : <<i, s>> \in priced => found[<<i, s>>] \in Prices
    BY <1>5
  <2>5. D \in SUBSET Spaces
    BY <2>2
  <2> HIDE DEF new
  <2>6. new \in [D -> Prices]
    BY <2>2, <2>3, <2>4
  <2>7. new \in SpacePrices
    BY <2>5, <2>6 DEF SpacePrices
  <2>8. \A s \in D : \/ <<i, s>> \in priced /\ new[s] = found[<<i, s>>]
                     \/ <<i, s>> \notin priced /\ s \in DOMAIN old(i) /\ new[s] = old(i)[s]
    BY <2>3
  <2>9. \A s \in Spaces : <<i, s>> \notin priced => Price(new, s) = Price(old(i), s)
    BY <2>3 DEF Price
  <2> QED
    BY <2>1, <2>3, <2>7, <2>8, <2>9 DEF new
<1>12. ASSUME NEW n \in 1..Len(its)
       PROVE  /\ maps[n] = Map(its[n], filled(its[n]))
              /\ its[n] \in touched /\ maps[n] \in MapWrites
              /\ maps[n].what = "map" /\ maps[n].item = its[n] /\ maps[n].map = filled(its[n])
  <2>1. its[n] \in touched
    <3> HIDE DEF touched
    <3> QED
      BY <1>7, ElementOfSeq
  <2>2. maps[n] = Map(its[n], filled(its[n]))
    BY <1>8
  <2>3. its[n] \in Items /\ filled(its[n]) \in SpacePrices
    BY <1>4, <1>11, <2>1
  <2> HIDE DEF touched, filled, maps
  <2> QED
    BY <2>1, <2>2, <2>3 DEF Map, MapWrites
<1>13. maps \in Seq(Writes) /\ Len(maps) = Len(its)
  <2>1. maps \in [1..Len(its) -> Writes]
    <3> HIDE DEF filled, touched
    <3>1. \A n \in 1..Len(its) : maps[n] \in Writes
      BY <1>12 DEF Writes
    <3> QED
      BY <1>8, <3>1
  <2> HIDE DEF maps
  <2> QED
    BY <1>8, <2>1
<1> HIDE DEF touched, filled, rows, maps
<1>14. /\ writes \in Seq(Writes) /\ Len(writes) = Len(pairs) + Len(its)
       /\ \A n \in 1..Len(writes) :
              \/ n <= Len(pairs) /\ n \in 1..Len(pairs) /\ writes[n] = rows[n]
              \/ n > Len(pairs) /\ n - Len(pairs) \in 1..Len(its) /\ writes[n] = maps[n - Len(pairs)]
       /\ \A n \in 1..Len(pairs) : n \in 1..Len(writes) /\ writes[n] = rows[n]
  BY <1>8, <1>10, <1>13
<1> HIDE DEF writes
<1>15. r.writes = writes /\ r.do = "backfill"
  BY <1>1
<1>16. r = [do |-> q.do, space |-> q.space, over |-> q.over, writes |-> writes]
  OBVIOUS
<1> HIDE DEF r
<1>17. ASSUME NEW n \in 1..Len(writes)
       PROVE  /\ life[writes[n].item] # "new" /\ writes[n].what # "base"
              /\ writes[n].what = "map" =>
                    /\ n > Len(pairs) /\ writes[n].item \in touched
                    /\ writes[n].map = filled(writes[n].item)
  <2>1. CASE n <= Len(pairs) /\ n \in 1..Len(pairs) /\ writes[n] = rows[n]
    BY <1>4, <1>5, <1>9, <2>1
  <2>2. CASE n > Len(pairs) /\ n - Len(pairs) \in 1..Len(its) /\ writes[n] = maps[n - Len(pairs)]
    BY <1>4, <1>11, <1>12, <2>2
  <2> QED
    BY <1>14, <2>1, <2>2
<1>18. ASSUME NEW n \in 1..Len(writes), writes[n].what = "map"
       PROVE  /\ \A s \in DOMAIN writes[n].map : Backing(r, n, writes[n].item, s, writes[n].map[s])
              /\ writes[n].item \notin moved'[x] => Differs(q, writes[n].item, writes[n].map)
              /\ \A m \in 1..Len(writes) :
                     writes[m].what = "map" /\ writes[m].item = writes[n].item
                     => writes[m].map = writes[n].map
  <2> DEFINE i == writes[n].item
             new == filled(i)
  <2>1. n > Len(pairs) /\ i \in touched /\ writes[n].map = new
    BY <1>17, <1>18
  <2>2. /\ i \in DOMAIN q.seen
        /\ \A s \in DOMAIN new :
              \/ <<i, s>> \in priced /\ new[s] = found[<<i, s>>]
              \/ <<i, s>> \notin priced /\ s \in DOMAIN old(i) /\ new[s] = old(i)[s]
        /\ \A s \in Spaces : <<i, s>> \notin priced => Price(new, s) = Price(old(i), s)
    BY <1>11, <2>1
  <2> HIDE DEF new
  <2>3. ASSUME NEW s \in DOMAIN new
        PROVE  Backing(r, n, i, s, new[s])
    <3>1. CASE <<i, s>> \in priced /\ new[s] = found[<<i, s>>]
      <4>1. PICK m \in 1..Len(pairs) : pairs[m] = <<i, s>>
        BY <1>7, <3>1
      <4>2. m \in 1..Len(writes) /\ writes[m] = rows[m] /\ m < n
        BY <1>8, <1>14, <2>1
      <4>3. rows[m] = Row(i, s, new[s])
        BY <1>9, <3>1, <4>1
      <4> QED
        BY <1>15, <4>2, <4>3 DEF Backing, RowFor
    <3>2. CASE s \in DOMAIN old(i) /\ new[s] = old(i)[s]
      <4>1. <<s, new[s]>> \in PriceRows(q.seen[i].base, old(i))
        BY <3>2 DEF PriceRows
      <4> QED
        BY <1>4, <2>2, <4>1 DEF Backing
    <3> QED
      BY <2>2, <3>1, <3>2
  <2>4. ASSUME i \notin moved'[x]
        PROVE  Differs(q, i, new)
    <3> SUFFICES ASSUME NEW s \in Spaces, Price(new, s) # Price(prices[i], s)
                 PROVE  MayMove(q, prices[i], s)
      BY DEF Differs
    <3>1. old(i) = prices[i]
      BY <1>4, <2>2, <2>4
    <3>2. <<i, s>> \in priced
      BY <2>2, <3>1
    <3> QED
      BY <1>5, <3>1, <3>2
  <2>5. ASSUME NEW m \in 1..Len(writes), writes[m].what = "map", writes[m].item = i
        PROVE  writes[m].map = new
    BY <1>17, <2>5 DEF new
  <2> QED
    BY <2>1, <2>3, <2>4, <2>5
<1> QED
  BY <1>1, <1>3, <1>14, <1>16, <1>17, <1>18, WritesStep
\* The last of the writes of each column stays, and every row is added.
LEMMA AppliedIs ==
  ASSUME Tables, NEW writes \in Seq(Writes), Apply(writes)
  PROVE  /\ prices' \in [Items -> SpacePrices] /\ base' \in [Items -> Prices \union {0}]
         /\ history' = [i \in Items |-> history'[i]]
         /\ \A i \in Items :
               /\ \/ prices'[i] = prices[i]
                  \/ \E m \in 1..Len(writes) : /\ writes[m].what = "map" /\ writes[m].item = i
                                               /\ prices'[i] = writes[m].map
               /\ \/ base'[i] = base[i]
                  \/ \E m \in 1..Len(writes) : /\ writes[m].what = "base" /\ writes[m].item = i
                                               /\ base'[i] = writes[m].price
               /\ history[i] \subseteq history'[i] /\ history'[i] \subseteq Keys \X Prices
               /\ \A m \in 1..Len(writes) : \A key, k :
                      writes[m] = Row(i, key, k) => <<key, k>> \in history'[i]
<1>1. Len(writes) \in Nat /\ DOMAIN writes = 1..Len(writes)
  OBVIOUS
<1>2. \A m \in 1..Len(writes) : writes[m] \in Writes
  BY ElementOfSeq
<1>3. /\ prices' = [i \in Items |-> MapAfter(i, writes)]
      /\ base' = [i \in Items |-> BaseAfter(i, writes)]
      /\ history' = [i \in Items |-> history[i] \union RowsOf(i, writes)]
  BY DEF Apply
<1>4. ASSUME NEW i \in Items
      PROVE  \/ MapAfter(i, writes) = prices[i]
             \/ \E m \in 1..Len(writes) : /\ writes[m].what = "map" /\ writes[m].item = i
                                          /\ MapAfter(i, writes) = writes[m].map
  <2> DEFINE maps == {n \in DOMAIN writes : writes[n].what = "map" /\ writes[n].item = i}
  <2>1. MapAfter(i, writes) = IF maps = {} THEN prices[i] ELSE writes[Max(maps)].map
    BY DEF MapAfter
  <2>2. maps \in SUBSET (1..Len(writes)) /\ \A m \in maps : writes[m].what = "map" /\ writes[m].item = i
    BY <1>1
  <2> HIDE DEF maps
  <2>3. maps # {} => Max(maps) \in maps
    BY <1>1, <2>2, MaxIsThere
  <2> QED
    BY <2>1, <2>2, <2>3
<1>5. ASSUME NEW i \in Items
      PROVE  \/ BaseAfter(i, writes) = base[i]
             \/ \E m \in 1..Len(writes) : /\ writes[m].what = "base" /\ writes[m].item = i
                                          /\ BaseAfter(i, writes) = writes[m].price
  <2> DEFINE bases == {n \in DOMAIN writes : writes[n].what = "base" /\ writes[n].item = i}
  <2>1. BaseAfter(i, writes) = IF bases = {} THEN base[i] ELSE writes[Max(bases)].price
    BY DEF BaseAfter
  <2>2. bases \in SUBSET (1..Len(writes)) /\ \A m \in bases : writes[m].what = "base" /\ writes[m].item = i
    BY <1>1
  <2> HIDE DEF bases
  <2>3. bases # {} => Max(bases) \in bases
    BY <1>1, <2>2, MaxIsThere
  <2> QED
    BY <2>1, <2>2, <2>3
<1>6. ASSUME NEW w \in Writes
      PROVE  /\ w.what = "map" => w.map \in SpacePrices
             /\ w.what = "base" => w.price \in Prices
             /\ w.what = "row" => w.key \in Keys /\ w.price \in Prices
  BY DEF Writes, RowWrites, MapWrites, BaseWrites
<1>7. \A i \in Items : MapAfter(i, writes) \in SpacePrices /\ BaseAfter(i, writes) \in Prices \union {0}
  <2> SUFFICES ASSUME NEW i \in Items
               PROVE  MapAfter(i, writes) \in SpacePrices /\ BaseAfter(i, writes) \in Prices \union {0}
    OBVIOUS
  <2>1. prices[i] \in SpacePrices /\ base[i] \in Prices \union {0}
    BY DEF Tables
  <2> QED
    BY <1>2, <1>4, <1>5, <1>6, <2>1
<1>8. ASSUME NEW i \in Items
      PROVE  /\ RowsOf(i, writes) \subseteq Keys \X Prices
             /\ \A m \in 1..Len(writes) : \A key, k :
                    writes[m] = Row(i, key, k) => <<key, k>> \in RowsOf(i, writes)
  <2>1. ToSet(writes) = {writes[m] : m \in 1..Len(writes)}
    BY <1>1 DEF ToSet
  <2>2. RowsOf(i, writes) \subseteq Keys \X Prices
    BY <1>2, <1>6, <2>1 DEF RowsOf
  <2>3. ASSUME NEW m \in 1..Len(writes), NEW key, NEW k, writes[m] = Row(i, key, k)
        PROVE  <<key, k>> \in RowsOf(i, writes)
    <3>1. writes[m] \in {v \in ToSet(writes) : v.what = "row" /\ v.item = i}
      BY <2>1, <2>3 DEF Row
    <3>2. writes[m].key = key /\ writes[m].price = k
      BY <2>3 DEF Row
    <3> QED
      BY <3>1, <3>2 DEF RowsOf
  <2> QED
    BY <2>2, <2>3
<1>9. \A i \in Items : /\ prices'[i] = MapAfter(i, writes) /\ base'[i] = BaseAfter(i, writes)
                       /\ history'[i] = history[i] \union RowsOf(i, writes)
  BY <1>3
<1>10. prices' \in [Items -> SpacePrices] /\ base' \in [Items -> Prices \union {0}]
  BY <1>3, <1>7
<1>11. history' = [i \in Items |-> history'[i]]
  BY <1>3
<1>12. ASSUME NEW i \in Items
       PROVE  /\ history[i] \subseteq history'[i] /\ history'[i] \subseteq Keys \X Prices
              /\ \A m \in 1..Len(writes) : \A key, k :
                      writes[m] = Row(i, key, k) => <<key, k>> \in history'[i]
  BY <1>8, <1>9 DEF Tables
<1> QED
  BY <1>4, <1>5, <1>9, <1>10, <1>11, <1>12

\* A step of request x executes the first n of all its writes.
Executes(x, all, n) ==
    /\ IF n = Len(all) THEN End(x)
       ELSE Goto(x, "write", [req[x] EXCEPT !.writes = SubSeq(all, n + 1, Len(all))])
    /\ \E S \in SUBSET Items : /\ Moved(S, Clients \ {x})
                               /\ \A i \in Items \ S : prices'[i] = prices[i]

\* What the first n of all these writes leave behind.
Wrote(all, n) ==
    /\ prices' \in [Items -> SpacePrices] /\ base' \in [Items -> Prices \union {0}]
    /\ history' = [i \in Items |-> history'[i]]
    /\ \A i \in Items :
          /\ \/ prices'[i] = prices[i]
             \/ \E m \in 1..n : all[m].what = "map" /\ all[m].item = i /\ prices'[i] = all[m].map
          /\ \/ base'[i] = base[i]
             \/ \E m \in 1..n : all[m].what = "base" /\ all[m].item = i /\ base'[i] = all[m].price
          /\ history[i] \subseteq history'[i] /\ history'[i] \subseteq Keys \X Prices
          /\ \A m \in 1..n : \A key, k : all[m] = Row(i, key, k) => <<key, k>> \in history'[i]

LEMMA WrittenIs ==
  ASSUME PricesInv, NEW x \in Clients, Write(x)
  PROVE  /\ req[x].writes \in Seq(Writes)
         /\ \E n \in 0..Len(req[x].writes) :
               /\ req[x].do # "backfill" => n = Len(req[x].writes)
               /\ Executes(x, req[x].writes, n) /\ Wrote(req[x].writes, n)
<1> DEFINE all == req[x].writes
           n == IF req[x].do = "backfill" /\ Chunk < Len(all) THEN Chunk ELSE Len(all)
           now == SubSeq(all, 1, n)
           S == {w.item : w \in {v \in ToSet(now) : v.what # "row"}}
<1>1. /\ at[x] = "write" /\ Apply(now) /\ Moved(S, Clients \ {x})
      /\ IF n = Len(all) THEN End(x)
         ELSE Goto(x, "write", [req[x] EXCEPT !.writes = SubSeq(all, n + 1, Len(all))])
  BY DEF Write
<1>2. Tables /\ Asked(x)
  BY DEF PricesInv, OfRequest
<1>3. all \in Seq(Writes)
  BY <1>1, <1>2 DEF Asked, WriteRequests
<1>4. Len(all) \in Nat /\ n \in Nat /\ n <= Len(all) /\ (req[x].do # "backfill" => n = Len(all))
  BY <1>3, MenuPricesAssumption
<1> HIDE DEF n, all
<1>5. \A m \in 1..n : m \in 1..Len(all) /\ all[m] \in Writes
  BY <1>3, <1>4, ElementOfSeq
<1>6. /\ now \in Seq(Writes) /\ Len(now) = n
      /\ \A m \in 1..n : now[m] = all[m]
  <2>1. /\ SubSeq(all, 1, n) \in Seq(Writes)
        /\ Len(SubSeq(all, 1, n)) = IF 1 <= n THEN n-1+1 ELSE 0
        /\ \A i \in 1 .. n-1+1 : SubSeq(all, 1, n)[i] = all[1+i-1]
    BY <1>4, <1>5, SubSeqProperties
  <2> QED
    BY <1>4, <2>1
<1> HIDE DEF now
<1>7. /\ prices' \in [Items -> SpacePrices] /\ base' \in [Items -> Prices \union {0}]
      /\ history' = [i \in Items |-> history'[i]]
      /\ \A i \in Items :
               /\ \/ prices'[i] = prices[i]
                  \/ \E m \in 1..n : now[m].what = "map" /\ now[m].item = i /\ prices'[i] = now[m].map
               /\ \/ base'[i] = base[i]
                  \/ \E m \in 1..n : now[m].what = "base" /\ now[m].item = i /\ base'[i] = now[m].price
               /\ history[i] \subseteq history'[i] /\ history'[i] \subseteq Keys \X Prices
               /\ \A m \in 1..n : \A key, k :
                      now[m] = Row(i, key, k) => <<key, k>> \in history'[i]
  BY <1>1, <1>2, <1>6, AppliedIs
<1>8. S \in SUBSET Items /\ \A i \in Items \ S : prices'[i] = prices[i]
  <2>1. ToSet(now) = {now[m] : m \in 1..n}
    BY <1>6 DEF ToSet
  <2>2. S \subseteq Items
    BY <1>5, <1>6, <2>1 DEF Writes, RowWrites, MapWrites, BaseWrites
  <2>3. ASSUME NEW m \in 1..n, now[m].what = "map"
        PROVE  now[m].item \in S
    BY <2>1, <2>3
  <2> HIDE DEF S
  <2> QED
    BY <1>7, <2>2, <2>3
<1> HIDE DEF S
<1>9. \A i \in Items :
          /\ \/ prices'[i] = prices[i]
             \/ \E m \in 1..n : all[m].what = "map" /\ all[m].item = i /\ prices'[i] = all[m].map
          /\ \/ base'[i] = base[i]
             \/ \E m \in 1..n : all[m].what = "base" /\ all[m].item = i /\ base'[i] = all[m].price
          /\ history[i] \subseteq history'[i] /\ history'[i] \subseteq Keys \X Prices
          /\ \A m \in 1..n : \A key, k :
                 all[m] = Row(i, key, k) => <<key, k>> \in history'[i]
  <2> TAKE i \in Items
  <2>1. \A m \in 1..n : now[m] = all[m]
    BY <1>6
  <2>2. /\ prices'[i] = prices[i]
           \/ \E m \in 1..n : now[m].what = "map" /\ now[m].item = i /\ prices'[i] = now[m].map
        /\ base'[i] = base[i]
           \/ \E m \in 1..n : now[m].what = "base" /\ now[m].item = i /\ base'[i] = now[m].price
        /\ history[i] \subseteq history'[i] /\ history'[i] \subseteq Keys \X Prices
    BY <1>7
  <2>3. \A m \in 1..n : \A key, k : now[m] = Row(i, key, k) => <<key, k>> \in history'[i]
    BY <1>7
  <2>4. \A m \in 1..n : \A key, k : all[m] = Row(i, key, k) => <<key, k>> \in history'[i]
    BY <2>1, <2>3
  <2> QED
    BY <2>1, <2>2, <2>4
<1>10. Wrote(all, n)
  BY <1>7, <1>9 DEF Wrote
<1>11. Executes(x, all, n)
  BY <1>1, <1>8 DEF Executes
<1>12. n \in 0..Len(all)
  BY <1>4
<1>13. req[x].writes = all
  BY DEF all
<1> QED
  BY <1>3, <1>4, <1>10, <1>11, <1>12, <1>13
\* The prices of an item that were read and are written are those asked for.
LEMMA WriteMovesAsked ==
  ASSUME PricesInv, NEW x \in Clients, Write(x), NEW i \in Items \ moved[x], NEW s \in Spaces,
         Price(prices'[i], s) # Price(prices[i], s)
  PROVE  MayMove(req[x], prices[i], s)
<1> DEFINE all == req[x].writes
<1>1. PICK n \in 0..Len(all) : Wrote(all, n)
  BY WrittenIs
<1>2. Fitting(x) /\ at[x] = "write" /\ Len(all) \in Nat
  BY WrittenIs DEF PricesInv, OfRequest, Write
<1>3. PICK m \in 1..n : all[m].what = "map" /\ all[m].item = i /\ prices'[i] = all[m].map
  BY <1>1 DEF Wrote
<1>4. m \in 1..Len(all)
  BY <1>2
<1>5. Differs(req[x], i, all[m].map)
  BY <1>2, <1>3, <1>4 DEF Fitting
<1> QED
  BY <1>3, <1>5 DEF Differs

\* What an item has after a transaction has its row, from before or in it.
LEMMA WriteArchives ==
  ASSUME PricesInv, NEW x \in Clients, Write(x), UNCHANGED <<life, typed>>
  PROVE  PricesAreArchived'
<1> DEFINE all == req[x].writes
<1>1. PICK n \in 0..Len(all) : (req[x].do # "backfill" => n = Len(all)) /\ Wrote(all, n)
  BY WrittenIs
<1>2. Backed(x) /\ at[x] = "write" /\ Len(all) \in Nat /\ PricesAreArchived
  BY WrittenIs DEF PricesInv, OfRequest, Write
<1> SUFFICES ASSUME NEW i \in Items, life[i] # "new", NEW pair \in PriceRows(base'[i], prices'[i])
             PROVE  pair \in history'[i] \union typed[i]
  BY DEF PricesAreArchived
<1>3. ASSUME NEW m \in 1..n, NEW key, NEW k, Backing(req[x], m, i, key, k)
      PROVE  <<key, k>> \in history'[i] \union typed[i]
  <2>1. CASE <<key, k>> \in Archived(i)
    BY <1>1, <2>1 DEF Wrote, Archived
  <2>2. CASE RowFor(req[x], m, i, key, k)
    <3>1. PICK j \in 1..Len(all) : (j < m \/ req[x].do # "backfill") /\ all[j] = Row(i, key, k)
      BY <2>2 DEF RowFor
    <3>2. j \in 1..n
      BY <1>1, <1>2, <1>3, <3>1
    <3> QED
      BY <1>1, <3>1, <3>2 DEF Wrote
  <2> QED
    BY <1>3, <2>1, <2>2 DEF Backing
<1>4. ASSUME NEW m \in 1..n
      PROVE  m \in 1..Len(all)
  BY <1>2
<1>5. PriceRows(base[i], prices[i]) \subseteq history'[i] \union typed[i]
  BY <1>1, <1>2 DEF PricesAreArchived, Wrote
<1>6. <<Base, base'[i]>> \in history'[i] \union typed[i]
  <2>1. CASE base'[i] = base[i]
    BY <1>5, <2>1 DEF PriceRows
  <2>2. ASSUME NEW m \in 1..n, all[m].what = "base", all[m].item = i, base'[i] = all[m].price
        PROVE  <<Base, base'[i]>> \in history'[i] \union typed[i]
    BY <1>2, <1>3, <1>4, <2>2 DEF Backed
  <2> QED
    BY <1>1, <2>1, <2>2 DEF Wrote
<1>7. ASSUME NEW s \in DOMAIN prices'[i]
      PROVE  <<s, prices'[i][s]>> \in history'[i] \union typed[i]
  <2>1. CASE prices'[i] = prices[i]
    BY <1>5, <2>1 DEF PriceRows
  <2>2. ASSUME NEW m \in 1..n, all[m].what = "map", all[m].item = i, prices'[i] = all[m].map
        PROVE  <<s, prices'[i][s]>> \in history'[i] \union typed[i]
    BY <1>2, <1>3, <1>4, <2>2 DEF Backed
  <2> QED
    BY <1>1, <2>1, <2>2 DEF Wrote
<1> QED
  BY <1>6, <1>7 DEF PriceRows

LEMMA RestIs ==
  ASSUME NEW S, NEW all \in Seq(S), NEW n \in 0..Len(all)
  PROVE  /\ SubSeq(all, n + 1, Len(all)) \in Seq(S)
         /\ Len(SubSeq(all, n + 1, Len(all))) = Len(all) - n
         /\ \A m \in 1..(Len(all) - n) : SubSeq(all, n + 1, Len(all))[m] = all[m + n]
<1> DEFINE rest == SubSeq(all, n + 1, Len(all))
           N == Len(all)
<1>1. N \in Nat /\ n \in Nat /\ n <= N
  OBVIOUS
<1>2. \A m \in (n + 1)..N : all[m] \in S
  BY <1>1, ElementOfSeq
<1> HIDE DEF N
<1>3. /\ SubSeq(all, n + 1, N) \in Seq(S)
      /\ Len(SubSeq(all, n + 1, N)) = IF n + 1 <= N THEN N - (n + 1) + 1 ELSE 0
      /\ \A i \in 1 .. N - (n + 1) + 1 : SubSeq(all, n + 1, N)[i] = all[(n + 1) + i - 1]
  BY <1>1, <1>2, SubSeqProperties
<1>4. Len(SubSeq(all, n + 1, N)) = N - n
  BY <1>1, <1>3
<1>5. ASSUME NEW m \in 1..(N - n)
      PROVE  SubSeq(all, n + 1, N)[m] = all[m + n]
  <2>1. m \in 1 .. N - (n + 1) + 1 /\ (n + 1) + m - 1 = m + n
    BY <1>1
  <2>2. SubSeq(all, n + 1, N)[m] = all[(n + 1) + m - 1]
    BY <1>3, <2>1
  <2> QED
    BY <2>1, <2>2
<1> QED
  BY <1>3, <1>4, <1>5 DEF N

\* What is left of all these writes after the first n.
RestOf(all, n, rest) ==
    /\ rest \in Seq(Writes) /\ Len(rest) = Len(all) - n
    /\ \A m \in 1..Len(rest) : rest[m] = all[m + n]

\* A backfill that goes on with the rest of its writes.
LEMMA RestOfWrites ==
  ASSUME PricesInv, NEW x \in Clients, NEW all, all = req[x].writes, NEW n \in 0..Len(all),
         at[x] = "write", Wrote(all, n), UNCHANGED <<life, typed>>,
         NEW rest, RestOf(all, n, rest),
         NEW r \in WriteRequests, r.writes = rest, r.do = "backfill", req[x].do = "backfill",
         r.space = req[x].space, r.over = req[x].over,
         at'[x] = "write", moved'[x] = moved[x], req'[x] = r
  PROVE  OfRequest(x)'
<1> DEFINE q == req[x]
<1>1. Asked(x) /\ Backed(x) /\ Fitting(x)
  BY DEF PricesInv, OfRequest
<1>2. Asking(q) /\ all \in Seq(Writes)
  BY <1>1 DEF Asked, WriteRequests
<1>3. Len(all) \in Nat /\ n \in Nat /\ n <= Len(all)
  BY <1>2
<1> HIDE DEF q
<1>4. Asking(r)
  BY <1>2 DEF Asking, q
<1>5. /\ rest \in Seq(Writes) /\ Len(rest) \in Nat /\ Len(rest) = Len(all) - n
      /\ \A m \in 1..Len(rest) : m + n \in 1..Len(all) /\ rest[m] = all[m + n]
  BY <1>3 DEF RestOf
<1>6. r.do = "backfill" /\ q.do = "backfill" /\ r.do = q.do /\ r.space = q.space /\ r.over = q.over /\ r.writes = rest
  BY DEF q
<1>7. q.writes = all
  BY DEF q
<1>8. Asked(x)'
  BY <1>4 DEF Asked
<1>9. ASSUME NEW m \in 1..Len(rest), NEW i \in Items, NEW key, NEW k, Backing(q, m + n, i, key, k)
      PROVE  Backing(req[x], m, i, key, k)'
  <2>1. CASE <<key, k>> \in Archived(i)
    BY <2>1 DEF Backing, Archived, Wrote
  <2>2. CASE RowFor(q, m + n, i, key, k)
    <3>1. PICK j \in 1..Len(all) : j < m + n /\ all[j] = Row(i, key, k)
      BY <1>6, <1>7, <2>2 DEF RowFor
    <3>2. CASE j \in 1..n
      <4>1. <<key, k>> \in history'[i]
        BY <3>1, <3>2 DEF Wrote
      <4> QED
        BY <4>1 DEF Backing, Archived
    <3>3. CASE j \notin 1..n
      <4>1. j - n \in 1..Len(rest) /\ j - n < m /\ (j - n) + n = j
        <5>1. j \in Nat /\ n < j /\ j <= Len(all) /\ j < m + n /\ m \in Nat
          BY <1>3, <1>5, <3>1, <3>3
        <5> QED
          BY <1>3, <1>5, <5>1
      <4>2. rest[j - n] = Row(i, key, k)
        BY <1>5, <3>1, <4>1
      <4>3. RowFor(req[x], m, i, key, k)'
        BY <1>6, <4>1, <4>2 DEF RowFor
      <4> QED
        BY <4>3 DEF Backing
    <3> QED
      BY <3>2, <3>3
  <2> QED
    BY <1>9, <2>1, <2>2 DEF Backing
<1>10. ASSUME NEW m \in 1..Len(rest)
       PROVE  rest[m].item \in Items
  <2>1. rest[m] \in Writes
    BY <1>5, ElementOfSeq
  <2> QED
    BY <2>1 DEF Writes, RowWrites, MapWrites, BaseWrites
<1>11. at'[x] = "write" /\ req'[x].writes = rest
  BY <1>6
<1>12. Backed(x)'
  <2>1. ASSUME NEW m \in 1..Len(rest)
        PROVE  /\ rest[m].what = "map" =>
                      \A s \in DOMAIN rest[m].map :
                          Backing(req[x], m, rest[m].item, s, rest[m].map[s])'
               /\ rest[m].what = "base" =>
                      Backing(req[x], m, rest[m].item, Base, rest[m].price)'
    <3>1. m + n \in 1..Len(all) /\ rest[m] = all[m + n] /\ rest[m].item \in Items
      BY <1>5, <1>10
    <3>2. /\ rest[m].what = "map" =>
                 \A s \in DOMAIN rest[m].map : Backing(q, m + n, rest[m].item, s, rest[m].map[s])
          /\ rest[m].what = "base" => Backing(q, m + n, rest[m].item, Base, rest[m].price)
      BY <1>1, <1>7, <3>1 DEF Backed, q
    <3>3. ASSUME rest[m].what = "map", NEW s \in DOMAIN rest[m].map
          PROVE  Backing(req[x], m, rest[m].item, s, rest[m].map[s])'
      <4> DEFINE i == rest[m].item
                 k == rest[m].map[s]
      <4>1. i \in Items /\ Backing(q, m + n, i, s, k)
        BY <3>1, <3>2, <3>3
      <4> HIDE DEF i, k
      <4>2. Backing(req[x], m, i, s, k)'
        BY <1>9, <4>1
      <4> QED
        BY <4>2 DEF i, k
    <3>4. ASSUME rest[m].what = "base"
          PROVE  Backing(req[x], m, rest[m].item, Base, rest[m].price)'
      <4> DEFINE i == rest[m].item
                 k == rest[m].price
      <4>1. i \in Items /\ Backing(q, m + n, i, Base, k)
        BY <3>1, <3>2, <3>4
      <4> HIDE DEF i, k
      <4>2. Backing(req[x], m, i, Base, k)'
        BY <1>9, <4>1
      <4> QED
        BY <4>2 DEF i, k
    <3> QED
      BY <3>3, <3>4
  <2> QED
    BY <1>11, <2>1 DEF Backed
<1>13. Fitting(x)'
  <2>1. ASSUME NEW m \in 1..Len(rest)
        PROVE  /\ life'[rest[m].item] # "new"
               /\ rest[m].what = "map" =>
                     /\ rest[m].item \notin moved'[x] => Differs(r, rest[m].item, rest[m].map)'
                     /\ \A j \in 1..Len(rest) :
                            rest[j].what = "map" /\ rest[j].item = rest[m].item
                            => rest[j].map = rest[m].map
    <3> DEFINE i == rest[m].item
               map == rest[m].map
    <3>1. m + n \in 1..Len(all) /\ rest[m] = all[m + n] /\ i \in Items
      BY <1>5, <1>10
    <3>2. /\ life[i] # "new"
          /\ rest[m].what = "map" =>
                /\ i \notin moved[x] => Differs(q, i, map)
                /\ \A j \in 1..Len(all) : all[j].what = "map" /\ all[j].item = i => all[j].map = map
      BY <1>1, <1>7, <3>1 DEF Fitting, q
    <3>3. ASSUME rest[m].what = "map", i \notin moved[x]
          PROVE  Differs(r, i, map)'
      <4>1. CASE prices'[i] = prices[i]
        BY <1>6, <3>2, <3>3, <4>1 DEF Differs, MayMove
      <4>2. CASE prices'[i] = map
        BY <4>2 DEF Differs
      <4>3. prices'[i] = prices[i] \/ prices'[i] = map
        <5>1. \A j \in 1..n : j \in 1..Len(all)
          BY <1>3
        <5>2. \/ prices'[i] = prices[i]
              \/ \E j \in 1..n : all[j].what = "map" /\ all[j].item = i /\ prices'[i] = all[j].map
          BY <3>1 DEF Wrote
        <5> QED
          BY <3>2, <3>3, <5>1, <5>2
      <4> QED
        BY <4>1, <4>2, <4>3
    <3>4. ASSUME rest[m].what = "map", NEW j \in 1..Len(rest), rest[j].what = "map", rest[j].item = i
          PROVE  rest[j].map = map
        <5>1. j + n \in 1..Len(all) /\ rest[j] = all[j + n]
          BY <1>5, <3>4
        <5> QED
          BY <3>2, <3>4, <5>1
    <3>5. life'[i] # "new" /\ moved'[x] = moved[x]
      BY <3>2
    <3> QED
      BY <3>3, <3>4, <3>5
  <2>2. ASSUME NEW m \in 1..Len(rest), Differs(r, rest[m].item, rest[m].map)'
        PROVE  Differs(req[x], rest[m].item, rest[m].map)'
    BY <2>2 DEF Differs
  <2>3. ASSUME NEW m \in 1..Len(rest)
        PROVE  /\ life'[rest[m].item] # "new"
               /\ rest[m].what = "map" =>
                     /\ rest[m].item \notin moved'[x] => Differs(req[x], rest[m].item, rest[m].map)'
                     /\ \A j \in 1..Len(rest) :
                            rest[j].what = "map" /\ rest[j].item = rest[m].item
                            => rest[j].map = rest[m].map
    BY <2>1, <2>2
  <2> QED
    BY <1>11, <2>3 DEF Fitting
<1> QED
  BY <1>8, <1>12, <1>13 DEF OfRequest

LEMMA WriteKeepsPrices ==
  ASSUME PricesInv, IInv', NEW x \in Clients, Write(x)
  PROVE  PricesInv'
<1> DEFINE all == req[x].writes
<1>1. PICK n \in 0..Len(all) :
        /\ req[x].do # "backfill" => n = Len(all)
        /\ Executes(x, all, n) /\ Wrote(all, n)
  BY WrittenIs
<1>2. PICK S \in SUBSET Items : Moved(S, Clients \ {x}) /\ \A i \in Items \ S : prices'[i] = prices[i]
  BY <1>1 DEF Executes
<1>3. /\ UNCHANGED <<life, spaceIds, mapping, place, sales, requests, typed, crossed>>
      /\ at[x] = "write" /\ Tables /\ IInv
  BY DEF Write, outside, PricesInv
<1>4. /\ moved' \in [Clients -> SUBSET Items]
      /\ \A y \in Clients : at'[y] \in {"resolve", "write"} =>
             moved'[y] = IF y # x THEN moved[y] \union S ELSE moved[y]
  BY <1>2, <1>3 DEF Moved, Tables
<1>5. Tables'
  BY <1>1, <1>3, <1>4 DEF Tables, Wrote, SalesTyped
<1>6. PricesAreArchived'
  BY <1>3, WriteArchives
<1>7. \A i \in Items : Archived(i) \subseteq Archived(i)'
  BY <1>1, <1>3 DEF Archived, Wrote
<1>8. \/ at' = [at EXCEPT ![x] = "idle"] /\ req' = [req EXCEPT ![x] = NoRequest]
      \/ /\ n # Len(all) /\ at' = [at EXCEPT ![x] = "write"]
         /\ req' = [req EXCEPT ![x] = [req[x] EXCEPT !.writes = SubSeq(all, n + 1, Len(all))]]
  BY <1>1 DEF Executes, End, Goto
<1>9. ASSUME NEW y \in Clients, y # x
      PROVE  at'[y] = at[y] /\ req'[y] = req[y] /\ Told(y)
  <2>1. at'[y] = at[y] /\ req'[y] = req[y]
    BY <1>3, <1>8, <1>9 DEF IInv, TypeInv
  <2> QED
    BY <1>2, <1>3, <1>4, <1>9, <2>1 DEF Told
<1>10. OfRequest(x)'
  <2>1. CASE at' = [at EXCEPT ![x] = "idle"] /\ req' = [req EXCEPT ![x] = NoRequest]
    <3>1. at'[x] = "idle" /\ req'[x] = NoRequest
      BY <1>3, <2>1 DEF IInv, TypeInv
    <3> QED
      BY <3>1 DEF OfRequest, Asked, Backed, Fitting
  <2>2. CASE /\ n # Len(all) /\ at' = [at EXCEPT ![x] = "write"]
             /\ req' = [req EXCEPT ![x] = [req[x] EXCEPT !.writes = SubSeq(all, n + 1, Len(all))]]
    <3>1. req[x].do = "backfill" /\ at'[x] = "write"
          /\ req'[x] = [req[x] EXCEPT !.writes = SubSeq(all, n + 1, Len(all))]
      BY <1>1, <1>3, <2>2 DEF IInv, TypeInv
    <3>2. moved'[x] = moved[x]
      BY <1>4, <3>1
    <3> DEFINE rest == SubSeq(all, n + 1, Len(all))
               r == [req[x] EXCEPT !.writes = rest]
    <3>3. all \in Seq(Writes) /\ req[x] \in WriteRequests
      BY <1>3 DEF PricesInv, OfRequest, Asked, WriteRequests
    <3>4. all = req[x].writes
      OBVIOUS
    <3> HIDE DEF all
    <3>5. RestOf(all, n, rest)
      BY <3>3, RestIs DEF RestOf
    <3>6. req'[x] = r
      BY <3>1
    <3> HIDE DEF rest
    <3>7. /\ r \in WriteRequests /\ r.writes = rest /\ r.do = req[x].do
          /\ r.space = req[x].space /\ r.over = req[x].over
      BY <3>3, <3>5 DEF WriteRequests, RestOf
    <3> HIDE DEF r
    <3>8. /\ at[x] = "write" /\ Wrote(all, n) /\ UNCHANGED <<life, typed>>
          /\ r.do = "backfill" /\ at'[x] = "write" /\ req[x].do = "backfill"
      BY <1>1, <1>3, <3>1, <3>7
    <3> QED
      BY <3>2, <3>4, <3>5, <3>6, <3>7, <3>8, RestOfWrites, ZenonT(60)
  <2> QED
    BY <1>8, <2>1, <2>2
<1> QED
  BY <1>5, <1>6, <1>7, <1>9, <1>10, PricesStep
\* A step of a mapping or a removal, or the end of a request: no price changes.
LEMMA MappingStep ==
  ASSUME PricesInv, IInv', NEW x \in Clients, NEW step, NEW r,
         at' = [at EXCEPT ![x] = step], req' = [req EXCEPT ![x] = r],
         \/ step = "idle" /\ r = NoRequest
         \/ step \in {"insert", "upsert"} /\ r \in MapRequests
         \/ step = "attach" /\ r \in MapRequests /\ r.space \in Spaces
         \/ step = "purge" /\ r.do = "remove" /\ r.item \in Items,
         UNCHANGED <<base, prices, history, place, sales, typed, moved>>,
         spaceIds' \in [Items -> SUBSET Spaces], requests' \in 0..MaxRequests, crossed' \subseteq Products \X Items,
         \A i \in Items : life'[i] = "new" <=> life[i] = "new"
  PROVE  PricesInv'
<1>1. Tables /\ IInv /\ PricesAreArchived
  BY DEF PricesInv
<1>2. at'[x] = step /\ req'[x] = r
  BY <1>1 DEF IInv, TypeInv
<1>3. Tables'
  BY <1>1 DEF Tables, SalesTyped
<1>4. PricesAreArchived'
  BY <1>1 DEF PricesAreArchived
<1>5. OfRequest(x)'
  BY <1>2 DEF OfRequest, Asked, Backed, Fitting
<1>6. ASSUME NEW y \in Clients, y # x
      PROVE  at'[y] = at[y] /\ req'[y] = req[y] /\ Told(y)
  BY <1>1, <1>6 DEF IInv, TypeInv, Told
<1>7. \A i \in Items : Archived(i) \subseteq Archived(i)'
  BY DEF Archived
<1> QED
  BY <1>3, <1>4, <1>5, <1>6, <1>7, PricesStep

LEMMA EndsKeepPrices ==
  ASSUME PricesInv, IInv', NEW x \in Clients,
         WriteFails(x) \/ Attach(x) \/ Purge(x) \/ PurgeFails(x)
  PROVE  PricesInv'
<1>1. Tables /\ IInv /\ Asked(x)
  BY DEF PricesInv, OfRequest
<1>2. /\ at' = [at EXCEPT ![x] = "idle"] /\ req' = [req EXCEPT ![x] = NoRequest]
      /\ UNCHANGED <<life, base, prices, history, place, sales, requests, typed, moved>>
  BY DEF WriteFails, Attach, Purge, PurgeFails, End, items, outside, ghosts
<1>3. requests' \in 0..MaxRequests
  BY <1>1, <1>2 DEF Tables
<1>4. spaceIds' \in [Items -> SUBSET Spaces]
  <2>1. CASE Attach(x)
    <3>1. req[x].space \in Spaces
      BY <1>1, <2>1 DEF Attach, Asked
    <3>2. spaceIds' = [i \in Items |-> IF i \in req[x].done \intersect There
                                       THEN spaceIds[i] \union {req[x].space} ELSE spaceIds[i]]
      BY <2>1 DEF Attach
    <3> QED
      BY <1>1, <3>1, <3>2 DEF Tables
  <2>2. CASE spaceIds' = spaceIds
    BY <1>1, <2>2 DEF Tables
  <2> QED
    BY <2>1, <2>2 DEF WriteFails, Purge, PurgeFails, items
<1>5. crossed' \subseteq Products \X Items
  <2>1. CASE PurgeFails(x)
    BY <1>1, <2>1 DEF PurgeFails, Asked, Tables, ProductsOf
  <2>2. CASE crossed' = crossed
    BY <1>1, <2>2 DEF Tables
  <2> QED
    BY <2>1, <2>2 DEF WriteFails, Attach, Purge, ghosts
<1> QED
  BY <1>2, <1>3, <1>4, <1>5, MappingStep

LEMMA MapRequestIs ==
  ASSUME NEW new, NEW done, NEW s
  PROVE  [do |-> "map", new |-> new, done |-> done, space |-> s] \in MapRequests
         <=> /\ DOMAIN new \subseteq Products /\ new \in [DOMAIN new -> Items]
             /\ done \subseteq Items /\ s \in Spaces \union {AllSpaces}
  BY DEF MapRequests

LEMMA StartsKeepPrices ==
  ASSUME PricesInv, IInv', NEW x \in Clients,
         \/ \E S \in SUBSET Products \ {{}} : \E new \in [S -> Items], s \in Spaces \union {AllSpaces} :
                MapProducts(x, new, s)
         \/ \E p \in Products, i \in Items, s \in Spaces \union {AllSpaces} : MapProduct(x, p, i, s)
         \/ \E i \in Items : RemoveItem(x, i)
  PROVE  PricesInv'
<1>1. Tables /\ IInv
  BY DEF PricesInv
<1>2. ASSUME OneRequest
      PROVE  requests' \in 0..MaxRequests
  BY <1>1, <1>2, MenuPricesAssumption DEF OneRequest, Tables
<1>3. ASSUME NEW S \in SUBSET Products, NEW new \in [S -> Items], NEW s \in Spaces \union {AllSpaces},
             MapProducts(x, new, s)
      PROVE  PricesInv'
  <2> DEFINE r == [do |-> "map", new |-> new, done |-> {}, space |-> s]
  <2>1. /\ OneRequest /\ at' = [at EXCEPT ![x] = "insert"] /\ req' = [req EXCEPT ![x] = r]
        /\ life' = Revived(Range(new)) /\ crossed' = {pair \in crossed : pair[2] \notin Range(new)}
        /\ UNCHANGED <<base, spaceIds, prices, history, place, sales, typed, moved>>
    BY <1>3 DEF MapProducts, Goto, outside
  <2>2. r \in MapRequests
    BY MapRequestIs
  <2>3. \A i \in Items : life'[i] = "new" <=> life[i] = "new"
    BY <1>1, <2>1 DEF Revived, IInv, TypeInv
  <2>4. spaceIds' \in [Items -> SUBSET Spaces] /\ crossed' \subseteq Products \X Items
    BY <1>1, <2>1 DEF Tables
  <2> HIDE DEF r
  <2> QED
    BY <1>2, <2>1, <2>2, <2>3, <2>4, MappingStep
<1>4. ASSUME NEW i \in Items, RemoveItem(x, i)
      PROVE  PricesInv'
  <2> DEFINE r == [do |-> "remove", item |-> i]
  <2>1. /\ OneRequest /\ at' = [at EXCEPT ![x] = "purge"] /\ req' = [req EXCEPT ![x] = r]
        /\ life[i] = "there" /\ life' = [life EXCEPT ![i] = "deleted"]
        /\ crossed' = crossed \union (BeingMapped(i) \X {i})
        /\ UNCHANGED <<base, spaceIds, prices, history, place, sales, typed, moved>>
    BY <1>4 DEF RemoveItem, Goto, outside
  <2>2. r.do = "remove" /\ r.item = i
    OBVIOUS
  <2>3. \A j \in Items : life'[j] = "new" <=> life[j] = "new"
    BY <1>1, <2>1 DEF IInv, TypeInv
  <2>4. spaceIds' \in [Items -> SUBSET Spaces] /\ crossed' \subseteq Products \X Items
    <3>1. BeingMapped(i) \subseteq Products
      BY DEF BeingMapped
    <3>2. crossed \subseteq Products \X Items
      BY <1>1 DEF Tables
    <3> QED
      BY <1>1, <2>1, <3>1, <3>2 DEF Tables
  <2> HIDE DEF r
  <2> QED
    BY <1>2, <2>1, <2>2, <2>3, <2>4, MappingStep
<1>5. ASSUME NEW p \in Products, NEW i \in Items, NEW s \in Spaces \union {AllSpaces},
             MapProduct(x, p, i, s)
      PROVE  PricesInv'
  <2> DEFINE new == [q \in {p} |-> i]
             r == [do |-> "map", new |-> new, done |-> {}, space |-> s]
  <2>1. /\ OneRequest /\ at' = [at EXCEPT ![x] = "upsert"] /\ req' = [req EXCEPT ![x] = r]
        /\ crossed' \in {crossed, crossed \union {<<p, i>>}}
        /\ UNCHANGED <<life, base, spaceIds, prices, history, place, sales, typed, moved>>
    BY <1>5 DEF MapProduct, Goto, items, outside
  <2>2. r \in MapRequests
    BY MapRequestIs
  <2>3. spaceIds' \in [Items -> SUBSET Spaces] /\ crossed' \subseteq Products \X Items
    BY <1>1, <2>1 DEF Tables
  <2> HIDE DEF r
  <2> QED
    BY <1>2, <2>1, <2>2, <2>3, MappingStep
<1> QED
  BY <1>3, <1>4, <1>5

LEMMA InsertsKeepPrices ==
  ASSUME PricesInv, IInv', NEW x \in Clients,
         Insert(x) \/ InsertFails(x) \/ \E p \in Products : Upsert(x, p)
  PROVE  PricesInv'
<1> DEFINE q == req[x]
<1>1. /\ at[x] \in {"insert", "upsert"} /\ UNCHANGED <<place, sales, requests>>
      /\ UNCHANGED <<life, base, spaceIds, prices, history, typed, moved, crossed>>
  BY DEF Insert, InsertFails, Upsert, items, outside, ghosts
<1>2. Tables /\ Asked(x)
  BY DEF PricesInv, OfRequest
<1>3. /\ q \in MapRequests /\ q = [do |-> "map", new |-> q.new, done |-> q.done, space |-> q.space]
  BY <1>1, <1>2 DEF Asked, MapRequests
<1>4. /\ DOMAIN q.new \subseteq Products /\ q.new \in [DOMAIN q.new -> Items]
      /\ q.done \subseteq Items /\ q.space \in Spaces \union {AllSpaces}
  BY <1>3, MapRequestIs
<1>5. /\ spaceIds' \in [Items -> SUBSET Spaces] /\ requests' \in 0..MaxRequests /\ crossed' \subseteq Products \X Items
      /\ \A i \in Items : life'[i] = "new" <=> life[i] = "new"
  BY <1>1, <1>2 DEF Tables
<1>6. ASSUME NEW done \in SUBSET Items, AfterMapping(x, done)
      PROVE  PricesInv'
  <2>1. CASE End(x)
    <3>1. at' = [at EXCEPT ![x] = "idle"] /\ req' = [req EXCEPT ![x] = NoRequest]
      BY <2>1 DEF End
    <3> QED
      BY <1>1, <1>5, <3>1, MappingStep
  <2>2. CASE q.space # AllSpaces /\ Goto(x, "attach", [q EXCEPT !.done = done])
    <3> DEFINE r == [q EXCEPT !.done = done]
    <3>1. at' = [at EXCEPT ![x] = "attach"] /\ req' = [req EXCEPT ![x] = r]
      BY <2>2 DEF Goto
    <3>2. r = [do |-> "map", new |-> q.new, done |-> done, space |-> q.space]
      BY <1>3
    <3>3. r \in MapRequests /\ r.space \in Spaces
      BY <1>4, <2>2, <3>2, MapRequestIs
    <3> HIDE DEF r
    <3> QED
      BY <1>1, <1>5, <3>1, <3>3, MappingStep
  <2> QED
    BY <1>6, <2>1, <2>2 DEF AfterMapping
<1>7. CASE Insert(x)
  <2>1. Range(q.new) \in SUBSET Items
    BY <1>4 DEF Range
  <2> QED
    BY <1>6, <1>7, <2>1 DEF Insert
<1>8. CASE InsertFails(x)
  <2>1. at' = [at EXCEPT ![x] = "upsert"] /\ req' = [req EXCEPT ![x] = q]
    BY <1>8 DEF InsertFails, Goto
  <2> HIDE DEF q
  <2> QED
    BY <1>1, <1>3, <1>5, <2>1, MappingStep
<1>9. ASSUME NEW p \in Products, Upsert(x, p)
      PROVE  PricesInv'
  <2> DEFINE rest == [s \in DOMAIN q.new \ {p} |-> q.new[s]]
             r(done) == [do |-> "map", new |-> rest, done |-> done, space |-> q.space]
  <2>1. p \in DOMAIN q.new /\ q.new[p] \in Items
    BY <1>4, <1>9 DEF Upsert
  <2>2. \E done \in SUBSET Items :
           IF rest = <<>> THEN AfterMapping(x, done) ELSE Goto(x, "upsert", r(done))
    <3>1. \E ok \in {TRUE, ~Faults} :
             LET done == IF ok THEN q.done \union {q.new[p]} ELSE q.done IN
             IF rest = <<>> THEN AfterMapping(x, done) ELSE Goto(x, "upsert", r(done))
      BY <1>9 DEF Upsert
    <3>2. q.done \union {q.new[p]} \in SUBSET Items /\ q.done \in SUBSET Items
      BY <1>4, <2>1
    <3> HIDE DEF q, rest, r
    <3> QED
      BY <3>1, <3>2
  <2>3. PICK done \in SUBSET Items :
           IF rest = <<>> THEN AfterMapping(x, done) ELSE Goto(x, "upsert", r(done))
    BY <2>2
  <2>4. CASE Goto(x, "upsert", r(done))
    <3>1. at' = [at EXCEPT ![x] = "upsert"] /\ req' = [req EXCEPT ![x] = r(done)]
      BY <2>4 DEF Goto
    <3>2. DOMAIN rest \subseteq Products /\ rest \in [DOMAIN rest -> Items]
      BY <1>4
    <3> HIDE DEF rest
    <3>3. r(done) \in MapRequests
      BY <1>4, <3>2, MapRequestIs
    <3> HIDE DEF r
    <3> QED
      BY <1>1, <1>5, <3>1, <3>3, MappingStep
  <2> QED
    BY <1>6, <2>3, <2>4
<1> QED
  BY <1>7, <1>8, <1>9
LEMMA NextKeepsPrices == PricesInv /\ [Next]_vars => PricesInv'
<1> SUFFICES ASSUME PricesInv, [Next]_vars
             PROVE  PricesInv'
  OBVIOUS
<1>1. IInv'
  BY NextKeepsIInv DEF PricesInv
<1>2. ASSUME NEW x \in Clients, Ask(x)
      PROVE  PricesInv'
  <2>1. CASE \E i \in Items, p \in Products \union {AnyProduct}, key \in Keys, shown \in Shown \union {NoPrice} :
                 ApplyPrice(x, i, p, key, shown)
    BY <1>1, <2>1, ApplyPriceKeepsPrices
  <2>2. CASE \E S \in SUBSET Items : \E asked \in [S -> {AnyProduct}], key \in Keys :
                 ApplyBulk(x, asked, key, NoPrice)
    BY <1>1, <2>2, ApplyBulkKeepsPrices
  <2>3. CASE \E only \in Spaces \union {AllSpaces}, over \in BOOLEAN : Backfill(x, only, over)
    BY <1>1, <2>3, BackfillKeepsPrices
  <2>4. CASE \/ \E S \in SUBSET Products \ {{}} : \E new \in [S -> Items], s \in Spaces \union {AllSpaces} :
                    MapProducts(x, new, s)
             \/ \E p \in Products, i \in Items, s \in Spaces \union {AllSpaces} : MapProduct(x, p, i, s)
             \/ \E i \in Items : RemoveItem(x, i)
    BY <1>1, <2>4, StartsKeepPrices
  <2> QED
    BY <1>2, <2>1, <2>2, <2>3, <2>4 DEF Ask
<1>3. ASSUME NEW x \in Clients, Work(x)
      PROVE  PricesInv'
  <2>1. CASE ResolveOne(x) \/ ResolveAll(x) \/ ReadBackfill(x) \/ ResolveBackfill(x)
    BY <1>1, <2>1, ResolveOneKeepsPrices, ResolveAllKeepsPrices,
       ReadBackfillKeepsPrices, ResolveBackfillKeepsPrices
  <2>2. CASE Write(x)
    BY <1>1, <2>2, WriteKeepsPrices
  <2>3. CASE WriteFails(x) \/ Attach(x) \/ Purge(x) \/ PurgeFails(x)
    BY <1>1, <2>3, EndsKeepPrices
  <2>4. CASE Insert(x) \/ InsertFails(x) \/ \E p \in Products : Upsert(x, p)
    BY <1>1, <2>4, InsertsKeepPrices
  <2> QED
    BY <1>3, <2>1, <2>2, <2>3, <2>4 DEF Work
<1>4. ASSUME NEW i \in Items, NEW sheet \in Sheets, CreateItem(i, sheet) \/ UpdateItem(i, sheet)
      PROVE  PricesInv'
  BY <1>1, <1>4, UsersKeepPrices
<1>5. CASE \/ \E p \in Products : UnmapProduct(p)
           \/ \E p \in Products, l \in Everywhere, k \in Paid : Sell(p, l, k)
           \/ \E l \in Locations, s \in Spaces \union {AllSpaces} : MapLocation(l, s)
  BY <1>1, <1>5, ImportsKeepPrices
<1>6. CASE UNCHANGED vars
  <2>1. UNCHANGED <<life, base, spaceIds, prices, history, place, sales, at, req, requests, typed, moved, crossed>>
    BY <1>6 DEF vars, items, outside, ghosts
  <2>2. Tables' /\ PricesAreArchived'
    BY <2>1 DEF PricesInv, Tables, PricesAreArchived, SalesTyped
  <2>3. \A y \in Clients : Told(y)
    BY <2>1 DEF Told
  <2>4. \A i \in Items : Archived(i) \subseteq Archived(i)'
    BY <2>1 DEF Archived
  <2> QED
    BY <1>1, <2>1, <2>2, <2>3, <2>4, PricesStep
<1> QED
  BY <1>2, <1>3, <1>4, <1>5, <1>6 DEF Next

\* The state of the items, of their mappings and of the requests at work is
\* always of the kinds the code stores; for any items, prices and requests.
THEOREM PricesTypeCorrect == Spec => []TypeOK
<1>1. Init => PricesInv
  BY PricesInitially
<1>2. PricesInv /\ [Next]_vars => PricesInv'
  BY NextKeepsPrices
<1>3. PricesInv => TypeOK
  <2> SUFFICES ASSUME PricesInv PROVE TypeOK
    OBVIOUS
  <2>1. Tables /\ IInv /\ \A x \in Clients : Asked(x)
    BY DEF PricesInv, OfRequest
  <2>2. ASSUME NEW x \in Clients
        PROVE  at[x] = "idle" <=> req[x] = NoRequest
    <3>1. at[x] \in Steps /\ Asked(x)
      BY <2>1 DEF IInv, TypeInv
    <3>2. NoRequest.do = "none"
      BY DEF NoRequest
    <3>3. at[x] \in Steps \ {"idle"} => req[x].do # "none"
      BY <3>1 DEF Asked, Asking, MapRequests, Steps
    <3> QED
      BY <3>1, <3>2, <3>3 DEF Asked
  <2>3. ASSUME NEW n \in DOMAIN sales
        PROVE  sales[n].price \in Prices
    <3> DEFINE Sales == [product : Products, location : Everywhere, price : Paid]
    <3>1. sales \in Seq(Sales)
      BY <2>1 DEF Tables, SalesTyped
    <3>2. \A sale \in Sales : sale.price \in Prices
      BY MenuPricesAssumption
    <3> HIDE DEF Sales
    <3>3. n \in 1..Len(sales)
      BY <2>3, <3>1
    <3> QED
      BY <3>1, <3>2, <3>3, ElementOfSeq
  <2> QED
    BY <2>1, <2>2, <2>3 DEF TypeOK, Tables, IInv, TypeInv, Steps
<1> QED
  BY <1>1, <1>2, <1>3, PTL DEF Spec

\* Every price an item has was given by a user or is in its price history,
\* whichever transactions failed, in whatever chunks a backfill writes and
\* whoever wrote old columns back; for any items, prices and requests.
\* applyWeezeventPrice, applyWeezeventPricesBulk, backfillWeezeventPrices
THEOREM PricesKeptArchived == Spec => []PricesAreArchived
<1>1. Init => PricesInv
  BY PricesInitially
<1>2. PricesInv /\ [Next]_vars => PricesInv'
  BY NextKeepsPrices
<1>3. PricesInv => PricesAreArchived
  BY DEF PricesInv
<1> QED
  BY <1>1, <1>2, <1>3, PTL DEF Spec

\* Applying prices changes those asked for and no other, unless the item's
\* prices were changed since they were read: of the space named, and without
\* overwrite only where there was none; for any items, spaces and requests.
\* applyWeezeventPrice, applyWeezeventPricesBulk, backfillWeezeventPrices
THEOREM OnlyAskedMove == Spec => OnlyAskedPricesMove
<1> DEFINE Asks == \A x \in Clients : Write(x) =>
                       \A i \in Items \ moved[x], s \in Spaces :
                           Price(prices'[i], s) # Price(prices[i], s)
                               => /\ req[x].space \in {s, AllSpaces}
                                  /\ req[x].over \/ Price(prices[i], s) <= 0
<1>1. Init => PricesInv
  BY PricesInitially
<1>2. PricesInv /\ [Next]_vars => PricesInv'
  BY NextKeepsPrices
<1>3. PricesInv => [Asks]_vars
  BY WriteMovesAsked DEF MayMove
<1> QED
  BY <1>1, <1>2, <1>3, PTL DEF Spec, OnlyAskedPricesMove
=============================================================================
