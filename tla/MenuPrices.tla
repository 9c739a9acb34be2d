----------------------------- MODULE MenuPrices -----------------------------
(***************************************************************************)
(* The prices of the menu items of one tenant and the Weezevent products   *)
(* they are taken from: MenuItemsService (prices, history, soft delete),   *)
(* the product mappings of MappingsService and the prices observed in the  *)
(* sales, of MenuItemPricingService.                                       *)
(*                                                                         *)
(* An item has a base price and, in one JSON column, a price per space;    *)
(* whoever applies a price reads the item, looks up the product and its    *)
(* sales, and writes the whole column back.  VAT rates, discounts, events  *)
(* and the dry run are left out; 0 is a price, NoPrice is none.            *)
(***************************************************************************)
EXTENDS Integers, FiniteSets, Sequences, SequencesExt, FiniteSetsExt, TLC

CONSTANTS
    Items,
    Products,
    Spaces,
    Locations,    \* Weezevent locations
    Prices,
    Paid,         \* prices of sales
    Sheets,       \* [base, spaces, prices] a user may send
    Shown,        \* prices the user may apply as seen
    Catalogue,    \* [Products -> basePrice of the product, or NoPrice]
    Chunk,        \* writes per transaction of the backfill (25)
    Faults,       \* whether calls of the database may fail
    Clients,      \* requests that may run at once
    MaxRequests,  \* bound: requests made
    MaxSales      \* bound: sales

NoPrice == -1
Base == "base"       \* the key of basePrice among the prices of spaces
NoItem == "no item"
Nowhere == "nowhere" \* the location of a sale that has none
AnyProduct == "any"
AllSpaces == "all"
Keys == Spaces \union {Base}

ASSUME MenuPricesAssumption ==
    /\ IsFiniteSet(Items) /\ IsFiniteSet(Spaces)
    /\ Prices \subseteq Nat /\ Shown \union Paid \subseteq Prices
    /\ \A sheet \in Sheets : /\ sheet.base \in Prices
                            /\ sheet.spaces \subseteq Spaces
                            /\ sheet.prices \in UNION {[S -> Prices] : S \in SUBSET Spaces}
    /\ Catalogue \in [Products -> Prices \union {NoPrice}]
    /\ Chunk \in Nat \ {0}
    /\ Faults \in BOOLEAN
    /\ MaxRequests \in Nat /\ MaxSales \in Nat
    /\ Base \notin Spaces /\ AllSpaces \notin Spaces
    /\ NoItem \notin Items /\ AnyProduct \notin Products /\ Nowhere \notin Locations

VARIABLES
    life,      \* [Items -> "new", "there" or "deleted"]
    base,      \* [Items -> basePrice]
    spaceIds,  \* [Items -> spaces assigned]
    prices,    \* [Items -> spacePrices, a function of some spaces]
    history,   \* [Items -> <<key, price>> rows of MenuItemPriceHistory]
    mapping,   \* [Products -> item or NoItem]
    place,     \* [Locations -> space or AllSpaces when it is mapped to none]
    sales,     \* sequence of [product, location, price], oldest first
    at,        \* next step of each request
    req,       \* [Clients -> the request and what it has read]
    requests,  \* requests made
    typed,     \* history: [Items -> <<key, price>> given by users]
    moved,     \* history: [Clients -> items whose prices changed since read]
    crossed    \* history: <<product, item>> that may map a deleted item, see below

items == <<life, base, spaceIds, prices, history>>
outside == <<mapping, place, sales>>
ghosts == <<typed, moved, crossed>>
vars == <<items, outside, at, req, requests, ghosts>>

NoRequest == [do |-> "none"]
SpacePrices == UNION {[S -> Prices] : S \in SUBSET Spaces}

TypeOK ==
    /\ life \in [Items -> {"new", "there", "deleted"}]
    /\ base \in [Items -> Prices \union {0}]
    /\ spaceIds \in [Items -> SUBSET Spaces]
    /\ prices \in [Items -> SpacePrices]
    /\ \A i \in Items : history[i] \subseteq Keys \X Prices
    /\ mapping \in [Products -> Items \union {NoItem}]
    /\ place \in [Locations -> Spaces \union {AllSpaces}]
    /\ \A n \in DOMAIN sales : sales[n].price \in Prices
    /\ at \in [Clients -> {"idle", "mapped", "resolve", "write", "insert", "upsert", "attach", "purge"}]
    /\ \A x \in Clients : at[x] = "idle" <=> req[x] = NoRequest
    /\ requests \in 0..MaxRequests
    /\ moved \in [Clients -> SUBSET Items]
    /\ crossed \subseteq Products \X Items

Init ==
    /\ life = [i \in Items |-> "new"]
    /\ base = [i \in Items |-> 0]
    /\ spaceIds = [i \in Items |-> {}]
    /\ prices = [i \in Items |-> <<>>]
    /\ history = [i \in Items |-> {}]
    /\ mapping = [p \in Products |-> NoItem]
    /\ place = [l \in Locations |-> AllSpaces]
    /\ sales = <<>>
    /\ at = [x \in Clients |-> "idle"]
    /\ req = [x \in Clients |-> NoRequest]
    /\ requests = 0
    /\ typed = [i \in Items |-> {}]
    /\ moved = [x \in Clients |-> {}]
    /\ crossed = {}

There == {i \in Items : life[i] = "there"}
Price(map, s) == IF s \in DOMAIN map THEN map[s] ELSE NoPrice
\* A mutant: the other spaces are dropped.
WithAlone(map, s, k) == [t \in {s} |-> k]

With(map, s, k) == [t \in DOMAIN map \union {s} |-> IF t = s THEN k ELSE map[t]]

-----------------------------------------------------------------------------
(* What was paid. *)

\* getLatestSalesPrices: the last price above 0 of p at one of these places.
Latest(p, where) ==
    LET seen == {n \in DOMAIN sales : /\ sales[n].product = p
                                      /\ sales[n].location \in where
                                      /\ sales[n].price > 0}
    IN  IF seen = {} THEN NoPrice ELSE sales[Max(seen)].price

Everywhere == Locations \union {Nowhere}
PlacesOf(s) == {l \in Locations : place[l] = s}
PlacesOfOthers(s) == {l \in Locations : place[l] \notin {s, AllSpaces}}

\* getSpaceScopedLatestPrices: the space's sales, else those of no space,
\* else any; getLatestSalesPrices when no space is given.
Observed(p, s) ==
    LET own == Latest(p, PlacesOf(s))
        unattributed == Latest(p, Everywhere \ PlacesOfOthers(s))
    IN  IF s # Base /\ own # NoPrice THEN own
        ELSE IF s # Base /\ unattributed # NoPrice THEN unattributed
        ELSE Latest(p, Everywhere)

\* resolveInheritedPrice: the price the user saw, else the sales', else the
\* catalogue's.
Inherited(p, s, shown) ==
    IF shown # NoPrice THEN shown
    ELSE IF Observed(p, s) # NoPrice THEN Observed(p, s) ELSE Catalogue[p]

ProductsOf(i) == {p \in Products : mapping[p] = i}

\* resolveMappedProductId: the one asked for, if mapped to i, or the only one.
Candidates(i, p) ==
    IF p # AnyProduct THEN ProductsOf(i) \intersect {p}
    ELSE IF Cardinality(ProductsOf(i)) = 1 THEN ProductsOf(i) ELSE {}

-----------------------------------------------------------------------------
(* Writes: rows of the history, columns of items.  *)

Row(i, key, k) == [what |-> "row", item |-> i, key |-> key, price |-> k]
Map(i, map) == [what |-> "map", item |-> i, map |-> map]
BasePrice(i, k) == [what |-> "base", item |-> i, price |-> k]

MapAfter(i, writes) ==
    LET maps == {n \in DOMAIN writes : writes[n].what = "map" /\ writes[n].item = i}
    IN  IF maps = {} THEN prices[i] ELSE writes[Max(maps)].map

BaseAfter(i, writes) ==
    LET bases == {n \in DOMAIN writes : writes[n].what = "base" /\ writes[n].item = i}
    IN  IF bases = {} THEN base[i] ELSE writes[Max(bases)].price

RowsOf(i, writes) ==
    {<<w.key, w.price>> : w \in {v \in ToSet(writes) : v.what = "row" /\ v.item = i}}

\* One transaction.
Apply(writes) ==
    /\ prices' = [i \in Items |-> MapAfter(i, writes)]
    /\ base' = [i \in Items |-> BaseAfter(i, writes)]
    /\ history' = [i \in Items |-> history[i] \union RowsOf(i, writes)]

-----------------------------------------------------------------------------
OneRequest ==
    /\ requests < MaxRequests
    /\ requests' = requests + 1

\* The prices of the items of S change; the requests R, those of others, may
\* have read them.
Moved(S, R) ==
    moved' = [x \in Clients |-> IF at'[x] \notin {"resolve", "write"} THEN {}
                                ELSE IF x \in R THEN moved[x] \union S ELSE moved[x]]

End(x) ==
    /\ at' = [at EXCEPT ![x] = "idle"]
    /\ req' = [req EXCEPT ![x] = NoRequest]

Goto(x, step, r) ==
    /\ at' = [at EXCEPT ![x] = step]
    /\ req' = [req EXCEPT ![x] = r]

Begin(x, step, r) ==
    /\ at[x] = "idle"
    /\ OneRequest
    /\ Goto(x, step, r)
    /\ moved' = [moved EXCEPT ![x] = {}]

PriceRows(k, map) == {<<Base, k>>} \union {<<s, map[s]>> : s \in DOMAIN map}

\* The columns a user gives; no history.
Typed(i, sheet) ==
    /\ base' = [base EXCEPT ![i] = sheet.base]
    /\ spaceIds' = [spaceIds EXCEPT ![i] = sheet.spaces]
    /\ prices' = [prices EXCEPT ![i] = sheet.prices]
    /\ typed' = [typed EXCEPT ![i] = @ \union PriceRows(sheet.base, sheet.prices)]
    /\ UNCHANGED <<history, outside, at, req, crossed>>

\* create
CreateItem(i, sheet) ==
    /\ life[i] = "new"
    /\ life' = [life EXCEPT ![i] = "there"]
    /\ Typed(i, sheet)
    /\ UNCHANGED <<requests, moved>>

\* update, of all of spacePrices; deleted items are not found
UpdateItem(i, sheet) ==
    /\ life[i] = "there"
    /\ OneRequest
    /\ Typed(i, sheet)
    /\ Moved({i}, Clients)
    /\ UNCHANGED life

-----------------------------------------------------------------------------
(* applyWeezeventPrice reads the item and then its product;                *)
(* applyWeezeventPricesBulk the products first and then the items.         *)

Read(S) == [i \in S |-> [base |-> base[i], map |-> prices[i]]]

Now(seen, key, i) == IF key = Base THEN seen[i].base ELSE Price(seen[i].map, key)

Column(seen, key, i, k) ==
    IF key = Base THEN BasePrice(i, k) ELSE Map(i, With(seen[i].map, key, k))

\* A mutant: an unknown price is written.
ChangesUnresolved(seen, key, i, k) ==
    IF Now(seen, key, i) = k THEN {} ELSE {Row(i, key, k), Column(seen, key, i, k)}

\* What is written for the key of item i, as it was seen, when its product has
\* price k; in one transaction, so that the order does not matter.
Changes(seen, key, i, k) ==
    IF Now(seen, key, i) = k \/ k = NoPrice THEN {} ELSE {Row(i, key, k), Column(seen, key, i, k)}

WriteOrEnd(x, r, writes) ==
    IF writes = <<>> THEN End(x)
    ELSE Goto(x, "write", [do |-> r.do, space |-> r.space, over |-> r.over, writes |-> writes])

ApplyPrice(x, i, p, key, shown) ==
    /\ life[i] = "there"
    /\ Begin(x, "resolve", [do |-> "apply", item |-> i, product |-> p, space |-> key,
                            shown |-> shown, over |-> TRUE, seen |-> Read({i})])
    /\ UNCHANGED <<items, outside, typed, crossed>>

ResolveOne(x) ==
    LET r == req[x]
        found == Candidates(r.item, r.product)
    IN
    /\ at[x] = "resolve"
    /\ r.do = "apply"
    /\ IF found = {} THEN End(x)
       ELSE \E p \in found :
               WriteOrEnd(x, r, SetToSeq(Changes(r.seen, r.space, r.item, Inherited(p, r.space, r.shown))))
    /\ UNCHANGED <<items, outside, requests, ghosts>>

\* asked maps items to products; those without a single one are reported,
\* and the others go on.
ApplyBulk(x, asked, key, shown) ==
    LET found == {i \in DOMAIN asked : Candidates(i, asked[i]) # {}} IN
    /\ found # {}
    /\ Begin(x, "mapped", [do |-> "bulk", space |-> key, shown |-> shown, over |-> TRUE,
                           of |-> [i \in found |-> CHOOSE p \in Candidates(i, asked[i]) : TRUE]])
    /\ UNCHANGED <<items, outside, typed, crossed>>

ResolveAll(x) ==
    LET r == req[x]
        seen == Read(There \intersect DOMAIN r.of)
        each == {Changes(seen, r.space, i, Inherited(r.of[i], r.space, r.shown)) : i \in DOMAIN seen}
    IN
    /\ at[x] = "mapped"
    /\ r.do = "bulk"
    /\ WriteOrEnd(x, r, SetToSeq(UNION each))
    /\ moved' = [moved EXCEPT ![x] = {}]
    /\ UNCHANGED <<items, outside, requests, typed, crossed>>

-----------------------------------------------------------------------------
(* backfillWeezeventPrices *)

Backfill(x, only, over) ==
    /\ Begin(x, "mapped", [do |-> "backfill", space |-> only, over |-> over,
                           of |-> [i \in {j \in Items : ProductsOf(j) # {}} |-> ProductsOf(i)]])
    /\ UNCHANGED <<items, outside, typed, crossed>>

\* Spaces of item i to find a price for.
Unpriced(i, only, over) ==
    {s \in spaceIds[i] : /\ only \in {AllSpaces, s}
                         /\ over \/ Price(prices[i], s) <= 0}

ReadBackfill(x) ==
    LET r == req[x]
        single == {i \in There \intersect DOMAIN r.of : Cardinality(r.of[i]) = 1}
    IN
    /\ at[x] = "mapped"
    /\ r.do = "backfill"
    /\ Goto(x, "resolve", [do |-> "backfill", space |-> r.space, over |-> r.over,
                           of |-> [i \in single |-> CHOOSE p \in r.of[i] : TRUE],
                           seen |-> Read(single),
                           todo |-> UNION {{i} \X Unpriced(i, r.space, r.over) : i \in single}])
    /\ moved' = [moved EXCEPT ![x] = {}]
    /\ UNCHANGED <<items, outside, requests, typed, crossed>>

\* A mutant: the columns before the history.
MapsFirst(rows, maps) == maps \o rows

InOrder(rows, maps) == rows \o maps

\* Only sales count, not the catalogue.
ResolveBackfill(x) ==
    LET r == req[x]
        priced == {pair \in r.todo : Observed(r.of[pair[1]], pair[2]) > 0}
        found == [pair \in priced |-> Observed(r.of[pair[1]], pair[2])]
        \* spacePrices of item i
        filled(i) == [s \in DOMAIN r.seen[i].map \union {t \in Spaces : <<i, t>> \in priced} |->
                         IF <<i, s>> \in priced THEN found[<<i, s>>] ELSE r.seen[i].map[s]]
        touched == {pair[1] : pair \in priced}
        pairs == SetToSeq(priced)
        rows == [n \in DOMAIN pairs |-> Row(pairs[n][1], pairs[n][2], found[pairs[n]])]
        its == SetToSeq(touched)
        maps == [n \in DOMAIN its |-> Map(its[n], filled(its[n]))]
    IN
    /\ at[x] = "resolve"
    /\ r.do = "backfill"
    /\ WriteOrEnd(x, r, InOrder(rows, maps))
    /\ UNCHANGED <<items, outside, requests, ghosts>>

-----------------------------------------------------------------------------
(* Transactions of writes: one, or those of the backfill, of Chunk writes. *)

Write(x) ==
    LET all == req[x].writes
        n == IF req[x].do = "backfill" /\ Chunk < Len(all) THEN Chunk ELSE Len(all)
        now == SubSeq(all, 1, n)
    IN
    /\ at[x] = "write"
    /\ Apply(now)
    /\ IF n = Len(all) THEN End(x)
       ELSE Goto(x, "write", [req[x] EXCEPT !.writes = SubSeq(all, n + 1, Len(all))])
    /\ Moved({w.item : w \in {v \in ToSet(now) : v.what # "row"}}, Clients \ {x})
    /\ UNCHANGED <<life, spaceIds, outside, requests, typed, crossed>>

WriteFails(x) ==
    /\ Faults
    /\ at[x] = "write"
    /\ End(x)
    /\ UNCHANGED <<items, outside, requests, ghosts>>

-----------------------------------------------------------------------------
(* Product mappings, and the removal of an item. *)

\* A mutant: deleted items stay deleted.
NotRevived(S) == life

\* resurrectSoftDeletedMenuItems
Revived(S) == [i \in Items |-> IF i \in S /\ life[i] = "deleted" THEN "there" ELSE life[i]]

\* bulkProductMappings: new maps products to items.
MapProducts(x, new, s) ==
    /\ \A i \in Range(new) : life[i] # "new"
    /\ at[x] = "idle"
    /\ OneRequest
    /\ Goto(x, "insert", [do |-> "map", new |-> new, done |-> {}, space |-> s])
    /\ life' = Revived(Range(new))
    /\ crossed' = {pair \in crossed : pair[2] \notin Range(new)}
    /\ UNCHANGED <<base, spaceIds, prices, history, outside, typed, moved>>

\* mapProductToMenuItem: the item may be deleted and stays so.  One upsert,
\* as below; when it fails nothing is attached.
MapProduct(x, p, i, s) ==
    /\ life[i] # "new"
    /\ at[x] = "idle"
    /\ OneRequest
    /\ Goto(x, "upsert", [do |-> "map", new |-> [q \in {p} |-> i], done |-> {}, space |-> s])
    /\ crossed' = crossed \union (IF life[i] = "deleted" THEN {<<p, i>>} ELSE {})
    /\ UNCHANGED <<items, outside, typed, moved>>

AfterMapping(x, done) ==
    IF req[x].space = AllSpaces THEN End(x)
    ELSE Goto(x, "attach", [req[x] EXCEPT !.done = done])

Insert(x) ==
    /\ at[x] = "insert"
    /\ mapping' = [p \in Products |-> IF p \in DOMAIN req[x].new THEN req[x].new[p] ELSE mapping[p]]
    /\ AfterMapping(x, Range(req[x].new))
    /\ UNCHANGED <<items, place, sales, requests, ghosts>>

\* The statement fails: one upsert per product instead.
InsertFails(x) ==
    /\ Faults
    /\ at[x] = "insert"
    /\ Goto(x, "upsert", req[x])
    /\ UNCHANGED <<items, outside, requests, ghosts>>

\* It may fail too, and is then reported.
Upsert(x, p) ==
    LET rest == [q \in DOMAIN req[x].new \ {p} |-> req[x].new[q]] IN
    /\ at[x] = "upsert"
    /\ p \in DOMAIN req[x].new
    /\ \E ok \in {TRUE, ~Faults} :
           LET done == IF ok THEN req[x].done \union {req[x].new[p]} ELSE req[x].done IN
           /\ mapping' = IF ok THEN [mapping EXCEPT ![p] = req[x].new[p]] ELSE mapping
           /\ IF rest = <<>> THEN AfterMapping(x, done)
              ELSE Goto(x, "upsert", [do |-> "map", new |-> rest, done |-> done, space |-> req[x].space])
    /\ UNCHANGED <<items, place, sales, requests, ghosts>>

\* attachSpaceToMenuItems
Attach(x) ==
    /\ at[x] = "attach"
    /\ spaceIds' = [i \in Items |-> IF i \in req[x].done \intersect There
                                    THEN spaceIds[i] \union {req[x].space} ELSE spaceIds[i]]
    /\ End(x)
    /\ UNCHANGED <<life, base, prices, history, outside, requests, ghosts>>

\* deleteProductMapping
UnmapProduct(p) ==
    /\ mapping[p] # NoItem
    /\ OneRequest
    /\ mapping' = [mapping EXCEPT ![p] = NoItem]
    /\ UNCHANGED <<items, place, sales, at, req, ghosts>>

\* Products that requests are about to map to i.
BeingMapped(i) ==
    {p \in Products : \E x \in Clients : /\ at[x] \in {"insert", "upsert"}
                                        /\ p \in DOMAIN req[x].new
                                        /\ req[x].new[p] = i}

\* remove: the item, then its mappings
RemoveItem(x, i) ==
    /\ life[i] = "there"
    /\ at[x] = "idle"
    /\ OneRequest
    /\ life' = [life EXCEPT ![i] = "deleted"]
    /\ Goto(x, "purge", [do |-> "remove", item |-> i])
    /\ crossed' = crossed \union (BeingMapped(i) \X {i})
    /\ UNCHANGED <<base, spaceIds, prices, history, outside, typed, moved>>

Purge(x) ==
    /\ at[x] = "purge"
    /\ mapping' = [p \in Products |-> IF mapping[p] = req[x].item THEN NoItem ELSE mapping[p]]
    /\ End(x)
    /\ UNCHANGED <<items, place, sales, requests, ghosts>>

PurgeFails(x) ==
    /\ Faults
    /\ at[x] = "purge"
    /\ crossed' = crossed \union (ProductsOf(req[x].item) \X {req[x].item})
    /\ End(x)
    /\ UNCHANGED <<items, outside, requests, typed, moved>>

-----------------------------------------------------------------------------
(* Elsewhere: sales are imported, locations are mapped to spaces. *)

Sell(p, l, k) ==
    /\ Len(sales) < MaxSales
    /\ sales' = Append(sales, [product |-> p, location |-> l, price |-> k])
    /\ UNCHANGED <<items, mapping, place, at, req, requests, ghosts>>

\* createLocationSpaceMapping, deleteLocationSpaceMapping (s = AllSpaces)
MapLocation(l, s) ==
    /\ place[l] # s
    /\ place' = [place EXCEPT ![l] = s]
    /\ UNCHANGED <<items, mapping, sales, at, req, requests, ghosts>>

Ask(x) ==
    \/ \E i \in Items, p \in Products \union {AnyProduct}, key \in Keys, shown \in Shown \union {NoPrice} :
           ApplyPrice(x, i, p, key, shown)
    \/ \E S \in SUBSET Items : \E asked \in [S -> {AnyProduct}], key \in Keys : ApplyBulk(x, asked, key, NoPrice)
    \/ \E only \in Spaces \union {AllSpaces}, over \in BOOLEAN : Backfill(x, only, over)
    \/ \E S \in SUBSET Products \ {{}} : \E new \in [S -> Items], s \in Spaces \union {AllSpaces} : MapProducts(x, new, s)
    \/ \E p \in Products, i \in Items, s \in Spaces \union {AllSpaces} : MapProduct(x, p, i, s)
    \/ \E i \in Items : RemoveItem(x, i)

Work(x) ==
    \/ ResolveOne(x) \/ ResolveAll(x) \/ ReadBackfill(x) \/ ResolveBackfill(x)
    \/ Write(x) \/ WriteFails(x)
    \/ Insert(x) \/ InsertFails(x) \/ (\E p \in Products : Upsert(x, p)) \/ Attach(x)
    \/ Purge(x) \/ PurgeFails(x)

Next ==
    \/ \E x \in Clients : Ask(x) \/ Work(x)
    \/ \E i \in Items, sheet \in Sheets : CreateItem(i, sheet) \/ UpdateItem(i, sheet)
    \/ \E p \in Products : UnmapProduct(p)
    \/ \E p \in Products, l \in Everywhere, k \in Paid : Sell(p, l, k)
    \/ \E l \in Locations, s \in Spaces \union {AllSpaces} : MapLocation(l, s)

Spec == Init /\ [][Next]_vars

-----------------------------------------------------------------------------
(* Properties *)

\* Every price an item has was given by a user or is in its price history,
\* whichever transactions failed and whoever wrote old columns back.
\* "ARCHIVE le prix appliqué dans MenuItemPriceHistory", applyWeezeventPrice;
\* backfillWeezeventPrices writes the rows before the columns
PricesAreArchived ==
    \A i \in Items \ {j \in Items : life[j] = "new"} :
        \A pair \in PriceRows(base[i], prices[i]) : pair \in history[i] \union typed[i]

\* Applying prices changes those asked for and no other: only of the space
\* named, and without overwrite only where there was none; unless the item's
\* prices were changed between the read and the write, which is lost.
\* applyWeezeventPrice, applyWeezeventPricesBulk, backfillWeezeventPrices
OnlyAskedPricesMove ==
    [][\A x \in Clients : Write(x) =>
           \A i \in Items \ moved[x], s \in Spaces :
               Price(prices'[i], s) # Price(prices[i], s)
                   => /\ req[x].space \in {s, AllSpaces}
                      /\ req[x].over \/ Price(prices[i], s) <= 0]_vars

BeingRemoved == {req[x].item : x \in {y \in Clients : at[y] = "purge"}}

\* A product is only mapped to a deleted item while the item is being removed,
\* or by a pair that slipped through: it was about to be written when the item
\* was removed, or was there when the purge failed, or POST
\* products/:productId/map was asked for it although the item was deleted.
\* bulkProductMappings undoes all of these for the items it names, and no
\* other order of mappings, removals and failures leaves a mapping behind.
\* MenuItemsService.remove, MappingsService.resurrectSoftDeletedMenuItems,
\* WeezeventController.mapProductToMenuItem
MappedItemsAreShown ==
    \A i \in Items \ BeingRemoved : life[i] = "deleted" => ProductsOf(i) \X {i} \subseteq crossed
=============================================================================
