---------------------------- MODULE RecipeCosts ----------------------------
(***************************************************************************)
(* What a menu item costs: ingredients, menu components made of            *)
(* ingredients and of other components, and menu items made of both.       *)
(* MenuComponent.unitCost and MenuItem.totalCost are stored, and computed  *)
(* again by the refreshCosts of the two services.                          *)
(*                                                                         *)
(* Every line counts for one unit and costs are small numbers, 0 standing  *)
(* for an unknown one.  Packagings behave as ingredients of an item and    *)
(* are left out, as is the margin.  lines maps the ingredients of a        *)
(* component to the unit cost their line has kept; a request gives none.   *)
(* Lines are replaced together: the rows a request has read are then gone. *)
(***************************************************************************)
EXTENDS Naturals, Integers, FiniteSets, Functions

CONSTANTS
    Ingredients,
    Components,
    Items,
    Catalogues,  \* what may exist at first, its costs refreshed
    Legacy,      \* cost of the subComponents JSON, of the components that have one
    Costs,       \* costs an ingredient may have
    Clients,     \* requests that may run at once
    MaxRequests  \* bound: requests made

ASSUME RecipeCostsAssumption ==
    /\ Costs \subseteq Nat \ {0}
    /\ DOMAIN Legacy \subseteq Components
    /\ \A c \in DOMAIN Legacy : Legacy[c] \in Nat
    /\ MaxRequests \in Nat
    /\ Components \intersect Items = {}
    /\ Ingredients \intersect (Components \union Items) = {}
    /\ IsFiniteSet(Ingredients) /\ IsFiniteSet(Components)
    /\ \A k \in Catalogues :
           /\ k.price \in [Ingredients -> Costs \union {0}]
           /\ k.parts \in [Components \union Items -> SUBSET (k.there \ Items)]
           /\ k.there \subseteq Ingredients \union Components \union Items
           /\ k.cost \in [Components \union Items -> Nat]
           /\ \A y \in (Components \union Items) \ k.there : k.parts[y] = {}

VARIABLES
    life,      \* [all three -> "new", "there" or "deleted"]
    price,     \* [Ingredients -> costPerRecipeUnit]
    lines,     \* [Components -> [its ingredients -> unit cost kept]]
    children,  \* [Components -> its sub-components]
    parts,     \* [Items -> its ingredients and components]
    cost,      \* [Components and Items -> unitCost, totalCost]
    at,        \* next step of each request
    kind,      \* [Clients -> what it refreshes]
    todo,      \* [Clients -> those left, with what was read of them]
    result,    \* [Clients -> what it is about to write]
    replaced,  \* [Clients -> lists of lines replaced since they were read]
    requests,  \* requests made
    stale,     \* history: costs a client gave, or whose inputs changed,
               \* until computed again
    unseen,    \* history: [Clients -> costs whose inputs changed since read]
    blind      \* history: costs written although the recipe had changed

recipes == <<life, price, lines, children, parts>>
refresh == <<kind, todo, result, replaced>>
changes == <<stale, unseen>>
recipeVars == <<recipes, cost, at, refresh, requests, changes, blind>>

Things == Ingredients \union Components \union Items
Priced == Components \union Items
Kinds(y) == IF y \in Items THEN {"ingredients", "components"} ELSE {"ingredients", "children"}
Lists == UNION {{y} \X Kinds(y) : y \in Priced}
NoResult == [id |-> "none"]
Unknown == 0
Fail == -1

There(S) == {x \in S : life[x] = "there"}

\* The costs the lines of a component have kept.
LineCosts == UNION {[I -> Costs \union {Unknown}] : I \in SUBSET Ingredients}

RecipeTypeOK ==
    /\ life \in [Things -> {"new", "there", "deleted"}]
    /\ price \in [Ingredients -> Costs \union {Unknown}]
    /\ lines \in [Components -> LineCosts]
    /\ children \in [Components -> SUBSET Components]
    /\ parts \in [Items -> SUBSET (Ingredients \union Components)]
    /\ cost \in [Priced -> Nat]
    /\ at \in [Clients -> {"idle", "read", "next", "write"}]
    /\ \A x \in Clients : at[x] # "idle" <=> kind[x] # "none"
    /\ kind \in [Clients -> {"none", "components", "items", "repair"}]
    /\ DOMAIN todo = Clients /\ DOMAIN result = Clients
    /\ \A x \in Clients : DOMAIN todo[x] \subseteq Priced
    /\ replaced \in [Clients -> SUBSET Lists]
    /\ requests \in 0..MaxRequests
    /\ stale \subseteq Priced
    /\ unseen \in [Clients -> SUBSET Priced]
    /\ blind \subseteq Priced

-----------------------------------------------------------------------------
(* Computing costs. *)

\* The cost of a line of component c: the one it has kept, or else the
\* ingredient's, which must not be deleted.
LineCost(kept, i) ==
    IF kept[i] # Unknown THEN kept[i] ELSE IF life[i] = "there" THEN price[i] ELSE Fail

\* computeComponentUnitCost on the rows of r, as it finds them: down to the
\* leaves; it throws on a cycle, and on anything deleted.
UnitOf(r, c) ==
    LET unit[stack \in SUBSET DOMAIN r] ==
          [d \in DOMAIN r |->
              LET below == [e \in r[d].children |-> unit[stack \union {d}][e]]
              IN  IF \/ d \in stack \/ ~r[d].there
                     \/ \E i \in DOMAIN r[d].own : r[d].own[i] = Fail
                     \/ \E e \in DOMAIN below : below[e] = Fail
                  THEN Fail
                  ELSE SumFunction(r[d].own) + SumFunction(below)]
    IN  unit[{}][c]

\* Component c and those it is made of, at any depth.
Below(c) ==
    {d \in Components : \A S \in SUBSET Components :
        c \in S /\ (\A e \in S : children[e] \subseteq S) => d \in S}

Row(d) == [there |-> life[d] = "there",
           own |-> [i \in DOMAIN lines[d] |-> LineCost(lines[d], i)],
           children |-> children[d]]

\* What a component costs, or Fail.
UnitCost(c) == UnitOf([d \in Below(c) |-> Row(d)], c)

\* The lines of an item that count: those of deleted things are skipped.
Counted(m) == There(parts[m])

Total(m) == SumFunction([p \in Counted(m) |-> IF p \in Ingredients THEN price[p] ELSE cost[p]])

RecipeInit ==
    /\ \E k \in Catalogues :
           /\ life = [x \in Things |-> IF x \in k.there THEN "there" ELSE "new"]
           /\ price = k.price
           /\ lines = [c \in Components |-> [i \in k.parts[c] \intersect Ingredients |-> k.price[i]]]
           /\ children = [c \in Components |-> k.parts[c] \intersect Components]
           /\ parts = [m \in Items |-> k.parts[m]]
           /\ cost = k.cost
    /\ \A c \in There(Components) : cost[c] = UnitCost(c)
    /\ \A m \in Items : cost[m] = Total(m)
    /\ at = [x \in Clients |-> "idle"]
    /\ kind = [x \in Clients |-> "none"]
    /\ todo = [x \in Clients |-> <<>>]
    /\ result = [x \in Clients |-> NoResult]
    /\ replaced = [x \in Clients |-> {}]
    /\ requests = 0
    /\ stale = {}
    /\ unseen = [x \in Clients |-> {}]
    /\ blind = {}

-----------------------------------------------------------------------------
(* What a change makes stale: the components above it, then the items that *)
(* hold one of these.                                                      *)

Above(S) == S \union {c \in Components : Below(c) \intersect S # {}}

HoldersOf(S) == {m \in Items : parts[m] \intersect S # {}}

\* What request x has read and not yet written.
Held(x) == CASE at[x] = "next" -> DOMAIN todo[x]
             [] at[x] = "write" -> DOMAIN todo[x] \union {result[x].id}
             [] OTHER -> {}

\* The inputs of the costs of S change; those of own by their lines, which
\* the write finds gone.
Changed(own, S) ==
    /\ stale' = stale \union own \union S
    /\ unseen' = [x \in Clients |-> unseen[x] \union (S \intersect Held(x))]

\* The rows of these lists are deleted and others created.
Replace(lists) ==
    replaced' = [x \in Clients |-> replaced[x] \union
                                       {l \in lists : l[1] \in Held(x)}]

\* Components whose cost depends on ingredient i.
Using(i) == {c \in Components : i \in DOMAIN lines[c] /\ lines[c][i] = Unknown}

-----------------------------------------------------------------------------
OneRequest ==
    /\ requests < MaxRequests
    /\ requests' = requests + 1

(* Ingredients.  create is also what a new MarketPrice does through        *)
(* ensureIngredientForMarketPrice; none of these refreshes a cost.         *)

CreateIngredient(i, k) ==
    /\ life[i] = "new"
    /\ OneRequest
    /\ life' = [life EXCEPT ![i] = "there"]
    /\ price' = [price EXCEPT ![i] = k]
    /\ UNCHANGED <<lines, children, parts, cost, at, refresh, changes, blind>>

UpdateIngredient(i, k) ==
    /\ life[i] = "there"
    /\ OneRequest
    /\ price[i] # k
    /\ price' = [price EXCEPT ![i] = k]
    /\ Changed({}, Above(Using(i)) \union HoldersOf({i}))
    /\ UNCHANGED <<life, lines, children, parts, cost, at, refresh, blind>>

RemoveIngredient(i) ==
    /\ life[i] = "there"
    /\ OneRequest
    /\ life' = [life EXCEPT ![i] = "deleted"]
    /\ Changed({}, Above(Using(i)) \union HoldersOf({i}))
    /\ UNCHANGED <<price, lines, children, parts, cost, at, refresh, blind>>

-----------------------------------------------------------------------------
(* Requests that refresh costs. *)

StepTo(x, step) == at' = [at EXCEPT ![x] = step]

\* refreshCosts will read the things of S that are there.
Request(x, what, S) ==
    /\ at[x] = "idle"
    /\ OneRequest
    /\ kind' = [kind EXCEPT ![x] = what]
    /\ todo' = [todo EXCEPT ![x] = [y \in S |-> <<>>]]
    /\ StepTo(x, "read")

NewLines(c, S) == lines' = [lines EXCEPT ![c] = [i \in S |-> Unknown]]

\* create, and update with both kinds of lines; k is the unitCost of the
\* request, or none.  What is written is what the refresh starts from.
SaveComponent(x, c, S, D, k) ==
    /\ life[c] \in {"new", "there"}
    /\ S \subseteq There(Ingredients)
    /\ D \subseteq There(Components)
    /\ Request(x, "components", {c})
    /\ life' = [life EXCEPT ![c] = "there"]
    /\ NewLines(c, S)
    /\ children' = [children EXCEPT ![c] = D]
    /\ cost' = [cost EXCEPT ![c] = k]
    /\ Replace({c} \X Kinds(c))
    /\ Changed({c}, (Above({c}) \ {c}) \union (IF k = cost[c] THEN {} ELSE HoldersOf({c})))
    /\ UNCHANGED <<price, parts, result, blind>>

ReplaceComponentIngredients(x, c, S) ==
    /\ life[c] = "there"
    /\ S \subseteq There(Ingredients)
    /\ Request(x, "components", {c})
    /\ NewLines(c, S)
    /\ Replace({<<c, "ingredients">>})
    /\ Changed({c}, Above({c}) \ {c})
    /\ UNCHANGED <<life, price, children, parts, cost, result, blind>>

\* A cycle is only noticed by the refresh, when the lines are there already.
ReplaceChildren(x, c, D) ==
    /\ life[c] = "there"
    /\ D \subseteq There(Components)
    /\ Request(x, "components", {c})
    /\ children' = [children EXCEPT ![c] = D]
    /\ Replace({<<c, "children">>})
    /\ Changed({c}, Above({c}) \ {c})
    /\ UNCHANGED <<life, price, lines, parts, cost, result, blind>>

RefreshComponents(x) ==
    /\ Request(x, "components", There(Components))
    /\ UNCHANGED <<recipes, cost, result, replaced, changes, blind>>

\* create without lines: the unitCost of the request stays
CreateComponent(c, k) ==
    /\ life[c] = "new"
    /\ OneRequest
    /\ life' = [life EXCEPT ![c] = "there"]
    /\ cost' = [cost EXCEPT ![c] = k]
    /\ Changed({}, Above({c}) \union HoldersOf({c}))
    /\ UNCHANGED <<price, lines, children, parts, at, refresh, blind>>

\* update with a unitCost and no lines; with one kind of lines, it is this
\* and then their replacement
SetUnitCost(c, k) ==
    /\ life[c] = "there"
    /\ OneRequest
    /\ cost[c] # k
    /\ cost' = [cost EXCEPT ![c] = k]
    /\ Changed({c}, HoldersOf({c}))
    /\ UNCHANGED <<recipes, at, refresh, blind>>

RemoveComponent(c) ==
    /\ life[c] = "there"
    /\ OneRequest
    /\ life' = [life EXCEPT ![c] = "deleted"]
    /\ Changed({}, Above({c}) \union HoldersOf({c}))
    /\ UNCHANGED <<price, lines, children, parts, cost, at, refresh, blind>>

\* repair looks at all components, deleted ones too
RepairComponents(x) ==
    /\ Request(x, "repair", {c \in DOMAIN Legacy : life[c] # "new"})
    /\ UNCHANGED <<recipes, cost, result, replaced, changes, blind>>

\* create, and update with both kinds of lines; k is the totalCost of the
\* request, or none
SaveItem(x, m, P, k) ==
    /\ life[m] \in {"new", "there"}
    /\ \A p \in P : life[p] # "new"
    /\ Request(x, "items", {m})
    /\ life' = [life EXCEPT ![m] = "there"]
    /\ parts' = [parts EXCEPT ![m] = P]
    /\ cost' = [cost EXCEPT ![m] = k]
    /\ Replace({m} \X Kinds(m))
    /\ Changed({m}, {})
    /\ UNCHANGED <<price, lines, children, result, blind>>

\* The totalCost of the request is stored, and no refresh follows.
Give(m, k) ==
    /\ OneRequest
    /\ cost' = [cost EXCEPT ![m] = k]
    /\ Changed(IF k = cost[m] THEN {} ELSE {m}, {})
    /\ UNCHANGED <<price, lines, children, parts, at, refresh, blind>>

\* bulkCreate, and create without lines
BulkCreate(m, k) ==
    /\ life[m] = "new"
    /\ life' = [life EXCEPT ![m] = "there"]
    /\ Give(m, k)

\* update with a totalCost and no lines; with one kind of lines, it is this
\* and then their replacement
SetTotalCost(m, k) ==
    /\ life[m] = "there"
    /\ cost[m] # k
    /\ Give(m, k)
    /\ UNCHANGED life

\* replaceComponents; replaceIngredients, replacePackagings
ReplaceParts(x, m, which, P) ==
    LET all == IF which = "components" THEN Components ELSE Ingredients IN
    /\ life[m] = "there"
    /\ P \subseteq all /\ \A p \in P : life[p] # "new"
    /\ Request(x, "items", {m})
    /\ parts' = [parts EXCEPT ![m] = (@ \ all) \union P]
    /\ Replace({<<m, which>>})
    /\ Changed({m}, {})
    /\ UNCHANGED <<life, price, lines, children, cost, result, blind>>

RefreshItems(x, S) ==
    /\ S \subseteq There(Items)
    /\ Request(x, "items", S)
    /\ UNCHANGED <<recipes, cost, result, replaced, changes, blind>>

RemoveItem(m) ==
    /\ life[m] = "there"
    /\ OneRequest
    /\ life' = [life EXCEPT ![m] = "deleted"]
    /\ UNCHANGED <<price, lines, children, parts, cost, at, refresh, changes, blind>>

\* resurrectSoftDeletedMenuItems, when a product is mapped to it
ReviveItem(m) ==
    /\ life[m] = "deleted"
    /\ OneRequest
    /\ life' = [life EXCEPT ![m] = "there"]
    /\ UNCHANGED <<price, lines, children, parts, cost, at, refresh, changes, blind>>

-----------------------------------------------------------------------------
(* refreshCosts, and repair. *)

End(x) ==
    /\ StepTo(x, "idle")
    /\ kind' = [kind EXCEPT ![x] = "none"]
    /\ todo' = [todo EXCEPT ![x] = <<>>]
    /\ result' = [result EXCEPT ![x] = NoResult]
    /\ replaced' = [replaced EXCEPT ![x] = {}]
    /\ unseen' = [unseen EXCEPT ![x] = {}]

\* The kinds of lines the write will update.
ComponentLines(c) == {k \in Kinds(c) : IF k = "children" THEN children[c] # {}
                                       ELSE lines[c] # <<>>}
ItemLines(m) == {k \in Kinds(m) : Counted(m) \intersect
                                      (IF k = "components" THEN Components ELSE Ingredients) # {}}

\* For items the totals follow at once from maps of all costs.
ReadLines(x) ==
    LET found == There(DOMAIN todo[x]) IN
    /\ at[x] = "read"
    /\ kind[x] # "repair"
    /\ todo' = [todo EXCEPT ![x] = [y \in found |-> IF kind[x] = "items"
                                      THEN [total |-> Total(y), had |-> ItemLines(y)]
                                      ELSE [kept |-> lines[y], had |-> ComponentLines(y)]]]
    /\ unseen' = [unseen EXCEPT ![x] = @ \ (IF kind[x] = "items" THEN found ELSE {})]
    /\ StepTo(x, "next")
    /\ UNCHANGED <<recipes, cost, kind, result, replaced, requests, stale, blind>>

\* A mutant: only the component's own lines are looked at.
OwnThrows(c, own) == \E i \in DOMAIN own : own[i] = Fail

Throws(c, own) == UnitCost(c) = Fail \/ \E i \in DOMAIN own : own[i] = Fail

\* A component: its line costs, its children's, its own.  Any that throws
\* ends the refresh of all that are left.
Compute(x, c) ==
    LET kept == todo[x][c].kept
        had == todo[x][c].had
        own == [i \in DOMAIN kept |-> LineCost(kept, i)]
    IN
    /\ at[x] = "next"
    /\ kind[x] = "components"
    /\ c \in DOMAIN todo[x]
    /\ IF Throws(c, own) THEN End(x)
       ELSE /\ result' = [result EXCEPT ![x] = [id |-> c, own |-> own, cost |-> UnitCost(c),
                                                had |-> had]]
            /\ replaced' = [replaced EXCEPT ![x] = {l \in @ : l[1] = c => l[2] \in had}]
            /\ unseen' = [unseen EXCEPT ![x] = @ \ {c}]
            /\ todo' = [todo EXCEPT ![x] = [d \in DOMAIN @ \ {c} |-> @[d]]]
            /\ StepTo(x, "write")
            /\ UNCHANGED kind
    /\ UNCHANGED <<recipes, cost, requests, stale, blind>>

Take(x, m) ==
    /\ at[x] = "next"
    /\ kind[x] = "items"
    /\ m \in DOMAIN todo[x]
    /\ result' = [result EXCEPT ![x] = [id |-> m, own |-> <<>>, cost |-> todo[x][m].total,
                                        had |-> todo[x][m].had]]
    /\ todo' = [todo EXCEPT ![x] = [n \in DOMAIN @ \ {m} |-> @[n]]]
    /\ StepTo(x, "write")
    /\ UNCHANGED <<recipes, cost, kind, replaced, requests, changes, blind>>

ReplacedKinds(x) == {l[2] : l \in {m \in replaced[x] : m[1] = result[x].id}}

\* A mutant: lines that are gone do not stop the write.
LinesAlwaysThere(x) == TRUE

\* Each line is updated by its id, in one transaction with the cost.
LinesThere(x) == result[x].had \intersect ReplacedKinds(x) = {}

\* The line costs of component c once those read are written.
Rewritten(c, own) == [i \in DOMAIN lines[c] |-> IF i \in DOMAIN own THEN own[i] ELSE lines[c][i]]

Write(x) ==
    LET r == result[x]
        y == r.id
        after == IF y \in Components THEN Rewritten(y, r.own) ELSE <<>>
        \* a line's cost is another than the one that was in use
        moved == y \in Components /\ \E i \in DOMAIN after : after[i] # LineCost(lines[y], i)
        above == (IF moved THEN Above({y}) ELSE {})
                 \union (IF cost[y] = r.cost THEN {} ELSE HoldersOf({y}))
    IN
    /\ at[x] = "write"
    /\ LinesThere(x)
    /\ cost' = [cost EXCEPT ![y] = r.cost]
    /\ lines' = IF y \in Components THEN [lines EXCEPT ![y] = after] ELSE lines
    /\ stale' = (IF y \in unseen[x] THEN stale \union {y} ELSE stale \ {y}) \union above
    /\ unseen' = [z \in Clients |-> (unseen[z] \union (above \intersect Held(z)))
                                     \ (IF z = x THEN {y} ELSE {})]
    /\ blind' = (blind \ {y}) \union (IF ReplacedKinds(x) \subseteq r.had THEN {} ELSE {y})
    /\ replaced' = [replaced EXCEPT ![x] = {l \in @ : l[1] # y}]
    /\ result' = [result EXCEPT ![x] = NoResult]
    /\ StepTo(x, "next")
    /\ UNCHANGED <<life, price, children, parts, kind, todo, requests>>

WriteThrows(x) ==
    /\ at[x] = "write"
    /\ ~LinesThere(x)
    /\ End(x)
    /\ UNCHANGED <<recipes, cost, requests, stale, blind>>

Done(x) ==
    /\ at[x] = "next"
    /\ DOMAIN todo[x] = {}
    /\ End(x)
    /\ UNCHANGED <<recipes, cost, requests, stale, blind>>

\* repair, one component at a time
Repair(x, c) ==
    /\ at[x] = "read"
    /\ kind[x] = "repair"
    /\ c \in DOMAIN todo[x]
    /\ cost' = [cost EXCEPT ![c] = Legacy[c]]
    /\ Changed({c}, HoldersOf({c}))
    /\ todo' = [todo EXCEPT ![x] = [d \in DOMAIN @ \ {c} |-> @[d]]]
    /\ UNCHANGED <<recipes, at, kind, result, replaced, requests, blind>>

RepairDone(x) ==
    /\ at[x] = "read"
    /\ kind[x] = "repair"
    /\ DOMAIN todo[x] = {}
    /\ End(x)
    /\ UNCHANGED <<recipes, cost, requests, stale, blind>>

-----------------------------------------------------------------------------
Ask(x) ==
    \/ \E c \in Components, S \in SUBSET Ingredients, D \in SUBSET Components :
           \E k \in Costs \union {cost[c]} : SaveComponent(x, c, S, D, k)
    \/ \E c \in Components, S \in SUBSET Ingredients : ReplaceComponentIngredients(x, c, S)
    \/ \E c \in Components, D \in SUBSET Components : ReplaceChildren(x, c, D)
    \/ RefreshComponents(x)
    \/ RepairComponents(x)
    \/ \E m \in Items, P \in SUBSET (Ingredients \union Components) :
           \E k \in Costs \union {cost[m]} : SaveItem(x, m, P, k)
    \/ \E m \in Items, P \in SUBSET Ingredients : ReplaceParts(x, m, "ingredients", P)
    \/ \E m \in Items, P \in SUBSET Components : ReplaceParts(x, m, "components", P)
    \/ \E S \in SUBSET Items : S # {} /\ RefreshItems(x, S)

Work(x) ==
    \/ ReadLines(x)
    \/ \E c \in Components : Compute(x, c)
    \/ \E m \in Items : Take(x, m)
    \/ Write(x) \/ WriteThrows(x) \/ Done(x)
    \/ \E c \in Components : Repair(x, c)
    \/ RepairDone(x)

RecipeNext ==
    \/ \E x \in Clients : Ask(x) \/ Work(x)
    \/ \E i \in Ingredients, k \in Costs : CreateIngredient(i, k) \/ UpdateIngredient(i, k)
    \/ \E i \in Ingredients : RemoveIngredient(i)
    \/ \E c \in Components, k \in Costs : SetUnitCost(c, k)
    \/ \E c \in Components, k \in Costs \union {Unknown} : CreateComponent(c, k)
    \/ \E c \in Components : RemoveComponent(c)
    \/ \E m \in Items, k \in Costs \union {Unknown} : BulkCreate(m, k) \/ SetTotalCost(m, k)
    \/ \E m \in Items : RemoveItem(m) \/ ReviveItem(m)

RecipeSpec == RecipeInit /\ [][RecipeNext]_recipeVars

-----------------------------------------------------------------------------
(* Properties *)

Quiet == \A x \in Clients : at[x] = "idle"

\* When no request is under way, a stored cost is that of the recipe as it
\* is, whoever replaced the lines and whichever refresh wrote last; unless a
\* client gave it (create, bulkCreate and update store the cost of a request
\* and refresh only after new lines), an input has changed since, the refresh
\* failed, or it had no line of the kind that was replaced meanwhile, so that
\* nothing told it to stop.
\* refreshCosts of MenuComponentsService and MenuItemsService
StoredCostIsCurrent ==
    Quiet =>
        /\ \A c \in There(Components) \ (stale \union blind) : cost[c] = UnitCost(c)
        /\ \A m \in There(Items) \ (stale \union blind) : cost[m] = Total(m)
=============================================================================
