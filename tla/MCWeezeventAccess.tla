------------------------- MODULE MCWeezeventAccess -------------------------
(* Two requests about two instances, and the calls of one sync. *)
EXTENDS WeezeventAccess, TLC

CONSTANTS a1, a2, c1

Pair(i, s) == [clientId |-> i, clientSecret |-> s]
MCKnown == {Pair("stand", "old"), Pair("stand", "new"), Pair("shop", "old")}
Body(i, s, e) == [clientId |-> i, clientSecret |-> s, enabled |-> e]
MCBodies == {Body("stand", "new", Kept), Body("shop", Kept, Kept), Body(Kept, "new", Kept),
             Body(Kept, Kept, "off"), Body(Kept, Kept, "on")}
Symmetry == Permutations({a1, a2})
=============================================================================
