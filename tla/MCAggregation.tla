--------------------------- MODULE MCAggregation ---------------------------
(***************************************************************************)
(* Events of one day that sell in two groups, one of them without a        *)
(* location, until the sale of the other is cancelled.                     *)
(***************************************************************************)
EXTENDS Aggregation, TLC

CONSTANTS k1, k2, beer, food

MCProduct == (k1 :> beer) @@ (k2 :> food)
MCDay == [e \in Events |-> 1]
MCSold == << [e \in Events |-> {k1, k2}], [e \in Events |-> {k2}] >>
=============================================================================
