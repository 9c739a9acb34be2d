---------------------------- MODULE MCFloorPlan ----------------------------
(* Small instances of FloorPlan for TLC. *)
EXTENDS FloorPlan, TLC

CONSTANTS i1, i2, b1

MCLevels == {"RDC", "Etage1"}
MCHeight == [l \in MCLevels |-> IF l = "RDC" THEN 0 ELSE 1]
Symmetry == Permutations({i1, i2})
=============================================================================
