---------------------------- MODULE MCMenuPrices ----------------------------
(* Small instances of MenuPrices for TLC. *)
EXTENDS MenuPrices

CONSTANTS x1, x2

MCCatalogue == [p \in Products |-> IF p = "lager" THEN 1 ELSE NoPrice]
MCSheets == {[base |-> 1, spaces |-> {"stadium", "arena"}, prices |-> <<>>],
             [base |-> 2, spaces |-> {}, prices |-> "stadium" :> 1]}
Symmetry == Permutations({x1, x2})
=============================================================================
