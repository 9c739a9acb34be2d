---------------------------- MODULE MCCatalogue ----------------------------
(***************************************************************************)
(* Two runs, or a run and a webhook, or a run and a reset.  The runs are   *)
(* alike.                                                                  *)
(***************************************************************************)
EXTENDS Catalogue, TLC

Symmetry == Permutations(Syncs)
=============================================================================
