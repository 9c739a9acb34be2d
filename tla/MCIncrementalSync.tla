------------------------- MODULE MCIncrementalSync --------------------------
(***************************************************************************)
(* Instances of IncrementalSync for TLC.  A request of the crons has no    *)
(* date or, forced, a first one; a manual one may have a last one too.     *)
(***************************************************************************)
EXTENDS IncrementalSync, TLC

AllRequests ==
    {NoFilter, [NoFilter EXCEPT !.full = TRUE, !.since = 1], [NoFilter EXCEPT !.until = 0]}
Symmetry == Permutations(Runs) \union Permutations(Txs \ Unreadable)
=============================================================================
