---------------------------- MODULE MCAuthCache -----------------------------
(***************************************************************************)
(* Instances of AuthCache for TLC.  Neither the pods nor the requests are  *)
(* told apart: a request arrives at any pod.                               *)
(***************************************************************************)
EXTENDS AuthCache, TLC

PodsAndRequests == Permutations(Pods) \union Permutations(Requests)
=============================================================================
