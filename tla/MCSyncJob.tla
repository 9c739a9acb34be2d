----------------------------- MODULE MCSyncJob ------------------------------
(***************************************************************************)
(* Instances of SyncJob for TLC.  Every request targets the integration i1 *)
(* unless a configuration says otherwise.                                  *)
(***************************************************************************)
EXTENDS SyncJob

CONSTANTS i1

OneIntegration == {i1}
SameTarget == [j \in Jobs |-> i1]
=============================================================================
