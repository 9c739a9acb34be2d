----------------------------- MODULE SyncImport -----------------------------
(***************************************************************************)
(* What an asynchronous Weezevent import promises to the user who started  *)
(* it, with none of the machinery: a job is opened, it collects pages of   *)
(* transactions, it stops collecting, the pages reach the transaction      *)
(* table in any order, and it is reported as completed only when it has    *)
(* stopped collecting and every page it collected has been delivered.  A   *)
(* job may be dropped (deleted) at any time and is never reopened; pages   *)
(* already handed to a writer may still arrive after that.                 *)
(*                                                                         *)
(* SyncJob implements this specification: see SyncJob!Import.              *)
(***************************************************************************)
CONSTANTS Jobs, Pages

VARIABLES
    state,      \* [Jobs -> JobState]
    collected,  \* [Jobs -> SUBSET Pages]  pages fetched from Weezevent
    delivered   \* [Jobs -> SUBSET Pages]  pages written to the database

vars == <<state, collected, delivered>>

JobState == {"none", "open", "closed", "completed", "dropped"}

Init ==
    /\ state = [j \in Jobs |-> "none"]
    /\ collected = [j \in Jobs |-> {}]
    /\ delivered = [j \in Jobs |-> {}]

Open(j) ==
    /\ state[j] = "none"
    /\ state' = [state EXCEPT ![j] = "open"]
    /\ UNCHANGED <<collected, delivered>>

Collect(j, p) ==
    /\ state[j] = "open"
    /\ p \notin collected[j]
    /\ collected' = [collected EXCEPT ![j] = @ \union {p}]
    /\ UNCHANGED <<state, delivered>>

Close(j) ==
    /\ state[j] = "open"
    /\ collected[j] # {}
    /\ state' = [state EXCEPT ![j] = "closed"]
    /\ UNCHANGED <<collected, delivered>>

Deliver(j, p) ==
    /\ p \in collected[j] \ delivered[j]
    /\ state[j] # "completed"
    /\ delivered' = [delivered EXCEPT ![j] = @ \union {p}]
    /\ UNCHANGED <<state, collected>>

Complete(j) ==
    /\ state[j] = "closed"
    /\ delivered[j] = collected[j]
    /\ state' = [state EXCEPT ![j] = "completed"]
    /\ UNCHANGED <<collected, delivered>>

Drop(j) ==
    /\ state[j] \in {"open", "closed", "completed"}
    /\ state' = [state EXCEPT ![j] = "dropped"]
    /\ UNCHANGED <<collected, delivered>>

Next ==
    \E j \in Jobs :
        \/ Open(j)
        \/ \E p \in Pages : Collect(j, p) \/ Deliver(j, p)
        \/ Close(j)
        \/ Complete(j)
        \/ Drop(j)

Spec == Init /\ [][Next]_vars
=============================================================================
