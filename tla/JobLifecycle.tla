---------------------------- MODULE JobLifecycle ----------------------------
(***************************************************************************)
(* What SearchService promises a front-end about one job at a time: the    *)
(* life cycle of JobState, and that results() is empty until the job has   *)
(* ended and then never changes.                                           *)
(***************************************************************************)
CONSTANT Origins

VARIABLES
  state,    \* JobStatus::state; "none" when there is no job
  results   \* SearchService::results

lifecycle == <<state, results>>

Final == {"done", "cancelled", "error"}

Submitted == /\ state \in Final \cup {"none"}
             /\ state' = "pending" /\ results' = {}

Started == state = "pending" /\ state' = "running" /\ UNCHANGED results

Paused == state = "running" /\ state' = "paused" /\ UNCHANGED results

Resumed == state = "paused" /\ state' = "running" /\ UNCHANGED results

Finished == /\ state = "running" /\ state' \in {"done", "cancelled"}
            /\ results' \in SUBSET Origins

Failed == state \in {"pending", "running"} /\ state' = "error" /\ UNCHANGED results

\* the process is gone, and the job with it
Lost == state \in {"pending", "running", "paused"} /\ state' = "none" /\ results' = {}

Init == state = "none" /\ results = {}

Next == Submitted \/ Started \/ Paused \/ Resumed \/ Finished \/ Failed \/ Lost

Spec == Init /\ [][Next]_lifecycle
=============================================================================
