--------------------------- MODULE ProgressStore ---------------------------
(***************************************************************************)
(* What a checkpoint file promises the processes that use it in turn: it   *)
(* holds the whole progress of one job or nothing, and a job of the same   *)
(* request begins from exactly that.                                       *)
(***************************************************************************)
CONSTANTS
  Requests,      \* the requests, told apart by their fingerprints
  Nothing,
  Fresh(_),      \* the progress of a request that starts from zero
  Further(_, _)  \* a job's progress before and after a step of its work

VARIABLES
  job,     \* the progress of the running job, or Nothing
  stored   \* the progress the file holds, or Nothing

vars == <<job, stored>>

Init == job = Nothing /\ stored = Nothing

\* a job begins, from the file if it is its own
Begin(q) ==
  /\ job = Nothing
  /\ job' = IF stored # Nothing /\ stored.request = q THEN stored ELSE Fresh(q)
  /\ UNCHANGED stored

Work == job # Nothing /\ job' # Nothing /\ Further(job, job') /\ UNCHANGED stored

\* a save begins, and with it the old progress is gone
Discard == job # Nothing /\ stored' = Nothing /\ UNCHANGED job

\* a save is complete
Store == job # Nothing /\ stored' = job /\ UNCHANGED job

\* the job ends or is killed
End == job # Nothing /\ job' = Nothing /\ UNCHANGED stored

Next == (\E q \in Requests : Begin(q)) \/ Work \/ Discard \/ Store \/ End

Spec == Init /\ [][Next]_vars
=============================================================================
