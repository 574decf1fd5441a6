--------------------------- MODULE SearchService ---------------------------
(***************************************************************************)
(* SearchService: the registry of jobs, what a front-end calls, and the    *)
(* thread of each job.  SearchJob has one such thread in every detail;     *)
(* here progress is a number of tiles, because tiles are done in spiral    *)
(* order, a save is one step, and it is several jobs, of several requests, *)
(* over the same files that matter.  Every request names a progress file   *)
(* and sets keep_checkpoint, as those of rokktui do.                       *)
(*                                                                         *)
(* A pattern stands for all the fields of a request that are hashed into   *)
(* its fingerprint; the backend decides the tile grid, which is too.       *)
(***************************************************************************)
EXTENDS Integers, Sequences, FiniteSets

CONSTANTS
  Patterns,      \* what can be searched for
  Backends,      \* the devices a service can be made for
  Tiles,         \* the tiles of a search
  Hits,          \* Hits[p]: the tiles with a match
  Paths,         \* progress files
  AutosavePath,  \* kAutosavePath, one of them
  Depth          \* kDepth

ASSUME ServiceAssumption ==
  /\ Tiles \in Nat /\ Depth \in Nat \ {0}
  /\ Hits \in [Patterns -> SUBSET (1 .. Tiles)]
  /\ AutosavePath \in Paths

VARIABLES
  backend,  \* what factory_ makes workers for
  jobs,     \* jobs_: a JobId is a place in this sequence
  disk      \* progress file -> what it holds

Absent == [kind |-> "absent"]
Progress == [kind : {"whole"}, of : Patterns \X Backends, done : 0 .. Tiles]

Request == [pattern : Patterns, path : Paths, first : BOOLEAN, from : Progress \cup {Absent}]

Final == {"done", "cancelled", "error"}

\* a Job, with the locals of its thread: at is where run() is
NewJob(r) ==
  [req |-> r, at |-> "start", state |-> "pending", early |-> FALSE, results |-> {},
   text |-> Absent, cancel |-> FALSE, pause |-> FALSE,
   done |-> 0, busy |-> 0, more |-> TRUE, stop |-> FALSE]

Live(j) == jobs[j].at # "ended"

\* find() and poll(); an id nobody gave out is answered with an error
Poll(id) == IF id \in DOMAIN jobs THEN [state |-> jobs[id].state, early |-> jobs[id].early]
            ELSE [state |-> "error", early |-> FALSE]
Results(id) == IF id \in DOMAIN jobs THEN jobs[id].results ELSE {}
Checkpoint(id) == IF id \in DOMAIN jobs THEN jobs[id].text ELSE Absent

FoundBy(p, n) == {t \in Hits[p] : t <= n}

\* next_id_ counts the jobs ever submitted
Submitted(r) == jobs' = Append(jobs, NewJob(r))

\* the flag of a job that has returned is set for nothing
Raised(id, flag, on) ==
  jobs' = IF id \in DOMAIN jobs /\ Live(id)
          THEN [jobs EXCEPT ![id] = IF flag = "cancel" THEN [@ EXCEPT !.cancel = on]
                                    ELSE [@ EXCEPT !.pause = on]]
          ELSE jobs

\* the destructor's first half; then it joins the threads
CancelAll == jobs' = [j \in DOMAIN jobs |-> [jobs[j] EXCEPT !.cancel = Live(j)]]

-----------------------------------------------------------------------------
(* The thread of job j                                                     *)

Fingerprint(r) == <<r.pattern, backend>>

\* mutant: the text is not looked at
RestoredFile(r) ==
  IF disk[r.path].kind = "whole" /\ disk[r.path].of = Fingerprint(r) THEN disk[r.path].done ELSE 0

\* mutant: the file is not looked at
RestoredText(r) ==
  IF r.from.kind = "whole" /\ r.from.of = Fingerprint(r) THEN r.from.done ELSE 0

\* the text of the request, else the file, else nothing
Restored(r) ==
  IF r.from.kind = "whole" /\ r.from.of = Fingerprint(r) THEN r.from.done
  ELSE IF disk[r.path].kind = "whole" /\ disk[r.path].of = Fingerprint(r) THEN disk[r.path].done
  ELSE 0

Snapshot(job) == [kind |-> "whole", of |-> Fingerprint(job.req), done |-> job.done]

Start(j) ==
  /\ jobs[j].at = "start"
  /\ jobs' = [jobs EXCEPT ![j].done = Restored(jobs[j].req), ![j].state = "running", ![j].at = "admit"]
  /\ UNCHANGED disk

\* run() returns: its locals are gone and nobody reads the flags any more; done
\* stays, for the properties
Returned(job) == [job EXCEPT !.at = "ended", !.busy = 0, !.more = TRUE, !.stop = FALSE,
                             !.cancel = FALSE, !.pause = FALSE]

\* set_err: no backend, a refused request, or an exception from the worker
Fail(j) ==
  /\ jobs[j].at \in {"start", "admit"} \/ (jobs[j].at = "drain" /\ jobs[j].busy > 0)
  /\ jobs' = [jobs EXCEPT ![j] = Returned([@ EXCEPT !.state = "error", !.done = 0])]
  /\ UNCHANGED disk

MayAdmit(job) == job.more /\ ~job.stop /\ ~job.cancel

\* the admission loop, one tile at a time
Admit(j) ==
  LET job == jobs[j]
      open == MayAdmit(job) /\ ~job.pause /\ job.busy < Depth
      left == job.done + job.busy < Tiles
  IN /\ job.at = "admit"
     /\ jobs' = [jobs EXCEPT ![j].busy = IF open /\ left THEN @ + 1 ELSE @,
                             ![j].more = @ /\ (open => left),
                             ![j].at = IF open /\ left THEN "admit" ELSE "drain"]
     /\ UNCHANGED disk

\* end_tile() and on_tile_done(): the first tile is saved at once, later ones
\* when the clock says so
Collect(j) ==
  LET job == jobs[j]
      next == [job EXCEPT !.done = @ + 1, !.busy = @ - 1, !.at = "admit",
                          !.stop = @ \/ (job.req.first /\ job.done + 1 \in Hits[job.req.pattern])]
  IN /\ job.at = "drain" /\ job.busy > 0
     /\ \E toDisk, toText \in BOOLEAN :
          /\ job.text = Absent => toDisk
          /\ toDisk => toText
          /\ jobs' = [jobs EXCEPT ![j] = [next EXCEPT !.text = IF toText THEN Snapshot(next) ELSE @]]
          /\ disk' = IF toDisk THEN [disk EXCEPT ![job.req.path] = Snapshot(next)] ELSE disk

EnterPause(j) ==
  LET job == jobs[j]
  IN /\ job.at = "drain" /\ job.busy = 0 /\ MayAdmit(job) /\ job.pause
     /\ jobs' = [jobs EXCEPT ![j].state = "paused", ![j].at = "paused", ![j].text = Snapshot(job)]
     /\ disk' = [disk EXCEPT ![job.req.path] = Snapshot(job)]

LeavePause(j) ==
  /\ jobs[j].at = "paused" /\ (~jobs[j].pause \/ jobs[j].cancel)
  /\ jobs' = [jobs EXCEPT ![j].state = "running", ![j].at = "admit"]
  /\ UNCHANGED disk

\* out of the pump: the last save, or the end of a finished search's autosave
Finish(j) ==
  LET job == jobs[j]
      autosave_done == ~job.cancel /\ job.req.path = AutosavePath
  IN /\ job.at = "drain" /\ job.busy = 0 /\ ~(MayAdmit(job) /\ job.pause)
     /\ jobs' = [jobs EXCEPT ![j].at = "publish", ![j].text = Snapshot(job)]
     /\ disk' = [disk EXCEPT ![job.req.path] = IF autosave_done THEN Absent ELSE Snapshot(job)]

Publish(j) ==
  LET job == jobs[j]
  IN /\ job.at = "publish"
     /\ jobs' = [jobs EXCEPT ![j] = Returned(
                   [@ EXCEPT !.results = FoundBy(job.req.pattern, job.done),
                             !.state = IF job.cancel THEN "cancelled" ELSE "done",
                             !.early = ~job.cancel /\ job.stop /\ job.done < Tiles])]
     /\ UNCHANGED disk

JobThread(j) == /\ j \in DOMAIN jobs
                /\ \/ Start(j) \/ Fail(j) \/ Admit(j) \/ Collect(j) \/ EnterPause(j)
                   \/ LeavePause(j) \/ Finish(j) \/ Publish(j)
                /\ UNCHANGED backend
=============================================================================
