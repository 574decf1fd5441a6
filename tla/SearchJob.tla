----------------------------- MODULE SearchJob -----------------------------
(***************************************************************************)
(* One search job: SearchService::run, the thread that pumps tiles through *)
(* a worker, together with what the front-end does to it (submit, cancel,  *)
(* pause, save a session), what it leaves behind on disk, and the process  *)
(* being killed and started again.                                         *)
(*                                                                         *)
(* A tile is named by its place in the spiral order, so next() hands out   *)
(* 1, 2, 3, ... ; TileScheduler shows that the spiral is a permutation of  *)
(* the grid.  A match is a member of Origins.  A fingerprint stands for    *)
(* the request fields it hashes and the tile grid actually used.           *)
(***************************************************************************)
EXTENDS Integers, Sequences, FiniteSets

CONSTANTS
  Origins,       \* candidate origins that can match
  Searches,      \* fingerprints: a request's search on one tile grid
  Hits,          \* Hits[s][t]: the origins of tile t at which search s matches
  Gpu,           \* the searches run by a worker that caps matches per tile
  Requests,      \* the requests a front-end may submit
  Paths,         \* checkpoint files
  AutosavePath,  \* kAutosavePath, one of them
  NoPath,        \* no checkpoint file
  Depth,         \* kDepth
  DeviceCap,     \* a GPU worker's own limit on the matches of one tile
  Events,        \* what the environment may do in this instance
  MaxRuns        \* bound: jobs submitted in a behaviour

ASSUME HitsAssumption ==
  /\ IsFiniteSet(Origins)
  /\ Hits \in [Searches -> Seq(SUBSET Origins)]
  /\ \A s \in Searches : \A t, u \in DOMAIN Hits[s] :
        t # u => Hits[s][t] \cap Hits[s][u] = {}

ASSUME RequestAssumption ==
  /\ Requests # {}
  /\ Requests \subseteq [search : Searches, cap : Nat, first : BOOLEAN,
                         path : Paths \cup {NoPath}, keep : BOOLEAN, resume : BOOLEAN]
  /\ NoPath \notin Paths

ASSUME BoundAssumption ==
  /\ Depth \in Nat \ {0}
  /\ DeviceCap \in Nat
  /\ MaxRuns \in Nat
  /\ Events \subseteq {"cancel", "pause", "resume", "session", "kill", "throw", "disk"}

VARIABLES
  runs,      \* jobs submitted so far
  pc,        \* where the job thread is; "off": no process, "ended": run returned
  ret,       \* where save_progress returns to
  req,       \* the request
  cancel,    \* Job::cancel
  pause,     \* Job::pause
  status,    \* Job::status, what poll() returns
  results,   \* Job::results
  text,      \* Job::ckpt_text
  done,      \* TileScheduler: tiles marked done
  cursor,    \* TileScheduler: the next place in the spiral order
  inflight,  \* tiles begun and not yet collected, with the worker's answer
  more,      \* next() has not yet returned false
  stop,      \* stop_at_first_match has fired
  found,     \* the matches kept
  capped,    \* keep() has dropped a match
  trunc,     \* Worker::truncated()
  emitted,   \* CpuWorker::emitted_
  drained,   \* a tile was collected in this run, so next_disk has been set
  saved,     \* progress was saved in this run, so last_ckpt has been set
  lossy,     \* history: a cap has dropped a match of a done tile
  disk,      \* the checkpoint files
  session    \* the session file written by the front-end

control == <<runs, pc, ret, req>>
flags   == <<cancel, pause>>
visible == <<status, results, text>>
sched   == <<done, cursor, inflight, more, stop>>
kept    == <<found, capped, trunc, emitted, lossy>>
clocks  == <<drained, saved>>
store   == <<disk, session>>
vars    == <<control, flags, visible, sched, kept, clocks, store>>

-----------------------------------------------------------------------------
(* Checkpoints.  A file is absent, cut off, or a whole checkpoint; a whole *)
(* one is accepted by read_checkpoint only under its own fingerprint.      *)

Absent == [kind |-> "absent"]
Cut    == [kind |-> "cut"]

Checkpoint == [kind : {"whole"}, fp : Searches, done : SUBSET (Nat \ {0}),
               matches : SUBSET Origins, lossy : BOOLEAN]

Tiles(s)      == DOMAIN Hits[s]
HitsOf(s, T)  == UNION {Hits[s][t] : t \in T \cap Tiles(s)}

\* mutant: no matches section, as in a version 1 file
SnapshotV1 == [kind |-> "whole", fp |-> req.search, done |-> done, lossy |-> lossy]

\* mutant: a tile counts as done once it is handed out
SnapshotBusy == [kind |-> "whole", fp |-> req.search, matches |-> found, lossy |-> lossy,
                 done |-> done \cup {inflight[i].tile : i \in DOMAIN inflight}]

Snapshot == [kind |-> "whole", fp |-> req.search, done |-> done,
             matches |-> found, lossy |-> lossy]

\* mutant: the fingerprint is not compared
AcceptedAnyGrid(c) == c.kind = "whole"

Accepted(c) == c.kind = "whole" /\ c.fp = req.search

Scratch == [kind |-> "whole", fp |-> req.search, done |-> {},
            matches |-> {}, lossy |-> FALSE]

\* mutant: the checkpoint file is not read
RestoredFromText == IF req.resume /\ Accepted(session) THEN session ELSE Scratch

\* mutant: the tiles are restored without their matches
RestoredTilesOnly ==
  IF req.resume /\ Accepted(session) THEN [session EXCEPT !.matches = {}] ELSE Scratch

\* resume_text first, then the checkpoint file, else from zero
RestoredFrom ==
  IF req.resume /\ Accepted(session) THEN session
  ELSE IF req.path # NoPath /\ Accepted(disk[req.path]) THEN disk[req.path]
  ELSE Scratch

\* the selections of at most `room` members of m: everything when m fits
Firsts(m, room) ==
  {S \in SUBSET m : Cardinality(S) = IF Cardinality(m) <= room THEN Cardinality(m) ELSE room}

Live == pc \notin {"off", "ended"}

\* may_admit(), the guard of the pump
MayAdmit == more /\ ~stop /\ ~cancel

\* mutant: restored tiles are handed out again
UnscannedOrDone == {t \in Tiles(req.search) : t >= cursor}

\* mutant: next() starts one place too far
UnscannedAfter == {t \in Tiles(req.search) : t > cursor /\ t \notin done}

\* the tiles next() still has to hand out
Unscanned == {t \in Tiles(req.search) : t >= cursor /\ t \notin done}

\* mutant: the spiral is walked inwards
OutermostTile(t) == t \in Unscanned /\ \A u \in Unscanned : u <= t

\* next() hands out t
NextTile(t) == t \in Unscanned /\ \A u \in Unscanned : t <= u

-----------------------------------------------------------------------------
(* Starting and losing a job                                               *)

NewStatus(state) ==
  [state |-> state, shown |-> {}, matches |-> {}, truncated |-> FALSE,
   early |-> FALSE, full |-> FALSE]

\* a new Job object and fresh locals of run(), or no process at all
Reset(state) ==
  /\ ret' = "admit" /\ cancel' = FALSE /\ pause' = FALSE
  /\ status' = NewStatus(state) /\ results' = {} /\ text' = Absent
  /\ done' = {} /\ cursor' = 1 /\ inflight' = <<>> /\ more' = TRUE /\ stop' = FALSE
  /\ found' = {} /\ capped' = FALSE /\ trunc' = FALSE /\ emitted' = 0
  /\ drained' = FALSE /\ saved' = FALSE /\ lossy' = FALSE

Submit(r) ==
  /\ ~Live /\ runs < MaxRuns
  /\ runs' = runs + 1 /\ pc' = "restore" /\ req' = r
  /\ Reset("pending")
  /\ UNCHANGED store

\* the process dies; what is on disk stays
Kill ==
  /\ "kill" \in Events /\ Live
  /\ pc' = "off"
  /\ Reset("none")
  /\ UNCHANGED <<runs, req, store>>

-----------------------------------------------------------------------------
(* The front-end                                                           *)

Cancel ==
  /\ "cancel" \in Events /\ Live /\ ~cancel
  /\ cancel' = TRUE
  /\ UNCHANGED <<control, pause, visible, sched, kept, clocks, store>>

SetPause(on) ==
  /\ (IF on THEN "pause" ELSE "resume") \in Events /\ Live /\ pause # on
  /\ pause' = on
  /\ UNCHANGED <<control, cancel, visible, sched, kept, clocks, store>>

SaveSession ==
  /\ "session" \in Events /\ text.kind = "whole" /\ session # text
  /\ session' = text
  /\ UNCHANGED <<control, flags, visible, sched, kept, clocks, disk>>

-----------------------------------------------------------------------------
(* The job thread                                                          *)

\* set_err: a refused request, no backend, or an exception from the worker
Fail ==
  /\ "throw" \in Events
  /\ \/ pc \in {"restore", "configure"}
     \/ pc = "admit" /\ MayAdmit /\ ~pause /\ Len(inflight) < Depth /\ Unscanned # {}
     \/ pc = "drain" /\ inflight # <<>>
  /\ pc' = "ended"
  /\ status' = [status EXCEPT !.state = "error"]
  /\ UNCHANGED <<runs, ret, req, flags, results, text, sched, kept, clocks, store>>

Restore ==
  /\ pc = "restore"
  /\ \E S \in Firsts(RestoredFrom.matches, req.cap) :
       /\ found' = S
       /\ capped' = (S # RestoredFrom.matches)
       /\ lossy' = (RestoredFrom.lossy \/ S # RestoredFrom.matches)
  /\ done' = RestoredFrom.done \cap Tiles(req.search)
  /\ pc' = "configure"
  /\ UNCHANGED <<runs, ret, req, flags, visible, cursor, inflight, more, stop,
                 trunc, emitted, clocks, store>>

\* mutant: the scheduler is built after the restore
ConfigureFresh ==
  /\ pc = "configure"
  /\ status' = [status EXCEPT !.state = "running"]
  /\ done' = {} /\ pc' = "admit"
  /\ UNCHANGED <<runs, ret, req, flags, results, text, cursor, inflight, more, stop,
                 kept, clocks, store>>

Configure ==
  /\ pc = "configure"
  /\ status' = [status EXCEPT !.state = "running"]
  /\ pc' = "admit"
  /\ UNCHANGED <<runs, ret, req, flags, results, text, sched, kept, clocks, store>>

\* how many matches of its next tile the worker will hand over
WorkerRoom ==
  IF req.search \in Gpu THEN (IF req.cap <= DeviceCap THEN req.cap ELSE DeviceCap)
  ELSE IF emitted <= req.cap THEN req.cap - emitted ELSE 0

\* the CPU worker notices a dropped match in begin_tile, the GPU in end_tile
CpuDropped(t, S) == req.search \notin Gpu /\ S # Hits[req.search][t]

\* mutant: the read-back does not compare the count with the cap
GpuNeverDropped(t, S) == FALSE

GpuDropped(t, S) == req.search \in Gpu /\ S # Hits[req.search][t]

\* next() and begin_tile(); the CPU worker scans the tile here
AdmitTile ==
  /\ pc = "admit" /\ MayAdmit /\ ~pause /\ Len(inflight) < Depth
  /\ \E t \in Unscanned :
       /\ NextTile(t)
       /\ cursor' = t + 1
       /\ \E S \in Firsts(Hits[req.search][t], WorkerRoom) :
            /\ inflight' = Append(inflight, [tile |-> t, got |-> S])
            /\ trunc' = (trunc \/ CpuDropped(t, S))
       /\ emitted' = emitted + Cardinality(Hits[req.search][t])
  /\ UNCHANGED <<control, flags, visible, done, more, stop, found, capped, lossy, clocks, store>>

\* next() returned false
NoMoreTiles ==
  /\ pc = "admit" /\ MayAdmit /\ ~pause /\ Len(inflight) < Depth
  /\ Unscanned = {}
  /\ more' = FALSE /\ cursor' = Len(Hits[req.search]) + 1
  /\ pc' = "drain"
  /\ UNCHANGED <<runs, ret, req, flags, visible, done, inflight, stop, kept, clocks, store>>

\* the admission loop's condition is false
StopAdmitting ==
  /\ pc = "admit" /\ ~(MayAdmit /\ ~pause /\ Len(inflight) < Depth)
  /\ pc' = "drain"
  /\ UNCHANGED <<runs, ret, req, flags, visible, sched, kept, clocks, store>>

\* save_progress(found, toDisk), then control goes on at `next`
BeginSave(toDisk, next) ==
  LET d == toDisk /\ req.path # NoPath IN
  /\ ret' = next
  /\ pc' = IF d THEN "open" ELSE IF req.keep THEN "text" ELSE next
  /\ saved' = (saved \/ d \/ req.keep)

\* end_tile() and on_tile_done(): the oldest tile in flight is recorded
Collect ==
  /\ pc = "drain" /\ inflight # <<>>
  /\ LET t == Head(inflight).tile
         m == Head(inflight).got
         wt == trunc \/ GpuDropped(t, m)
     IN
     /\ inflight' = Tail(inflight)
     /\ stop' = (stop \/ (req.first /\ m # {}))
     /\ done' = done \cup {t}
     /\ trunc' = wt
     /\ \E S \in Firsts(m, req.cap - Cardinality(found)) :
          /\ found' = found \cup S
          /\ capped' = (capped \/ S # m)
          /\ lossy' = (lossy \/ S # Hits[req.search][t])
     /\ status' = [status EXCEPT !.shown = done', !.matches = found',
                     !.truncated = capped' \/ wt, !.full = (done' = Tiles(req.search))]
  /\ drained' = TRUE
  \* the first tile is always due; later ones when the clock says so
  /\ \E onDisk \in (IF drained THEN BOOLEAN ELSE {TRUE}),
        inText \in (IF saved THEN BOOLEAN ELSE {TRUE}) :
       IF (onDisk /\ req.path # NoPath) \/ (inText /\ req.keep)
       THEN BeginSave(onDisk, "admit")
       ELSE pc' = "admit" /\ UNCHANGED <<ret, saved>>
  /\ UNCHANGED <<runs, req, flags, results, text, cursor, more, emitted, store>>

\* mutant: the pause is not published
EnterPauseSilently ==
  /\ pc = "drain" /\ inflight = <<>> /\ MayAdmit /\ pause
  /\ BeginSave(TRUE, "paused")
  /\ UNCHANGED <<runs, req, flags, visible, sched, kept, drained, store>>

\* nothing in flight, and a pause holds admissions back: wait_while_paused
EnterPause ==
  /\ pc = "drain" /\ inflight = <<>> /\ MayAdmit /\ pause
  /\ status' = [status EXCEPT !.state = "paused"]
  /\ BeginSave(TRUE, "paused")
  /\ UNCHANGED <<runs, req, flags, results, text, sched, kept, drained, store>>

\* mutant: a paused job only looks at the cancel flag
LeavePauseStuck ==
  /\ pc = "paused" /\ cancel
  /\ status' = [status EXCEPT !.state = "running"]
  /\ pc' = "admit"
  /\ UNCHANGED <<runs, ret, req, flags, results, text, sched, kept, clocks, store>>

\* mutant: the job stays `paused' when it goes on
LeavePauseSilently ==
  /\ pc = "paused" /\ (~pause \/ cancel)
  /\ pc' = "admit"
  /\ UNCHANGED <<runs, ret, req, flags, visible, sched, kept, clocks, store>>

LeavePause ==
  /\ pc = "paused" /\ (~pause \/ cancel)
  /\ status' = [status EXCEPT !.state = "running"]
  /\ pc' = "admit"
  /\ UNCHANGED <<runs, ret, req, flags, results, text, sched, kept, clocks, store>>

\* nothing in flight, and the second look at the flags finds no pause: break,
\* then the last save, which spares a finished search's autosave file
Finish ==
  /\ pc = "drain" /\ inflight = <<>> /\ ~(MayAdmit /\ pause)
  /\ LET autosaveDone == ~cancel /\ req.path = AutosavePath IN
     BeginSave(~autosaveDone, IF autosaveDone THEN "remove" ELSE "publish")
  /\ UNCHANGED <<runs, req, flags, visible, sched, kept, drained, store>>

\* mutant: a save to disk skips the in-memory copy
AfterFileReturn == ret

AfterFile == IF req.keep THEN "text" ELSE ret

\* ofstream(path, trunc); if it cannot be opened nothing is written
SaveOpen ==
  /\ pc = "open"
  /\ \/ pc' = "write" /\ disk' = [disk EXCEPT ![req.path] = Cut]
     \/ "disk" \in Events /\ pc' = AfterFile /\ UNCHANGED disk
  /\ UNCHANGED <<runs, ret, req, flags, visible, sched, kept, clocks, session>>

SaveWrite ==
  /\ pc = "write"
  /\ \/ disk' = [disk EXCEPT ![req.path] = Snapshot]
     \/ "disk" \in Events /\ UNCHANGED disk
  /\ pc' = AfterFile
  /\ UNCHANGED <<runs, ret, req, flags, visible, sched, kept, clocks, session>>

SaveText ==
  /\ pc = "text"
  /\ text' = Snapshot
  /\ pc' = ret
  /\ UNCHANGED <<runs, ret, req, flags, status, results, sched, kept, clocks, store>>

RemoveAutosave ==
  /\ pc = "remove"
  /\ disk' = [disk EXCEPT ![req.path] = Absent]
  /\ pc' = "publish"
  /\ UNCHANGED <<runs, ret, req, flags, visible, sched, kept, clocks, session>>

Publish ==
  /\ pc = "publish"
  /\ results' = found
  /\ LET state == IF cancel THEN "cancelled" ELSE "done"
         early == stop /\ done # Tiles(req.search)
     IN status' = [status EXCEPT !.matches = found, !.state = state,
                     !.early = early /\ state = "done",
                     !.full = @ \/ (state = "done" /\ ~early)]
  /\ pc' = "ended"
  /\ UNCHANGED <<runs, ret, req, flags, text, sched, kept, clocks, store>>

Pump == AdmitTile \/ NoMoreTiles \/ StopAdmitting \/ Collect \/ EnterPause \/ LeavePause

JobThread ==
  \/ Fail \/ Restore \/ Configure \/ Pump \/ Finish
  \/ SaveOpen \/ SaveWrite \/ SaveText \/ RemoveAutosave \/ Publish

FrontEnd ==
  \/ \E r \in Requests : Submit(r)
  \/ Cancel
  \/ \E on \in BOOLEAN : SetPause(on)
  \/ SaveSession

Init ==
  /\ runs = 0 /\ pc = "off" /\ ret = "admit" /\ req \in Requests
  /\ cancel = FALSE /\ pause = FALSE
  /\ status = NewStatus("none") /\ results = {} /\ text = Absent
  /\ done = {} /\ cursor = 1 /\ inflight = <<>> /\ more = TRUE /\ stop = FALSE
  /\ found = {} /\ capped = FALSE /\ trunc = FALSE /\ emitted = 0
  /\ drained = FALSE /\ saved = FALSE /\ lossy = FALSE
  /\ disk = [p \in Paths |-> Absent] /\ session = Absent

Next == JobThread \/ FrontEnd \/ Kill

Spec == Init /\ [][Next]_vars

\* The operating system keeps running the job's thread and the worker keeps
\* answering; nobody has to cancel, resume or resubmit.
FairSpec == Spec /\ WF_vars(JobThread)

-----------------------------------------------------------------------------
(* Properties                                                              *)

Places == {"off", "restore", "configure", "admit", "drain", "open", "write",
           "text", "paused", "remove", "publish", "ended"}

StatusType ==
  [state : {"none", "pending", "running", "paused", "done", "cancelled", "error"},
   shown : SUBSET (Nat \ {0}), matches : SUBSET Origins, truncated : BOOLEAN,
   early : BOOLEAN, full : BOOLEAN]

Entry == [tile : Nat \ {0}, got : SUBSET Origins]

ControlOK ==
  /\ runs \in Nat /\ pc \in Places /\ ret \in Places /\ req \in Requests
  /\ cancel \in BOOLEAN /\ pause \in BOOLEAN /\ drained \in BOOLEAN /\ saved \in BOOLEAN

VisibleOK ==
  /\ status \in StatusType /\ results \in SUBSET Origins
  /\ text \in Checkpoint \cup {Absent}

SchedOK ==
  /\ done \in SUBSET (Nat \ {0}) /\ cursor \in Nat \ {0} /\ inflight \in Seq(Entry)
  /\ more \in BOOLEAN /\ stop \in BOOLEAN

KeptOK ==
  /\ found \in SUBSET Origins /\ capped \in BOOLEAN /\ trunc \in BOOLEAN
  /\ emitted \in Nat /\ lossy \in BOOLEAN

StoreOK ==
  /\ disk \in [Paths -> Checkpoint \cup {Absent, Cut}]
  /\ session \in Checkpoint \cup {Absent}

\* The variables have the types the code gives them.
TypeOK == ControlOK /\ VisibleOK /\ SchedOK /\ KeptOK /\ StoreOK

InFlight == {inflight[i].tile : i \in DOMAIN inflight}

\* matches are exactly those of the tiles, short only of what a cap dropped
Accounts(s, tiles, matches, dropped) ==
  /\ tiles \subseteq Tiles(s)
  /\ matches \subseteq HitsOf(s, tiles)
  /\ ~dropped => matches = HitsOf(s, tiles)

Sound(c) == c.kind = "whole" => Accounts(c.fp, c.done, c.matches, c.lossy)

\* No checkpoint a resume could accept, on disk, in memory or in a saved
\* session, lists a tile as done without the matches of that tile, whatever
\* was killed, cut off or saved half way (search_service.cpp:234-237).
CheckpointsSound ==
  /\ \A p \in Paths : Sound(disk[p])
  /\ Sound(text) /\ Sound(session)

\* The job's own matches are those of the tiles it counts as done, restored or
\* scanned: keep(), mark_done() and the restore never come apart.
JobSound == Accounts(req.search, done, found, lossy)

\* No origin reaches keep() twice: a tile in flight is not done, is in flight
\* once, and none of its matches is kept already, even after a restore, which
\* is why keep() does no dedup (search_service.cpp:457-458).
ScannedOnce ==
  \A i \in DOMAIN inflight :
    /\ inflight[i].tile \notin done
    /\ Hits[req.search][inflight[i].tile] \cap found = {}
    /\ \A j \in DOMAIN inflight : i # j => inflight[i].tile # inflight[j].tile

\* The forward-only cursor leaves nothing behind: a tile it has passed is done
\* or in flight (search_service.cpp:147-149).
NoneSkipped ==
  {t \in Tiles(req.search) : t < cursor} \subseteq done \cup InFlight

\* With stop_at_first_match the search stops at the nearest match: some tile
\* with a match is done, and so is every tile nearer the centre than it
\* (service_types.hpp:175-177).
NearestFirst ==
  stop => \E t \in done \cap Tiles(req.search) :
            /\ Hits[req.search][t] # {}
            /\ \A u \in Tiles(req.search) : u < t => u \in done

\* while poll() says paused, as far as the save of that pause has got
\* (search_service.cpp:585-586, 592-594)
PauseIsExact ==
  status.state = "paused" =>
     /\ inflight = <<>>
     /\ (req.keep /\ pc \notin {"open", "write", "text"}) => text = Snapshot
     /\ (req.path # NoPath /\ pc \notin {"open", "write"}) => disk[req.path] = Snapshot

Ended == status.state \in {"done", "cancelled"}

\* once it is done or cancelled (search_service.hpp:176-178, README.md:208-209)
EndIsExact ==
  Ended => /\ inflight = <<>> /\ results = found
           /\ req.keep => text = Snapshot
           /\ req.path \notin {NoPath, AutosavePath} => disk[req.path] = Snapshot

\* From the moment a pause is shown, and at the end, nothing is in flight, results are
\* all that was found, and every copy of the progress is exact that the save which
\* belongs to it has not still to write: first the file, then the one in memory; but
\* for an autosave that has gone at the end.
SavesAreExact == PauseIsExact /\ EndIsExact

\* A job that resumed from its file is never behind it: until it saves again,
\* what the file lists is done.
FileNotAhead ==
  (status.state \in {"running", "paused", "done", "cancelled"}
     /\ ~req.resume /\ req.path # NoPath /\ Accepted(disk[req.path]))
     => disk[req.path].done \subseteq done

\* A job reported done, not cut short by its first match, has searched every
\* tile, and if no cap dropped any its results are all the matches there are
\* (search_service.cpp:638-639).
DoneMeansCovered ==
  (status.state = "done" /\ ~status.early) =>
     /\ done = Tiles(req.search)
     /\ ~lossy => results = HitsOf(req.search, Tiles(req.search))

\* poll() says matches were dropped exactly when some were, of a job that had
\* nothing to resume from (service_types.hpp:241).
FreshTruncation == (runs = 1 /\ Ended) => (status.truncated <=> lossy)

\* A cancelled job leaves its whole progress in its checkpoint file
\* (service_types.hpp:90-91: the autosave is kept on cancel).
CancelKeepsFile ==
  (status.state = "cancelled" /\ req.path # NoPath) => disk[req.path] = Snapshot

\* Within one job progress only grows, in what is searched, kept and shown
\* (search_service.cpp:545-547).
ProgressGrows ==
  [][(runs' = runs /\ pc # "off" /\ pc' # "off") =>
        /\ done \subseteq done' /\ found \subseteq found'
        /\ status.shown \subseteq status'.shown]_vars

\* poll() and results() keep the life cycle the service documents
\* (service_types.hpp:198-203, search_service.hpp:165-166).
Lifecycle == INSTANCE JobLifecycle WITH state <- status.state

LifecycleSpec == Lifecycle!Spec

\* A cancelled job ends, paused or not (search_service.hpp:168-169), and so does
\* one that nobody holds in a pause.
JobsEnd == /\ cancel ~> ~Live
           /\ <>[](~pause) => []<>(~Live)

\* A pause takes effect once the tiles in flight have finished, unless it is
\* withdrawn or the job ends first, and a job resumes when its pause is lifted,
\* unless paused again (search_service.hpp:172-174).
PausesHeeded ==
  /\ (Live /\ pause) ~> (~pause \/ status.state = "paused" \/ ~Live)
  /\ (status.state = "paused" /\ ~pause) ~> (status.state # "paused" \/ pause)

=============================================================================
