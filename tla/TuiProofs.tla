----------------------------- MODULE TuiProofs -----------------------------
(***************************************************************************)
(* Proofs about Tui and the SearchService under it, for every set of       *)
(* patterns, backends, files and session names, any number of tiles, jobs, *)
(* keys and processes, and any pipeline depth.                             *)
(***************************************************************************)
EXTENDS Tui, TLAPS

-----------------------------------------------------------------------------
(* The types                                                               *)

JobPlaces == {"start", "admit", "drain", "paused", "publish", "ended"}
JobStates == {"pending", "running", "paused"} \cup Final

JobType ==
  [req : Request, at : JobPlaces, state : JobStates, early : BOOLEAN,
   results : SUBSET (1 .. Tiles), text : Progress \cup {Absent}, cancel : BOOLEAN,
   pause : BOOLEAN, done : Nat, busy : Nat, more : BOOLEAN, stop : BOOLEAN]

Model == [pattern : Patterns \cup {Blank}, path : Paths \cup {NoPath}, first : BOOLEAN]

SavedFile ==
  [kind : {"pattern"}, pattern : Patterns \cup {Blank}, path : Paths \cup {NoPath},
   first : BOOLEAN]

ServiceOK ==
  /\ backend \in Backends
  /\ jobs \in Seq(JobType)
  /\ disk \in [Paths -> Progress \cup {Absent}]

UiOK ==
  /\ screen \in {"splash", "params", "grid", "result", "prompt"}
  /\ prompt \in [ret : {"params", "grid", "result"},
                 act : {"none", "load", "pattern", "session", "matches"}]
  /\ m \in Model

ShownOK ==
  /\ job \in Nat /\ job_running \in BOOLEAN /\ want_pause \in BOOLEAN
  /\ jst \in [state : JobStates, early : BOOLEAN]
  /\ matches \in SUBSET (1 .. Tiles)

LoopOK ==
  /\ tick \in {"gone", "refresh", "key", "saving", "join"}
  /\ tick = "join" => goal \in Backends \cup {"quit"}
  /\ tick = "saving" => goal \in Names
  /\ sessions \in [Names -> SavedFile \cup {Absent}]

TypeOK == ServiceOK /\ UiOK /\ ShownOK /\ LoopOK

-----------------------------------------------------------------------------
(* The invariant                                                           *)

\* Of one job: it is over when poll() says so, its copy of the progress is its own
\* and, once it is published, its last; and it has what it was to continue from.
JobOK(r) ==
  /\ r.done + r.busy <= Tiles
  /\ r.at = "start" => r.busy = 0
  /\ r.at = "start" <=> r.state = "pending"
  /\ r.at = "ended" <=> r.state \in Final
  /\ r.text # Absent => r.text.of = Fingerprint(r.req)
  /\ r.at = "publish" \/ r.state \in {"done", "cancelled"} => r.text = Snapshot(r)
  /\ (r.req.from # Absent /\ r.state \notin {"pending", "error"}
        /\ r.req.from.of = Fingerprint(r.req)) => r.done >= r.req.from.done

JobsOK == \A j \in DOMAIN jobs : JobOK(jobs[j])

\* A prompt knows where it was asked, and there is one on its screen only.
PromptInv ==
  /\ screen # "prompt" => prompt = NoPrompt
  /\ prompt.act = "load" => prompt.ret = "params"

\* on the result screen, or in a prompt over it
AtResult == "result" \in {screen, prompt.ret}

\* The search that runs is the last one and is shown; nothing else is alive.
RunInv ==
  /\ job_running => /\ AtResult /\ tick \notin {"gone", "join"} /\ jst.state = "pending"
                    /\ job = Len(jobs) /\ job # 0
  /\ \A j \in DOMAIN jobs : Live(j) => job_running /\ j = Len(jobs)
  /\ tick = "gone" => jobs = <<>>
  /\ tick = "join" => ~AtResult

\* What the result screen shows is the last search.
ShownInv ==
  AtResult /\ jst.state # "error" /\ tick # "gone" => job = Len(jobs) /\ job # 0

\* A search that continues another starts from the last progress of the one before.
ContinueInv ==
  \A j \in DOMAIN jobs : jobs[j].req.from # Absent =>
    /\ j > 1 /\ jobs[j].req.pattern = jobs[j - 1].req.pattern
    /\ jobs[j].req.from.of = Fingerprint(jobs[j].req)
    /\ jobs[j].req.from.done = jobs[j - 1].done

TuiInv == TypeOK /\ JobsOK /\ PromptInv /\ RunInv /\ ShownInv /\ ShownIsSearched /\ ContinueInv

-----------------------------------------------------------------------------
(* The thread of a job                                                     *)

\* One job of the registry is replaced.
LEMMA JobSet ==
  ASSUME jobs \in Seq(JobType), NEW j \in DOMAIN jobs, NEW r \in JobType,
         jobs' = [jobs EXCEPT ![j] = r]
  PROVE  /\ jobs' \in Seq(JobType) /\ DOMAIN jobs' = DOMAIN jobs /\ Len(jobs') = Len(jobs)
         /\ jobs'[j] = r /\ \A i \in DOMAIN jobs : i # j => jobs'[i] = jobs[i]
OBVIOUS

\* What a job starts from.
LEMMA RestoredType ==
  ASSUME ServiceOK, NEW r \in Request
  PROVE  /\ Restored(r) \in 0 .. Tiles
         /\ r.from # Absent /\ r.from.of = Fingerprint(r) => Restored(r) = r.from.done
<1>1. r.from \in Progress \/ r.from = Absent
  BY DEF Request
<1>2. disk[r.path] \in Progress \/ disk[r.path] = Absent
  BY DEF Request, ServiceOK
<1>3. Absent.kind # "whole"
  BY DEF Absent
<1>4. Tiles \in Nat
  BY ServiceAssumption
<1>5. QED
  BY <1>1, <1>2, <1>3, <1>4 DEF Restored, Progress

\* A copy of a job's progress.
LEMMA SnapshotType ==
  ASSUME ServiceOK, NEW r \in JobType, r.done <= Tiles
  PROVE  Snapshot(r) \in Progress /\ Snapshot(r).of = Fingerprint(r.req)
<1>1. r.req.pattern \in Patterns /\ r.done \in 0 .. Tiles /\ backend \in Backends
  BY ServiceAssumption DEF ServiceOK, JobType, Request
<1>2. QED
  BY <1>1 DEF Snapshot, Progress, Fingerprint

\* what a thread makes of its job
Moved(a, b) ==
  /\ a.at # "ended" /\ b.req = a.req /\ (b.at # "ended" => b.pause = a.pause)
  /\ b \in JobType /\ JobOK(b)

\* A thread changes its own job and its progress file only.
LEMMA ThreadStep ==
  ASSUME ServiceOK, JobsOK, NEW j, JobThread(j)
  PROVE  /\ j \in DOMAIN jobs /\ ServiceOK'
         /\ \E r : Moved(jobs[j], r) /\ jobs' = [jobs EXCEPT ![j] = r]
<1> DEFINE a == jobs[j]
           Goal == /\ disk' \in [Paths -> Progress \cup {Absent}]
                   /\ \E r : Moved(a, r) /\ jobs' = [jobs EXCEPT ![j] = r]
<1>0. /\ j \in DOMAIN jobs /\ backend' = backend /\ a \in JobType /\ JobOK(a)
      /\ disk \in [Paths -> Progress \cup {Absent}]
  BY DEF JobThread, ServiceOK, JobsOK
<1>a. a.req \in Request /\ a.req.path \in Paths
  BY <1>0 DEF JobType, Request
<1>b. a.done \in Nat /\ a.busy \in Nat /\ a.done + a.busy <= Tiles /\ Tiles \in Nat
  BY <1>0, ServiceAssumption DEF JobType, JobOK
<1>c. a.req.from # Absent => a.req.from.done \in Nat
  BY <1>a DEF Request, Progress
<1> SUFFICES Goal
  <2>1. jobs' \in Seq(JobType)
    BY <1>0, JobSet DEF Moved, ServiceOK
  <2>2. QED
    BY <1>0, <2>1 DEF ServiceOK
<1>1. CASE Start(j)
  <2> DEFINE b == [a EXCEPT !.done = Restored(a.req), !.state = "running", !.at = "admit"]
  <2>1. jobs' = [jobs EXCEPT ![j] = b] /\ disk' = disk /\ a.at = "start"
    BY <1>0, <1>a, <1>b, <1>c, <1>1 DEF Start, ServiceOK
  <2>2. Restored(a.req) \in 0 .. Tiles /\ Restored(a.req) \in Nat
    BY <1>0, <1>a, <1>b, <1>c, RestoredType
  <2>3. b \in JobType
    BY <1>0, <1>a, <1>b, <1>c, <2>2 DEF JobType, JobPlaces, JobStates
  <2>4. JobOK(b)
    BY <1>0, <1>a, <1>b, <1>c, <2>1, <2>2, RestoredType DEF JobType, JobOK, Final, Fingerprint, Snapshot
  <2>5. Moved(a, b)
    BY <1>0, <1>a, <1>b, <1>c, <2>1, <2>3, <2>4 DEF Moved, JobType
  <2>6. QED
    BY <1>0, <1>a, <1>b, <1>c, <2>1, <2>5
<1>2. CASE Fail(j)
  <2> DEFINE b == Returned([a EXCEPT !.state = "error", !.done = 0])
  <2>1. jobs' = [jobs EXCEPT ![j] = b] /\ disk' = disk /\ a.at \in {"start", "admit", "drain"}
    BY <1>0, <1>a, <1>b, <1>c, <1>2 DEF Fail, ServiceOK
  <2>2. b \in JobType
    BY <1>0, <1>a, <1>b, <1>c DEF JobType, JobPlaces, JobStates, Final, Returned
  <2>3. JobOK(b)
    BY <1>0, <1>a, <1>b, <1>c, <2>1 DEF JobType, JobOK, Final, Fingerprint, Snapshot, Returned
  <2>4. Moved(a, b)
    BY <1>0, <1>a, <1>b, <1>c, <2>1, <2>2, <2>3 DEF Moved, JobType, Returned
  <2>5. QED
    BY <1>0, <1>a, <1>b, <1>c, <2>1, <2>4
<1>3. CASE Admit(j)
  <2> DEFINE open == MayAdmit(a) /\ ~a.pause /\ a.busy < Depth
             left == a.done + a.busy < Tiles
             b == [a EXCEPT !.busy = IF open /\ left THEN a.busy + 1 ELSE a.busy,
                            !.more = a.more /\ (open => left),
                            !.at = IF open /\ left THEN "admit" ELSE "drain"]
  <2>1. jobs' = [jobs EXCEPT ![j] = b] /\ disk' = disk /\ a.at = "admit"
    BY <1>0, <1>a, <1>b, <1>c, <1>3 DEF Admit, ServiceOK
  <2> DEFINE busy == IF open /\ left THEN a.busy + 1 ELSE a.busy
             more == a.more /\ (open => left)
             at == IF open /\ left THEN "admit" ELSE "drain"
  <2>a. /\ busy \in Nat /\ a.done + busy <= Tiles /\ more \in BOOLEAN
        /\ at \in {"admit", "drain"}
    BY <1>b, <1>0 DEF JobType
  <2>b. b = [a EXCEPT !.busy = busy, !.more = more, !.at = at]
    OBVIOUS
  <2> HIDE DEF busy, more, at, b
  <2>2. b \in JobType
    BY <1>0, <2>a, <2>b DEF JobType, JobPlaces
  <2>3. JobOK(b)
    BY <1>0, <1>b, <2>1, <2>a, <2>b DEF JobType, JobOK, Final, Fingerprint, Snapshot
  <2>4. Moved(a, b)
    BY <1>0, <2>1, <2>2, <2>3, <2>a, <2>b DEF Moved, JobType
  <2>5. QED
    BY <1>0, <1>a, <1>b, <1>c, <2>1, <2>4
<1>4. CASE Collect(j)
  <2> DEFINE next == [a EXCEPT !.done = a.done + 1, !.busy = a.busy - 1, !.at = "admit",
                        !.stop = a.stop \/ (a.req.first /\ a.done + 1 \in Hits[a.req.pattern])]
  <2>1. a.at = "drain" /\ a.busy > 0
    BY <1>4 DEF Collect
  <2>2. PICK toText \in BOOLEAN :
          /\ jobs' = [jobs EXCEPT ![j] = [next EXCEPT !.text = IF toText THEN Snapshot(next) ELSE a.text]]
          /\ disk' \in {disk, [disk EXCEPT ![a.req.path] = Snapshot(next)]}
    BY <1>0, <1>a, <1>b, <1>c, <1>4 DEF Collect, ServiceOK, JobType
  <2> DEFINE b == [next EXCEPT !.text = IF toText THEN Snapshot(next) ELSE a.text]
  <2>a. a.busy - 1 \in Nat /\ a.done + 1 \in Nat /\ a.done + 1 + (a.busy - 1) <= Tiles
    BY <1>b, <2>1
  <2> DEFINE stop == a.stop \/ (a.req.first /\ a.done + 1 \in Hits[a.req.pattern])
  <2>b. stop \in BOOLEAN
    OBVIOUS
  <2>3. next \in JobType /\ next.done <= Tiles
    <3>1. next = [a EXCEPT !.done = a.done + 1, !.busy = a.busy - 1, !.at = "admit", !.stop = stop]
      OBVIOUS
    <3> HIDE DEF stop, next
    <3>2. next \in JobType
      BY <1>0, <2>a, <2>b, <3>1 DEF JobType, JobPlaces
    <3>3. next.done = a.done + 1
      BY <1>0, <3>1 DEF JobType
    <3>4. QED
      BY <1>b, <2>1, <3>2, <3>3
  <2>4. Snapshot(next) \in Progress /\ Snapshot(next).of = Fingerprint(a.req)
    BY <1>0, <1>a, <1>b, <1>c, <2>3, SnapshotType DEF ServiceOK, JobType
  <2>5. b \in JobType
    BY <1>0, <1>a, <1>b, <1>c, <2>3, <2>4 DEF JobType
  <2>6. JobOK(b)
    <3>1. /\ b.req = a.req /\ b.state = a.state /\ b.at = "admit" /\ b.done = a.done + 1
          /\ b.busy = a.busy - 1 /\ b.text \in {Snapshot(next), a.text}
      BY <1>0 DEF JobType
    <3>2. b.text # Absent => b.text.of = Fingerprint(b.req)
      BY <1>0, <2>4, <3>1 DEF JobOK
    <3> HIDE DEF b
    <3>3. QED
      BY <1>0, <1>b, <1>c, <2>1, <2>a, <3>1, <3>2 DEF JobOK, Final
  <2>7. Moved(a, b)
    BY <1>0, <1>a, <1>b, <1>c, <2>1, <2>5, <2>6 DEF Moved, JobType
  <2>8. QED
    BY <1>0, <1>a, <1>b, <1>c, <2>2, <2>4, <2>7
<1>5. CASE EnterPause(j)
  <2> DEFINE b == [a EXCEPT !.state = "paused", !.at = "paused", !.text = Snapshot(a)]
  <2>1. /\ jobs' = [jobs EXCEPT ![j] = b] /\ a.at = "drain"
        /\ disk' = [disk EXCEPT ![a.req.path] = Snapshot(a)]
    BY <1>0, <1>a, <1>b, <1>c, <1>5 DEF EnterPause, ServiceOK
  <2>2. Snapshot(a) \in Progress /\ Snapshot(a).of = Fingerprint(a.req)
    BY <1>0, <1>a, <1>b, <1>c, SnapshotType DEF ServiceOK, JobType, JobOK
  <2>3. b \in JobType
    BY <1>0, <1>a, <1>b, <1>c, <2>2 DEF JobType, JobPlaces, JobStates
  <2>4. JobOK(b)
    BY <1>0, <1>a, <1>b, <1>c, <2>1, <2>2 DEF JobType, JobOK, Final
  <2>5. Moved(a, b)
    BY <1>0, <1>a, <1>b, <1>c, <2>1, <2>3, <2>4 DEF Moved, JobType
  <2>6. QED
    BY <1>0, <1>a, <1>b, <1>c, <2>1, <2>2, <2>5
<1>6. CASE LeavePause(j)
  <2> DEFINE b == [a EXCEPT !.state = "running", !.at = "admit"]
  <2>1. jobs' = [jobs EXCEPT ![j] = b] /\ disk' = disk /\ a.at = "paused"
    BY <1>0, <1>a, <1>b, <1>c, <1>6 DEF LeavePause, ServiceOK
  <2>2. b \in JobType
    BY <1>0, <1>a, <1>b, <1>c DEF JobType, JobPlaces, JobStates
  <2>3. JobOK(b)
    BY <1>0, <1>a, <1>b, <1>c, <2>1 DEF JobType, JobOK, Final, Fingerprint, Snapshot
  <2>4. Moved(a, b)
    BY <1>0, <1>a, <1>b, <1>c, <2>1, <2>2, <2>3 DEF Moved, JobType
  <2>5. QED
    BY <1>0, <1>a, <1>b, <1>c, <2>1, <2>4
<1>7. CASE Finish(j)
  <2> DEFINE b == [a EXCEPT !.at = "publish", !.text = Snapshot(a)]
  <2>1. /\ jobs' = [jobs EXCEPT ![j] = b] /\ a.at = "drain"
        /\ \E c \in {Absent, Snapshot(a)} : disk' = [disk EXCEPT ![a.req.path] = c]
    BY <1>0, <1>a, <1>b, <1>c, <1>7 DEF Finish, ServiceOK
  <2>2. Snapshot(a) \in Progress /\ Snapshot(a).of = Fingerprint(a.req)
    BY <1>0, <1>a, <1>b, <1>c, SnapshotType DEF ServiceOK, JobType, JobOK
  <2>3. b \in JobType
    BY <1>0, <1>a, <1>b, <1>c, <2>2 DEF JobType, JobPlaces
  <2>4. JobOK(b)
    BY <1>0, <1>a, <1>b, <1>c, <2>1, <2>2 DEF JobType, JobOK, Final, Snapshot
  <2>5. Moved(a, b)
    BY <1>0, <1>a, <1>b, <1>c, <2>1, <2>3, <2>4 DEF Moved, JobType
  <2>6. QED
    BY <1>0, <1>a, <1>b, <1>c, <2>1, <2>2, <2>5
<1>8. CASE Publish(j)
  <2> DEFINE R == FoundBy(a.req.pattern, a.done)
             early == ~a.cancel /\ a.stop /\ a.done < Tiles
             b == Returned([a EXCEPT !.results = R,
                              !.state = IF a.cancel THEN "cancelled" ELSE "done", !.early = early])
  <2>1. jobs' = [jobs EXCEPT ![j] = b] /\ disk' = disk /\ a.at = "publish"
    BY <1>0, <1>a, <1>b, <1>c, <1>8 DEF Publish, ServiceOK
  <2>2. R \in SUBSET (1 .. Tiles)
    BY <1>a, ServiceAssumption DEF FoundBy, Request
  <2>3. early \in BOOLEAN
    OBVIOUS
  <2> HIDE DEF R, early
  <2>4. b \in JobType
    <3> DEFINE state == IF a.cancel THEN "cancelled" ELSE "done"
               c == [a EXCEPT !.results = R, !.state = state, !.early = early]
    <3>1. state \in JobStates
      BY DEF JobStates, Final
    <3>2. b = Returned(c)
      OBVIOUS
    <3> HIDE DEF state
    <3>3. c \in JobType
      BY <1>0, <2>2, <2>3, <3>1 DEF JobType
    <3> HIDE DEF c, b
    <3>4. QED
      BY <3>2, <3>3 DEF JobType, JobPlaces, Returned
  <2>5. JobOK(b)
    BY <1>0, <1>a, <1>b, <1>c, <2>1 DEF JobType, JobOK, Final, Fingerprint, Snapshot, Returned
  <2>6. Moved(a, b)
    BY <1>0, <1>a, <1>b, <1>c, <2>1, <2>4, <2>5 DEF Moved, JobType, Returned
  <2>7. QED
    BY <1>0, <1>a, <1>b, <1>c, <2>1, <2>6
<1>9. QED
  BY <1>1, <1>2, <1>3, <1>4, <1>5, <1>6, <1>7, <1>8 DEF JobThread

-----------------------------------------------------------------------------
(* The keys                                                                *)

\* What poll(), results() and checkpoint() answer.
LEMMA Answers ==
  ASSUME ServiceOK, NEW id
  PROVE  /\ Poll(id) \in [state : JobStates, early : BOOLEAN]
         /\ Results(id) \in SUBSET (1 .. Tiles)
         /\ Checkpoint(id) \in Progress \cup {Absent}
<1>1. CASE id \in DOMAIN jobs
  <2>1. jobs[id] \in JobType
    BY <1>1 DEF ServiceOK
  <2>2. QED
    BY <1>1, <2>1 DEF Poll, Results, Checkpoint, JobType
<1>2. CASE id \notin DOMAIN jobs
  BY <1>2 DEF Poll, Results, Checkpoint, JobStates, Final
<1>3. QED
  BY <1>1, <1>2

\* Steps that leave the registry and what is shown alone.
LEMMA QuietStep ==
  ASSUME TuiInv, UNCHANGED <<backend, jobs, shown>>, tick # "gone",
         tick' \in {"refresh", "key", "saving"},
         AtResult' => AtResult /\ m' = m, job_running => AtResult'
  PROVE  JobsOK' /\ RunInv' /\ ShownInv' /\ ShownIsSearched' /\ ContinueInv'
<1>1. JobsOK' /\ ContinueInv'
  BY DEF TuiInv, JobsOK, JobOK, ContinueInv, Fingerprint, Snapshot
<1>2. RunInv'
  BY DEF TuiInv, RunInv, Live, shown
<1>3. ShownInv'
  BY DEF TuiInv, ShownInv, shown
<1>4. ShownIsSearched'
  <2> SUFFICES ASSUME AtResult', jst'.state # "error" PROVE ShownIsSearched'
    BY DEF ShownIsSearched, AtResult
  <2>1. Poll(job)' = Poll(job) /\ Results(job)' = Results(job) /\ Live(job)' = Live(job)
    BY DEF Poll, Results, Live, shown
  <2>2. QED
    BY <2>1 DEF TuiInv, ShownIsSearched, AtResult, shown
<1>5. QED
  BY <1>1, <1>2, <1>3, <1>4

\* Everything that moves between screens, edits, loads or saves.
LEMMA KeyStep ==
  ASSUME TuiInv,
         \/ NoKey
         \/ \E from \in {"splash", "params", "grid", "result"}, to \in {"params", "grid"} :
              (from = "result" => ~job_running) /\ Go(from, to)
         \/ Ask("params", "load") \/ Ask("grid", "pattern")
         \/ Ask("result", "session") \/ Ask("result", "matches")
         \/ /\ screen \in {"params", "grid"}
            /\ \/ \E p \in Patterns \cup {Blank} : Edit("pattern", p)
               \/ Edit("first", ~m.first)
               \/ \E p \in Typed : Edit("path", p)
         \/ Prompt \/ SaveSession
  PROVE  TuiInv'
<1> DEFINE Rest == JobsOK' /\ RunInv' /\ ShownInv' /\ ShownIsSearched' /\ ContinueInv'
<1>0. TypeOK /\ ServiceOK /\ UiOK /\ ShownOK /\ LoopOK /\ PromptInv /\ RunInv
  BY DEF TuiInv, TypeOK
<1>1. CASE NoKey
  <2>1. /\ tick = "key" /\ tick' \in {"refresh", "key"} /\ UNCHANGED <<ui, shown, service, sessions>>
    BY <1>1 DEF NoKey, Key, Ticked
  <2>2. TypeOK' /\ PromptInv'
    BY <1>0, <2>1 DEF ui, shown, service, TypeOK, ServiceOK, UiOK, ShownOK, LoopOK, PromptInv
  <2>3. Rest
    BY <1>0, <2>1, QuietStep DEF ui, service, AtResult, RunInv
  <2>4. QED
    BY <2>2, <2>3 DEF TuiInv
<1>2. ASSUME NEW from \in {"splash", "params", "grid", "result"}, NEW to \in {"params", "grid"},
             from = "result" => ~job_running, Go(from, to)
      PROVE  TuiInv'
  <2>1. /\ tick = "key" /\ tick' \in {"refresh", "key"} /\ screen = from /\ screen' = to
        /\ UNCHANGED <<prompt, m, shown, service, sessions>>
    BY <1>2 DEF Go, Show, Key, Ticked
  <2>2. prompt = NoPrompt
    BY <1>0, <2>1 DEF PromptInv
  <2>3. TypeOK' /\ PromptInv'
    BY <1>0, <2>1, <2>2 DEF shown, service, TypeOK, ServiceOK, UiOK, ShownOK, LoopOK, PromptInv, NoPrompt
  <2>4. ~AtResult' /\ ~job_running
    BY <1>0, <1>2, <2>1, <2>2 DEF AtResult, NoPrompt, RunInv
  <2>5. Rest
    BY <2>1, <2>4, QuietStep DEF service
  <2>6. QED
    BY <2>3, <2>5 DEF TuiInv
<1>3. ASSUME NEW ret \in {"params", "grid", "result"},
             NEW act \in {"load", "pattern", "session", "matches"},
             act = "load" => ret = "params", Ask(ret, act)
      PROVE  TuiInv'
  <2>1. /\ tick = "key" /\ tick' \in {"refresh", "key"} /\ screen = ret /\ screen' = "prompt"
        /\ prompt' = [ret |-> ret, act |-> act] /\ UNCHANGED <<m, shown, service, sessions>>
    BY <1>3 DEF Ask, Key, Ticked
  <2>2. prompt = NoPrompt
    BY <1>0, <2>1 DEF PromptInv
  <2>3. TypeOK' /\ PromptInv'
    BY <1>0, <1>3, <2>1 DEF shown, service, TypeOK, ServiceOK, UiOK, ShownOK, LoopOK, PromptInv
  <2>4. AtResult' <=> AtResult
    BY <2>1, <2>2 DEF AtResult, NoPrompt
  <2>5. Rest
    BY <1>0, <2>1, <2>4, QuietStep DEF service, RunInv
  <2>6. QED
    BY <2>3, <2>5 DEF TuiInv
<1>4. ASSUME screen \in {"params", "grid"}, NEW f \in {"pattern", "first", "path"}, NEW v, Edit(f, v),
             [m EXCEPT ![f] = v] \in Model
      PROVE  TuiInv'
  <2>1. /\ tick = "key" /\ tick' \in {"refresh", "key"} /\ m' = [m EXCEPT ![f] = v]
        /\ UNCHANGED <<screen, prompt, shown, service, sessions>>
    BY <1>4 DEF Edit, Key, Ticked
  <2>2. TypeOK' /\ PromptInv'
    BY <1>0, <1>4, <2>1 DEF shown, service, TypeOK, ServiceOK, UiOK, ShownOK, LoopOK, PromptInv
  <2>3. ~AtResult' /\ ~AtResult
    BY <1>0, <1>4, <2>1 DEF AtResult, NoPrompt, PromptInv
  <2>4. Rest
    BY <1>0, <2>1, <2>3, QuietStep DEF service, RunInv
  <2>5. QED
    BY <2>2, <2>4 DEF TuiInv
<1>5. CASE Prompt
  <2>1. screen = "prompt" /\ screen' = prompt.ret /\ prompt' = NoPrompt /\ UNCHANGED shown
    BY <1>5 DEF Prompt
  <2>2. AtResult' <=> AtResult
    BY <1>0, <2>1 DEF AtResult, NoPrompt, UiOK
  <2>3. PromptInv'
    BY <1>0, <2>1 DEF PromptInv, NoPrompt, UiOK
  <2>4. ShownOK'
    BY <1>0, <2>1 DEF ShownOK, shown
  <2>5. /\ tick = "key" /\ tick' \in {"refresh", "key", "saving"} /\ UNCHANGED <<backend, jobs>>
        /\ AtResult' => m' = m
    BY <1>0, <1>5, <2>1, <2>2 DEF Prompt, Load, SavePattern, SaveProgress, SaveMatches, Key, Ticked,
                                  service, PromptInv, AtResult, NoPrompt
  <2>6. Rest
    BY <1>0, <2>1, <2>2, <2>5, QuietStep DEF RunInv
  <2>7. ServiceOK' /\ m' \in Model /\ LoopOK'
    <3>1. CASE \/ Key /\ UNCHANGED <<m, service, sessions>>
               \/ SaveMatches
      BY <1>0, <3>1 DEF SaveMatches, Key, Ticked, service, ServiceOK, UiOK, LoopOK
    <3>2. ASSUME NEW n \in Names, Load(n) PROVE ServiceOK' /\ m' \in Model /\ LoopOK'
      <4>1. sessions[n] \in SavedFile /\ m' = FileToModel(sessions[n], m)
        BY <1>0, <3>2 DEF Load, LoopOK
      <4>2. m' \in Model
        BY <1>0, <4>1 DEF FileToModel, SavedFile, Model, UiOK
      <4>3. QED
        BY <1>0, <3>2, <4>2 DEF Load, Key, Ticked, service, ServiceOK, LoopOK
    <3>3. ASSUME NEW n \in Names, SavePattern(n) PROVE ServiceOK' /\ m' \in Model /\ LoopOK'
      <4>1. ModelToFile \in SavedFile
        BY <1>0 DEF ModelToFile, SavedFile, UiOK, Model
      <4>2. sessions' \in [Names -> SavedFile \cup {Absent}]
        BY <1>0, <3>3, <4>1 DEF SavePattern, LoopOK
      <4>3. QED
        BY <1>0, <3>3, <4>2 DEF SavePattern, Key, Ticked, service, ServiceOK, UiOK, LoopOK
    <3>4. ASSUME NEW n \in Names, SaveProgress(n) PROVE ServiceOK' /\ m' \in Model /\ LoopOK'
      <4>1. CkptOf[n] \in Paths /\ Checkpoint(job) \in Progress \cup {Absent}
        BY <1>0, Answers, TuiAssumption
      <4>2. disk' \in [Paths -> Progress \cup {Absent}]
        BY <1>0, <3>4, <4>1 DEF SaveProgress, ServiceOK
      <4>3. QED
        BY <1>0, <3>4, <4>2 DEF SaveProgress, Key, Ticked, ServiceOK, UiOK, LoopOK
    <3>5. QED
      BY <1>5, <3>1, <3>2, <3>3, <3>4 DEF Prompt
  <2>8. UiOK'
    BY <1>0, <2>1, <2>7 DEF UiOK, NoPrompt
  <2>9. QED
    BY <2>3, <2>4, <2>6, <2>7, <2>8 DEF TuiInv, TypeOK
<1>6. CASE SaveSession
  <2>1. /\ tick = "saving" /\ tick' \in {"refresh", "key"} /\ UNCHANGED <<ui, shown, service>>
        /\ sessions' \in {sessions, [sessions EXCEPT ![goal] = SessionFile(goal)]}
    BY <1>6 DEF SaveSession, Ticked
  <2>2. goal \in Names /\ CkptOf[goal] \in Paths
    BY <1>0, <2>1, TuiAssumption DEF LoopOK
  <2>3. SessionFile(goal) \in SavedFile
    BY <1>0, <2>2 DEF SessionFile, ModelToFile, SavedFile, UiOK, Model
  <2>4. sessions' \in [Names -> SavedFile \cup {Absent}]
    BY <1>0, <2>1, <2>3 DEF LoopOK
  <2>5. TypeOK' /\ PromptInv'
    BY <1>0, <2>1, <2>4 DEF ui, shown, service, TypeOK, ServiceOK, UiOK, ShownOK, LoopOK, PromptInv
  <2>6. Rest
    BY <1>0, <2>1, QuietStep DEF ui, service, AtResult, RunInv
  <2>7. QED
    BY <2>5, <2>6 DEF TuiInv
<1>7. \A p \in Patterns \cup {Blank} : [m EXCEPT !["pattern"] = p] \in Model
  BY <1>0 DEF UiOK, Model
<1>8. [m EXCEPT !["first"] = ~m.first] \in Model
  BY <1>0 DEF UiOK, Model
<1>9. \A p \in Typed : [m EXCEPT !["path"] = p] \in Model
  BY <1>0, TuiAssumption DEF UiOK, Model
<1>10. QED
  BY <1>1, <1>2, <1>3, <1>4, <1>5, <1>6, <1>7, <1>8, <1>9

-----------------------------------------------------------------------------
(* The searches                                                            *)

\* A poll that finds the search over takes its last status and its matches.
LEMMA RefreshStep ==
  ASSUME TuiInv, Refresh
  PROVE  TuiInv'
<1>0. /\ TypeOK /\ ServiceOK /\ UiOK /\ ShownOK /\ LoopOK /\ PromptInv /\ RunInv /\ JobsOK
      /\ ShownInv /\ ShownIsSearched /\ ContinueInv
  BY DEF TuiInv, TypeOK
<1>1. tick = "refresh" /\ tick' = "key" /\ UNCHANGED <<ui, service, sessions, job>>
  BY DEF Refresh, shown
<1>2. JobsOK' /\ ContinueInv' /\ PromptInv'
  BY <1>0, <1>1 DEF JobsOK, JobOK, ContinueInv, PromptInv, Fingerprint, Snapshot, service, ui
<1>3. /\ AtResult' = AtResult /\ Poll(job)' = Poll(job) /\ Results(job)' = Results(job)
      /\ \A j \in DOMAIN jobs : Live(j)' = Live(j)
  BY <1>1 DEF AtResult, Poll, Results, Live, service, ui
<1>4. ServiceOK' /\ UiOK' /\ LoopOK'
  BY <1>0, <1>1 DEF ServiceOK, UiOK, LoopOK, service, ui
<1>5. CASE job_running /\ Poll(job).state \in Final
  <2>1. /\ jst' = Poll(job) /\ matches' = Results(job) /\ ~job_running' /\ ~want_pause'
        /\ want_pause' \in BOOLEAN /\ job_running' \in BOOLEAN
    BY <1>0, <1>5 DEF Refresh, Fetched, ShownOK
  <2>2. job = Len(jobs) /\ job \in DOMAIN jobs
    BY <1>0, <1>5 DEF RunInv, ServiceOK, ShownOK
  <2>3. ~Live(job)
    BY <1>0, <1>5, <2>2 DEF Poll, JobsOK, JobOK, Live
  <2>4. \A j \in DOMAIN jobs : ~Live(j)
    BY <1>0, <2>2, <2>3 DEF RunInv
  <2>5. ShownOK'
    BY <1>0, <1>1, <2>1, Answers DEF ShownOK
  <2>6. RunInv' /\ ShownInv'
    BY <1>0, <1>1, <1>3, <1>5, <2>1, <2>2, <2>4 DEF RunInv, ShownInv, service
  <2>7. ShownIsSearched'
    BY <1>0, <1>1, <1>3, <1>5, <2>1, <2>2 DEF RunInv, ShownIsSearched, AtResult, service, ui
  <2>8. QED
    BY <1>2, <1>4, <2>5, <2>6, <2>7 DEF TuiInv, TypeOK
<1>6. CASE ~(job_running /\ Poll(job).state \in Final)
  <2>1. UNCHANGED shown
    BY <1>0, <1>6 DEF Refresh, Fetched, ShownOK, shown
  <2>2. JobsOK' /\ RunInv' /\ ShownInv' /\ ShownIsSearched' /\ ContinueInv'
    BY <1>0, <1>1, <1>3, <2>1, QuietStep DEF ui, service, RunInv
  <2>3. ShownOK'
    BY <1>0, <2>1 DEF ShownOK, shown
  <2>4. QED
    BY <1>2, <1>4, <2>2, <2>3 DEF TuiInv, TypeOK
<1>7. QED
  BY <1>5, <1>6

\* The registry with one more job, of request r.
LEMMA JobAdded ==
  ASSUME ServiceOK, NEW r \in Request, Submitted(r), Len(jobs) \in Nat
  PROVE  /\ jobs' \in Seq(JobType) /\ Len(jobs') = Len(jobs) + 1
         /\ DOMAIN jobs' = 1 .. Len(jobs) + 1 /\ DOMAIN jobs = 1 .. Len(jobs)
         /\ jobs'[Len(jobs) + 1] = NewJob(r)
         /\ \A j \in DOMAIN jobs : jobs'[j] = jobs[j]
<1>1. NewJob(r) \in JobType
  BY DEF NewJob, JobType, JobPlaces, JobStates
<1>2. jobs \in Seq(JobType) /\ jobs' = Append(jobs, NewJob(r))
  BY DEF ServiceOK, Submitted
<1>3. QED
  BY <1>1, <1>2

\* A new search, of the model, from nothing or from the progress of the one before.
LEMMA SubmitStep ==
  ASSUME TuiInv, ~job_running, NEW r \in Request, Submitted(r),
         backend' \in Backends, backend' = backend \/ jobs = <<>>,
         disk' = disk,
         r.pattern = m'.pattern, r.first = m'.first,
         r.path = (IF m'.path = NoPath THEN AutosavePath ELSE m'.path),
         r.from # Absent =>
           /\ jobs # <<>> /\ r.pattern = jobs[Len(jobs)].req.pattern
           /\ r.from.of = Fingerprint(r) /\ r.from.done = jobs[Len(jobs)].done,
         job' = Len(jobs'), job_running' = TRUE, want_pause' = FALSE, jst'.state = "pending",
         tick' = "refresh", AtResult'
  PROVE  /\ ServiceOK' /\ JobsOK' /\ RunInv' /\ ShownInv' /\ ShownIsSearched' /\ ContinueInv'
         /\ job' \in Nat
<1>0. /\ ServiceOK /\ JobsOK /\ RunInv /\ ContinueInv /\ Len(jobs) \in Nat
      /\ jobs = <<>> <=> Len(jobs) = 0
  BY DEF TuiInv, TypeOK, ServiceOK
<1> PICK n \in Nat : n = Len(jobs) + 1
  BY <1>0
<1>1. /\ jobs' \in Seq(JobType) /\ Len(jobs') = n /\ DOMAIN jobs' = 1 .. n /\ DOMAIN jobs = 1 .. n - 1
      /\ jobs'[n] = NewJob(r) /\ \A j \in DOMAIN jobs : jobs'[j] = jobs[j]
  BY <1>0, JobAdded
<1>2. ServiceOK'
  BY <1>0, <1>1 DEF ServiceOK
<1>3. /\ jobs'[n].req = r /\ jobs'[n].at = "start" /\ jobs'[n].state = "pending"
      /\ jobs'[n].text = Absent /\ jobs'[n].done = 0 /\ jobs'[n].busy = 0 /\ jobs'[n].pause = FALSE
  BY <1>1 DEF NewJob
<1>4. \A j \in DOMAIN jobs : ~Live(j)' /\ JobOK(jobs[j])'
  BY <1>0, <1>1 DEF JobsOK, JobOK, RunInv, Live, Fingerprint, Snapshot
<1>5. JobOK(jobs[n])'
  BY <1>3, ServiceAssumption DEF JobOK, Final
<1>6. JobsOK'
  BY <1>1, <1>4, <1>5 DEF JobsOK
<1>7. RunInv' /\ ShownInv' /\ job' \in Nat
  BY <1>0, <1>1, <1>4 DEF RunInv, ShownInv
<1>8. ShownIsSearched'
  <2>1. job' = n /\ n \in DOMAIN jobs'
    BY <1>0, <1>1
  <2>2. QED
    BY <1>3, <2>1 DEF ShownIsSearched
<1>9. ContinueInv'
  <2> SUFFICES ASSUME NEW j \in DOMAIN jobs', jobs'[j].req.from # Absent
               PROVE  /\ j > 1 /\ jobs'[j].req.pattern = jobs'[j - 1].req.pattern
                      /\ jobs'[j].req.from.of = Fingerprint(jobs[j].req)'
                      /\ jobs'[j].req.from.done = jobs'[j - 1].done
    BY DEF ContinueInv
  <2>1. CASE j = n
    <3>1. n - 1 = Len(jobs) /\ n - 1 \in DOMAIN jobs
      BY <1>0, <1>1, <1>3, <2>1
    <3>2. backend' = backend
      BY <1>0, <1>3, <2>1
    <3>3. QED
      BY <1>1, <1>3, <2>1, <3>1, <3>2 DEF Fingerprint
  <2>2. CASE j # n
    <3>1. j \in DOMAIN jobs /\ jobs'[j] = jobs[j] /\ jobs # <<>>
      BY <1>0, <1>1, <2>2
    <3>2. j > 1 /\ j - 1 \in DOMAIN jobs
      BY <1>0, <1>1, <3>1 DEF ContinueInv
    <3>3. QED
      BY <1>0, <1>1, <3>1, <3>2 DEF ContinueInv, Fingerprint
  <2>3. QED
    BY <2>1, <2>2
<1>10. QED
  BY <1>2, <1>6, <1>7, <1>8, <1>9

\* `r' or the start of a search, with the model as it is.
LEMMA StartStep ==
  ASSUME TuiInv, ~job_running, screen \in {"grid", "result"},
         NEW from \in Progress \cup {Absent}, StartSearch(from),
         from # Absent =>
           /\ jobs # <<>> /\ m.pattern = jobs[Len(jobs)].req.pattern
           /\ from.of = <<m.pattern, backend>> /\ from.done = jobs[Len(jobs)].done
  PROVE  TuiInv'
<1>0. /\ TypeOK /\ ServiceOK /\ UiOK /\ ShownOK /\ LoopOK /\ PromptInv /\ RunInv /\ JobsOK /\ ContinueInv
      /\ prompt = NoPrompt
  BY DEF TuiInv, TypeOK, PromptInv
<1>1. /\ tick = "key" /\ screen' = "result" /\ want_pause' = FALSE /\ matches' = {}
      /\ UNCHANGED <<prompt, m, goal, backend, disk, sessions>>
  BY DEF StartSearch, Show
<1>2. AtResult' /\ UiOK' /\ PromptInv'
  BY <1>0, <1>1 DEF AtResult, UiOK, PromptInv
<1>3. CASE m.pattern = Blank
  <2>1. /\ jst' = [state |-> "error", early |-> FALSE] /\ tick' \in {"refresh", "key"}
        /\ UNCHANGED <<job, job_running, jobs>>
    BY <1>3 DEF StartSearch, Ticked
  <2>2. TypeOK'
    BY <1>0, <1>1, <1>2, <2>1 DEF TypeOK, ServiceOK, ShownOK, LoopOK, JobStates, Final
  <2>3. JobsOK' /\ ContinueInv'
    BY <1>0, <1>1, <2>1 DEF JobsOK, JobOK, ContinueInv, Fingerprint, Snapshot
  <2>4. RunInv' /\ ShownInv' /\ ShownIsSearched'
    BY <1>0, <2>1 DEF RunInv, ShownInv, ShownIsSearched, Live
  <2>5. QED
    BY <1>2, <2>2, <2>3, <2>4 DEF TuiInv
<1>4. CASE m.pattern # Blank
  <2> DEFINE path == IF m.path = NoPath THEN AutosavePath ELSE m.path
             r == [pattern |-> m.pattern, path |-> path, first |-> m.first, from |-> from]
  <2>1. /\ tick' = "refresh" /\ Submitted(r) /\ job' = Len(jobs') /\ job_running' = TRUE
        /\ jst' = [state |-> "pending", early |-> FALSE]
    BY <1>4 DEF StartSearch
  <2>2. m.pattern \in Patterns /\ path \in Paths /\ m.first \in BOOLEAN
    BY <1>0, <1>4, ServiceAssumption DEF UiOK, Model
  <2>3. r \in Request
    BY <2>2 DEF Request
  <2>4. r.from # Absent => r.from.of = Fingerprint(r)
    BY DEF Fingerprint
  <2>5. /\ ServiceOK' /\ JobsOK' /\ RunInv' /\ ShownInv' /\ ShownIsSearched' /\ ContinueInv'
        /\ job' \in Nat
    BY <1>0, <1>1, <1>2, <2>1, <2>3, <2>4, SubmitStep DEF ServiceOK
  <2>6. ShownOK' /\ LoopOK'
    BY <1>0, <1>1, <2>1, <2>5 DEF ShownOK, LoopOK, JobStates
  <2>7. QED
    BY <1>2, <2>5, <2>6 DEF TuiInv, TypeOK
<1>5. QED
  BY <1>3, <1>4

\* What `r' continues from: the last progress of the search shown.
LEMMA ContinueStep ==
  ASSUME TuiInv, screen = "result", CanContinue, StartSearch(Checkpoint(job))
  PROVE  TuiInv'
<1>0. /\ ServiceOK /\ JobsOK /\ ShownInv /\ ShownIsSearched /\ ~job_running
      /\ jst.state \in {"done", "cancelled"} /\ tick = "key"
  BY DEF TuiInv, TypeOK, CanContinue, StartSearch
<1>1. job = Len(jobs) /\ job \in DOMAIN jobs /\ jobs # <<>> /\ jobs[job].req.pattern = m.pattern
  BY <1>0 DEF ShownInv, ShownIsSearched, AtResult, ServiceOK
<1>2. jobs[job].state \in {"done", "cancelled"}
  BY <1>0, <1>1 DEF ShownIsSearched, Poll
<1>3. Checkpoint(job) = Snapshot(jobs[job])
  BY <1>0, <1>1, <1>2 DEF JobsOK, JobOK, Checkpoint
<1>4. Checkpoint(job).of = <<m.pattern, backend>> /\ Checkpoint(job).done = jobs[Len(jobs)].done
  BY <1>1, <1>3 DEF Snapshot, Fingerprint
<1>5. QED
  BY <1>0, <1>1, <1>4, Answers, StartStep

\* `p' and `c' raise a flag of the search that is shown.
LEMMA FlagStep ==
  ASSUME TuiInv, screen = "result", PauseKey \/ CancelKey
  PROVE  TuiInv'
<1>0. /\ TypeOK /\ ServiceOK /\ UiOK /\ ShownOK /\ LoopOK /\ PromptInv /\ RunInv /\ JobsOK
      /\ ShownInv /\ ShownIsSearched /\ ContinueInv
  BY DEF TuiInv, TypeOK
<1>1. /\ tick = "key" /\ tick' \in {"refresh", "key"} /\ job_running
      /\ UNCHANGED <<ui, job, job_running, jst, matches, backend, disk, sessions>>
  BY DEF PauseKey, CancelKey, Key, Ticked, shown
<1>2. /\ job = Len(jobs) /\ job # 0 /\ job \in DOMAIN jobs /\ jobs[job] \in JobType
      /\ AtResult /\ AtResult' /\ jst.state = "pending"
  BY <1>0, <1>1 DEF RunInv, ServiceOK, ShownOK, AtResult, ui
<1>3. PICK r \in JobType :
        /\ jobs' = [jobs EXCEPT ![job] = r]
        /\ r.req = jobs[job].req /\ r.at = jobs[job].at /\ r.state = jobs[job].state
        /\ r.done = jobs[job].done /\ r.busy = jobs[job].busy /\ r.text = jobs[job].text
        /\ want_pause' \in BOOLEAN
        /\ Live(job) /\ want_pause = jobs[job].pause => want_pause' = r.pause
  <2>1. CASE ~Live(job)
    <3>1. jobs' = jobs /\ want_pause' \in BOOLEAN
      BY <1>0, <1>2, <2>1 DEF PauseKey, CancelKey, Raised, shown, ShownOK
    <3>2. jobs = [jobs EXCEPT ![job] = jobs[job]]
      BY <1>0, <1>2 DEF ServiceOK
    <3>3. QED
      BY <1>2, <2>1, <3>1, <3>2
  <2>2. CASE Live(job) /\ PauseKey
    <3> DEFINE r == [jobs[job] EXCEPT !.pause = want_pause']
    <3>1. want_pause' \in BOOLEAN /\ jobs' = [jobs EXCEPT ![job] = r]
      BY <1>0, <1>2, <2>2 DEF PauseKey, Raised, ShownOK
    <3>2. r \in JobType /\ r.pause = want_pause'
      BY <1>2, <3>1 DEF JobType
    <3>3. /\ r.req = jobs[job].req /\ r.at = jobs[job].at /\ r.state = jobs[job].state
          /\ r.done = jobs[job].done /\ r.busy = jobs[job].busy /\ r.text = jobs[job].text
      BY <1>2 DEF JobType
    <3>4. QED
      BY <3>1, <3>2, <3>3
  <2>3. CASE Live(job) /\ CancelKey
    <3> DEFINE r == [jobs[job] EXCEPT !.cancel = TRUE]
    <3>1. want_pause' = want_pause /\ jobs' = [jobs EXCEPT ![job] = r]
      BY <1>0, <1>2, <2>3 DEF CancelKey, Raised, shown
    <3>2. r \in JobType /\ r.pause = jobs[job].pause
      BY <1>2 DEF JobType
    <3>3. /\ r.req = jobs[job].req /\ r.at = jobs[job].at /\ r.state = jobs[job].state
          /\ r.done = jobs[job].done /\ r.busy = jobs[job].busy /\ r.text = jobs[job].text
      BY <1>2 DEF JobType
    <3>4. want_pause' \in BOOLEAN
      BY <1>0, <3>1 DEF ShownOK
    <3>5. QED
      BY <3>1, <3>2, <3>3, <3>4
  <2>4. QED
    BY <2>1, <2>2, <2>3
<1>4. /\ jobs' \in Seq(JobType) /\ DOMAIN jobs' = DOMAIN jobs /\ Len(jobs') = Len(jobs)
      /\ jobs'[job] = r /\ \A i \in DOMAIN jobs : i # job => jobs'[i] = jobs[i]
  BY <1>0, <1>2, <1>3, JobSet DEF ServiceOK
<1>5. \A i \in DOMAIN jobs : /\ jobs'[i].req = jobs[i].req /\ jobs'[i].at = jobs[i].at
                             /\ jobs'[i].state = jobs[i].state /\ jobs'[i].done = jobs[i].done
                             /\ jobs'[i].busy = jobs[i].busy /\ jobs'[i].text = jobs[i].text
  BY <1>3, <1>4
<1>6. TypeOK'
  BY <1>0, <1>1, <1>3, <1>4 DEF TypeOK, ServiceOK, UiOK, ShownOK, LoopOK, ui
<1>7. JobsOK'
  BY <1>0, <1>1, <1>4, <1>5 DEF JobsOK, JobOK, Fingerprint, Snapshot
<1>8. PromptInv' /\ ShownInv' /\ RunInv'
  BY <1>0, <1>1, <1>2, <1>4, <1>5 DEF PromptInv, ShownInv, RunInv, Live, ui
<1>9. ShownIsSearched'
  BY <1>0, <1>1, <1>2, <1>3, <1>4, <1>5 DEF ShownIsSearched, Live, AtResult, ui
<1>10. ContinueInv'
  <2>1. ASSUME NEW j \in DOMAIN jobs, j > 1 PROVE j - 1 \in DOMAIN jobs
    BY <1>0, <2>1 DEF ServiceOK
  <2>2. QED
    BY <1>0, <1>1, <1>4, <1>5, <2>1 DEF ContinueInv, Fingerprint
<1>11. QED
  BY <1>6, <1>7, <1>8, <1>9, <1>10 DEF TuiInv

\* The thread of a search that is alive is the shown one's.
LEMMA JobsStep ==
  ASSUME TuiInv, NEW j, Jobs(j)
  PROVE  TuiInv'
<1>0. /\ TypeOK /\ ServiceOK /\ UiOK /\ ShownOK /\ LoopOK /\ PromptInv /\ RunInv /\ JobsOK
      /\ ShownInv /\ ShownIsSearched /\ ContinueInv
  BY DEF TuiInv, TypeOK
<1>1. JobThread(j) /\ UNCHANGED <<ui, shown, loop, sessions>> /\ backend' = backend
  BY DEF Jobs, JobThread
<1>2. j \in DOMAIN jobs /\ ServiceOK'
  BY <1>0, <1>1, ThreadStep
<1>3. PICK r : Moved(jobs[j], r) /\ jobs' = [jobs EXCEPT ![j] = r]
  BY <1>0, <1>1, ThreadStep
<1>4. /\ DOMAIN jobs' = DOMAIN jobs /\ Len(jobs') = Len(jobs)
      /\ jobs'[j] = r /\ \A i \in DOMAIN jobs : i # j => jobs'[i] = jobs[i]
  BY <1>0, <1>2, <1>3, JobSet DEF ServiceOK, Moved
<1>5. /\ Live(j) /\ r.req = jobs[j].req /\ JobOK(r)
      /\ r.at # "ended" => r.pause = jobs[j].pause
  BY <1>3 DEF Moved, Live
<1>6. job_running /\ j = Len(jobs) /\ job = j
  BY <1>0, <1>2, <1>5 DEF RunInv
<1>7. TypeOK' /\ PromptInv'
  BY <1>0, <1>1, <1>2 DEF TypeOK, UiOK, ShownOK, LoopOK, PromptInv, ui, shown, loop
<1>8. JobsOK'
  BY <1>0, <1>1, <1>4, <1>5 DEF JobsOK, JobOK, Fingerprint, Snapshot
<1>9. RunInv' /\ ShownInv'
  BY <1>0, <1>1, <1>4, <1>5, <1>6 DEF RunInv, ShownInv, Live, AtResult, ui, shown, loop
<1>10. ShownIsSearched'
  BY <1>0, <1>1, <1>2, <1>4, <1>5, <1>6 DEF ShownIsSearched, Live, ui, shown, loop
<1>11. ContinueInv'
  <2> SUFFICES ASSUME NEW i \in DOMAIN jobs, jobs'[i].req.from # Absent
               PROVE  /\ i > 1 /\ jobs'[i].req.pattern = jobs'[i - 1].req.pattern
                      /\ jobs'[i].req.from.of = Fingerprint(jobs[i].req)'
                      /\ jobs'[i].req.from.done = jobs'[i - 1].done
    BY <1>4 DEF ContinueInv
  <2>1. jobs'[i].req = jobs[i].req
    BY <1>4, <1>5
  <2>2. i > 1 /\ i - 1 \in DOMAIN jobs /\ i - 1 # j
    BY <1>0, <1>2, <1>6, <2>1 DEF ContinueInv, ServiceOK
  <2>3. QED
    BY <1>0, <1>1, <1>4, <2>1, <2>2 DEF ContinueInv, Fingerprint
<1>12. QED
  BY <1>7, <1>8, <1>9, <1>10, <1>11 DEF TuiInv

-----------------------------------------------------------------------------
(* Processes and clients                                                   *)

\* Without a search alive there is nothing to cancel when the client goes.
LEMMA LeaveStep ==
  ASSUME TuiInv, screen \in {"params", "grid"}, Quit \/ Replace
  PROVE  TuiInv'
<1>0. /\ TypeOK /\ ServiceOK /\ UiOK /\ ShownOK /\ LoopOK /\ PromptInv /\ RunInv /\ JobsOK
      /\ ContinueInv
  BY DEF TuiInv, TypeOK
<1>1. /\ tick' = "join" /\ CancelAll /\ UNCHANGED <<backend, disk, sessions>>
      /\ goal' \in Backends \cup {"quit"}
  BY DEF Quit, Replace, Leave
<1>2. ~AtResult /\ ~job_running
  BY <1>0 DEF PromptInv, NoPrompt, AtResult, RunInv
<1>3. \A j \in DOMAIN jobs : ~Live(j) /\ jobs[j] \in JobType
  BY <1>0, <1>2 DEF RunInv, ServiceOK
<1>4. /\ DOMAIN jobs' = DOMAIN jobs /\ jobs' \in Seq(JobType)
      /\ \A j \in DOMAIN jobs : /\ jobs'[j].req = jobs[j].req /\ jobs'[j].at = jobs[j].at
                                /\ jobs'[j].state = jobs[j].state /\ jobs'[j].done = jobs[j].done
                                /\ jobs'[j].busy = jobs[j].busy /\ jobs'[j].text = jobs[j].text
  <2>1. jobs' = [j \in DOMAIN jobs |-> [jobs[j] EXCEPT !.cancel = Live(j)]]
    BY <1>1 DEF CancelAll
  <2>2. \A j \in DOMAIN jobs : [jobs[j] EXCEPT !.cancel = Live(j)] \in JobType
    BY <1>3 DEF JobType, Live
  <2>3. DOMAIN jobs = 1 .. Len(jobs) /\ Len(jobs) \in Nat
    BY <1>0 DEF ServiceOK
  <2>4. jobs' \in Seq(JobType)
    BY <2>1, <2>2, <2>3
  <2>5. QED
    BY <1>3, <2>1, <2>4 DEF JobType
<1>5. JobsOK'
  BY <1>0, <1>1, <1>4 DEF JobsOK, JobOK, Fingerprint, Snapshot
<1>6. ContinueInv'
  <2>1. ASSUME NEW j \in DOMAIN jobs, j > 1 PROVE j - 1 \in DOMAIN jobs
    BY <1>0, <2>1 DEF ServiceOK
  <2>2. QED
    BY <1>0, <1>1, <1>4, <2>1 DEF ContinueInv, Fingerprint
<1>7. UiOK' /\ PromptInv' /\ ShownOK' /\ ~AtResult' /\ ~job_running'
  <2>1. CASE Quit
    BY <2>1 DEF Quit, Forget, UiOK, PromptInv, NoPrompt, NewModel, Model, ShownOK, JobStates,
                Final, AtResult
  <2>2. CASE Replace
    BY <1>0, <1>2, <2>2 DEF Replace, ui, shown, UiOK, PromptInv, ShownOK, AtResult
  <2>3. QED
    BY <2>1, <2>2
<1>8. TypeOK'
  BY <1>0, <1>1, <1>4, <1>7 DEF TypeOK, ServiceOK, LoopOK
<1>9. RunInv' /\ ShownInv' /\ ShownIsSearched'
  BY <1>1, <1>3, <1>4, <1>7 DEF RunInv, ShownInv, ShownIsSearched, AtResult, Live
<1>10. QED
  BY <1>5, <1>6, <1>7, <1>8, <1>9 DEF TuiInv

\* A service without jobs, shown by nobody, is fine.
LEMMA EmptyService ==
  ASSUME TypeOK', PromptInv', jobs' = <<>>, ~job_running', ~AtResult', tick' # "join"
  PROVE  TuiInv'
BY DEF TuiInv, JobsOK, RunInv, ShownInv, ShownIsSearched, ContinueInv, AtResult

\* The end of a client, of a process, and the start of another.
LEMMA ProcessStep ==
  ASSUME TuiInv, Joined \/ Kill \/ Open
  PROVE  TuiInv'
<1>0. /\ TypeOK /\ ServiceOK /\ UiOK /\ ShownOK /\ LoopOK /\ PromptInv /\ RunInv
  BY DEF TuiInv, TypeOK
<1>1. /\ jobs' = <<>> /\ UNCHANGED <<disk, sessions>> /\ backend' \in Backends
      /\ tick' \in {"gone", "key"}
  BY <1>0 DEF Joined, Kill, Open, Launched, Gone, RunInv, ServiceOK, LoopOK
<1>2. jobs' \in Seq(JobType)
  BY <1>1
<1>3. ServiceOK' /\ LoopOK'
  BY <1>0, <1>1, <1>2 DEF ServiceOK, LoopOK
<1>4. UiOK' /\ PromptInv' /\ ShownOK' /\ ~AtResult' /\ ~job_running'
  <2>1. CASE Joined
    <3>1. tick = "join" /\ UNCHANGED <<ui, shown>>
      BY <2>1 DEF Joined
    <3>2. QED
      BY <1>0, <3>1 DEF ui, shown, UiOK, PromptInv, ShownOK, RunInv, AtResult
  <2>2. CASE Kill
    BY <2>2 DEF Kill, Forget, UiOK, PromptInv, NoPrompt, NewModel, Model, ShownOK, JobStates,
                Final, AtResult
  <2>3. CASE Open
    BY <1>0, <2>3 DEF Open, Launched, shown, UiOK, PromptInv, NoPrompt, ShownOK, RunInv, AtResult
  <2>4. QED
    BY <2>1, <2>2, <2>3
<1>5. QED
  BY <1>1, <1>3, <1>4, EmptyService DEF TypeOK

\* `rokktui --resume NAME' starts with a search.
LEMMA ResumeStep ==
  ASSUME TuiInv, NEW n \in Names, Resume(n)
  PROVE  TuiInv'
<1> DEFINE file == sessions[n]
           model == FileToModel(file, NewModel)
<1>0. /\ TypeOK /\ ServiceOK /\ UiOK /\ ShownOK /\ LoopOK /\ PromptInv /\ RunInv
  BY DEF TuiInv, TypeOK
<1>1. /\ file # Absent /\ file.path # NoPath /\ tick = "gone" /\ tick' = "refresh"
      /\ screen' = "result" /\ prompt' = NoPrompt /\ m' = model /\ matches' = {} /\ want_pause' = FALSE
      /\ backend' \in Backends /\ UNCHANGED <<disk, sessions>>
  BY DEF Resume, Launched
<1>2. file \in SavedFile
  BY <1>0, <1>1 DEF LoopOK
<1>3. model \in Model /\ model.path = file.path
  BY <1>1, <1>2 DEF FileToModel, SavedFile, Model, NewModel
<1>4. UiOK' /\ PromptInv' /\ AtResult' /\ LoopOK'
  BY <1>0, <1>1, <1>3 DEF UiOK, PromptInv, NoPrompt, AtResult, LoopOK
<1>5. jobs = <<>> /\ ~job_running
  BY <1>0, <1>1 DEF RunInv
<1>6. CASE model.pattern = Blank
  <2>1. /\ jst' = [state |-> "error", early |-> FALSE] /\ job' = 0 /\ ~job_running' /\ jobs' = <<>>
        /\ job_running' \in BOOLEAN
    BY <1>5, <1>6 DEF Resume
  <2>2. jobs' \in Seq(JobType)
    BY <2>1
  <2>3. TypeOK'
    BY <1>0, <1>1, <1>4, <2>1, <2>2 DEF TypeOK, ServiceOK, ShownOK, JobStates, Final
  <2>4. QED
    BY <1>1, <1>4, <2>1, <2>3
       DEF TuiInv, JobsOK, RunInv, ShownInv, ShownIsSearched, ContinueInv
<1>7. CASE model.pattern # Blank
  <2> DEFINE r == [pattern |-> model.pattern, path |-> model.path, first |-> model.first,
                   from |-> Absent]
  <2>1. /\ Submitted(r) /\ job' = 1 /\ job_running' = TRUE
        /\ jst' = [state |-> "pending", early |-> FALSE]
    BY <1>7 DEF Resume
  <2>2. r \in Request
    BY <1>1, <1>3, <1>7 DEF Request, Model
  <2>3. Len(jobs') = 1
    BY <1>0, <1>5, <2>1, <2>2, JobAdded
  <2>4. r.path = (IF m'.path = NoPath THEN AutosavePath ELSE m'.path)
    BY <1>1, <1>3
  <2>5. /\ ServiceOK' /\ JobsOK' /\ RunInv' /\ ShownInv' /\ ShownIsSearched' /\ ContinueInv'
        /\ job' \in Nat
    BY <1>1, <1>4, <1>5, <2>1, <2>2, <2>3, <2>4, SubmitStep
  <2>6. ShownOK'
    BY <1>1, <2>1, <2>5 DEF ShownOK, JobStates
  <2>7. QED
    BY <1>4, <2>5, <2>6 DEF TuiInv, TypeOK
<1>8. QED
  BY <1>6, <1>7

-----------------------------------------------------------------------------
(* The theorems                                                            *)

\* The invariant holds in every reachable state.
THEOREM TuiInvariant == Spec => []TuiInv
<1>1. Init => TuiInv
  <2> SUFFICES ASSUME Init PROVE TuiInv
    OBVIOUS
  <2>1. /\ backend \in Backends /\ jobs = <<>> /\ disk = [p \in Paths |-> Absent]
        /\ screen = "params" /\ prompt = NoPrompt /\ m = NewModel
        /\ job = 0 /\ job_running = FALSE /\ jst = Poll(0) /\ matches = {} /\ want_pause = FALSE
        /\ tick = "gone" /\ sessions = [n \in Names |-> Absent]
    BY DEF Init
  <2>2. jobs \in Seq(JobType)
    BY <2>1
  <2>3. ServiceOK
    BY <2>1, <2>2 DEF ServiceOK
  <2>4. TypeOK
    BY <2>1, <2>3, Answers DEF TypeOK, UiOK, NoPrompt, NewModel, Model, ShownOK, LoopOK
  <2>5. QED
    BY <2>1, <2>4 DEF TuiInv, JobsOK, PromptInv, NoPrompt, RunInv, AtResult, ShownInv,
                      ShownIsSearched, ContinueInv
<1>2. TuiInv /\ [Next]_vars => TuiInv'
  <2> SUFFICES ASSUME TuiInv, [Next]_vars PROVE TuiInv'
    OBVIOUS
  <2>1. CASE Refresh
    BY <2>1, RefreshStep
  <2>2. CASE NoKey \/ Go("splash", "params") \/ Prompt \/ SaveSession
    BY <2>2, KeyStep
  <2>3. CASE Params
    BY <2>3, KeyStep, LeaveStep DEF Params
  <2>4. CASE Grid
    <3>1. CASE Quit \/ \E p \in Patterns \cup {Blank} : Edit("pattern", p)
      BY <2>4, <3>1, KeyStep, LeaveStep DEF Grid
    <3>2. CASE Go("grid", "params") \/ Ask("grid", "pattern")
      BY <3>2, KeyStep
    <3>3. CASE StartSearch(Absent)
      <4>1. ~job_running
        BY <2>4 DEF Grid, TuiInv, RunInv, AtResult, PromptInv, NoPrompt
      <4>2. QED
        BY <2>4, <3>3, <4>1, StartStep DEF Grid
    <3>4. QED
      BY <2>4, <3>1, <3>2, <3>3 DEF Grid
  <2>5. CASE Result
    BY <2>5, KeyStep, FlagStep, ContinueStep DEF Result, Stopped
  <2>6. CASE Joined \/ Open \/ Kill
    BY <2>6, ProcessStep
  <2>7. ASSUME NEW j \in 1 .. Budget - 1, Jobs(j) PROVE TuiInv'
    BY <2>7, JobsStep
  <2>8. ASSUME NEW n \in Names, Resume(n) PROVE TuiInv'
    BY <2>8, ResumeStep
  <2>9. CASE UNCHANGED vars
    BY <2>9 DEF vars, ui, shown, loop, service, TuiInv, TypeOK, ServiceOK, UiOK, ShownOK, LoopOK,
       JobsOK, JobOK, Fingerprint, Snapshot, PromptInv, RunInv, Live, AtResult, ShownInv,
       ShownIsSearched, Poll, Results, ContinueInv
  <2>10. QED
    BY <2>1, <2>2, <2>3, <2>4, <2>5, <2>6, <2>7, <2>8, <2>9 DEF Next, MainLoop, Keys
<1>3. QED
  BY <1>1, <1>2, PTL DEF Spec

\* rokktui never has two searches alive, so no progress file ever has two writers,
\* and leaving it or changing the backend never cuts a search short.
THEOREM OneAtATime == Spec => []OneSearchAtATime
<1>1. TuiInv => OneSearchAtATime
  BY DEF TuiInv, RunInv, OneSearchAtATime
<1>2. QED
  BY <1>1, TuiInvariant, PTL

\* The result screen shows the job of the model it is shown with, and its last
\* status and matches once it is over.
THEOREM ShownSearched == Spec => []ShownIsSearched
<1>1. TuiInv => ShownIsSearched
  BY DEF TuiInv
<1>2. QED
  BY <1>1, TuiInvariant, PTL

\* A continued search is the same search and has all the tiles of the one before.
THEOREM ContinueKept == Spec => []ContinueKeeps
<1>1. TuiInv => ContinueKeeps
  <2> SUFFICES ASSUME TuiInv, NEW j \in DOMAIN jobs, jobs[j].req.from # Absent
               PROVE  /\ j > 1 /\ jobs[j].req.pattern = jobs[j - 1].req.pattern
                      /\ jobs[j].state \notin {"pending", "error"} => jobs[j].done >= jobs[j - 1].done
    BY DEF ContinueKeeps
  <2>1. JobOK(jobs[j])
    BY DEF TuiInv, JobsOK
  <2>2. QED
    BY <2>1 DEF TuiInv, ContinueInv, JobOK
<1>2. QED
  BY <1>1, TuiInvariant, PTL
=============================================================================
