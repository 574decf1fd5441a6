-------------------------------- MODULE Tui --------------------------------
(***************************************************************************)
(* rokktui: the App and its main loop, which polls the shown job once per  *)
(* tick and then handles at most one key, over a SearchService whose jobs  *)
(* run meanwhile.  Processes come and go; what they leave are progress     *)
(* files and the pattern and session files the user saves.                 *)
(***************************************************************************)
EXTENDS SearchService

CONSTANTS
  Names,       \* the files a user saves patterns and sessions to
  CkptOf,      \* CkptOf[n]: the progress file of session n, "<n>.ckpt"
  Blank,       \* a pattern without known cells
  NoPath,      \* an empty checkpoint field
  Typed,       \* what the user may type into the checkpoint field
  Budget       \* bound: processes and searches

ASSUME TuiAssumption ==
  /\ Blank \notin Patterns /\ NoPath \notin Paths
  /\ CkptOf \in [Names -> Paths] /\ Typed \subseteq Paths \cup {NoPath}

VARIABLES
  screen,       \* App::screen
  prompt,       \* App::prompt_return and prompt_done
  m,            \* App::m, the Model being edited
  job,          \* App::job, 0 if there never was one
  job_running,
  jst,          \* App::jst, the last poll; pending stands for all that are not final
  matches,      \* App::matches
  want_pause,
  tick,         \* where the main loop is; "gone": no process
  goal,         \* what a join or a save in progress is for
  budget,       \* what is left of Budget
  sessions      \* what the pattern and session files hold

ui    == <<screen, prompt, m>>
shown == <<job, job_running, jst, matches, want_pause>>
loop  == <<tick, goal, budget>>
service == <<backend, jobs, disk>>
vars  == <<ui, shown, loop, service, sessions>>

NoPrompt == [ret |-> "params", act |-> "none"]
NewModel == [pattern |-> Blank, path |-> NoPath, first |-> FALSE]

\* model_to_file(): a plain pattern file, without checkpoint and stop_at_first
ModelToFile == [kind |-> "pattern", pattern |-> m.pattern, path |-> NoPath, first |-> FALSE]
SessionFile(n) == [ModelToFile EXCEPT !.path = CkptOf[n], !.first = m.first]

\* file_to_model(): the two optional fields are only ever set
FileToModel(pf, model) ==
  [pattern |-> pf.pattern, path |-> IF pf.path # NoPath THEN pf.path ELSE model.path,
   first |-> model.first \/ pf.first]

Init == /\ backend \in Backends /\ jobs = <<>> /\ disk = [p \in Paths |-> Absent]
        /\ screen = "params" /\ prompt = NoPrompt /\ m = NewModel
        /\ job = 0 /\ job_running = FALSE /\ jst = Poll(0) /\ matches = {} /\ want_pause = FALSE
        /\ tick = "gone" /\ goal = "none" /\ budget = Budget
        /\ sessions = [n \in Names |-> Absent]

-----------------------------------------------------------------------------
(* The loop                                                                *)

\* mutant: what was drawn while the search ran is kept
FetchedNever(over) == matches

\* the results are fetched once, at the end
Fetched(over) == IF over THEN Results(job) ELSE matches

\* refresh_job(), before every key; a status that is not final is only drawn
Refresh ==
  /\ tick = "refresh" /\ tick' = "key"
  /\ IF job_running
     THEN LET over == Poll(job).state \in Final
          IN /\ jst' = IF over THEN Poll(job) ELSE jst
             /\ matches' = Fetched(over)
             /\ job_running' = ~over
             /\ want_pause' = (want_pause /\ ~over)
             /\ UNCHANGED job
     ELSE UNCHANGED shown
  /\ UNCHANGED <<ui, goal, budget, service, sessions>>

\* refresh_job() returns at once while no job runs, so that tick goes on with its key
Ticked == tick' = (IF job_running THEN "refresh" ELSE "key")

Key == tick = "key" /\ Ticked /\ UNCHANGED <<goal, budget>>

\* no key, one that moves a cursor or scrolls, or a file that cannot be read
NoKey == Key /\ UNCHANGED <<ui, shown, service, sessions>>

Show(to) == screen' = to /\ UNCHANGED <<prompt, m>>

Go(from, to) == Key /\ screen = from /\ Show(to) /\ UNCHANGED <<shown, service, sessions>>

Ask(ret, act) == /\ Key /\ budget > 0 /\ screen = ret
                 /\ screen' = "prompt" /\ prompt' = [ret |-> ret, act |-> act]
                 /\ UNCHANGED <<m, shown, service, sessions>>

Edit(field, value) == /\ Key /\ budget > 0 /\ m' = [m EXCEPT ![field] = value]
                      /\ UNCHANGED <<screen, prompt, shown, service, sessions>>

\* start_search(from)
StartSearch(from) ==
  LET path == IF m.path = NoPath THEN AutosavePath ELSE m.path
  IN /\ tick = "key" /\ Show("result")
     /\ want_pause' = FALSE /\ matches' = {}
     /\ IF m.pattern = Blank
        THEN /\ jst' = [state |-> "error", early |-> FALSE]
             /\ Ticked /\ UNCHANGED <<job, job_running, jobs, budget>>
        ELSE /\ budget > 0 /\ budget' = budget - 1 /\ tick' = "refresh"
             /\ Submitted([pattern |-> m.pattern, path |-> path, first |-> m.first, from |-> from])
             /\ job' = Len(jobs') /\ job_running' = TRUE
             /\ jst' = [state |-> "pending", early |-> FALSE]
     /\ UNCHANGED <<goal, backend, disk, sessions>>

\* the client goes: its service cancels every job and joins the threads
Leave(for) == /\ tick = "key" /\ tick' = "join" /\ goal' = for
              /\ CancelAll
              /\ UNCHANGED <<budget, backend, disk, sessions>>

\* what an App starts with; a process that ends forgets what was in it
Forget == /\ screen' = "params" /\ prompt' = NoPrompt /\ m' = NewModel
          /\ job' = 0 /\ job_running' = FALSE /\ jst' = [state |-> "error", early |-> FALSE]
          /\ matches' = {} /\ want_pause' = FALSE

\* main() is out of its loop, and destroys the App
Quit == Leave("quit") /\ Forget

\* select_backend() has made another client and destroys the old one
Replace == \E b \in Backends : Leave(b) /\ UNCHANGED <<ui, shown>>

Params == /\ screen = "params"
          /\ \/ Quit
             \/ Replace
             \/ \E p \in Patterns \cup {Blank} : Edit("pattern", p)
             \/ Edit("first", ~m.first)
             \/ \E p \in Typed : Edit("path", p)
             \/ Go("params", "grid")
             \/ Ask("params", "load")

Grid == /\ screen = "grid"
        /\ \/ Quit
           \/ \E p \in Patterns \cup {Blank} : Edit("pattern", p)
           \/ Go("grid", "params")
           \/ Ask("grid", "pattern")
           \/ StartSearch(Absent)

PauseKey == /\ Key /\ job_running
            /\ want_pause' = ~want_pause /\ Raised(job, "pause", want_pause')
            /\ UNCHANGED <<ui, job, job_running, jst, matches, backend, disk, sessions>>

CancelKey == /\ Key /\ job_running /\ Raised(job, "cancel", TRUE)
             /\ UNCHANGED <<ui, shown, backend, disk, sessions>>

CanContinue == ~job_running /\ (jst.state = "cancelled" \/ (jst.state = "done" /\ jst.early))

\* mutant: the keys of a stopped search also act on a running one
StoppedAlways == TRUE

Stopped == ~job_running

Result == /\ screen = "result"
          /\ \/ PauseKey
             \/ CancelKey
             \/ job # 0 /\ jst.state # "error" /\ Ask("result", "session")
             \/ CanContinue /\ StartSearch(Checkpoint(job))
             \/ Stopped /\ Go("result", "grid")
             \/ Stopped /\ jst.state # "error" /\ Ask("result", "matches")

\* do_load_pattern()
Load(n) == /\ sessions[n] # Absent /\ m' = FileToModel(sessions[n], m)
           /\ Key /\ UNCHANGED <<service, sessions>>

\* do_save_pattern()
SavePattern(n) == /\ sessions' = [sessions EXCEPT ![n] = ModelToFile]
                  /\ Key /\ UNCHANGED <<m, service>>

\* do_save_session(), up to the progress file; nothing happens without progress
SaveProgress(n) ==
  /\ UNCHANGED <<m, backend, jobs, budget, sessions>>
  /\ IF Checkpoint(job) = Absent
     THEN Key /\ UNCHANGED disk
     ELSE /\ tick = "key" /\ tick' = "saving" /\ goal' = n
          /\ disk' = [disk EXCEPT ![CkptOf[n]] = Checkpoint(job)]

\* the matches file is not read back by anything
SaveMatches == Key /\ UNCHANGED <<m, service, sessions>>

Prompt == /\ screen = "prompt"
          /\ screen' = prompt.ret /\ prompt' = NoPrompt
          /\ UNCHANGED shown
          /\ \/ Key /\ UNCHANGED <<m, service, sessions>>  \* Esc
             \/ prompt.act = "matches" /\ SaveMatches
             \/ \E n \in Names : \/ prompt.act = "load" /\ Load(n)
                                 \/ prompt.act = "pattern" /\ SavePattern(n)
                                 \/ prompt.act = "session" /\ SaveProgress(n)

\* the rest of do_save_session(): the session file itself, unless the write fails
SaveSession == /\ tick = "saving" /\ Ticked /\ goal' = "none"
               /\ sessions' \in {sessions, [sessions EXCEPT ![goal] = SessionFile(goal)]}
               /\ UNCHANGED <<budget, ui, shown, service>>

\* the process has ended
Gone == tick' = "gone" /\ goal' = "none" /\ jobs' = <<>> /\ UNCHANGED <<budget, backend, disk, sessions>>

\* every thread is joined
Joined ==
  /\ tick = "join" /\ \A j \in DOMAIN jobs : ~Live(j)
  /\ \/ goal = "quit" /\ Gone /\ UNCHANGED <<ui, shown>>
     \/ /\ goal # "quit" /\ backend' = goal /\ jobs' = <<>>
        /\ tick' = "key" /\ goal' = "none"
        /\ UNCHANGED <<budget, ui, shown, disk, sessions>>

-----------------------------------------------------------------------------
(* Processes                                                               *)

Launched == /\ tick = "gone" /\ budget > 0 /\ budget' = budget - 1
            /\ backend' \in Backends /\ prompt' = NoPrompt
            /\ UNCHANGED <<goal, disk, sessions>>

\* main() without --resume, with the banner or without; --load and --checkpoint
\* do no more than the keys
Open == /\ Launched /\ tick' = "key" /\ screen' \in {"splash", "params"}
        /\ UNCHANGED <<m, jobs, shown>>

\* main() with --resume n, if n is a session and its progress file is there
Resume(n) ==
  LET file == sessions[n]
      model == FileToModel(file, NewModel)
  IN /\ file # Absent /\ file.path # NoPath /\ disk[file.path] # Absent
     /\ Launched /\ tick' = "refresh" /\ screen' = "result" /\ m' = model
     /\ matches' = {} /\ want_pause' = FALSE
     /\ IF model.pattern = Blank
        THEN /\ jst' = [state |-> "error", early |-> FALSE] /\ job' = 0 /\ job_running' = FALSE
             /\ UNCHANGED jobs
        ELSE /\ Submitted([pattern |-> model.pattern, path |-> model.path,
                           first |-> model.first, from |-> Absent])
             /\ job' = 1 /\ job_running' = TRUE /\ jst' = [state |-> "pending", early |-> FALSE]

\* the process is killed, in the middle of a save or not
Kill == tick # "gone" /\ budget > 0 /\ Gone /\ Forget

Keys == NoKey \/ Go("splash", "params") \/ Params \/ Grid \/ Result \/ Prompt

MainLoop == Refresh \/ Keys \/ SaveSession \/ Joined

Jobs(j) == JobThread(j) /\ UNCHANGED <<ui, shown, loop, sessions>>

Next == \/ MainLoop
        \/ \E j \in 1 .. Budget - 1 : Jobs(j)
        \/ Open \/ (\E n \in Names : Resume(n)) \/ Kill

\* No key is ever pressed for sure, and what job threads owe is in SearchJob.
Spec == Init /\ [][Next]_vars

-----------------------------------------------------------------------------
(* Properties                                                              *)

\* A progress file has one writer: rokktui never has two searches alive, though
\* the service would run them, and they would write the same autosave.  And leaving
\* or changing the backend never ends a search: when the service goes, every search
\* has ended by itself or was cancelled (screens.cpp:938-941, screens.hpp:82-85).
OneSearchAtATime ==
  /\ \A i, j \in DOMAIN jobs : Live(i) /\ Live(j) => i = j
  /\ tick = "join" => \A j \in DOMAIN jobs : ~Live(j)

\* While the result screen (or a prompt over it) shows a job, the model is still
\* the one it was submitted with, so `s' pairs the pattern with its own progress
\* and `S' heads the matches with their own pattern; and once it is over, status
\* and matches are the job's last (screens.cpp:886-913, 1052-1063).
ShownIsSearched ==
  ("result" \in {screen, prompt.ret} /\ jst.state # "error" /\ tick # "gone") =>
    /\ job \in DOMAIN jobs
    /\ LET r == jobs[job].req
       IN /\ r.pattern = m.pattern /\ r.first = m.first
          /\ r.path = IF m.path = NoPath THEN AutosavePath ELSE m.path
    /\ ~job_running => jst = Poll(job) /\ matches = Results(job)
    /\ job_running /\ Live(job) => want_pause = jobs[job].pause

\* `r' goes on where the stopped search was: the same search, and once it has
\* begun it has all the tiles of the one before, also with its autosave gone
\* (screens.cpp:929-932).
ContinueKeeps ==
  \A j \in DOMAIN jobs : jobs[j].req.from # Absent =>
    /\ j > 1 /\ jobs[j].req.pattern = jobs[j - 1].req.pattern
    /\ jobs[j].state \notin {"pending", "error"} => jobs[j].done >= jobs[j - 1].done

\* What `rokktui --resume NAME' picks up is progress of the search that NAME
\* describes (README.md:195-203).
SessionKeepsProgress ==
  \A n \in Names :
    (tick \notin {"saving", "gone"} /\ sessions[n] # Absent /\ sessions[n].path # NoPath
       /\ disk[sessions[n].path] # Absent)
      => disk[sessions[n].path].of[1] = sessions[n].pattern
=============================================================================
