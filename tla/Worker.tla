------------------------------- MODULE Worker -------------------------------
(***************************************************************************)
(* The contract of svc::Worker with the one thread that uses it: configure *)
(* once per job, begin tiles in order with at most two outstanding, and    *)
(* end_tile() answers for the oldest of them with the matches whose anchor *)
(* lies in it.  Matches may be missing only once truncated() says so, and  *)
(* truncated() says so only of a job with more matches than its cap.       *)
(***************************************************************************)
EXTENDS WorkerJob, FiniteSets

VARIABLES
  job,        \* the WorkerConfig and the tiles the caller has for it
  begun,      \* how many of those tiles begin_tile() took
  answers,    \* what end_tile() returned, one set of matches for each tile so far
  truncated   \* truncated()

worker == <<job, begun, answers, truncated>>

Init == job = NoJob /\ begun = 0 /\ answers = <<>> /\ truncated = FALSE

\* the flag goes up at most, and never for matches that all fit
Truncation == /\ truncated' \in {truncated, TRUE}
              /\ truncated' /\ ~truncated => Cardinality(MatchesUpTo(job, begun)) > TileCap(job)

Configure == /\ begun = Len(answers) /\ begun = Len(job.tiles)
             /\ job' # NoJob
             /\ begun' = 0 /\ answers' = <<>> /\ truncated' = FALSE

BeginTile == /\ begun < Len(job.tiles) /\ begun - Len(answers) < kDepth
             /\ begun' = begun + 1
             /\ UNCHANGED <<job, answers, truncated>>

\* a worker that finds the matches of a tile before it is asked for them
Overflow == /\ Truncation
            /\ UNCHANGED <<job, begun, answers>>

EndTile == /\ Len(answers) < begun
           /\ \E ms \in SUBSET MatchesIn(job, job.tiles[Len(answers) + 1]) :
                /\ answers' = Append(answers, ms)
                /\ ms # MatchesIn(job, job.tiles[Len(answers) + 1]) => truncated'
           /\ Truncation
           /\ UNCHANGED <<job, begun>>

Next == Configure \/ BeginTile \/ Overflow \/ EndTile

Spec == Init /\ [][Next]_worker
=============================================================================
