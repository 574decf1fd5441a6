------------------------------ MODULE Benchmark ------------------------------
(***************************************************************************)
(* rokksearch --benchmark-long: sweeps of one workload, each with the pump *)
(* of the service over one worker, whose matches must be the same every    *)
(* time.  The worker keeps the contract of Worker as long as its device is *)
(* healthy; one that is not may answer anything.                           *)
(***************************************************************************)
EXTENDS Integers, SequencesExt

CONSTANTS
  Workload,   \* Workload[t]: the matches of tile t
  MatchCap,   \* WorkerConfig::match_cap
  Junk,       \* a match that is none
  MaxSweeps   \* bound: the minutes are over by then

ASSUME BenchmarkAssumption ==
  /\ Workload \in Seq(SUBSET UNION {Workload[t] : t \in DOMAIN Workload})
  /\ MatchCap \in Nat /\ MaxSweeps \in Nat \ {0, 1}
  /\ \A t \in DOMAIN Workload : /\ IsFiniteSet(Workload[t]) /\ Junk \notin Workload[t]
                                /\ \A u \in DOMAIN Workload \ {t} : Workload[t] \cap Workload[u] = {}

VARIABLE bench

kTilesInFlight == 2
kCalibrations == 2  \* the sweeps of calibrate(), which nobody compares

\* the sum of hashes stands for the matches that went into it
NoDigest == [count |-> 0, hash |-> {}]

\* history: healthy is whether the device is, sweeps what every sweep found
Idle == [n |-> 0, taken |-> 0, inflight |-> 0, emitted |-> 0, cut |-> FALSE, digest |-> NoDigest,
         first |-> NoDigest, consistent |-> TRUE, capped |-> FALSE, over |-> TRUE,
         healthy |-> TRUE, sweeps |-> <<>>]

NewBench(healthy) == [Idle EXCEPT !.n = -kCalibrations, !.over = FALSE, !.healthy = healthy]

\* mutant: what earlier sweeps emitted still counts
ConfiguredOnce(b) == b

\* configure(): the match count and truncated() start again
Configured(b) == [b EXCEPT !.emitted = 0, !.cut = FALSE]

MayBegin == bench.taken < Len(Workload) /\ bench.inflight < kTilesInFlight

\* sched.next() and begin_tile()
BeginTile ==
  /\ ~bench.over /\ MayBegin
  /\ bench' = [bench EXCEPT !.taken = @ + 1, !.inflight = @ + 1,
                            !.emitted = @ + Cardinality(Workload[bench.taken + 1])]

\* what end_tile() may answer for a tile with the matches ms, and truncated() then
Answers(ms) ==
  {[got |-> ms, cut |-> bench.cut]}
    \cup (IF bench.cut \/ bench.emitted > MatchCap THEN [got : SUBSET ms, cut : {TRUE}] ELSE {})
    \cup (IF bench.healthy THEN {} ELSE {[got |-> ms \cup {Junk}, cut |-> bench.cut]})

CollectTile ==
  /\ ~bench.over /\ ~MayBegin /\ bench.inflight > 0
  /\ \E a \in Answers(Workload[bench.taken - bench.inflight + 1]) :
       bench' = [bench EXCEPT !.inflight = @ - 1, !.cut = a.cut,
                              !.digest = [count |-> @.count + Cardinality(a.got),
                                          hash  |-> @.hash \cup a.got]]

\* after a sweep: its verdict, and another one unless the minutes are over
EndSweep ==
  /\ ~bench.over /\ ~MayBegin /\ bench.inflight = 0
  /\ LET b == bench
         first == IF b.n = 0 THEN b.digest ELSE b.first
         judged == [b EXCEPT !.first = first, !.consistent = @ /\ b.digest = first,
                             !.capped = @ \/ b.cut, !.sweeps = Append(@, b.digest)]
         next == [(IF b.n < 0 THEN b ELSE judged) EXCEPT !.n = @ + 1, !.taken = 0, !.digest = NoDigest]
     IN \/ /\ next.n < MaxSweeps
           /\ bench' = IF next.n >= 0 THEN Configured(next) ELSE next
        \/ next.n >= 2 /\ bench' = [next EXCEPT !.over = TRUE]

ExitCode == IF bench.consistent /\ ~bench.capped THEN 0 ELSE 1

Sweeping == BeginTile \/ CollectTile \/ EndSweep

-----------------------------------------------------------------------------
(* Properties                                                              *)

\* rokksearch.cpp:300-303, README.md:350: exit 0 says that every sweep found the
\* same matches, all there are if the device is healthy; and a healthy device is
\* never accused while its matches fit the cap, however many sweeps came before.
VerdictTruthful ==
  LET all == UNION Range(Workload)
  IN bench.over /\ bench.sweeps # <<>> =>
       /\ ExitCode = 0 => /\ Cardinality(Range(bench.sweeps)) = 1
                          /\ bench.healthy => bench.sweeps[1].hash = all
       /\ bench.healthy /\ Cardinality(all) <= MatchCap => ExitCode = 0
=============================================================================
