----------------------------- MODULE WorkerPair -----------------------------
(***************************************************************************)
(* The same jobs on both workers, as the benchmark and the tests run them: *)
(* the GPU's sweep first, then the CPU's.  They share nothing but the job. *)
(***************************************************************************)
EXTENDS OpenclWorker, FiniteSetsExt

CONSTANT threads

\* the constructor makes of 0 the number of cores, or 1 (workers.cpp:153-157)
ASSUME ThreadsAssumption == threads \in Nat \ {0}

VARIABLES cpuBegun, cpuAnswers, cpuTruncated, cpuPlan, emitted, done, scanning, todo, bucket

cpu == <<cpuBegun, cpuAnswers, cpuTruncated, cpuPlan, emitted, done, scanning, todo, bucket>>

Cpu == INSTANCE CpuWorker WITH begun <- cpuBegun, answers <- cpuAnswers,
                               truncated <- cpuTruncated, plan <- cpuPlan

PairInit == Init /\ Cpu!Init

GpuSwept == Len(answers) = Len(job.tiles)
Swept == GpuSwept /\ Len(cpuAnswers) = Len(job.tiles)

PairNext == \/ \E j \in Jobs, compiles \in BOOLEAN : Configure(j, compiles) /\ Cpu!Configure(j)
            \/ Work /\ UNCHANGED cpu
            \/ GpuSwept /\ Cpu!Work /\ UNCHANGED <<worker, device>>

PairSpec == PairInit /\ [][PairNext]_<<vars, cpu>>

(* Properties *)

\* OpenclWorker keeps the contract of Worker (service_types.hpp:337-367): tiles
\* are answered oldest first, with exactly the matches a cell-by-cell test of
\* all orientations finds, short of none unless truncated() says so, which it
\* does only of a job with more matches than its cap.
GpuContract == Contract!Spec

\* CpuWorker keeps the same contract, its threads sharing the counter.
CpuContract == Cpu!Contract!Spec

Total(as) == Cardinality(UNION {as[k] : k \in DOMAIN as})

\* The CPU gives a job exactly as many matches as fit its cap, whichever thread
\* reaches the counter first, and is truncated exactly when some did not.
CapIsExact ==
  Swept => LET all == Cardinality(MatchesUpTo(job, Len(job.tiles)))
           IN /\ Total(cpuAnswers) = Min({all, job.cap})
              /\ cpuTruncated = (all > job.cap)

\* The CPU and the GPU cannot disagree (service_types.hpp:296): a job that fits
\* the cap gets the same matches for each tile from both, and the cap of the
\* whole job leaves as many of the GPU's matches, capped by tile, as of the CPU's.
BackendsAgree ==
  Swept /\ job.cap <= CapLimit =>
    /\ ~cpuTruncated => ~truncated /\ answers = cpuAnswers
    /\ Min({job.cap, Total(answers)}) = Total(cpuAnswers)
=============================================================================
