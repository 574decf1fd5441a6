-------------------------- MODULE RokksearchProofs --------------------------
(***************************************************************************)
(* Proofs about Rokksearch, for every list of command lines, every world,  *)
(* pattern file and machine, and every workload of the benchmark.          *)
(***************************************************************************)
EXTENDS Rokksearch, FiniteSetTheorems, SequenceTheorems, TLAPS

PlanFacts == INSTANCE SearchPlanProofs

-----------------------------------------------------------------------------
(* The benchmark                                                           *)

\* the matches of the first n tiles
FirstTiles(n) == UNION {Workload[t] : t \in 1 .. n}

\* what a sweep finds that has seen the matches ms
Of(ms) == [count |-> Cardinality(ms), hash |-> ms]

\* The first tiles have finitely many matches, and one more tile has others.
LEMMA TilesAdd ==
  /\ FirstTiles(0) = {}
  /\ \A n \in 0 .. Len(Workload) :
       IsFiniteSet(FirstTiles(n)) /\ Cardinality(FirstTiles(n)) \in Nat
  /\ \A n \in 0 .. Len(Workload) - 1 :
       /\ FirstTiles(n + 1) = FirstTiles(n) \cup Workload[n + 1]
       /\ FirstTiles(n) \cap Workload[n + 1] = {}
       /\ IsFiniteSet(Workload[n + 1]) /\ Cardinality(Workload[n + 1]) \in Nat
       /\ Cardinality(FirstTiles(n + 1)) = Cardinality(FirstTiles(n)) + Cardinality(Workload[n + 1])
<1>1. Len(Workload) \in Nat /\ DOMAIN Workload = 1 .. Len(Workload)
  BY BenchmarkAssumption
<1>2. FirstTiles(0) = {}
  BY DEF FirstTiles
<1>3. ASSUME NEW n \in 0 .. Len(Workload)
      PROVE  IsFiniteSet(FirstTiles(n)) /\ Cardinality(FirstTiles(n)) \in Nat
  <2> DEFINE parts == {Workload[t] : t \in 1 .. n}
             nth == [t \in 1 .. n |-> Workload[t]]
  <2>1. IsFiniteSet(1 .. n)
    <3>1. 1 \in Int /\ n \in Int
      BY <1>1
    <3> QED BY ONLY <3>1, FS_Interval
  <2>2. nth \in Surjection(1 .. n, parts)
    BY DEF Surjection
  <2>3. IsFiniteSet(parts)
    <3> HIDE DEF nth, parts
    <3> QED BY <2>1, <2>2, FS_Surjection
  <2>4. \A p \in parts : IsFiniteSet(p)
    BY <1>1, BenchmarkAssumption
  <2>5. IsFiniteSet(UNION parts)
    <3> HIDE DEF parts
    <3> QED BY <2>3, <2>4, FS_UNION
  <2>6. IsFiniteSet(FirstTiles(n))
    BY <2>5 DEF FirstTiles
  <2> QED BY <2>6, FS_CardinalityType
<1>4. ASSUME NEW n \in 0 .. Len(Workload) - 1
      PROVE  /\ FirstTiles(n + 1) = FirstTiles(n) \cup Workload[n + 1]
             /\ FirstTiles(n) \cap Workload[n + 1] = {}
             /\ IsFiniteSet(Workload[n + 1]) /\ Cardinality(Workload[n + 1]) \in Nat
             /\ Cardinality(FirstTiles(n + 1)) = Cardinality(FirstTiles(n)) + Cardinality(Workload[n + 1])
  <2>1. /\ 1 .. n + 1 = (1 .. n) \cup {n + 1} /\ n + 1 \in DOMAIN Workload
        /\ \A t \in 1 .. n : t \in DOMAIN Workload /\ n + 1 # t
    BY <1>1
  <2>2. FirstTiles(n + 1) = FirstTiles(n) \cup Workload[n + 1]
    BY <2>1 DEF FirstTiles
  <2>3. FirstTiles(n) \cap Workload[n + 1] = {}
    BY <2>1, BenchmarkAssumption DEF FirstTiles
  <2>4. IsFiniteSet(Workload[n + 1]) /\ Cardinality(Workload[n + 1]) \in Nat
    BY <2>1, BenchmarkAssumption, FS_CardinalityType
  <2>5. IsFiniteSet(FirstTiles(n)) /\ Cardinality(FirstTiles(n)) \in Nat
    BY <1>1, <1>3
  <2>6. Cardinality({}) = 0
    BY FS_EmptySet
  <2>7. Cardinality(FirstTiles(n) \cup Workload[n + 1])
          = Cardinality(FirstTiles(n)) + Cardinality(Workload[n + 1]) - Cardinality(FirstTiles(n) \cap Workload[n + 1])
    BY <2>4, <2>5, FS_Union
  <2>8. Cardinality(FirstTiles(n + 1)) = Cardinality(FirstTiles(n)) + Cardinality(Workload[n + 1])
    <3> DEFINE a == Cardinality(FirstTiles(n))
               w == Cardinality(Workload[n + 1])
    <3>1. Cardinality(FirstTiles(n + 1)) = a + w - 0
      BY <2>2, <2>3, <2>6, <2>7
    <3>2. a \in Nat /\ w \in Nat
      BY <2>4, <2>5
    <3> HIDE DEF a, w
    <3>3. a + w - 0 = a + w
      BY ONLY <3>2
    <3> QED BY <3>1, <3>3 DEF a, w
  <2> QED BY <2>2, <2>3, <2>4, <2>8
<1> QED BY <1>2, <1>3, <1>4

\* All matches of the workload are those of all of its tiles.
LEMMA AllTiles ==
  /\ UNION Range(Workload) = FirstTiles(Len(Workload))
  /\ \A n \in 0 .. Len(Workload) :
       Cardinality(FirstTiles(n)) <= Cardinality(FirstTiles(Len(Workload)))
<1>1. Len(Workload) \in Nat /\ DOMAIN Workload = 1 .. Len(Workload)
  BY BenchmarkAssumption
<1>2. UNION Range(Workload) = FirstTiles(Len(Workload))
  BY <1>1 DEF FirstTiles, Range
<1>3. ASSUME NEW n \in 0 .. Len(Workload)
      PROVE  Cardinality(FirstTiles(n)) <= Cardinality(FirstTiles(Len(Workload)))
  <2>1. FirstTiles(n) \in SUBSET FirstTiles(Len(Workload))
    BY <1>1 DEF FirstTiles
  <2>2. IsFiniteSet(FirstTiles(Len(Workload)))
    BY <1>1, TilesAdd
  <2> QED BY <2>1, <2>2, FS_Subset
<1> QED BY <1>2, <1>3

All == FirstTiles(Len(Workload))

Digests == [count : Nat, hash : SUBSET (All \cup {Junk})]

BenchType == [n : Int, taken : 0 .. Len(Workload), inflight : Nat, emitted : Nat, cut : BOOLEAN,
              digest : Digests, first : Digests, consistent : BOOLEAN, capped : BOOLEAN,
              over : BOOLEAN, healthy : BOOLEAN, sweeps : Seq(Digests)]

\* A sweep has found the matches of the tiles it has collected, and emitted those
\* of the tiles it has begun, since configure() started the count again: what it
\* lost it lost to a cap that all matches together exceed.
SweepInv(b) ==
  /\ b.emitted = Cardinality(FirstTiles(b.taken))
  /\ b.cut => b.emitted > MatchCap
  /\ b.healthy /\ ~b.cut => b.digest = Of(FirstTiles(b.taken - b.inflight))

\* The verdict is about the sweeps that count, and nothing of the calibration
\* before them remains in it.
JudgedInv(b) ==
  /\ Len(b.sweeps) = IF b.n < 0 THEN 0 ELSE b.n
  /\ b.sweeps # <<>> => b.first = b.sweeps[1]
  /\ b.consistent => \A i \in DOMAIN b.sweeps : b.sweeps[i] = b.first
  /\ b.capped => Cardinality(All) > MatchCap
  /\ b.healthy /\ ~b.capped => /\ b.consistent
                               /\ \A i \in DOMAIN b.sweeps : b.sweeps[i] = Of(All)

BenchInv ==
  /\ bench \in BenchType /\ bench.inflight <= bench.taken
  /\ bench.n >= 0 /\ ~bench.over => SweepInv(bench)
  /\ JudgedInv(bench)

\* What end_tile() may answer is among the matches of the tile, and all of them
\* if the device is healthy and nothing was cut off.
LEMMA AnswersAre ==
  ASSUME BenchInv, NEW t \in DOMAIN Workload, NEW a \in Answers(Workload[t])
  PROVE  /\ a.got \in SUBSET (All \cup {Junk}) /\ Cardinality(a.got) \in Nat /\ a.cut \in BOOLEAN
         /\ bench.cut => a.cut
         /\ a.cut => bench.cut \/ bench.emitted > MatchCap
         /\ bench.healthy /\ ~a.cut => a.got = Workload[t]
<1> DEFINE ms == Workload[t]
<1>1. bench.cut \in BOOLEAN
  BY DEF BenchInv, BenchType
<1>2. ms \subseteq All /\ IsFiniteSet(ms)
  BY BenchmarkAssumption DEF All, FirstTiles
<1>3. /\ a.got \subseteq ms \cup {Junk} /\ a.cut \in BOOLEAN
      /\ bench.cut => a.cut
      /\ a.cut => bench.cut \/ bench.emitted > MatchCap
      /\ bench.healthy /\ ~a.cut => a.got = ms
  <2> HIDE DEF ms
  <2>1. a \in Answers(ms)
    BY DEF ms
  <2>2. CASE a = [got |-> ms, cut |-> bench.cut]
    BY <1>1, <2>2
  <2>3. CASE (bench.cut \/ bench.emitted > MatchCap) /\ a \in [got : SUBSET ms, cut : {TRUE}]
    BY <1>1, <2>3
  <2>4. CASE ~bench.healthy /\ a = [got |-> ms \cup {Junk}, cut |-> bench.cut]
    BY <1>1, <2>4
  <2> QED BY <2>1, <2>2, <2>3, <2>4 DEF Answers
<1>4. IsFiniteSet(ms \cup {Junk})
  BY <1>2, FS_AddElement
<1>5. Cardinality(a.got) \in Nat
  BY <1>3, <1>4, FS_Subset, FS_CardinalityType
<1> QED BY <1>2, <1>3, <1>5

\* Before and after a benchmark there is none, and one begins with nothing found.
LEMMA BenchBegins ==
  /\ bench' = Idle => BenchInv'
  /\ \A healthy \in BOOLEAN : bench' = NewBench(healthy) => BenchInv'
  /\ bench = Idle => BenchInv
<1>1. NoDigest \in Digests /\ <<>> \in Seq(Digests) /\ 0 \in 0 .. Len(Workload)
  BY BenchmarkAssumption DEF Digests, NoDigest
<1>2. Idle \in BenchType
  BY <1>1 DEF Idle, BenchType
<1>3. ASSUME NEW healthy \in BOOLEAN
      PROVE  /\ NewBench(healthy) \in BenchType
             /\ NewBench(healthy).n = -2 /\ NewBench(healthy).inflight = 0 /\ NewBench(healthy).taken = 0
             /\ NewBench(healthy).sweeps = <<>> /\ ~NewBench(healthy).capped
             /\ NewBench(healthy).consistent
  <2>1. NewBench(healthy) = [Idle EXCEPT !.n = -2, !.over = FALSE, !.healthy = healthy]
    BY DEF NewBench, kCalibrations
  <2>2. -2 \in Int
    OBVIOUS
  <2>3. NewBench(healthy) \in BenchType
    BY <1>2, <2>1, <2>2 DEF BenchType
  <2> QED BY <2>1, <2>3 DEF Idle
<1>4. /\ Idle.n = 0 /\ Idle.over /\ Idle.inflight = 0 /\ Idle.taken = 0 /\ Idle.sweeps = <<>>
      /\ ~Idle.capped /\ Idle.consistent
  BY DEF Idle
<1> QED BY <1>2, <1>3, <1>4 DEF BenchInv, JudgedInv

\* A sweep and its verdict.
LEMMA SweepKeeps == ASSUME BenchInv, Sweeping PROVE BenchInv'
<1> DEFINE b == bench
<1>1. /\ b \in BenchType /\ b.inflight <= b.taken /\ (b.n >= 0 /\ ~b.over => SweepInv(b)) /\ JudgedInv(b)
      /\ Len(Workload) \in Nat /\ DOMAIN Workload = 1 .. Len(Workload) /\ MatchCap \in Nat
  BY BenchmarkAssumption DEF BenchInv
<1>2. CASE BeginTile
  <2>1. /\ ~b.over /\ b.taken < Len(Workload)
        /\ bench' = [b EXCEPT !.taken = b.taken + 1, !.inflight = b.inflight + 1,
                              !.emitted = b.emitted + Cardinality(Workload[b.taken + 1])]
    BY <1>2 DEF BeginTile, MayBegin
  <2>2. b.taken \in 0 .. Len(Workload) - 1
    BY <1>1, <2>1 DEF BenchType
  <2>3. /\ Cardinality(Workload[b.taken + 1]) \in Nat
        /\ Cardinality(FirstTiles(b.taken + 1)) = Cardinality(FirstTiles(b.taken)) + Cardinality(Workload[b.taken + 1])
    BY <2>2, TilesAdd
  <2> HIDE DEF b
  <2>4. /\ b.taken + 1 \in 0 .. Len(Workload) /\ b.inflight + 1 \in Nat
        /\ b.emitted + Cardinality(Workload[b.taken + 1]) \in Nat
        /\ b.inflight + 1 <= b.taken + 1 /\ (b.taken + 1) - (b.inflight + 1) = b.taken - b.inflight
    <3>1. b.taken \in Nat /\ b.inflight \in Nat /\ b.emitted \in Nat /\ b.inflight <= b.taken
          /\ Len(Workload) \in Nat
      BY <1>1 DEF BenchType
    <3>2. b.emitted + Cardinality(Workload[b.taken + 1]) \in Nat
      BY ONLY <2>3, <3>1
    <3>3. b.taken + 1 \in 0 .. Len(Workload)
      BY ONLY <2>2, <3>1
    <3>4. b.inflight + 1 \in Nat /\ b.inflight + 1 <= b.taken + 1
          /\ (b.taken + 1) - (b.inflight + 1) = b.taken - b.inflight
      BY ONLY <3>1
    <3> QED BY ONLY <3>2, <3>3, <3>4
  <2> DEFINE taken == b.taken + 1
             inflight == b.inflight + 1
             emitted == b.emitted + Cardinality(Workload[b.taken + 1])
  <2>5. /\ bench' \in BenchType /\ bench'.inflight <= bench'.taken
        /\ bench'.taken = b.taken + 1 /\ bench'.taken - bench'.inflight = b.taken - b.inflight
        /\ bench'.emitted = b.emitted + Cardinality(Workload[b.taken + 1])
        /\ bench'.n = b.n /\ bench'.over = b.over /\ bench'.healthy = b.healthy /\ bench'.cut = b.cut
        /\ bench'.digest = b.digest /\ bench'.first = b.first /\ bench'.sweeps = b.sweeps
        /\ bench'.consistent = b.consistent /\ bench'.capped = b.capped
    <3>1. bench' = [b EXCEPT !.taken = taken, !.inflight = inflight, !.emitted = emitted]
      BY <2>1
    <3>2. /\ taken \in 0 .. Len(Workload) /\ inflight \in Nat /\ emitted \in Nat
          /\ inflight <= taken /\ taken - inflight = b.taken - b.inflight
      BY <2>4
    <3>3. /\ bench' \in BenchType /\ bench'.inflight = inflight
          /\ bench'.taken = taken /\ bench'.emitted = emitted
          /\ bench'.n = b.n /\ bench'.over = b.over /\ bench'.healthy = b.healthy /\ bench'.cut = b.cut
          /\ bench'.digest = b.digest /\ bench'.first = b.first /\ bench'.sweeps = b.sweeps
          /\ bench'.consistent = b.consistent /\ bench'.capped = b.capped
      <4> HIDE DEF taken, inflight, emitted
      <4> QED BY <1>1, <3>1, <3>2 DEF BenchType
    <3> QED BY <3>2, <3>3
  <2>6. JudgedInv(bench')
    BY <1>1, <2>5 DEF JudgedInv
  <2>7. ASSUME b.n >= 0, ~b.over PROVE SweepInv(bench')
    <3>1. b.emitted \in Nat /\ b.emitted = Cardinality(FirstTiles(b.taken))
      BY <1>1, <2>7 DEF SweepInv, BenchType
    <3> QED BY <1>1, <2>3, <2>5, <2>7, <3>1 DEF SweepInv
  <2> QED BY <2>5, <2>6, <2>7 DEF BenchInv
<1>3. CASE CollectTile
  <2> DEFINE t == b.taken - b.inflight + 1
  <2>1. PICK a \in Answers(Workload[t]) :
          bench' = [b EXCEPT !.inflight = b.inflight - 1, !.cut = a.cut,
                             !.digest = [count |-> b.digest.count + Cardinality(a.got),
                                         hash  |-> b.digest.hash \cup a.got]]
    BY <1>3 DEF CollectTile
  <2>2. ~b.over /\ b.inflight > 0
    BY <1>3 DEF CollectTile
  <2> HIDE DEF b
  <2>3. t \in DOMAIN Workload /\ t - 1 \in 0 .. Len(Workload) - 1
    BY <1>1, <2>2 DEF BenchType
  <2>4. /\ a.got \in SUBSET (All \cup {Junk}) /\ Cardinality(a.got) \in Nat /\ a.cut \in BOOLEAN
        /\ b.cut => a.cut
        /\ a.cut => b.cut \/ b.emitted > MatchCap
        /\ b.healthy /\ ~a.cut => a.got = Workload[t]
    <3> HIDE DEF t
    <3> QED BY <2>1, <2>3, AnswersAre DEF b
  <2>5. b.digest \in Digests /\ b.inflight \in Nat
    BY <1>1 DEF BenchType
  <2>6. /\ b.digest.count + Cardinality(a.got) \in Nat
        /\ b.digest.hash \cup a.got \in SUBSET (All \cup {Junk}) /\ b.inflight - 1 \in Nat
    BY <2>2, <2>4, <2>5 DEF Digests
  <2>7. [count |-> b.digest.count + Cardinality(a.got), hash |-> b.digest.hash \cup a.got] \in Digests
    BY <2>6 DEF Digests
  <2> DEFINE d == [count |-> b.digest.count + Cardinality(a.got), hash |-> b.digest.hash \cup a.got]
  <2>8. /\ bench' = [b EXCEPT !.inflight = b.inflight - 1, !.cut = a.cut, !.digest = d]
        /\ d \in Digests
    BY <2>1, <2>7
  <2>9. /\ bench' \in BenchType /\ bench'.inflight = b.inflight - 1
        /\ bench'.taken = b.taken /\ bench'.emitted = b.emitted
        /\ bench'.n = b.n /\ bench'.over = b.over /\ bench'.healthy = b.healthy /\ bench'.cut = a.cut
        /\ bench'.digest = d /\ bench'.first = b.first /\ bench'.sweeps = b.sweeps
        /\ bench'.consistent = b.consistent /\ bench'.capped = b.capped
    <3> HIDE DEF d
    <3> QED BY <1>1, <2>4, <2>6, <2>8 DEF BenchType
  <2>10. JudgedInv(bench')
    BY <1>1, <2>9 DEF JudgedInv
  <2>11. ASSUME b.n >= 0, ~b.over PROVE SweepInv(bench')
    <3>1. SweepInv(b) /\ b.cut \in BOOLEAN /\ b.healthy \in BOOLEAN
      BY <1>1, <2>11 DEF BenchType
    <3>2. bench'.taken - bench'.inflight = t /\ b.taken - b.inflight = t - 1
      <4>1. b.taken \in Nat /\ b.inflight \in Nat
        BY <1>1 DEF BenchType
      <4>2. bench'.taken = b.taken /\ bench'.inflight = b.inflight - 1
        BY <2>9
      <4> HIDE DEF d
      <4> QED BY <4>1, <4>2
    <3>3. ASSUME b.healthy, ~a.cut PROVE d = Of(FirstTiles(t))
      <4>1. b.digest = Of(FirstTiles(t - 1)) /\ a.got = Workload[t]
        BY <2>4, <3>1, <3>2, <3>3 DEF SweepInv
      <4>2. /\ FirstTiles(t) = FirstTiles(t - 1) \cup Workload[t]
            /\ Cardinality(FirstTiles(t)) = Cardinality(FirstTiles(t - 1)) + Cardinality(Workload[t])
        <5>1. t - 1 + 1 = t
          BY <2>3
        <5> HIDE DEF t
        <5> QED BY <2>3, <5>1, TilesAdd
      <4> HIDE DEF t
      <4> QED BY <4>1, <4>2 DEF Of
    <3> HIDE DEF t, d
    <3> QED BY <2>4, <2>9, <3>1, <3>2, <3>3 DEF SweepInv
  <2>12. bench'.inflight <= bench'.taken
    BY <1>1, <2>2, <2>9 DEF BenchType
  <2> QED BY <2>9, <2>10, <2>11, <2>12 DEF BenchInv
<1>4. CASE EndSweep
  <2> DEFINE first == IF b.n = 0 THEN b.digest ELSE b.first
             judged == [b EXCEPT !.first = first, !.consistent = b.consistent /\ b.digest = first,
                                 !.capped = b.capped \/ b.cut, !.sweeps = Append(b.sweeps, b.digest)]
             seen == IF b.n < 0 THEN b ELSE judged
             next == [seen EXCEPT !.n = seen.n + 1, !.taken = 0, !.digest = NoDigest]
  <2>1. /\ ~b.over /\ ~MayBegin /\ b.inflight = 0
        /\ \/ next.n < MaxSweeps /\ bench' = (IF next.n >= 0 THEN Configured(next) ELSE next)
           \/ next.n >= 2 /\ bench' = [next EXCEPT !.over = TRUE]
    BY <1>4 DEF EndSweep
  <2>2. b.taken = Len(Workload)
    <3>1. ~ (b.taken < Len(Workload) /\ b.inflight < 2)
      BY <2>1 DEF MayBegin, kTilesInFlight
    <3>2. b.taken \in 0 .. Len(Workload)
      BY <1>1 DEF BenchType
    <3> QED BY <1>1, <2>1, <3>1, <3>2
  <2> HIDE DEF b
  <2>3. /\ b.n \in Int /\ b.digest \in Digests /\ b.first \in Digests /\ b.sweeps \in Seq(Digests)
        /\ b.consistent \in BOOLEAN /\ b.capped \in BOOLEAN /\ b.cut \in BOOLEAN
        /\ b.healthy \in BOOLEAN /\ b.emitted \in Nat
    BY <1>1 DEF BenchType
  <2>4. ASSUME b.n >= 0
        PROVE  /\ judged \in BenchType /\ judged.n = b.n /\ judged.healthy = b.healthy
               /\ judged.inflight = b.inflight /\ judged.cut = b.cut /\ judged.first = first
               /\ judged.consistent = (b.consistent /\ b.digest = first)
               /\ judged.capped = (b.capped \/ b.cut) /\ judged.sweeps = Append(b.sweeps, b.digest)
               /\ judged.emitted = b.emitted
    <3> DEFINE consistent == b.consistent /\ b.digest = first
               capped == b.capped \/ b.cut
               sweeps == Append(b.sweeps, b.digest)
    <3>1. first \in Digests /\ consistent \in BOOLEAN /\ capped \in BOOLEAN /\ sweeps \in Seq(Digests)
      BY <2>3
    <3>2. judged = [b EXCEPT !.first = first, !.consistent = consistent, !.capped = capped, !.sweeps = sweeps]
      OBVIOUS
    <3>3. /\ judged \in BenchType /\ judged.n = b.n /\ judged.healthy = b.healthy
          /\ judged.inflight = b.inflight /\ judged.cut = b.cut /\ judged.first = first
          /\ judged.consistent = consistent /\ judged.capped = capped /\ judged.sweeps = sweeps
          /\ judged.emitted = b.emitted
      <4> HIDE DEF first, consistent, capped, sweeps
      <4> QED BY <1>1, <3>1, <3>2 DEF BenchType
    <3> QED BY <3>3
  <2>5. /\ seen \in BenchType /\ seen.n = b.n /\ seen.healthy = b.healthy
        /\ seen.inflight = b.inflight
    <3> HIDE DEF judged
    <3> QED BY <1>1, <2>3, <2>4
  \* the verdict, but for the number of the sweeps
  <2>6. /\ Len(seen.sweeps) = IF b.n + 1 <= 0 THEN 0 ELSE b.n + 1
        /\ seen.sweeps # <<>> => seen.first = seen.sweeps[1]
        /\ seen.consistent => \A i \in DOMAIN seen.sweeps : seen.sweeps[i] = seen.first
        /\ seen.capped => Cardinality(All) > MatchCap
        /\ seen.healthy /\ ~seen.capped => /\ seen.consistent
                                           /\ \A i \in DOMAIN seen.sweeps : seen.sweeps[i] = Of(All)
    <3>1. CASE b.n < 0
      <4>1. seen = b
        BY <3>1
      <4>2. Len(b.sweeps) = IF b.n + 1 <= 0 THEN 0 ELSE b.n + 1
        BY <1>1, <2>3, <3>1 DEF JudgedInv
      <4> HIDE DEF seen
      <4> QED BY <1>1, <4>1, <4>2 DEF JudgedInv
    <3>2. CASE b.n >= 0
      <4>1. seen = judged /\ ~ (b.n + 1 <= 0)
        BY <2>3, <3>2
      <4>2. SweepInv(b) /\ JudgedInv(b)
        BY <1>1, <2>1, <3>2 DEF b
      <4>3. b.healthy /\ ~b.cut => b.digest = Of(All)
        <5>1. b.taken - b.inflight = Len(Workload)
          BY <1>1, <2>1, <2>2 DEF b
        <5> QED BY <4>2, <5>1 DEF SweepInv, All
      <4>4. b.cut => Cardinality(All) > MatchCap
        BY <2>2, <4>2 DEF SweepInv, All
      <4>5. Len(b.sweeps) = b.n /\ DOMAIN b.sweeps = 1 .. b.n
        BY <2>3, <3>2, <4>2 DEF JudgedInv
      <4>6. /\ Len(judged.sweeps) = b.n + 1 /\ DOMAIN judged.sweeps = 1 .. b.n + 1
            /\ judged.sweeps[b.n + 1] = b.digest /\ \A i \in 1 .. b.n : judged.sweeps[i] = b.sweeps[i]
        <5>1. judged.sweeps = Append(b.sweeps, b.digest)
          BY <2>4, <3>2
        <5> HIDE DEF judged
        <5> QED BY <2>3, <4>5, <5>1
      <4>7. \A i \in 1 .. b.n + 1 : i \in 1 .. b.n \/ i = b.n + 1
        BY <2>3, <3>2
      <4>8. judged.first = judged.sweeps[1]
        <5>1. CASE b.n = 0
          BY <2>4, <3>2, <4>6, <5>1
        <5>2. CASE b.n # 0
          <6>1. 1 \in 1 .. b.n /\ b.sweeps # <<>>
            BY <2>3, <3>2, <4>5, <5>2
          <6>2. judged.first = b.first
            BY <2>4, <3>2, <5>2
          <6> HIDE DEF judged
          <6> QED BY <4>2, <4>6, <6>1, <6>2 DEF JudgedInv
        <5> QED BY <5>1, <5>2
      <4>9. ASSUME judged.consistent PROVE \A i \in 1 .. b.n + 1 : judged.sweeps[i] = judged.first
        <5>1. b.consistent /\ b.digest = judged.first
          BY <2>4, <3>2, <4>9
        <5>2. b.n # 0 => judged.first = b.first
          BY <2>4, <3>2
        <5>3. \A i \in 1 .. b.n : b.n # 0 /\ b.sweeps[i] = b.first
          BY <2>3, <4>2, <4>5, <5>1 DEF JudgedInv
        <5> HIDE DEF judged
        <5> QED BY <4>6, <4>7, <5>1, <5>2, <5>3
      <4>10. judged.capped => Cardinality(All) > MatchCap
        BY <2>4, <3>2, <4>2, <4>4 DEF JudgedInv
      <4>11. ASSUME judged.healthy, ~judged.capped
             PROVE  judged.consistent /\ \A i \in 1 .. b.n + 1 : judged.sweeps[i] = Of(All)
        <5>1. b.healthy /\ ~b.capped /\ ~b.cut
          BY <2>4, <3>2, <4>11
        <5>2. b.consistent /\ b.digest = Of(All) /\ \A i \in 1 .. b.n : b.sweeps[i] = Of(All)
          BY <4>2, <4>3, <4>5, <5>1 DEF JudgedInv
        <5>3. \A i \in 1 .. b.n + 1 : judged.sweeps[i] = Of(All)
          <6> HIDE DEF judged
          <6> QED BY <4>6, <4>7, <5>2
        <5>4. judged.first = b.digest
          <6>1. 1 \in 1 .. b.n + 1
            BY <2>3, <3>2
          <6> HIDE DEF judged
          <6> QED BY <4>8, <5>2, <5>3, <6>1
        <5> QED BY <2>4, <3>2, <5>2, <5>3, <5>4
      <4> HIDE DEF judged, seen
      <4> QED BY <4>1, <4>6, <4>8, <4>9, <4>10, <4>11
    <3> QED BY <2>3, <3>1, <3>2
  <2> HIDE DEF seen
  <2>7. /\ next \in BenchType /\ next.n = b.n + 1 /\ next.inflight = 0 /\ next.taken = 0
        /\ next.digest = NoDigest /\ next.sweeps = seen.sweeps /\ next.first = seen.first
        /\ next.healthy = seen.healthy /\ next.consistent = seen.consistent /\ next.capped = seen.capped
        /\ next.over = seen.over
    <3> DEFINE n == seen.n + 1
    <3>1. n \in Int /\ n = b.n + 1
      BY <2>3, <2>5
    <3>2. NoDigest \in Digests /\ 0 \in 0 .. Len(Workload) /\ seen.inflight = 0
      BY <1>1, <2>1, <2>5 DEF b, Digests, NoDigest
    <3> HIDE DEF n
    <3>3. next = [seen EXCEPT !.n = n, !.taken = 0, !.digest = NoDigest]
      BY DEF n
    <3> HIDE DEF next
    <3> QED BY <2>5, <3>1, <3>2, <3>3 DEF BenchType
  <2>8. JudgedInv(next)
    <3>1. next.n \in Int /\ (next.n <= 0 <=> next.n < 0 \/ next.n = 0)
      BY <2>3, <2>7
    <3> HIDE DEF next
    <3> QED BY <2>6, <2>7, <3>1 DEF JudgedInv
  <2> HIDE DEF next
  <2>9. CASE bench' = [next EXCEPT !.over = TRUE]
    <3>1. /\ bench' \in BenchType /\ bench'.over /\ bench'.inflight = 0 /\ bench'.taken = 0
          /\ bench'.n = next.n /\ bench'.sweeps = next.sweeps /\ bench'.first = next.first
          /\ bench'.healthy = next.healthy /\ bench'.consistent = next.consistent
          /\ bench'.capped = next.capped
      BY <2>7, <2>9 DEF BenchType
    <3> QED BY <2>8, <3>1 DEF BenchInv, JudgedInv
  <2>10. CASE bench' = next /\ ~ (next.n >= 0)
    BY <2>7, <2>8, <2>10 DEF BenchInv
  <2>11. CASE bench' = Configured(next)
    <3>1. /\ bench' \in BenchType /\ bench'.inflight = 0 /\ bench'.taken = 0
          /\ bench'.emitted = 0 /\ ~bench'.cut /\ bench'.digest = NoDigest
          /\ bench'.n = next.n /\ bench'.sweeps = next.sweeps /\ bench'.first = next.first
          /\ bench'.healthy = next.healthy /\ bench'.consistent = next.consistent
          /\ bench'.capped = next.capped
      BY <2>7, <2>11 DEF BenchType, Configured
    <3>2. JudgedInv(bench')
      BY <2>8, <3>1 DEF JudgedInv
    <3>3. Cardinality(FirstTiles(0)) = 0 /\ NoDigest = Of(FirstTiles(0)) /\ 0 - 0 = 0
      <4>1. FirstTiles(0) = {} /\ Cardinality({}) = 0
        BY TilesAdd, FS_EmptySet
      <4> QED BY <4>1 DEF Of, NoDigest
    <3> QED BY <3>1, <3>2, <3>3 DEF BenchInv, SweepInv
  <2> QED BY <2>1, <2>9, <2>10, <2>11
<1> QED BY <1>2, <1>3, <1>4 DEF Sweeping

\* Exit 0 of --benchmark-long says that every sweep found the same matches, all
\* there are if the device is healthy, and a healthy device is never accused
\* while its matches fit the cap (rokksearch.cpp:300-303, README.md:350): for
\* every workload, cap and number of sweeps.
THEOREM VerdictIsTruthful == Spec => []VerdictTruthful
<1>1. Init => BenchInv
  BY BenchBegins DEF Init
<1>2. BenchInv /\ [Next]_vars => BenchInv'
  <2> SUFFICES ASSUME BenchInv, [Next]_vars PROVE BenchInv'
    OBVIOUS
  <2>1. CASE bench' = bench
    BY <2>1 DEF BenchInv
  <2>2. CASE bench' = Idle
    BY <2>2, BenchBegins
  <2>3. CASE \E healthy \in BOOLEAN : bench' = NewBench(healthy)
    BY <2>3, BenchBegins
  <2>4. CASE Sweeping
    BY <2>4, SweepKeeps
  <2>5. ASSUME NEW c \in Commands, Search(c) \/ StartBenchmark(c) \/ \E n \in Names : Demo(c, n)
        PROVE  bench' = bench \/ \E healthy \in BOOLEAN : bench' = NewBench(healthy)
    BY <2>5 DEF Search, StartBenchmark, Demo
  <2>6. JobStep \/ MainLoop \/ EndBenchmark \/ (\E n \in Names : SaveSession(n)) => bench' = bench
    BY DEF JobStep, MainLoop, PollJob, PrintResults, EndBenchmark, SaveSession
  <2>7. End \/ Kill => bench' = Idle
    BY DEF End, Kill, Gone
  <2>8. Sweep => Sweeping
    BY DEF Sweep
  <2>9. UNCHANGED vars => bench' = bench
    BY DEF vars
  <2> QED BY <2>1, <2>2, <2>3, <2>4, <2>5, <2>6, <2>7, <2>8, <2>9 DEF Next
<1>3. BenchInv => VerdictTruthful
  <2> SUFFICES ASSUME BenchInv, bench.over, bench.sweeps # <<>>
               PROVE  /\ ExitCode = 0 => /\ Cardinality(Range(bench.sweeps)) = 1
                                         /\ bench.healthy => bench.sweeps[1].hash = All
                      /\ bench.healthy /\ Cardinality(All) <= MatchCap => ExitCode = 0
    BY AllTiles DEF VerdictTruthful, All
  <2>1. /\ bench.sweeps \in Seq(Digests) /\ bench.capped \in BOOLEAN /\ bench.consistent \in BOOLEAN
        /\ JudgedInv(bench)
    BY DEF BenchInv, BenchType
  <2>2. 1 \in DOMAIN bench.sweeps
    BY <2>1
  <2>3. ExitCode = 0 <=> bench.consistent /\ ~bench.capped
    BY <2>1 DEF ExitCode
  <2>4. ASSUME bench.consistent PROVE Cardinality(Range(bench.sweeps)) = 1
    <3>1. Range(bench.sweeps) = {bench.first}
      BY <2>1, <2>2, <2>4 DEF JudgedInv, Range
    <3> QED BY <3>1, FS_Singleton
  <2>5. bench.healthy /\ ~bench.capped => bench.sweeps[1].hash = All
    BY <2>1, <2>2 DEF JudgedInv, Of
  <2>6. bench.healthy /\ Cardinality(All) <= MatchCap => bench.consistent /\ ~bench.capped
    <3>1. Cardinality(All) \in Nat /\ MatchCap \in Nat
      BY BenchmarkAssumption, TilesAdd DEF All
    <3> QED BY <2>1, <3>1 DEF JudgedInv
  <2> QED BY <2>3, <2>4, <2>5, <2>6
<1> QED BY <1>1, <1>2, <1>3, PTL DEF Spec

-----------------------------------------------------------------------------
(* Numbers and sequences                                                   *)

\* The least of a set of naturals, as Min has it.
LEMMA MinIn ==
  ASSUME NEW S \in SUBSET Nat, S # {}
  PROVE  Min(S) \in S /\ \A m \in S : Min(S) <= m
<1>1. \E n \in S : \A m \in S : n <= m
  BY PlanFacts!NatMin
<1> QED BY <1>1 DEF Min

\* The largest of a bounded set of naturals, as Max has it.
LEMMA MaxIn ==
  ASSUME NEW n \in Nat, NEW S \in SUBSET (1 .. n), S # {}
  PROVE  Max(S) \in S /\ \A m \in S : m <= Max(S)
<1> DEFINE U == {u \in Nat : \A m \in S : m <= u}
<1>1. n \in U
  OBVIOUS
<1>2. PICK u \in U : \A v \in U : u <= v
  <2>1. U \in SUBSET Nat /\ U # {}
    BY <1>1
  <2> HIDE DEF U
  <2> QED BY <2>1, PlanFacts!NatMin
<1>3. u \in Nat /\ \A m \in S : m <= u
  BY <1>2
<1>4. u \in S
  <2>1. SUFFICES ASSUME u \notin S PROVE FALSE
    OBVIOUS
  <2>2. \A m \in S : m \in Nat /\ m >= 1 /\ m < u
    BY <1>3, <2>1
  <2>3. u - 1 \in Nat /\ \A m \in S : m <= u - 1
    <3>1. PICK m \in S : TRUE
      OBVIOUS
    <3>2. m \in Nat /\ m >= 1 /\ m < u /\ u \in Nat
      BY <1>3, <2>2
    <3>3. u - 1 \in Nat
      BY <3>2
    <3>4. ASSUME NEW k \in S PROVE k <= u - 1
      <4>1. k \in Nat /\ k < u
        BY <2>2
      <4> QED BY <3>2, <4>1
    <3> QED BY <3>3, <3>4
  <2>4. u - 1 \in U
    BY <2>3
  <2> QED BY <1>2, <1>3, <2>4
<1>5. \E m \in S : \A k \in S : m >= k
  BY <1>3, <1>4
<1>6. Max(S) \in S /\ \A k \in S : Max(S) >= k
  BY <1>5 DEF Max
<1> QED BY <1>6

\* FlattenSeq is the one that the facts about plans are about.
LEMMA SameFlatten == ASSUME NEW seqs PROVE PlanFacts!FlattenSeq(seqs) = FlattenSeq(seqs)
BY DEF PlanFacts!FlattenSeq, FlattenSeq

\* The steps of a concatenation of sequences.
LEMMA FlattenSteps ==
  ASSUME NEW seqs, Len(seqs) \in Nat \ {0}
  PROVE  \E f : /\ f = [i \in 1 .. Len(seqs) |-> IF i = 1 THEN seqs[i] ELSE f[i - 1] \o seqs[i]]
               /\ FlattenSeq(seqs) = f[Len(seqs)]
BY SameFlatten, PlanFacts!FlattenSteps

\* A sequence without a value it does not have is itself, whole.
LEMMA WithoutNone ==
  ASSUME NEW S, NEW s \in Seq(S), NEW x, \A n \in DOMAIN s : s[n] # x
  PROVE  Without(s, x) = s
<1> DEFINE seqs == [n \in DOMAIN s |-> IF s[n] = x THEN <<>> ELSE <<s[n]>>]
           L == Len(s)
<1>1. L \in Nat /\ DOMAIN s = 1 .. L /\ Len(seqs) = L /\ DOMAIN seqs = 1 .. L
  OBVIOUS
<1>2. \A n \in 1 .. L : seqs[n] = <<s[n]>>
  BY <1>1
<1>3. CASE L = 0
  BY <1>1, <1>3 DEF Without, FlattenSeq
<1>4. CASE L # 0
  <2> HIDE DEF seqs
  <2>1. PICK f : /\ f = [i \in 1 .. Len(seqs) |-> IF i = 1 THEN seqs[i] ELSE f[i - 1] \o seqs[i]]
                 /\ FlattenSeq(seqs) = f[Len(seqs)]
    BY <1>1, <1>4, FlattenSteps
  <2>2. \A i \in 1 .. L : f[i] = IF i = 1 THEN <<s[i]>> ELSE f[i - 1] \o <<s[i]>>
    BY <1>1, <1>2, <2>1
  <2> HIDE DEF L
  <2> DEFINE Good == {i \in Nat : i \in 1 .. L => f[i] = SubSeq(s, 1, i)}
  <2>3. 0 \in Good
    BY <1>1
  <2>4. ASSUME NEW i \in Nat, i \in Good PROVE i + 1 \in Good
    <3> SUFFICES ASSUME i + 1 \in 1 .. L PROVE f[i + 1] = SubSeq(s, 1, i + 1)
      OBVIOUS
    <3>1. CASE i = 0
      <4>1. 1 \in 1 .. L
        BY <3>1
      <4>2. f[1] = <<s[1]>>
        BY <2>2, <4>1
      <4> DEFINE r == SubSeq(s, 1, 1)
      <4>3. r \in Seq(S) /\ Len(r) = 1 /\ r[1] = s[1]
        BY <1>1, <3>1 DEF L
      <4> HIDE DEF r
      <4>4. r = <<s[1]>>
        BY <4>3
      <4> QED BY <3>1, <4>2, <4>4 DEF r
    <3>2. CASE i # 0
      <4>1. i \in 1 .. L /\ i + 1 # 1 /\ (i + 1) - 1 = i
        BY <1>1, <3>2
      <4>2. f[i + 1] = f[i] \o <<s[i + 1]>> /\ f[i] = SubSeq(s, 1, i)
        BY <2>2, <2>4, <4>1
      <4>3. SubSeq(s, 1, i + 1) = SubSeq(s, 1, i) \o <<s[i + 1]>>
        BY <1>1, <4>1 DEF L
      <4> QED BY <4>2, <4>3
    <3> QED BY <3>1, <3>2
  <2>5. L \in Good
    <3> HIDE DEF Good
    <3> QED BY <1>1, <2>3, <2>4, PlanFacts!NatInd
  <2>6. f[L] = SubSeq(s, 1, L)
    BY <1>1, <1>4, <2>5
  <2>7. SubSeq(s, 1, L) = s
    BY DEF L
  <2> QED BY <1>1, <2>1, <2>6, <2>7 DEF Without, seqs
<1> QED BY <1>3, <1>4

-----------------------------------------------------------------------------
(* Pattern files                                                           *)

\* Words put together.
LEMMA Words ==
  /\ \A t, u : <<t>> \o <<u>> = <<t, u>>
  /\ \A t, u, v : <<t>> \o <<u, v>> = <<t, u, v>>
<1>1. ASSUME NEW t, NEW u PROVE <<t>> \o <<u>> = <<t, u>>
  <2> DEFINE s == <<t>> \o <<u>>
  <2>1. <<t>> \in Seq({t, u}) /\ <<u>> \in Seq({t, u})
    OBVIOUS
  <2>2. s \in Seq({t, u}) /\ Len(s) = 2 /\ s[1] = t /\ s[2] = u
    BY <2>1
  <2> HIDE DEF s
  <2>3. s = <<t, u>>
    BY <2>2
  <2> QED BY <2>3 DEF s
<1>2. ASSUME NEW t, NEW u, NEW v PROVE <<t>> \o <<u, v>> = <<t, u, v>>
  <2> DEFINE s == <<t>> \o <<u, v>>
  <2>1. <<t>> \in Seq({t, u, v}) /\ <<u, v>> \in Seq({t, u, v})
    OBVIOUS
  <2>2. s \in Seq({t, u, v}) /\ Len(s) = 3 /\ s[1] = t /\ s[2] = u /\ s[3] = v
    BY <2>1
  <2> HIDE DEF s
  <2>3. s = <<t, u, v>>
    BY <2>2
  <2> QED BY <2>3 DEF s
<1> QED BY <1>1, <1>2

\* A line of one or two words that are there has them; an empty one leaves none.
LEMMA LineIs ==
  /\ \A key, t : t # "" => Line(key, <<t>>) = <<key, t>>
  /\ \A key : Line(key, <<"">>) = <<key>>
  /\ \A key, t, u : t # "" /\ u # "" => Line(key, <<t, u>>) = <<key, t, u>>
<1>1. ASSUME NEW key, NEW t, t # "" PROVE Line(key, <<t>>) = <<key, t>>
  <2> DEFINE s == <<t>>
  <2>1. s \in Seq({t}) /\ DOMAIN s = {1} /\ s[1] = t
    OBVIOUS
  <2> HIDE DEF s
  <2>2. Without(s, "") = s
    <3>1. \A n \in DOMAIN s : s[n] # ""
      BY <1>1, <2>1
    <3> QED BY <2>1, <3>1, WithoutNone
  <2>3. Line(key, s) = <<key>> \o s
    BY <2>2 DEF Line
  <2> QED BY <2>3, Words DEF s
<1>2. ASSUME NEW key PROVE Line(key, <<"">>) = <<key>>
  <2> DEFINE s == <<"">>
             none == [n \in DOMAIN s |-> IF s[n] = "" THEN <<>> ELSE <<s[n]>>]
  <2>1. DOMAIN s = 1 .. 1 /\ s[1] = ""
    OBVIOUS
  <2>2. Len(none) = 1 /\ none[1] = <<>>
    <3> HIDE DEF s
    <3>1. none = [n \in 1 .. 1 |-> <<>>]
      <4>1. \A n \in 1 .. 1 : n = 1
        OBVIOUS
      <4>2. \A n \in 1 .. 1 : s[n] = ""
        BY ONLY <2>1, <4>1
      <4> QED BY <2>1, <4>2
    <3> HIDE DEF none
    <3> QED BY <3>1
  <2>3. FlattenSeq(none) = <<>>
    <3> HIDE DEF none
    <3>1. Len(none) \in Nat \ {0}
      BY <2>2
    <3>2. PICK f : /\ f = [i \in 1 .. Len(none) |-> IF i = 1 THEN none[i] ELSE f[i - 1] \o none[i]]
                   /\ FlattenSeq(none) = f[Len(none)]
      BY <3>1, FlattenSteps
    <3> QED BY <2>2, <3>2
  <2>4. Without(s, "") = <<>>
    BY <2>3 DEF Without
  <2>5. <<key>> \o <<>> = <<key>>
    <3>1. <<key>> \in Seq({key})
      OBVIOUS
    <3> QED BY <3>1
  <2>6. Line(key, s) = <<key>>
    <3> HIDE DEF s
    <3> QED BY <2>4, <2>5 DEF Line
  <2> QED BY <2>6
<1>3. ASSUME NEW key, NEW t, NEW u, t # "", u # "" PROVE Line(key, <<t, u>>) = <<key, t, u>>
  <2> DEFINE s == <<t, u>>
  <2>1. s \in Seq({t, u}) /\ DOMAIN s = {1, 2} /\ s[1] = t /\ s[2] = u
    OBVIOUS
  <2> HIDE DEF s
  <2>2. Without(s, "") = s
    <3>1. \A n \in DOMAIN s : s[n] # ""
      BY <1>3, <2>1
    <3> QED BY <2>1, <3>1, WithoutNone
  <2>3. Line(key, s) = <<key>> \o s
    BY <2>2 DEF Line
  <2> QED BY <2>3, Words DEF s
<1> QED BY <1>1, <1>2, <1>3

\* What two sequences have, their concatenation has.
LEMMA JoinHas ==
  ASSUME NEW S, NEW s \in Seq(S), NEW t \in Seq(S)
  PROVE  s \o t \in Seq(S) /\ Range(s \o t) = Range(s) \cup Range(t)
<1> DEFINE st == s \o t
<1>1. /\ st \in Seq(S) /\ Len(st) = Len(s) + Len(t) /\ Len(s) \in Nat /\ Len(t) \in Nat
      /\ \A n \in 1 .. Len(s) : st[n] = s[n]
      /\ \A n \in 1 .. Len(t) : st[Len(s) + n] = t[n]
  OBVIOUS
<1> HIDE DEF st
<1>2. DOMAIN st = 1 .. Len(s) + Len(t) /\ DOMAIN s = 1 .. Len(s) /\ DOMAIN t = 1 .. Len(t)
  BY <1>1
<1>3. ASSUME NEW n \in DOMAIN st PROVE st[n] \in Range(s) \cup Range(t)
  <2>1. CASE n <= Len(s)
    <3>1. n \in 1 .. Len(s)
      BY <1>1, <1>2, <2>1
    <3> QED BY <1>1, <1>2, <3>1 DEF Range
  <2>2. CASE ~ (n <= Len(s))
    <3>1. n - Len(s) \in 1 .. Len(t) /\ n = Len(s) + (n - Len(s))
      BY <1>1, <1>2, <2>2
    <3> QED BY <1>1, <1>2, <3>1 DEF Range
  <2> QED BY <2>1, <2>2
<1>4. ASSUME NEW n \in DOMAIN s PROVE s[n] \in Range(st)
  <2>1. n \in DOMAIN st /\ st[n] = s[n]
    BY <1>1, <1>2
  <2> QED BY <2>1 DEF Range
<1>5. ASSUME NEW n \in DOMAIN t PROVE t[n] \in Range(st)
  <2>1. Len(s) + n \in DOMAIN st /\ st[Len(s) + n] = t[n]
    BY <1>1, <1>2
  <2> QED BY <2>1 DEF Range
<1>6. Range(st) = Range(s) \cup Range(t)
  <2>1. \A x \in Range(st) : x \in Range(s) \cup Range(t)
    BY <1>3 DEF Range
  <2>2. \A x \in Range(s) : x \in Range(st)
    BY <1>4 DEF Range
  <2>3. \A x \in Range(t) : x \in Range(st)
    BY <1>5 DEF Range
  <2> QED BY <2>1, <2>2, <2>3
<1> QED BY <1>1, <1>6 DEF st

\* the lines of a header, each there once or not at all
Before(pf) == {<<"#", "rokkdoxx pattern">>, Line("seed", <<pf.seed>>), <<"y", ToText(pf.y)>>,
               <<"center", pf.center_x, pf.center_z>>, <<"radius", pf.radius>>,
               <<"orientations", IF pf.all_orientations THEN "all" ELSE "exact">>}
              \cup (IF pf.edition = "bedrock" THEN {<<"edition", "bedrock">>} ELSE {})
              \cup (IF pf.checkpoint # "" THEN {<<"checkpoint", pf.checkpoint>>} ELSE {})
              \cup (IF pf.stop_first THEN {<<"stop_at_first", "yes">>} ELSE {})

\* A file is its header, its size, and the rows of its grid.
LEMMA SavedIs ==
  ASSUME NEW pf \in PatternFiles
  PROVE  \E header \in Seq(Before(pf)) :
           /\ Range(header) = Before(pf)
           /\ Save(pf) = (header \o << <<"size", ToText(Len(pf.grid[1])), ToText(Len(pf.grid))>> >>) \o pf.grid
<1> DEFINE first == <<"#", "rokkdoxx pattern">>
           seed == Line("seed", <<pf.seed>>)
           y == <<"y", ToText(pf.y)>>
           center == <<"center", pf.center_x, pf.center_z>>
           radius == <<"radius", pf.radius>>
           turns == <<"orientations", IF pf.all_orientations THEN "all" ELSE "exact">>
           edition == <<"edition", "bedrock">>
           checkpoint == <<"checkpoint", pf.checkpoint>>
           stop == <<"stop_at_first", "yes">>
           size == <<"size", ToText(Len(pf.grid[1])), ToText(Len(pf.grid))>>
           a == <<first>>
           b == Optional(pf.edition = "bedrock", edition)
           c == <<seed, y, center, radius, turns>>
           d == Optional(pf.checkpoint # "", checkpoint)
           e == Optional(pf.stop_first, stop)
           header == a \o b \o c \o d \o e
<1>1. \A n : HasText(n) => ToText(n) \in Texts /\ ToText(n) # "" /\ Number[ToText(n)] = n
  BY DEF HasText, ToText
<1>2. /\ HasText(pf.y) /\ HasText(Len(pf.grid)) /\ HasText(Len(pf.grid[1])) /\ pf.center_x # ""
      /\ pf.center_z # "" /\ pf.radius # "" /\ pf.stop_first \in BOOLEAN
  BY DEF PatternFiles
<1>3. /\ Line("#", <<"rokkdoxx pattern">>) = first /\ Line("y", <<ToText(pf.y)>>) = y
      /\ Line("center", <<pf.center_x, pf.center_z>>) = center /\ Line("radius", <<pf.radius>>) = radius
      /\ Line("orientations", <<IF pf.all_orientations THEN "all" ELSE "exact">>) = turns
      /\ Line("edition", <<"bedrock">>) = edition
      /\ (pf.checkpoint # "" => Line("checkpoint", <<pf.checkpoint>>) = checkpoint)
      /\ Line("stop_at_first", <<"yes">>) = stop
      /\ Line("size", <<ToText(Len(pf.grid[1])), ToText(Len(pf.grid))>>) = size
  BY <1>1, <1>2, LineIs
<1>4. Save(pf) = (header \o <<size>>) \o pf.grid
  <2>1. Optional(pf.checkpoint # "", Line("checkpoint", <<pf.checkpoint>>)) = d
    BY <1>3 DEF Optional
  <2> QED BY <1>3, <2>1 DEF Save
<1>5. Before(pf) = {first, seed, y, center, radius, turns}
                     \cup (IF pf.edition = "bedrock" THEN {edition} ELSE {})
                     \cup (IF pf.checkpoint # "" THEN {checkpoint} ELSE {})
                     \cup (IF pf.stop_first THEN {stop} ELSE {})
  BY DEF Before
<1> HIDE DEF first, seed, y, center, radius, turns, edition, checkpoint, stop, size
<1> DEFINE S == Before(pf)
<1>6. first \in S /\ seed \in S /\ y \in S /\ center \in S /\ radius \in S /\ turns \in S
  BY <1>5
<1> HIDE DEF S
<1>7. /\ a \in Seq(S) /\ Range(a) = {first}
      /\ c \in Seq(S) /\ Range(c) = {seed, y, center, radius, turns}
  <2>1. a \in Seq(S) /\ DOMAIN a = {1} /\ a[1] = first
    BY <1>6
  <2>2. c \in Seq(S) /\ DOMAIN c = {1, 2, 3, 4, 5} /\ c[1] = seed /\ c[2] = y /\ c[3] = center
        /\ c[4] = radius /\ c[5] = turns
    BY <1>6
  <2> HIDE DEF a, c
  <2> QED BY <2>1, <2>2 DEF Range
<1>8. ASSUME NEW there \in BOOLEAN, NEW line, there => line \in S
      PROVE  Optional(there, line) \in Seq(S) /\ Range(Optional(there, line)) = IF there THEN {line} ELSE {}
  <2>1. CASE there
    <3> DEFINE one == <<line>>
    <3>1. one \in Seq(S) /\ DOMAIN one = {1} /\ one[1] = line
      BY <1>8, <2>1
    <3>2. Optional(there, line) = one
      BY <2>1 DEF Optional
    <3> HIDE DEF one
    <3>3. Range(one) = {line}
      BY <3>1 DEF Range
    <3> QED BY <2>1, <3>1, <3>2, <3>3
  <2>2. CASE ~there
    BY <2>2 DEF Optional, Range
  <2> QED BY <2>1, <2>2
<1>9. /\ b \in Seq(S) /\ Range(b) = IF pf.edition = "bedrock" THEN {edition} ELSE {}
      /\ d \in Seq(S) /\ Range(d) = IF pf.checkpoint # "" THEN {checkpoint} ELSE {}
      /\ e \in Seq(S) /\ Range(e) = IF pf.stop_first THEN {stop} ELSE {}
  BY <1>2, <1>5, <1>8 DEF S
<1> HIDE DEF a, b, c, d, e
<1>10. \A s, t \in Seq(S) : s \o t \in Seq(S) /\ Range(s \o t) = Range(s) \cup Range(t)
  BY JoinHas
<1>11. header \in Seq(S) /\ Range(header) = Range(a) \cup Range(b) \cup Range(c) \cup Range(d) \cup Range(e)
  <2>1. a \o b \in Seq(S) /\ Range(a \o b) = Range(a) \cup Range(b)
    BY <1>7, <1>9, <1>10
  <2>2. a \o b \o c \in Seq(S) /\ Range(a \o b \o c) = Range(a \o b) \cup Range(c)
    BY <1>7, <2>1, <1>10
  <2>3. a \o b \o c \o d \in Seq(S) /\ Range(a \o b \o c \o d) = Range(a \o b \o c) \cup Range(d)
    BY <1>9, <2>2, <1>10
  <2>4. header \in Seq(S) /\ Range(header) = Range(a \o b \o c \o d) \cup Range(e)
    BY <1>9, <2>3, <1>10
  <2> QED BY <2>1, <2>2, <2>3, <2>4
<1>12. Range(header) = S
  BY <1>5, <1>7, <1>9, <1>11 DEF S
<1> HIDE DEF header
<1> QED BY <1>4, <1>11, <1>12 DEF S, size

\* The lines of a header begin with known keywords.
LEMMA HeaderWords ==
  ASSUME NEW pf \in PatternFiles, NEW l \in Before(pf)
  PROVE  l # <<>> /\ l[1] \in HeaderKeys \cup {"#"}
<1>1. Line("seed", <<pf.seed>>) = IF pf.seed = "" THEN <<"seed">> ELSE <<"seed", pf.seed>>
  BY LineIs
<1>2. /\ \A a : <<a>> # <<>> /\ <<a>>[1] = a
      /\ \A a, b : <<a, b>> # <<>> /\ <<a, b>>[1] = a
      /\ \A a, b, c : <<a, b, c>> # <<>> /\ <<a, b, c>>[1] = a
  OBVIOUS
<1>3. \/ l = <<"seed">>
      \/ \E t : \E key \in {"#", "seed", "y", "radius", "orientations", "edition", "checkpoint", "stop_at_first"} :
            l = <<key, t>>
      \/ \E t, u : l = <<"center", t, u>>
  BY <1>1 DEF Before
<1> QED BY <1>2, <1>3 DEF HeaderKeys

\* Where the lines of a saved file are.
LEMMA SavedLines ==
  ASSUME NEW pf \in PatternFiles, NEW header \in Seq(Before(pf)), NEW size,
         NEW lines, lines = (header \o <<size>>) \o pf.grid
  PROVE  /\ Len(lines) = Len(header) + 1 + Len(pf.grid) /\ DOMAIN lines = 1 .. Len(lines)
         /\ \A n \in 1 .. Len(header) : lines[n] = header[n] /\ header[n] \in Before(pf)
         /\ lines[Len(header) + 1] = size
         /\ \A j \in 1 .. Len(pf.grid) : lines[Len(header) + 1 + j] = pf.grid[j]
         /\ \E S : lines \in Seq(S)
<1> DEFINE S == Before(pf) \cup {size} \cup Seq(Cells)
           top == header \o <<size>>
           h == Len(header)
           g == Len(pf.grid)
<1>1. pf.grid \in Seq(Seq(Cells))
  BY DEF PatternFiles
<1>2. header \in Seq(S) /\ <<size>> \in Seq(S) /\ pf.grid \in Seq(S) /\ h \in Nat /\ g \in Nat
  <2>1. Before(pf) \subseteq S /\ Seq(Cells) \subseteq S /\ size \in S
    OBVIOUS
  <2> HIDE DEF S
  <2>2. \A A : A \subseteq S => Seq(A) \subseteq Seq(S)
    OBVIOUS
  <2> QED BY <1>1, <2>1, <2>2
<1>3. \A n \in 1 .. h : header[n] \in Before(pf)
  OBVIOUS
<1> HIDE DEF S
<1>4. /\ top \in Seq(S) /\ Len(top) = h + 1 /\ top[h + 1] = size
      /\ \A n \in 1 .. h : top[n] = header[n]
  BY <1>2
<1> HIDE DEF top
<1>5. /\ lines \in Seq(S) /\ Len(lines) = h + 1 + g
      /\ \A n \in 1 .. h + 1 : lines[n] = top[n]
      /\ \A j \in 1 .. g : lines[h + 1 + j] = pf.grid[j]
  <2>1. lines = top \o pf.grid
    BY DEF top
  <2> QED BY <1>2, <1>4, <2>1
<1>6. h + 1 \in 1 .. h + 1 /\ \A n \in 1 .. h : n \in 1 .. h + 1
  BY <1>2
<1>7. lines[h + 1] = size /\ \A n \in 1 .. h : lines[n] = header[n] /\ header[n] \in Before(pf)
  BY <1>3, <1>4, <1>5, <1>6
<1>8. \E T : lines \in Seq(T)
  BY <1>5
<1>9. DOMAIN lines = 1 .. Len(lines)
  BY <1>5
<1> QED BY <1>5, <1>7, <1>8, <1>9

\* What a key of a header stands for, if the header has a line for it with enough
\* words, and only that one.
LEMMA ValueIs ==
  ASSUME NEW lines, NEW h \in Nat, NEW B, \A n \in 1 .. h : lines[n] \in B,
         \A l \in B : \E n \in 1 .. h : lines[n] = l,
         NEW key, NEW k, NEW default
  PROVE  /\ (\A l \in B : ~ (l[1] = key /\ Len(l) > k)) => Value(lines, h + 1, key, k, default) = default
         /\ \A line \in B : (/\ line[1] = key /\ Len(line) > k
                             /\ \A l \in B : l[1] = key => l = line)
              => Value(lines, h + 1, key, k, default) = line[k + 1]
<1> DEFINE found == {n \in 1 .. h : lines[n][1] = key /\ Len(lines[n]) > k}
<1>1. Value(lines, h + 1, key, k, default) = IF found = {} THEN default ELSE lines[Max(found)][k + 1]
  <2>1. (h + 1) - 1 = h
    OBVIOUS
  <2> QED BY <2>1 DEF Value
<1>2. ASSUME \A l \in B : ~ (l[1] = key /\ Len(l) > k) PROVE found = {}
  BY <1>2
<1>3. ASSUME NEW line \in B, line[1] = key, Len(line) > k, \A l \in B : l[1] = key => l = line
      PROVE  found # {} /\ lines[Max(found)] = line
  <2>1. found # {}
    BY <1>3
  <2>2. \A n \in found : lines[n] = line
    BY <1>3
  <2>3. found \in SUBSET (1 .. h)
    OBVIOUS
  <2>4. Max(found) \in found
    <3> HIDE DEF found
    <3> QED BY <2>1, <2>3, MaxIn
  <2> QED BY <2>1, <2>2, <2>4
<1> HIDE DEF found
<1> QED BY <1>1, <1>2, <1>3

\* The grid of a saved file is a pattern's, whose size has a text.
LEMMA GridIs ==
  ASSUME NEW pf \in PatternFiles
  PROVE  /\ pf.grid \in Seq(Seq(Cells))
         /\ Len(pf.grid) \in 1 .. MaxDim /\ Len(pf.grid[1]) \in 1 .. MaxDim /\ MaxDim \in Nat
         /\ \A j \in 1 .. Len(pf.grid) : pf.grid[j] \in Seq(Cells) /\ Len(pf.grid[j]) = Len(pf.grid[1])
         /\ Number[ToText(Len(pf.grid))] = Len(pf.grid)
         /\ Number[ToText(Len(pf.grid[1]))] = Len(pf.grid[1])
         /\ Number[ToText(pf.y)] = pf.y
<1> DEFINE g == Len(pf.grid)
           c == Len(pf.grid[1])
<1>1. pf.grid \in Seq(Seq(Cells)) /\ MaxDim \in Nat
  BY PatternFileAssumption DEF PatternFiles
<1>2. g \in 1 .. MaxDim /\ c \in 1 .. MaxDim /\ HasText(pf.y) /\ HasText(g) /\ HasText(c)
  BY DEF PatternFiles
<1>3. \A j \in DOMAIN pf.grid : Len(pf.grid[j]) = c
  BY DEF PatternFiles
<1>4. \A n : HasText(n) => Number[ToText(n)] = n
  BY DEF HasText, ToText
<1>5. DOMAIN pf.grid = 1 .. g /\ \A j \in 1 .. g : pf.grid[j] \in Seq(Cells)
  BY <1>1
<1> QED BY <1>1, <1>2, <1>3, <1>4, <1>5

\* The header of a saved file is read to its end, and what is between is its text.
LEMMA SavedHeader ==
  ASSUME NEW pf \in PatternFiles
  PROVE  \E h \in Nat :
           LET lines == Save(pf)
               size == <<"size", ToText(Len(pf.grid[1])), ToText(Len(pf.grid))>>
           IN /\ ReadLines(lines) = lines /\ HeaderEnd(lines) = h + 1
              /\ DOMAIN lines = 1 .. Len(lines) /\ Len(lines) = h + 1 + Len(pf.grid)
              /\ (\E S : lines \in Seq(S))
              /\ \A n \in 1 .. h : lines[n] \in Before(pf)
              /\ \A l \in Before(pf) : \E n \in 1 .. h : lines[n] = l
              /\ lines[h + 1] = size
              /\ \A j \in 1 .. Len(pf.grid) : lines[h + 1 + j] = pf.grid[j]
<1> DEFINE lines == Save(pf)
           size == <<"size", ToText(Len(pf.grid[1])), ToText(Len(pf.grid))>>
<1>1. PICK header \in Seq(Before(pf)) : /\ Range(header) = Before(pf)
                                        /\ lines = (header \o <<size>>) \o pf.grid
  BY SavedIs
<1>2. size # <<>> /\ size[1] = "size"
  OBVIOUS
<1> HIDE DEF lines, size
<1> DEFINE h == Len(header)
           g == Len(pf.grid)
<1>3. h \in Nat /\ DOMAIN header = 1 .. h
  OBVIOUS
<1>4. g \in Nat /\ \A j \in 1 .. g : pf.grid[j] # <<>>
  <2>1. pf.grid \in Seq(Seq(Cells)) /\ Len(pf.grid[1]) \in 1 .. MaxDim /\ MaxDim \in Nat
        /\ \A j \in 1 .. g : Len(pf.grid[j]) = Len(pf.grid[1])
    BY GridIs
  <2>2. \A j \in 1 .. g : Len(pf.grid[j]) # 0
    BY <2>1
  <2> QED BY <2>1, <2>2
<1>5. /\ Len(lines) = h + 1 + g /\ DOMAIN lines = 1 .. Len(lines)
      /\ \A n \in 1 .. h : lines[n] = header[n] /\ header[n] \in Before(pf)
      /\ lines[h + 1] = size
      /\ \A j \in 1 .. g : lines[h + 1 + j] = pf.grid[j]
      /\ \E S : lines \in Seq(S)
  <2> DEFINE There(sz, ls) == /\ Len(ls) = h + 1 + g /\ DOMAIN ls = 1 .. Len(ls)
                              /\ \A n \in 1 .. h : ls[n] = header[n] /\ header[n] \in Before(pf)
                              /\ ls[h + 1] = sz
                              /\ \A j \in 1 .. g : ls[h + 1 + j] = pf.grid[j]
                              /\ \E S : ls \in Seq(S)
  <2>1. \A sz, ls : ls = (header \o <<sz>>) \o pf.grid => There(sz, ls)
    BY SavedLines
  <2> HIDE DEF There
  <2>2. There(size, lines)
    BY ONLY <1>1, <2>1
  <2> QED BY <2>2 DEF There
<1>6. \A l \in Before(pf) : \E n \in 1 .. h : lines[n] = l
  <2>1. \A l \in Before(pf) : \E n \in DOMAIN header : header[n] = l
    BY <1>1 DEF Range
  <2> QED BY <1>3, <1>5, <2>1
<1>7. \A n \in 1 .. h : lines[n] \in Before(pf) /\ lines[n] # <<>> /\ lines[n][1] \in HeaderKeys \cup {"#"}
  BY <1>5, HeaderWords
<1> HIDE DEF h, g
<1>8. \A n \in 1 .. (h + 1 + g) : n \in 1 .. h \/ n = h + 1 \/ \E j \in 1 .. g : n = h + 1 + j
  <2>1. SUFFICES ASSUME NEW n \in 1 .. (h + 1 + g), n \notin 1 .. h, n # h + 1
                 PROVE  n - (h + 1) \in 1 .. g /\ n = h + 1 + (n - (h + 1))
    OBVIOUS
  <2> QED BY ONLY <1>3, <1>4, <2>1
<1>9. h + 1 \in 1 .. (h + 1 + g)
  BY ONLY <1>3, <1>4
<1>10. ReadLines(lines) = lines
  <2>1. \A n \in DOMAIN lines : lines[n] # <<>>
    <3> SUFFICES ASSUME NEW n \in DOMAIN lines PROVE lines[n] # <<>>
      OBVIOUS
    <3>1. n \in 1 .. (h + 1 + g)
      BY ONLY <1>5
    <3>2. CASE n \in 1 .. h
      BY ONLY <1>7, <3>2
    <3>3. CASE n = h + 1
      BY ONLY <1>2, <1>5, <3>3
    <3>4. ASSUME NEW j \in 1 .. g, n = h + 1 + j PROVE lines[n] # <<>>
      BY ONLY <1>4, <1>5, <3>4
    <3> QED BY ONLY <1>8, <3>1, <3>2, <3>3, <3>4
  <2> QED BY <1>5, <2>1, WithoutNone DEF ReadLines
<1>11. HeaderEnd(lines) = h + 1
  <2> DEFINE ends == {n \in DOMAIN lines : lines[n][1] \notin HeaderKeys \cup {"#"}} \cup {Len(lines) + 1}
  <2>1. h + 1 \in ends
    <3>1. "size" \notin HeaderKeys \cup {"#"}
      BY DEF HeaderKeys
    <3> QED BY <1>2, <1>5, <1>9, <3>1
  <2>2. ends \in SUBSET Nat /\ \A n \in ends : h + 1 <= n
    <3>1. ASSUME NEW n \in ends PROVE n \in Nat /\ h + 1 <= n
      <4>1. CASE n \in DOMAIN lines /\ lines[n][1] \notin HeaderKeys \cup {"#"}
        <5>1. n \in 1 .. (h + 1 + g) /\ n \notin 1 .. h
          BY <1>5, <1>7, <4>1
        <5> QED BY ONLY <1>3, <1>4, <5>1
      <4>2. CASE n = Len(lines) + 1
        <5>1. n = (h + 1 + g) + 1
          BY <1>5, <4>2
        <5> QED BY ONLY <1>3, <1>4, <5>1
      <4> QED BY <3>1, <4>1, <4>2
    <3> HIDE DEF ends
    <3> QED BY <3>1
  <2> DEFINE m == Min(ends)
  <2> HIDE DEF ends
  <2>3. m \in ends /\ \A n \in ends : m <= n
    BY <2>1, <2>2, MinIn
  <2>4. m \in Nat /\ m <= h + 1 /\ h + 1 <= m
    BY <2>1, <2>2, <2>3
  <2> HIDE DEF m
  <2>5. m = h + 1
    BY ONLY <1>3, <2>4
  <2> QED BY <2>5 DEF HeaderEnd, ends, m
<1> QED BY <1>3, <1>5, <1>6, <1>7, <1>10, <1>11 DEF lines, size, g

\* The grid is read back as it was.
LEMMA GridLoaded ==
  ASSUME NEW pf \in PatternFiles, NEW h \in Nat, NEW lines, NEW S, lines \in Seq(S),
         Len(lines) = h + 1 + Len(pf.grid),
         lines[h + 1] = <<"size", ToText(Len(pf.grid[1])), ToText(Len(pf.grid))>>,
         \A j \in 1 .. Len(pf.grid) : lines[h + 1 + j] = pf.grid[j]
  PROVE  GridFrom(lines, h + 1) = pf.grid
<1> DEFINE grid == pf.grid
           g == Len(grid)
           c == Len(grid[1])
           rows == SubSeq(lines, h + 2, Len(lines))
<1>1. /\ grid \in Seq(Seq(Cells)) /\ g \in 1 .. MaxDim /\ c \in 1 .. MaxDim /\ MaxDim \in Nat
      /\ \A j \in 1 .. g : grid[j] \in Seq(Cells) /\ Len(grid[j]) = c
      /\ Number[ToText(g)] = g /\ Number[ToText(c)] = c
  BY GridIs
<1>2. DOMAIN grid = 1 .. g /\ grid = [j \in 1 .. g |-> grid[j]]
  BY <1>1
<1>3. /\ lines[h + 1][1] = "size" /\ Len(lines[h + 1]) = 3
      /\ lines[h + 1][2] = ToText(c) /\ lines[h + 1][3] = ToText(g)
  OBVIOUS
<1>4. Len(lines) = h + 1 + g /\ \A j \in 1 .. g : lines[h + 1 + j] = grid[j]
  OBVIOUS
<1>5. DOMAIN lines = 1 .. Len(lines) /\ Len(lines) \in Nat
  BY ONLY lines \in Seq(S)
<1> HIDE DEF grid, g, c
<1>6. g \in Nat \ {0} /\ c \in Nat \ {0} /\ Clamped(g) = g /\ Clamped(c) = c
  BY ONLY <1>1 DEF Clamped
<1>7. h + 1 \in DOMAIN lines /\ (h + 1) + 1 = h + 2
  BY ONLY h \in Nat, <1>4, <1>5, <1>6
<1>8. rows = grid
  <2>1. h + 2 \in 1 .. Len(lines) + 1 /\ Len(lines) - (h + 2) + 1 = g /\ Len(lines) \in Int /\ h + 2 \in Int
    BY ONLY h \in Nat, <1>4, <1>6
  <2>2. DOMAIN rows = 1 .. g /\ \A k \in 1 .. g : rows[k] = lines[k + (h + 2) - 1]
    BY ONLY lines \in Seq(S), <1>4, <1>6, <2>1, h \in Nat
  <2>3. \A k \in 1 .. g : k + (h + 2) - 1 = h + 1 + k
    BY ONLY h \in Nat, <1>6
  <2>4. rows = [k \in 1 .. g |-> rows[k]]
    BY ONLY lines \in Seq(S), <2>1, <2>2, h \in Nat
  <2>5. [k \in 1 .. g |-> rows[k]] = [k \in 1 .. g |-> grid[k]]
    <3> HIDE DEF rows
    <3> QED BY <1>4, <2>2, <2>3
  <2> QED BY <1>2, <2>4, <2>5
<1>9. GridFrom(lines, h + 1) =
        [j \in 1 .. g |-> [i \in 1 .. c |->
           IF j \in DOMAIN rows /\ i \in DOMAIN rows[j] /\ rows[j][i] \in {"#", "o"}
           THEN rows[j][i] ELSE "."]]
  <2> DEFINE declared(k) == IF Len(lines[h + 1]) > k THEN Number[lines[h + 1][k + 1]] ELSE 0
  <2>1. declared(1) = c /\ declared(2) = g
    BY <1>1, <1>3
  <2>2. g # 0 /\ c > 0
    BY <1>6
  <2> QED BY <1>3, <1>6, <1>7, <2>1, <2>2 DEF GridFrom
<1>10. \A j \in 1 .. g :
         grid[j] = [i \in 1 .. c |-> IF grid[j][i] \in {"#", "o"} THEN grid[j][i] ELSE "."]
  <2> SUFFICES ASSUME NEW j \in 1 .. g
               PROVE  grid[j] = [i \in 1 .. c |-> IF grid[j][i] \in {"#", "o"} THEN grid[j][i] ELSE "."]
    OBVIOUS
  <2> DEFINE row == grid[j]
  <2>1. row \in Seq(Cells) /\ Len(row) = c
    BY <1>1
  <2> HIDE DEF row
  <2>2. \A i \in 1 .. c : row[i] \in Cells
    BY <2>1
  <2>3. row = [i \in 1 .. c |-> row[i]]
    BY <2>1
  <2>4. \A i \in 1 .. c : row[i] = IF row[i] \in {"#", "o"} THEN row[i] ELSE "."
    BY <2>2 DEF Cells
  <2>5. row = [i \in 1 .. c |-> IF row[i] \in {"#", "o"} THEN row[i] ELSE "."]
    BY <2>3, <2>4
  <2> QED BY <2>5 DEF row
<1>11. \A j \in 1 .. g : DOMAIN grid[j] = 1 .. c
  BY <1>1
<1> HIDE DEF rows
<1>12. [j \in 1 .. g |-> [i \in 1 .. c |->
           IF j \in DOMAIN rows /\ i \in DOMAIN rows[j] /\ rows[j][i] \in {"#", "o"}
           THEN rows[j][i] ELSE "."]] = [j \in 1 .. g |-> grid[j]]
  <2> DEFINE L(j) == [i \in 1 .. c |->
                       IF j \in DOMAIN rows /\ i \in DOMAIN rows[j] /\ rows[j][i] \in {"#", "o"}
                       THEN rows[j][i] ELSE "."]
  <2>1. ASSUME NEW j \in 1 .. g PROVE L(j) = grid[j]
    <3>1. j \in DOMAIN rows /\ rows[j] = grid[j] /\ DOMAIN rows[j] = 1 .. c
      BY <1>2, <1>8, <1>11
    <3>2. L(j) = [i \in 1 .. c |-> IF grid[j][i] \in {"#", "o"} THEN grid[j][i] ELSE "."]
      BY <3>1
    <3> QED BY <1>10, <3>2
  <2> HIDE DEF L
  <2>2. [j \in 1 .. g |-> L(j)] = [j \in 1 .. g |-> grid[j]]
    BY <2>1
  <2> QED BY <2>2 DEF L
<1> QED BY <1>2, <1>9, <1>12 DEF grid

\* Every keyword is that of one line of the header at most.
LEMMA KeysOnce ==
  ASSUME NEW pf \in PatternFiles
  PROVE  \A l \in Before(pf) :
           /\ l[1] = "seed" => l = Line("seed", <<pf.seed>>)
           /\ l[1] = "y" => l = <<"y", ToText(pf.y)>>
           /\ l[1] = "center" => l = <<"center", pf.center_x, pf.center_z>>
           /\ l[1] = "radius" => l = <<"radius", pf.radius>>
           /\ l[1] = "orientations" =>
                l = <<"orientations", IF pf.all_orientations THEN "all" ELSE "exact">>
           /\ l[1] = "edition" => pf.edition = "bedrock" /\ l = <<"edition", "bedrock">>
           /\ l[1] = "checkpoint" => pf.checkpoint # "" /\ l = <<"checkpoint", pf.checkpoint>>
           /\ l[1] = "stop_at_first" => pf.stop_first /\ l = <<"stop_at_first", "yes">>
<1> DEFINE first == <<"#", "rokkdoxx pattern">>
           seed == Line("seed", <<pf.seed>>)
           y == <<"y", ToText(pf.y)>>
           center == <<"center", pf.center_x, pf.center_z>>
           radius == <<"radius", pf.radius>>
           turns == <<"orientations", IF pf.all_orientations THEN "all" ELSE "exact">>
           edition == <<"edition", "bedrock">>
           checkpoint == <<"checkpoint", pf.checkpoint>>
           stop == <<"stop_at_first", "yes">>
<1>1. Before(pf) = {first, seed, y, center, radius, turns}
                     \cup (IF pf.edition = "bedrock" THEN {edition} ELSE {})
                     \cup (IF pf.checkpoint # "" THEN {checkpoint} ELSE {})
                     \cup (IF pf.stop_first THEN {stop} ELSE {})
  BY DEF Before
<1>2. seed[1] = "seed"
  <2>1. seed = IF pf.seed = "" THEN <<"seed">> ELSE <<"seed", pf.seed>>
    BY LineIs
  <2>2. \A a, b : <<a>>[1] = a /\ <<a, b>>[1] = a
    OBVIOUS
  <2> HIDE DEF seed
  <2> QED BY <2>1, <2>2
<1>3. /\ first[1] = "#" /\ y[1] = "y" /\ center[1] = "center" /\ radius[1] = "radius"
      /\ turns[1] = "orientations" /\ edition[1] = "edition" /\ checkpoint[1] = "checkpoint"
      /\ stop[1] = "stop_at_first"
  OBVIOUS
<1> HIDE DEF first, seed, y, center, radius, turns, edition, checkpoint, stop
<1>4. \A l \in Before(pf) :
        /\ l[1] = "seed" => l = seed
        /\ l[1] = "y" => l = y
        /\ l[1] = "center" => l = center
        /\ l[1] = "radius" => l = radius
        /\ l[1] = "orientations" => l = turns
        /\ l[1] = "edition" => pf.edition = "bedrock" /\ l = edition
        /\ l[1] = "checkpoint" => pf.checkpoint # "" /\ l = checkpoint
        /\ l[1] = "stop_at_first" => pf.stop_first /\ l = stop
  BY <1>1, <1>2, <1>3
<1> QED BY <1>4 DEF seed, y, center, radius, turns, edition, checkpoint, stop

\* What is saved is loaded, but for a seed that is empty: it is read as "0", which is
\* the same number.
THEOREM LoadsSaved ==
  ASSUME NEW pf \in PatternFiles
  PROVE  Load(Save(pf)) = [pf EXCEPT !.seed = IF @ = "" THEN "0" ELSE @]
<1> DEFINE lines == Save(pf)
           B == Before(pf)
<1>1. PICK h \in Nat :
        /\ ReadLines(lines) = lines /\ HeaderEnd(lines) = h + 1
        /\ Len(lines) = h + 1 + Len(pf.grid)
        /\ (\E S : lines \in Seq(S))
        /\ \A n \in 1 .. h : lines[n] \in B
        /\ \A l \in B : \E n \in 1 .. h : lines[n] = l
        /\ lines[h + 1] = <<"size", ToText(Len(pf.grid[1])), ToText(Len(pf.grid))>>
        /\ \A j \in 1 .. Len(pf.grid) : lines[h + 1 + j] = pf.grid[j]
  BY SavedHeader
<1> HIDE DEF lines
<1> DEFINE Text(key, k, default) == Value(lines, h + 1, key, k, default)
<1>2. \A key, k, default :
         /\ (\A l \in B : ~ (l[1] = key /\ Len(l) > k)) => Text(key, k, default) = default
         /\ \A line \in B : (/\ line[1] = key /\ Len(line) > k
                             /\ \A l \in B : l[1] = key => l = line)
              => Text(key, k, default) = line[k + 1]
  <2> DEFINE Listed(ls, n, b) == (\A m \in 1 .. n : ls[m] \in b) /\ \A l \in b : \E m \in 1 .. n : ls[m] = l
             Says(ls, n, b, key, k, default) ==
               /\ (\A l \in b : ~ (l[1] = key /\ Len(l) > k)) => Value(ls, n + 1, key, k, default) = default
               /\ \A line \in b : (/\ line[1] = key /\ Len(line) > k
                                   /\ \A l \in b : l[1] = key => l = line)
                    => Value(ls, n + 1, key, k, default) = line[k + 1]
  <2>1. \A ls, b, key, k, default : \A n \in Nat : Listed(ls, n, b) => Says(ls, n, b, key, k, default)
    <3> SUFFICES ASSUME NEW ls, NEW b, NEW key, NEW k, NEW default, NEW n \in Nat, Listed(ls, n, b)
                 PROVE  Says(ls, n, b, key, k, default)
      OBVIOUS
    <3>1. (\A m \in 1 .. n : ls[m] \in b) /\ (\A l \in b : \E m \in 1 .. n : ls[m] = l)
      OBVIOUS
    <3> HIDE DEF Listed
    <3> QED BY <3>1, ValueIs
  <2>2. Listed(lines, h, B)
    BY <1>1
  <2> HIDE DEF Listed, Says, B
  <2>3. \A key, k, default : Says(lines, h, B, key, k, default)
    BY <2>1, <2>2
  <2> QED BY <2>3 DEF Says
<1>3. GridFrom(lines, h + 1) = pf.grid
  BY <1>1, GridLoaded
<1> HIDE DEF Text
<1>4. /\ <<"y", ToText(pf.y)>> \in B /\ <<"center", pf.center_x, pf.center_z>> \in B
      /\ <<"radius", pf.radius>> \in B /\ Line("seed", <<pf.seed>>) \in B
      /\ <<"orientations", IF pf.all_orientations THEN "all" ELSE "exact">> \in B
      /\ (pf.edition = "bedrock" => <<"edition", "bedrock">> \in B)
      /\ (pf.checkpoint # "" => <<"checkpoint", pf.checkpoint>> \in B)
      /\ (pf.stop_first => <<"stop_at_first", "yes">> \in B)
  BY DEF Before
<1>5. \A l \in B :
        /\ l[1] = "seed" => l = Line("seed", <<pf.seed>>)
        /\ l[1] = "y" => l = <<"y", ToText(pf.y)>>
        /\ l[1] = "center" => l = <<"center", pf.center_x, pf.center_z>>
        /\ l[1] = "radius" => l = <<"radius", pf.radius>>
        /\ l[1] = "orientations" =>
             l = <<"orientations", IF pf.all_orientations THEN "all" ELSE "exact">>
        /\ l[1] = "edition" => pf.edition = "bedrock" /\ l = <<"edition", "bedrock">>
        /\ l[1] = "checkpoint" => pf.checkpoint # "" /\ l = <<"checkpoint", pf.checkpoint>>
        /\ l[1] = "stop_at_first" => pf.stop_first /\ l = <<"stop_at_first", "yes">>
  BY KeysOnce
<1> HIDE DEF B
<1>6. \A key, t, default : (<<key, t>> \in B /\ \A l \in B : l[1] = key => l = <<key, t>>)
                             => Text(key, 1, default) = t
  <2> SUFFICES ASSUME NEW key, NEW t, NEW default,
                      <<key, t>> \in B, \A l \in B : l[1] = key => l = <<key, t>>
               PROVE  Text(key, 1, default) = t
    OBVIOUS
  <2> DEFINE line == <<key, t>>
  <2>1. line[1] = key /\ Len(line) > 1 /\ line[1 + 1] = t
    OBVIOUS
  <2>2. line \in B /\ \A l \in B : l[1] = key => l = line
    OBVIOUS
  <2> HIDE DEF line
  <2> QED BY <1>2, <2>1, <2>2
<1>7. Text("y", 1, ToText(DefaultFile.y)) = ToText(pf.y) /\ Text("radius", 1, DefaultFile.radius) = pf.radius
      /\ Text("orientations", 1, "all") = IF pf.all_orientations THEN "all" ELSE "exact"
  <2> DEFINE turns == IF pf.all_orientations THEN "all" ELSE "exact"
  <2>1. <<"orientations", turns>> \in B /\ \A l \in B : l[1] = "orientations" => l = <<"orientations", turns>>
    BY <1>4, <1>5
  <2> HIDE DEF turns
  <2>2. Text("orientations", 1, "all") = turns
    BY <1>6, <2>1
  <2>3. Text("y", 1, ToText(DefaultFile.y)) = ToText(pf.y)
    <3>1. <<"y", ToText(pf.y)>> \in B /\ \A l \in B : l[1] = "y" => l = <<"y", ToText(pf.y)>>
      BY <1>4, <1>5
    <3> QED BY <1>6, <3>1
  <2>4. Text("radius", 1, DefaultFile.radius) = pf.radius
    <3>1. <<"radius", pf.radius>> \in B /\ \A l \in B : l[1] = "radius" => l = <<"radius", pf.radius>>
      BY <1>4, <1>5
    <3> QED BY <1>6, <3>1
  <2> QED BY <2>2, <2>3, <2>4 DEF turns
<1>8. Text("center", 1, DefaultFile.center_x) = pf.center_x /\ Text("center", 2, DefaultFile.center_z) = pf.center_z
  <2> DEFINE line == <<"center", pf.center_x, pf.center_z>>
  <2>1. line[1] = "center" /\ Len(line) > 1 /\ Len(line) > 2 /\ line[1 + 1] = pf.center_x /\ line[2 + 1] = pf.center_z
    OBVIOUS
  <2>2. line \in B /\ \A l \in B : l[1] = "center" => l = line
    BY <1>4, <1>5
  <2> HIDE DEF line
  <2> QED BY <1>2, <2>1, <2>2
<1>9. Text("seed", 1, DefaultFile.seed) = IF pf.seed = "" THEN "0" ELSE pf.seed
  <2>1. Line("seed", <<pf.seed>>) = IF pf.seed = "" THEN <<"seed">> ELSE <<"seed", pf.seed>>
    BY LineIs
  <2>2. CASE pf.seed # ""
    <3>1. Line("seed", <<pf.seed>>) = <<"seed", pf.seed>>
      BY <2>1, <2>2
    <3>2. <<"seed", pf.seed>> \in B /\ \A l \in B : l[1] = "seed" => l = <<"seed", pf.seed>>
      BY <1>4, <1>5, <3>1
    <3>3. Text("seed", 1, DefaultFile.seed) = pf.seed
      BY <1>6, <3>2
    <3> QED BY <2>2, <3>3
  <2>3. CASE pf.seed = ""
    <3>1. Line("seed", <<pf.seed>>) = <<"seed">>
      BY <2>1, <2>3
    <3>2. ~ (Len(<<"seed">>) > 1)
      OBVIOUS
    <3>3. \A l \in B : ~ (l[1] = "seed" /\ Len(l) > 1)
      BY <1>5, <3>1, <3>2
    <3> QED BY <1>2, <2>3, <3>3 DEF DefaultFile
  <2> QED BY <2>2, <2>3
<1>10. \A key, default : (\A l \in B : l[1] # key) => Text(key, 1, default) = default
  BY <1>2
<1>11. /\ Text("edition", 1, "java") = IF pf.edition = "bedrock" THEN "bedrock" ELSE "java"
       /\ Text("checkpoint", 1, DefaultFile.checkpoint) = IF pf.checkpoint # "" THEN pf.checkpoint ELSE DefaultFile.checkpoint
       /\ Text("stop_at_first", 1, "no") = IF pf.stop_first THEN "yes" ELSE "no"
  <2>2. Text("edition", 1, "java") = IF pf.edition = "bedrock" THEN "bedrock" ELSE "java"
    <3>1. /\ pf.edition = "bedrock" => <<"edition", "bedrock">> \in B
          /\ \A l \in B : l[1] = "edition" => pf.edition = "bedrock" /\ l = <<"edition", "bedrock">>
      BY <1>4, <1>5
    <3> QED BY <1>6, <1>10, <3>1
  <2>3. Text("checkpoint", 1, DefaultFile.checkpoint) = IF pf.checkpoint # "" THEN pf.checkpoint ELSE DefaultFile.checkpoint
    <3>1. /\ pf.checkpoint # "" => <<"checkpoint", pf.checkpoint>> \in B
          /\ \A l \in B : l[1] = "checkpoint" => pf.checkpoint # "" /\ l = <<"checkpoint", pf.checkpoint>>
      BY <1>4, <1>5
    <3>2. CASE pf.checkpoint # ""
      BY <1>6, <3>1, <3>2
    <3>3. CASE pf.checkpoint = ""
      BY <1>10, <3>1, <3>3 DEF DefaultFile
    <3> QED BY <3>2, <3>3
  <2>4. Text("stop_at_first", 1, "no") = IF pf.stop_first THEN "yes" ELSE "no"
    <3>1. /\ pf.stop_first => <<"stop_at_first", "yes">> \in B
          /\ \A l \in B : l[1] = "stop_at_first" => pf.stop_first /\ l = <<"stop_at_first", "yes">>
      BY <1>4, <1>5
    <3> QED BY <1>6, <1>10, <3>1
  <2> QED BY <2>2, <2>3, <2>4
<1>12. Load(lines) =
         [edition |-> IF Text("edition", 1, "java") = "bedrock" THEN "bedrock" ELSE "java",
          seed |-> Text("seed", 1, DefaultFile.seed),
          y |-> Number[Text("y", 1, ToText(DefaultFile.y))],
          center_x |-> Text("center", 1, DefaultFile.center_x),
          center_z |-> Text("center", 2, DefaultFile.center_z),
          radius |-> Text("radius", 1, DefaultFile.radius),
          all_orientations |-> Text("orientations", 1, "all") # "exact",
          checkpoint |-> Text("checkpoint", 1, DefaultFile.checkpoint),
          stop_first |-> Text("stop_at_first", 1, "no") = "yes",
          grid |-> GridFrom(lines, h + 1)]
  BY <1>1 DEF Load, Text
<1>13. Number[ToText(pf.y)] = pf.y
  BY GridIs
<1>14. /\ pf.edition \in {"java", "bedrock"} /\ pf.stop_first \in BOOLEAN /\ pf.all_orientations \in BOOLEAN
       /\ pf = [edition |-> pf.edition, seed |-> pf.seed, y |-> pf.y, center_x |-> pf.center_x,
                center_z |-> pf.center_z, radius |-> pf.radius, all_orientations |-> pf.all_orientations,
                checkpoint |-> pf.checkpoint, stop_first |-> pf.stop_first, grid |-> pf.grid]
  BY DEF PatternFiles
<1>15. Load(lines) =
         [edition |-> pf.edition, seed |-> IF pf.seed = "" THEN "0" ELSE pf.seed, y |-> pf.y,
          center_x |-> pf.center_x, center_z |-> pf.center_z, radius |-> pf.radius,
          all_orientations |-> pf.all_orientations, checkpoint |-> pf.checkpoint,
          stop_first |-> pf.stop_first, grid |-> pf.grid]
  <2>1. /\ (IF Text("edition", 1, "java") = "bedrock" THEN "bedrock" ELSE "java") = pf.edition
        /\ (Text("orientations", 1, "all") # "exact") = pf.all_orientations
        /\ Text("checkpoint", 1, DefaultFile.checkpoint) = pf.checkpoint
        /\ (Text("stop_at_first", 1, "no") = "yes") = pf.stop_first
    BY <1>7, <1>11, <1>14 DEF DefaultFile
  <2> QED BY <1>3, <1>7, <1>8, <1>9, <1>12, <1>13, <2>1
<1> DEFINE seed == IF pf.seed = "" THEN "0" ELSE pf.seed
<1> HIDE DEF seed
<1>16. [pf EXCEPT !.seed = seed] =
         [edition |-> pf.edition, seed |-> seed, y |-> pf.y,
          center_x |-> pf.center_x, center_z |-> pf.center_z, radius |-> pf.radius,
          all_orientations |-> pf.all_orientations, checkpoint |-> pf.checkpoint,
          stop_first |-> pf.stop_first, grid |-> pf.grid]
  <2>1. PICK a, b, c, d, e, f, g, i, j, k :
          pf = [edition |-> a, seed |-> b, y |-> c, center_x |-> d, center_z |-> e, radius |-> f,
                all_orientations |-> g, checkpoint |-> i, stop_first |-> j, grid |-> k]
    BY <1>14
  <2> QED BY <2>1
<1> QED BY <1>15, <1>16 DEF lines, seed

-----------------------------------------------------------------------------
(* The pattern files                                                       *)

\* A file asks every command for what its pattern would.
LEMMA SameSearch ==
  ASSUME NEW pf \in PatternFiles, NEW c
  PROVE  LET loaded == Load(Save(pf)) IN
         /\ Asked(c, loaded) = Asked(c, pf)
         /\ Path(c, loaded) = Path(c, pf) /\ First(c, loaded) = First(c, pf)
         /\ loaded.stop_first = pf.stop_first
<1> DEFINE loaded == Load(Save(pf))
<1>1. /\ loaded.edition = pf.edition /\ loaded.y = pf.y /\ loaded.center_x = pf.center_x
      /\ loaded.center_z = pf.center_z /\ loaded.radius = pf.radius
      /\ loaded.all_orientations = pf.all_orientations /\ loaded.checkpoint = pf.checkpoint
      /\ loaded.stop_first = pf.stop_first /\ loaded.grid = pf.grid
      /\ loaded.seed = IF pf.seed = "" THEN "0" ELSE pf.seed
  <2>1. loaded = [pf EXCEPT !.seed = IF @ = "" THEN "0" ELSE @]
    BY LoadsSaved
  <2>2. pf \in [edition : {"java", "bedrock"}, seed : Texts, y : Int, center_x : Texts \ {""},
           center_z : Texts \ {""}, radius : Texts \ {""}, all_orientations : BOOLEAN,
           checkpoint : Texts, stop_first : BOOLEAN, grid : Seq(Seq(Cells))]
    BY DEF PatternFiles
  <2> QED BY <2>1, <2>2
<1> HIDE DEF loaded
<1>2. Number[Flag(c.seed, loaded.seed)] = Number[Flag(c.seed, pf.seed)]
  BY <1>1, PatternFileAssumption DEF Flag
<1>3. SearchRegion(c, loaded) = SearchRegion(c, pf) /\ Grid(c, loaded) = Grid(c, pf)
  <2>1. SearchRegion(c, loaded) = SearchRegion(c, pf)
    <3>1. Square(Number[loaded.center_x], Number[loaded.center_z], Number[loaded.radius])
            = Square(Number[pf.center_x], Number[pf.center_z], Number[pf.radius])
      BY ONLY <1>1
    <3> DEFINE region == c.region[1]
               center == Square(c.center[1][1], c.center[1][2], Flag(c.radius, 5000))
    <3>2. \A p : SearchRegion(c, p) =
                   IF c.region # <<>> THEN region ELSE IF c.center # <<>> THEN center
                   ELSE Square(Number[p.center_x], Number[p.center_z], Number[p.radius])
      BY DEF SearchRegion
    <3> HIDE DEF region, center
    <3> QED BY ONLY <3>1, <3>2
  <2> QED BY ONLY <1>1, <2>1 DEF Grid
<1> QED BY <1>1, <1>2, <1>3 DEF Asked, Path, First, loaded

\* What --demo writes is a pattern file.
LEMMA DemosArePatterns ==
  ASSUME NEW c \in Commands, c.demo, Flag(c.y, -60) \in DemoLayers(c)
  PROVE  DemoFiles(c) \subseteq PatternFiles
<1>1. /\ c \in CommandLines /\ Sizes \subseteq 1 .. MaxDim /\ Radii \subseteq Nat /\ Seeds \subseteq Int
      /\ \A n \in Sizes \cup Radii \cup Seeds \cup {-1} : HasText(n)
      /\ \A y \in Range(c.y) \cup {-60} : y \in DemoLayers(c) => HasText(y)
      /\ \A seed \in Range(c.seed) : HasText(Number[seed])
  BY RequestAssumption DEF Searches
<1>2. /\ Flag(c.edition, "java") \in {"java", "bedrock"} /\ Flag(c.y, -60) \in Int
      /\ Flag(c.all, TRUE) \in BOOLEAN /\ HasText(Flag(c.y, -60))
      /\ \A seed \in DemoSeeds(c) : HasText(seed)
  <2>1. \A S : \A flag \in Given(S) : flag = <<>> \/ (flag # <<>> /\ flag[1] \in S /\ flag[1] \in Range(flag))
    <3> SUFFICES ASSUME NEW S, NEW flag \in Given(S), flag # <<>>
                 PROVE  flag[1] \in S /\ flag[1] \in Range(flag)
      OBVIOUS
    <3>1. flag \in Seq(S) /\ 1 \in DOMAIN flag
      BY DEF Given
    <3> QED BY <3>1 DEF Range
  <2>2. /\ c.edition \in Given({"java", "bedrock"}) /\ c.y \in Given(Int) /\ c.all \in Given(BOOLEAN)
        /\ c.seed \in Given(Texts)
    BY <1>1 DEF CommandLines
  <2>3. Flag(c.edition, "java") \in {"java", "bedrock"} /\ Flag(c.all, TRUE) \in BOOLEAN
    BY <2>1, <2>2 DEF Flag
  <2>4. Flag(c.y, -60) \in Int /\ Flag(c.y, -60) \in Range(c.y) \cup {-60}
    BY <2>1, <2>2 DEF Flag
  <2>5. \A seed \in DemoSeeds(c) : HasText(seed)
    BY <1>1, <2>1, <2>2 DEF DemoSeeds
  <2> QED BY <1>1, <2>3, <2>4, <2>5
<1> SUFFICES ASSUME NEW r \in Radii, NEW seed \in DemoSeeds(c), NEW s \in Sizes, NEW px, NEW pz
             PROVE  DemoFile(c, seed, r, px, pz, s) \in PatternFiles
  BY DEF DemoFiles
<1> DEFINE y == Flag(c.y, -60)
           edition == Flag(c.edition, "java")
           radius == IF 2 * r + 1 >= 2 * Border THEN -1 ELSE r
           grid == CopyWorld(edition, seed, y, px - s \div 2, pz - s \div 2, s)
<1>3. HasText(radius) /\ HasText(s) /\ HasText(seed)
  BY <1>1, <1>2
<1>4. \A n : HasText(n) => ToText(n) \in Texts \ {""}
  BY DEF HasText, ToText
<1>5. grid \in Seq(Seq(Cells)) /\ Len(grid) = s /\ Len(grid[1]) = s /\ \A j \in DOMAIN grid : Len(grid[j]) = s
  <2>1. s \in Nat /\ s # 0
    <3>1. s \in 1 .. MaxDim /\ MaxDim \in Nat
      BY <1>1, PatternFileAssumption
    <3> QED BY ONLY <3>1
  <2> DEFINE cell(j, i) == IF World[<<edition, seed, y>>][<<(px - s \div 2) + i - 1, (pz - s \div 2) + j - 1>>] = 1 THEN "#" ELSE "o"
             row(j) == [i \in 1 .. s |-> cell(j, i)]
  <2>2. grid = [j \in 1 .. s |-> row(j)]
    BY DEF CopyWorld
  <2>3. \A j, i : cell(j, i) \in Cells
    BY DEF Cells
  <2> HIDE DEF cell, grid
  <2>4. \A j : row(j) \in Seq(Cells) /\ Len(row(j)) = s
    BY <2>1, <2>3
  <2> HIDE DEF row
  <2>5. grid \in Seq(Seq(Cells)) /\ Len(grid) = s /\ DOMAIN grid = 1 .. s /\ \A j \in 1 .. s : grid[j] = row(j)
    BY <2>1, <2>2, <2>4
  <2>6. 1 \in 1 .. s
    BY <2>1
  <2> QED BY <2>4, <2>5, <2>6
<1> HIDE DEF y, edition, radius, grid
<1> DEFINE no == FALSE
           pf == DemoFile(c, seed, r, px, pz, s)
<1>6. no \in BOOLEAN /\
      pf = [edition |-> edition, seed |-> ToText(seed), y |-> y, center_x |-> "0", center_z |-> "0",
            radius |-> ToText(radius), all_orientations |-> Flag(c.all, TRUE), checkpoint |-> "",
            stop_first |-> no, grid |-> grid]
  BY DEF DemoFile, y, edition, radius, grid
<1> HIDE DEF no, pf
<1>7. pf \in [edition : {"java", "bedrock"}, seed : Texts, y : Int, center_x : Texts \ {""},
              center_z : Texts \ {""}, radius : Texts \ {""}, all_orientations : BOOLEAN,
              checkpoint : Texts, stop_first : BOOLEAN, grid : Seq(Seq(Cells))]
  <2>1. /\ ToText(seed) \in Texts /\ ToText(radius) \in Texts \ {""} /\ "0" \in Texts \ {""} /\ "" \in Texts
        /\ edition \in {"java", "bedrock"} /\ y \in Int /\ Flag(c.all, TRUE) \in BOOLEAN
        /\ grid \in Seq(Seq(Cells))
    BY <1>2, <1>3, <1>4, <1>5, PatternFileAssumption DEF y, edition
  <2> QED BY ONLY <1>6, <2>1
<1>8. HasText(pf.y) /\ pf.grid = grid
  <2>1. pf.y = y /\ pf.grid = grid
    BY ONLY <1>6
  <2> QED BY <1>2, <2>1 DEF y
<1>9. s \in 1 .. MaxDim /\ HasText(s)
  BY <1>1
<1>10. pf \in PatternFiles
  BY <1>5, <1>7, <1>8, <1>9 DEF PatternFiles
<1> QED BY <1>10 DEF pf

\* What the files hold is what was written, and that can be read.
FileInv ==
  /\ DOMAIN files = Names /\ DOMAIN wrote = Names
  /\ \A n \in Names : files[n] # <<>> => wrote[n] \in Written \cap PatternFiles /\ files[n] = Save(wrote[n])

LEMMA FilesKept == FileInv /\ [Next]_vars => FileInv'
<1> SUFFICES ASSUME FileInv, [Next]_vars PROVE FileInv'
  OBVIOUS
<1>1. ASSUME NEW n \in Names, NEW pf \in Written \cap PatternFiles,
             files' = [files EXCEPT ![n] = Save(pf)], wrote' = [wrote EXCEPT ![n] = pf]
      PROVE  FileInv'
  BY <1>1 DEF FileInv
<1>2. ASSUME UNCHANGED <<files, wrote>> PROVE FileInv'
  BY <1>2 DEF FileInv
<1>3. ASSUME NEW c \in Commands, NEW n \in Names, Demo(c, n) PROVE FileInv'
  <2>1. CASE UNCHANGED written
    BY <1>2, <2>1 DEF written
  <2>2. CASE /\ Flag(c.y, -60) \in DemoLayers(c)
             /\ \E seed \in DemoSeeds(c), r \in Radii, s \in Sizes :
                \E px \in Spots(DemoRegion(r).x0, DemoRegion(r).x1),
                   pz \in Spots(DemoRegion(r).z0, DemoRegion(r).z1) :
                  LET pf == DemoFile(c, seed, r, px, pz, s) IN
                  /\ files' = [files EXCEPT ![n] = Save(pf)]
                  /\ wrote' = [wrote EXCEPT ![n] = pf]
    <3>1. PICK seed \in DemoSeeds(c), r \in Radii, s \in Sizes :
                \E px \in Spots(DemoRegion(r).x0, DemoRegion(r).x1),
                   pz \in Spots(DemoRegion(r).z0, DemoRegion(r).z1) :
                  LET pf == DemoFile(c, seed, r, px, pz, s) IN
                  /\ files' = [files EXCEPT ![n] = Save(pf)]
                  /\ wrote' = [wrote EXCEPT ![n] = pf]
      BY <2>2
    <3>2. PICK px \in Spots(DemoRegion(r).x0, DemoRegion(r).x1),
                   pz \in Spots(DemoRegion(r).z0, DemoRegion(r).z1) :
                  LET pf == DemoFile(c, seed, r, px, pz, s) IN
                  /\ files' = [files EXCEPT ![n] = Save(pf)]
                  /\ wrote' = [wrote EXCEPT ![n] = pf]
      BY <3>1
    <3>3. DemoRegion(r).z0 = DemoRegion(r).x0 /\ DemoRegion(r).z1 = DemoRegion(r).x1
      BY DEF DemoRegion, Square
    <3> DEFINE pf == DemoFile(c, seed, r, px, pz, s)
    <3>4. pf \in DemoFiles(c)
      BY <3>3 DEF DemoFiles
    <3>5. c.demo
      BY <1>3 DEF Demo
    <3>6. pf \in Written \cap PatternFiles
      BY <2>2, <3>4, <3>5, DemosArePatterns DEF Written
    <3>7. files' = [files EXCEPT ![n] = Save(pf)] /\ wrote' = [wrote EXCEPT ![n] = pf]
      BY <3>2
    <3> HIDE DEF pf
    <3> QED BY <1>1, <3>6, <3>7
  <2> QED BY <1>3, <2>1, <2>2 DEF Demo
<1>4. ASSUME NEW n \in Names, SaveSession(n) PROVE FileInv'
  <2>1. PICK pf \in Saved : files' = [files EXCEPT ![n] = Save(pf)] /\ wrote' = [wrote EXCEPT ![n] = pf]
    BY <1>4 DEF SaveSession
  <2>2. pf \in Written \cap PatternFiles
    BY RequestAssumption DEF Written
  <2> QED BY <1>1, <2>1, <2>2
<1>5. ASSUME NEW c \in Commands, Search(c) \/ StartBenchmark(c) PROVE FileInv'
  BY <1>2, <1>5 DEF Search, StartBenchmark, written
<1>6. ASSUME JobStep \/ MainLoop \/ Sweep \/ EndBenchmark \/ End \/ Kill PROVE FileInv'
  BY <1>2, <1>6 DEF JobStep, MainLoop, PollJob, PrintResults, Sweep, EndBenchmark, End, Kill, Gone, written
<1>7. CASE UNCHANGED vars
  BY <1>2, <1>7 DEF vars, written
<1> QED BY <1>3, <1>4, <1>5, <1>6, <1>7 DEF Next

LEMMA FilesFit == Spec => []FileInv
<1>1. Init => FileInv
  BY DEF Init, FileInv
<1> QED BY <1>1, FilesKept, PTL DEF Spec

\* A pattern file asks for the search that was saved in it (pattern_io.hpp:1-19).
THEOREM FilesRoundTrip == Spec => []FileRoundTrip
<1>1. FileInv => FileRoundTrip
  <2> SUFFICES ASSUME FileInv, NEW n \in Names, files[n] # <<>>
               PROVE  LET pf == Load(files[n]) IN
                      /\ Asked(NoFlags, pf) = Asked(NoFlags, wrote[n])
                      /\ Path(NoFlags, pf) = Path(NoFlags, wrote[n]) /\ pf.stop_first = wrote[n].stop_first
    BY DEF FileRoundTrip
  <2>1. wrote[n] \in PatternFiles /\ files[n] = Save(wrote[n])
    BY DEF FileInv
  <2> QED BY <2>1, SameSearch
<1> QED BY <1>1, FilesFit, PTL

-----------------------------------------------------------------------------
(* The job of a search                                                     *)

JobFields == {"req", "at", "state", "early", "results", "text", "cancel", "pause", "done", "busy",
              "more", "stop"}

FoundIn(p, n) == \E t \in Hits[p] : t <= n

\* what holds while tiles are searched: of the d tiles there were none is lost, no tile
\* is left once no more are taken, and the first match is what stops the job
Running(job, d) ==
  LET p == job.req.pattern IN
  /\ job.state = "running" /\ ~Refused(p) /\ job.done >= d
  /\ ~job.more => job.done + job.busy = Tiles
  /\ job.stop => job.req.first /\ FoundIn(p, job.done)

\* what a finished job reports
Reports(job, d) ==
  LET p == job.req.pattern IN
  /\ job.state = "done" /\ ~Refused(p) /\ job.done >= d /\ job.results = FoundBy(p, job.done)
  /\ job.early => job.req.first /\ FoundIn(p, job.done)
  /\ ~job.early => job.done = Tiles

JobFits(job, r, d) ==
  /\ DOMAIN job = JobFields /\ job.req = r /\ job.cancel = FALSE /\ job.pause = FALSE
  /\ job.more \in BOOLEAN /\ job.stop \in BOOLEAN
  /\ job.done \in 0 .. Tiles /\ job.busy \in Nat /\ job.done + job.busy <= Tiles
  /\ \/ job.at = "start" /\ job.state = "pending" /\ job.busy = 0 /\ job.more /\ ~job.stop
     \/ job.at = "admit" /\ Running(job, d)
     \/ job.at = "drain" /\ Running(job, d) /\ (job.busy > 0 \/ ~job.more \/ job.stop)
     \/ job.at = "publish" /\ Running(job, d) /\ job.busy = 0 /\ (~job.more \/ job.stop)
     \/ job.at = "ended" /\ (job.state = "error" \/ Reports(job, d))

\* what a progress file holds are tiles of a search
DiskOK == DOMAIN disk = Paths /\ \A path \in Paths : disk[path].kind = "whole" => disk[path].done \in 0 .. Tiles

\* A job that is refused, or whose worker fails, has returned with an error.
LEMMA FailFits ==
  ASSUME NEW job, NEW r, NEW d, JobFits(job, r, d)
  PROVE  JobFits(Returned([job EXCEPT !.state = "error", !.done = 0]), r, d)
<1> DEFINE failed == [job EXCEPT !.state = "error", !.done = 0]
           next == Returned(failed)
<1>1. DOMAIN failed = JobFields /\ failed.req = job.req /\ failed.state = "error" /\ failed.done = 0
  BY DEF JobFits, JobFields
<1> HIDE DEF failed
<1>2. /\ DOMAIN next = JobFields /\ next.req = job.req /\ next.state = "error" /\ next.done = 0
      /\ next.at = "ended" /\ next.busy = 0 /\ next.more = TRUE /\ next.stop = FALSE
      /\ next.cancel = FALSE /\ next.pause = FALSE
  BY <1>1 DEF Returned, JobFields
<1> HIDE DEF next
<1>3. next.done \in 0 .. Tiles /\ next.busy \in Nat /\ next.done + next.busy <= Tiles
  BY <1>2, ServiceAssumption
<1> QED BY <1>2, <1>3 DEF JobFits, next, failed

\* A job starts where its progress file was.
LEMMA StartFits ==
  ASSUME NEW job, NEW r, NEW d, JobFits(job, r, d), job.at = "start", ~Refused(r.pattern),
         d \in 0 .. Tiles
  PROVE  JobFits([job EXCEPT !.done = d, !.state = "running", !.at = "admit"], r, d)
<1> DEFINE next == [job EXCEPT !.done = d, !.state = "running", !.at = "admit"]
<1>1. /\ DOMAIN next = JobFields /\ next.req = job.req /\ next.state = "running" /\ next.done = d
      /\ next.at = "admit" /\ next.busy = job.busy /\ next.more = job.more /\ next.stop = job.stop
      /\ next.cancel = job.cancel /\ next.pause = job.pause
  BY DEF JobFits, JobFields
<1> HIDE DEF next
<1>2. job.busy = 0 /\ job.more /\ ~job.stop /\ job.more \in BOOLEAN /\ job.stop \in BOOLEAN
      /\ job.req = r /\ job.cancel = FALSE /\ job.pause = FALSE
  BY DEF JobFits
<1>3. next.done + next.busy <= Tiles /\ next.done >= d /\ next.busy \in Nat
  BY <1>1, <1>2, ServiceAssumption
<1>4. Running(next, d)
  BY <1>1, <1>2, <1>3 DEF Running
<1> QED BY <1>1, <1>2, <1>3, <1>4 DEF JobFits, next

\* A tile is taken as long as there is one; after the last none is.
LEMMA AdmitFits ==
  ASSUME NEW job, NEW r, NEW d, JobFits(job, r, d), job.at = "admit", d \in Nat
  PROVE  LET open == MayAdmit(job) /\ ~job.pause /\ job.busy < Depth
             left == job.done + job.busy < Tiles
         IN JobFits([job EXCEPT !.busy = IF open /\ left THEN @ + 1 ELSE @,
                                !.more = @ /\ (open => left),
                                !.at = IF open /\ left THEN "admit" ELSE "drain"], r, d)
<1> DEFINE open == MayAdmit(job) /\ ~job.pause /\ job.busy < Depth
           left == job.done + job.busy < Tiles
           next == [job EXCEPT !.busy = IF open /\ left THEN @ + 1 ELSE @,
                               !.more = @ /\ (open => left),
                               !.at = IF open /\ left THEN "admit" ELSE "drain"]
<1>1. /\ DOMAIN job = JobFields /\ job.req = r /\ job.cancel = FALSE /\ job.pause = FALSE
      /\ job.more \in BOOLEAN /\ job.stop \in BOOLEAN /\ Running(job, d)
      /\ job.done \in 0 .. Tiles /\ job.busy \in Nat /\ job.done + job.busy <= Tiles
  BY DEF JobFits
<1>2. Tiles \in Nat /\ Depth \in Nat \ {0}
  BY ServiceAssumption
<1>3. open <=> job.more /\ ~job.stop /\ job.busy < Depth
  BY <1>1 DEF MayAdmit
<1> HIDE DEF open, left
<1>4. /\ DOMAIN next = JobFields /\ next.req = job.req /\ next.state = job.state /\ next.done = job.done
      /\ next.stop = job.stop /\ next.cancel = job.cancel /\ next.pause = job.pause
      /\ next.busy = (IF open /\ left THEN job.busy + 1 ELSE job.busy)
      /\ next.at = (IF open /\ left THEN "admit" ELSE "drain")
      /\ next.more = (job.more /\ (open => left))
  BY <1>1 DEF JobFields
<1> HIDE DEF next
<1>5. next.more \in BOOLEAN /\ (next.more <=> job.more /\ (open => left))
  BY <1>4
<1>6. /\ next.busy \in Nat /\ next.done + next.busy <= Tiles
      /\ ~next.more => next.done + next.busy = Tiles
  BY <1>1, <1>2, <1>3, <1>4, <1>5 DEF Running, left
<1>7. Running(next, d)
  BY <1>1, <1>4, <1>6 DEF Running
<1>8. next.at = "drain" => next.busy > 0 \/ ~next.more \/ next.stop
  BY <1>1, <1>2, <1>3, <1>4, <1>5
<1> QED BY <1>1, <1>4, <1>5, <1>6, <1>7, <1>8 DEF JobFits, next, open, left

\* A tile that is done is one more, and may be the one to stop at.
LEMMA CollectFits ==
  ASSUME NEW job, NEW r, NEW d, JobFits(job, r, d), job.at = "drain", job.busy > 0, d \in Nat,
         r.pattern \in Patterns, NEW text
  PROVE  LET next == [job EXCEPT !.done = @ + 1, !.busy = @ - 1, !.at = "admit",
                        !.stop = @ \/ (job.req.first /\ job.done + 1 \in Hits[job.req.pattern])]
         IN next.done \in 0 .. Tiles /\ JobFits([next EXCEPT !.text = text], r, d)
<1> DEFINE hit == job.req.first /\ job.done + 1 \in Hits[job.req.pattern]
           next == [job EXCEPT !.done = @ + 1, !.busy = @ - 1, !.at = "admit", !.stop = @ \/ hit]
           saved == [next EXCEPT !.text = text]
<1>1. /\ DOMAIN job = JobFields /\ job.req = r /\ job.cancel = FALSE /\ job.pause = FALSE
      /\ job.more \in BOOLEAN /\ job.stop \in BOOLEAN /\ Running(job, d)
      /\ job.done \in 0 .. Tiles /\ job.busy \in Nat /\ job.done + job.busy <= Tiles
  BY DEF JobFits
<1>2. Tiles \in Nat
  BY ServiceAssumption
<1> HIDE DEF hit
<1>3. /\ DOMAIN next = JobFields /\ next.req = job.req /\ next.state = job.state
      /\ next.done = job.done + 1 /\ next.busy = job.busy - 1 /\ next.at = "admit"
      /\ next.cancel = job.cancel /\ next.pause = job.pause /\ next.more = job.more
      /\ next.stop = (job.stop \/ hit)
  BY <1>1 DEF JobFields
<1> HIDE DEF next
<1>4. /\ DOMAIN saved = JobFields /\ saved.req = job.req /\ saved.state = job.state
      /\ saved.done = job.done + 1 /\ saved.busy = job.busy - 1 /\ saved.at = "admit"
      /\ saved.cancel = job.cancel /\ saved.pause = job.pause /\ saved.more = job.more
      /\ saved.stop = (job.stop \/ hit)
  BY <1>3 DEF JobFields
<1> HIDE DEF saved
<1>5. saved.stop \in BOOLEAN /\ (saved.stop <=> job.stop \/ hit)
  BY <1>4
<1>6. /\ saved.done \in 0 .. Tiles /\ saved.busy \in Nat /\ saved.done + saved.busy = job.done + job.busy
      /\ saved.done >= job.done /\ next.done \in 0 .. Tiles
  BY <1>1, <1>2, <1>3, <1>4
<1>7. saved.stop => r.first /\ FoundIn(r.pattern, saved.done)
  <2>1. CASE hit
    BY <1>1, <1>4, <2>1 DEF hit, FoundIn
  <2>2. CASE job.stop
    <3>1. r.first
      BY <1>1, <2>2 DEF Running
    <3>2. PICK t \in Hits[r.pattern] : t <= job.done
      BY <1>1, <2>2 DEF Running, FoundIn
    <3>3. t \in 1 .. Tiles
      BY <3>2, ServiceAssumption
    <3>4. t <= saved.done
      BY <1>1, <1>4, <3>2, <3>3
    <3> QED BY <3>1, <3>4 DEF FoundIn
  <2> QED BY <1>5, <2>1, <2>2
<1>8. Running(saved, d)
  BY <1>1, <1>4, <1>6, <1>7 DEF Running
<1> QED BY <1>1, <1>4, <1>5, <1>6, <1>8 DEF JobFits, saved, next, hit

\* Out of the pump, nothing is in flight and nothing is left, or a match stopped it.
LEMMA FinishFits ==
  ASSUME NEW job, NEW r, NEW d, JobFits(job, r, d), job.at = "drain", job.busy = 0, NEW text
  PROVE  JobFits([job EXCEPT !.at = "publish", !.text = text], r, d)
<1> DEFINE next == [job EXCEPT !.at = "publish", !.text = text]
<1>1. /\ DOMAIN job = JobFields /\ job.req = r /\ job.cancel = FALSE /\ job.pause = FALSE
      /\ job.more \in BOOLEAN /\ job.stop \in BOOLEAN /\ Running(job, d)
      /\ job.done \in 0 .. Tiles /\ job.busy \in Nat /\ job.done + job.busy <= Tiles
      /\ (job.busy > 0 \/ ~job.more \/ job.stop)
  BY DEF JobFits
<1>2. /\ DOMAIN next = JobFields /\ next.req = job.req /\ next.state = job.state /\ next.done = job.done
      /\ next.at = "publish" /\ next.busy = job.busy /\ next.more = job.more /\ next.stop = job.stop
      /\ next.cancel = job.cancel /\ next.pause = job.pause
  BY <1>1 DEF JobFields
<1> HIDE DEF next
<1>3. Running(next, d)
  BY <1>1, <1>2 DEF Running
<1> QED BY <1>1, <1>2, <1>3 DEF JobFits, next

\* What is published is what was found.
LEMMA PublishFits ==
  ASSUME NEW job, NEW r, NEW d, JobFits(job, r, d), job.at = "publish"
  PROVE  JobFits(Returned([job EXCEPT !.results = FoundBy(job.req.pattern, job.done),
                                      !.state = IF job.cancel THEN "cancelled" ELSE "done",
                                      !.early = ~job.cancel /\ job.stop /\ job.done < Tiles]), r, d)
<1> DEFINE early == ~job.cancel /\ job.stop /\ job.done < Tiles
           found == FoundBy(job.req.pattern, job.done)
           told1 == [job EXCEPT !.results = found, !.state = IF job.cancel THEN "cancelled" ELSE "done",
                                !.early = early]
           next == Returned(told1)
<1>1. /\ DOMAIN job = JobFields /\ job.req = r /\ job.cancel = FALSE /\ job.pause = FALSE
      /\ job.more \in BOOLEAN /\ job.stop \in BOOLEAN /\ Running(job, d)
      /\ job.done \in 0 .. Tiles /\ job.busy = 0 /\ (~job.more \/ job.stop)
  BY DEF JobFits
<1>2. early <=> job.stop /\ job.done < Tiles
  BY <1>1
<1> HIDE DEF early, found
<1>3. /\ DOMAIN told1 = JobFields /\ told1.req = job.req /\ told1.state = "done" /\ told1.done = job.done
      /\ told1.results = found /\ told1.early = early
  BY <1>1 DEF JobFields
<1> HIDE DEF told1
<1>4. /\ DOMAIN next = JobFields /\ next.req = job.req /\ next.state = "done" /\ next.done = job.done
      /\ next.results = found /\ next.early = early
      /\ next.at = "ended" /\ next.busy = 0 /\ next.more = TRUE /\ next.stop = FALSE
      /\ next.cancel = FALSE /\ next.pause = FALSE
  BY <1>3 DEF Returned, JobFields
<1> HIDE DEF next
<1>5. next.done \in 0 .. Tiles /\ next.busy \in Nat /\ next.done + next.busy <= Tiles
  BY <1>1, <1>4, ServiceAssumption
<1>6. next.early <=> early
  BY <1>4
<1>7. ~early => job.done = Tiles
  <2>1. ~job.more => job.done = Tiles
    BY <1>1, ServiceAssumption DEF Running
  <2> QED BY <1>1, <1>2, <2>1, ServiceAssumption
<1>8. Reports(next, d)
  BY <1>1, <1>2, <1>4, <1>6, <1>7 DEF Reports, Running, found
<1> QED BY <1>1, <1>4, <1>5, <1>8 DEF JobFits, next, told1, early, found

-----------------------------------------------------------------------------
(* The searches                                                            *)

\* the request of the command that runs, as the user meant it
Meant == [pattern |-> Asked(cmd, Intended(cmd)), path |-> Path(cmd, Intended(cmd)),
          first |-> First(cmd, Intended(cmd)), from |-> Absent]

SearchInv ==
  /\ at \in {"gone", "poll", "results", "told", "bench"} /\ due \in 0 .. Tiles /\ DiskOK
  /\ at = "bench" => ~Searches(cmd)
  /\ at \in {"gone", "bench"} => jobs = <<>>
  /\ at \in {"poll", "results"} => jobs # <<>>
  /\ jobs # <<>> =>
       /\ Searches(cmd) /\ Meant.pattern \in Patterns /\ Meant.path \in Paths
       /\ DOMAIN jobs = {1} /\ JobFits(jobs[1], Meant, due)
       /\ jobs[1].at = "start" => due = Restored(jobs[1].req)
  /\ at = "results" => jobs[1].state = "done"
  /\ PrintedIsTruth

\* What a search is asked for is one of the service's, and its file says the same.
LEMMA MeantIsAsked ==
  ASSUME FileInv, NEW c \in Commands, Searches(c),
         c.pattern # <<>> => files[c.pattern[1]] # <<>>
  PROVE  /\ Asked(c, Loaded(c)) = Asked(c, Intended(c)) /\ Path(c, Loaded(c)) = Path(c, Intended(c))
         /\ First(c, Loaded(c)) = First(c, Intended(c))
         /\ Asked(c, Intended(c)) \in Patterns /\ Path(c, Intended(c)) \in Paths
<1>1. \A pf \in IF c.pattern = <<>> THEN {DefaultFile} ELSE Written :
        Asked(c, pf) \in Patterns /\ Path(c, pf) \in Paths
  BY RequestAssumption
<1>2. CASE c.pattern = <<>>
  BY <1>1, <1>2 DEF Loaded, Intended
<1>3. CASE c.pattern # <<>>
  <2>1. c.pattern \in Given(Names)
    BY RequestAssumption DEF CommandLines
  <2>2. c.pattern[1] \in Names
    BY <1>3, <2>1 DEF Given
  <2> DEFINE n == c.pattern[1]
  <2>3. wrote[n] \in Written \cap PatternFiles /\ files[n] = Save(wrote[n])
    BY <1>3, <2>2 DEF FileInv
  <2>4. Loaded(c) = Load(Save(wrote[n])) /\ Intended(c) = wrote[n]
    BY <1>3, <2>3 DEF Loaded, Intended
  <2> HIDE DEF n
  <2> QED BY <1>1, <1>3, <2>3, <2>4, SameSearch
<1> QED BY <1>2, <1>3

\* A step of the job's thread.
LEMMA JobStepKeeps == ASSUME SearchInv, JobStep PROVE SearchInv'
<1> DEFINE job == jobs[1]
           r == job.req
<1>1. /\ 1 \in DOMAIN jobs /\ UNCHANGED <<at, cmd, told, due, files, wrote, backend>>
      /\ (Refused(job.req.pattern) => jobs'[1].state = "error")
      /\ (Start(1) \/ Fail(1) \/ Admit(1) \/ Collect(1) \/ EnterPause(1) \/ LeavePause(1) \/ Finish(1) \/ Publish(1))
  BY DEF JobStep, JobThread, process, written
<1>2. /\ Searches(cmd) /\ Meant.pattern \in Patterns /\ Meant.path \in Paths
      /\ DOMAIN jobs = {1} /\ JobFits(job, Meant, due) /\ jobs # <<>>
      /\ (job.at = "start" => due = Restored(job.req))
      /\ at \notin {"gone", "bench"} /\ due \in 0 .. Tiles /\ due \in Nat /\ DiskOK
  BY <1>1 DEF SearchInv
<1>3. job.req = Meant /\ job.cancel = FALSE /\ job.pause = FALSE /\ DOMAIN job = JobFields
  BY <1>2 DEF JobFits
<1>4. Meant' = Meant /\ (PrintedIsTruth)'
  BY <1>1 DEF Meant, Intended, SearchInv, PrintedIsTruth
<1>5. ASSUME NEW next, jobs' = [jobs EXCEPT ![1] = next], JobFits(next, Meant, due), next.at # "start",
             DiskOK', at = "results" => next.state = "done"
      PROVE  SearchInv'
  <2>1. DOMAIN jobs' = {1} /\ jobs'[1] = next /\ jobs' # <<>>
    BY <1>2, <1>5
  <2> QED BY <1>1, <1>2, <1>4, <1>5, <2>1 DEF SearchInv
<1>6. at = "results" => job.at = "ended"
  BY <1>2 DEF SearchInv, JobFits, Running
<1>7. ASSUME NEW path \in Paths, NEW of, NEW done \in 0 .. Tiles,
             disk' = [disk EXCEPT ![path] = [kind |-> "whole", of |-> of, done |-> done]]
      PROVE  DiskOK'
  BY <1>2, <1>7 DEF DiskOK
<1>8. CASE Start(1)
  <2> DEFINE next == [job EXCEPT !.done = due, !.state = "running", !.at = "admit"]
  <2>1. job.at = "start" /\ UNCHANGED disk /\ due = Restored(job.req)
    BY <1>2, <1>8 DEF Start
  <2>2. jobs' = [jobs EXCEPT ![1] = next]
    BY <1>2, <1>8, <2>1 DEF Start
  <2>3. next.at = "admit" /\ next.state = "running" /\ jobs'[1] = next
    BY <1>2, <1>3, <2>2 DEF JobFields
  <2>4. ~Refused(Meant.pattern)
    BY <1>1, <1>3, <2>3
  <2>5. JobFits(next, Meant, due)
    BY <1>2, <2>1, <2>4, StartFits
  <2> HIDE DEF next
  <2> QED BY <1>2, <1>5, <1>6, <2>1, <2>2, <2>3, <2>5 DEF DiskOK
<1>9. CASE Fail(1)
  <2> DEFINE next == Returned([job EXCEPT !.state = "error", !.done = 0])
  <2>1. /\ UNCHANGED disk /\ jobs' = [jobs EXCEPT ![1] = next] /\ job.at # "ended"
    BY <1>9 DEF Fail
  <2>2. JobFits(next, Meant, due)
    BY <1>2, FailFits
  <2>3. next.at = "ended"
    BY <1>3 DEF Returned, JobFields
  <2> HIDE DEF next
  <2> QED BY <1>2, <1>5, <1>6, <2>1, <2>2, <2>3 DEF DiskOK
<1>10. CASE Admit(1)
  <2> DEFINE open == MayAdmit(job) /\ ~job.pause /\ job.busy < Depth
             left == job.done + job.busy < Tiles
             next == [job EXCEPT !.busy = IF open /\ left THEN @ + 1 ELSE @,
                                 !.more = @ /\ (open => left),
                                 !.at = IF open /\ left THEN "admit" ELSE "drain"]
  <2>1. job.at = "admit" /\ UNCHANGED disk
    BY <1>10 DEF Admit
  <2>2. jobs' = [jobs EXCEPT ![1] = next]
    BY <1>2, <1>10 DEF Admit
  <2>3. JobFits(next, Meant, due)
    BY <1>2, <2>1, AdmitFits
  <2>4. next.at \in {"admit", "drain"}
    BY <1>3 DEF JobFields
  <2> HIDE DEF next
  <2> QED BY <1>2, <1>5, <1>6, <2>1, <2>2, <2>3, <2>4 DEF DiskOK
<1>11. CASE Collect(1)
  <2> DEFINE collected == [job EXCEPT !.done = @ + 1, !.busy = @ - 1, !.at = "admit",
                             !.stop = @ \/ (job.req.first /\ job.done + 1 \in Hits[job.req.pattern])]
             saved(text) == [collected EXCEPT !.text = text]
  <2>1. job.at = "drain" /\ job.busy > 0
    BY <1>11 DEF Collect
  <2>2. PICK toDisk, toText \in BOOLEAN :
          /\ jobs' = [jobs EXCEPT ![1] = [collected EXCEPT !.text = IF toText THEN Snapshot(collected) ELSE @]]
          /\ disk' = IF toDisk THEN [disk EXCEPT ![job.req.path] = Snapshot(collected)] ELSE disk
    BY <1>11 DEF Collect
  <2>3. collected.at = "admit" /\ DOMAIN collected = JobFields
    BY <1>3 DEF JobFields
  <2>4. ASSUME NEW text PROVE collected.done \in 0 .. Tiles /\ JobFits(saved(text), Meant, due)
    BY <1>2, <2>1, CollectFits
  <2> HIDE DEF collected
  <2>5. PICK text : jobs' = [jobs EXCEPT ![1] = saved(text)]
    BY <2>2
  <2>6. saved(text).at = "admit"
    BY <2>3 DEF JobFields
  <2>7. DiskOK'
    <3>1. CASE toDisk
      BY <1>2, <1>3, <1>7, <2>2, <2>4, <3>1 DEF Snapshot
    <3>2. CASE ~toDisk
      BY <1>2, <2>2, <3>2 DEF DiskOK
    <3> QED BY <3>1, <3>2
  <2> HIDE DEF saved
  <2> QED BY <1>5, <1>6, <2>1, <2>4, <2>5, <2>6, <2>7
<1>12. CASE Finish(1)
  <2> DEFINE next == [job EXCEPT !.at = "publish", !.text = Snapshot(job)]
  <2>1. job.at = "drain" /\ job.busy = 0
    BY <1>12 DEF Finish
  <2>2. jobs' = [jobs EXCEPT ![1] = next]
    BY <1>2, <1>12 DEF Finish
  <2>3. JobFits(next, Meant, due)
    BY <1>2, <2>1, FinishFits
  <2>4. next.at = "publish"
    BY <1>3 DEF JobFields
  <2>5. DiskOK'
    <3>1. CASE disk' = [disk EXCEPT ![job.req.path] = Absent]
      BY <1>2, <3>1 DEF DiskOK, Absent
    <3>2. CASE disk' = [disk EXCEPT ![job.req.path] = Snapshot(job)]
      <4>1. job.done \in 0 .. Tiles
        BY <1>2 DEF JobFits
      <4> QED BY <1>2, <1>3, <1>7, <3>2, <4>1 DEF Snapshot
    <3> QED BY <1>12, <3>1, <3>2 DEF Finish
  <2> HIDE DEF next
  <2> QED BY <1>5, <1>6, <2>1, <2>2, <2>3, <2>4, <2>5
<1>13. CASE Publish(1)
  <2> DEFINE next == Returned([job EXCEPT !.results = FoundBy(job.req.pattern, job.done),
                                          !.state = IF job.cancel THEN "cancelled" ELSE "done",
                                          !.early = ~job.cancel /\ job.stop /\ job.done < Tiles])
  <2>1. job.at = "publish" /\ UNCHANGED disk
    BY <1>13 DEF Publish
  <2>2. jobs' = [jobs EXCEPT ![1] = next]
    BY <1>13 DEF Publish
  <2>3. JobFits(next, Meant, due)
    BY <1>2, <2>1, PublishFits
  <2>4. next.at = "ended"
    BY <1>3 DEF Returned, JobFields
  <2> HIDE DEF next
  <2> QED BY <1>2, <1>5, <1>6, <2>1, <2>2, <2>3, <2>4 DEF DiskOK
<1>14. ~EnterPause(1) /\ ~LeavePause(1)
  <2>1. job.at # "paused" /\ ~job.pause
    BY <1>2 DEF JobFits
  <2> QED BY <2>1 DEF EnterPause, LeavePause
<1> QED BY <1>1, <1>8, <1>9, <1>10, <1>11, <1>12, <1>13, <1>14

\* The matches of the tiles that are done are those of the search, all of them once
\* every tile is, and those of the nearest tile that has any once one has been found.
LEMMA ReportedIs ==
  ASSUME NEW p \in Patterns, ~Refused(p), NEW n \in 0 .. Tiles
  PROVE  LET found == Reported(p, FoundBy(p, n)) IN
         /\ found \subseteq TrueMatches[p]
         /\ n = Tiles => found = TrueMatches[p]
         /\ FoundIn(p, n) => found # {} /\ Reported(p, {Min(Hits[p])}) \subseteq found
<1> DEFINE found == Reported(p, FoundBy(p, n))
           Tile(match) == TileIn(p.region, match.x, match.z)
<1>1. Hits[p] = {Tile(match) : match \in TrueMatches[p]}
  BY RokksearchAssumption
<1>2. Hits[p] \subseteq 1 .. Tiles /\ Tiles \in Nat
  BY ServiceAssumption
<1>3. \A tiles : Reported(p, tiles) = {match \in TrueMatches[p] : Tile(match) \in tiles}
  BY DEF Reported
<1> HIDE DEF Tile
<1>4. found = {match \in TrueMatches[p] : Tile(match) <= n}
  BY <1>1, <1>3 DEF FoundBy
<1>5. ASSUME n = Tiles PROVE found = TrueMatches[p]
  BY <1>1, <1>2, <1>4, <1>5
<1>6. ASSUME FoundIn(p, n) PROVE found # {} /\ Reported(p, {Min(Hits[p])}) \subseteq found
  <2>1. PICK t \in Hits[p] : t <= n
    BY <1>6 DEF FoundIn
  <2>2. PICK match \in TrueMatches[p] : Tile(match) = t
    BY <1>1
  <2> DEFINE first == Min(Hits[p])
  <2>3. first \in Hits[p] /\ first <= t
    <3>1. Hits[p] \in SUBSET Nat /\ Hits[p] # {}
      BY <1>2, <2>1
    <3> QED BY <2>1, <3>1, MinIn
  <2> HIDE DEF first
  <2>4. first <= n
    BY <1>2, <2>1, <2>3
  <2> QED BY <1>3, <1>4, <2>1, <2>2, <2>4 DEF first
<1> HIDE DEF found
<1> QED BY <1>4, <1>5, <1>6 DEF found

\* A command is only that of a search if it does nothing else, and a search begins with
\* the progress there is for it.
LEMMA SearchBegins ==
  ASSUME FileInv, SearchInv, NEW c \in Commands, Search(c)
  PROVE  SearchInv'
<1>1. /\ Searches(c) /\ at = "gone" /\ cmd' = c /\ UNCHANGED <<files, wrote, disk>> /\ jobs = <<>>
      /\ DiskOK /\ due \in 0 .. Tiles
  BY DEF Search, Launched, written, service, SearchInv
<1>2. PICK host \in Hosts :
       LET device == ResolveBackend(c.backend, host)
           code == LaunchCode(c, device)
           pf == Loaded(c)
       IN IF code # 0
          THEN Exit(code) /\ UNCHANGED <<due, service>>
          ELSE /\ backend' = GridOf(device)
               /\ Submitted([pattern |-> Asked(c, pf), path |-> Path(c, pf),
                             first |-> First(c, pf), from |-> Absent])
               /\ due' = Owed(c, GridOf(device))
               /\ at' = "poll" /\ UNCHANGED <<told, disk>>
  BY DEF Search
<1> DEFINE device == ResolveBackend(c.backend, host)
           code == LaunchCode(c, device)
<1> HIDE DEF device
<1>3. CASE code # 0
  <2>1. at' = "told" /\ told'.code # 0 /\ UNCHANGED <<due, jobs, disk>>
    BY <1>2, <1>3 DEF Exit, Silence, service, device
  <2> QED BY <1>1, <2>1 DEF SearchInv, DiskOK, PrintedIsTruth
<1>4. CASE code = 0
  <2> DEFINE pf == Intended(c)
             r == [pattern |-> Asked(c, pf), path |-> Path(c, pf), first |-> First(c, pf), from |-> Absent]
             grid == GridOf(device)
  <2>1. c.pattern # <<>> => files[c.pattern[1]] # <<>>
    BY <1>4 DEF LaunchCode
  <2>2. /\ Asked(c, Loaded(c)) = Asked(c, pf) /\ Path(c, Loaded(c)) = Path(c, pf)
        /\ First(c, Loaded(c)) = First(c, pf)
        /\ Asked(c, pf) \in Patterns /\ Path(c, pf) \in Paths
    BY <1>1, <2>1, MeantIsAsked
  <2>3. /\ backend' = grid /\ jobs' = Append(jobs, NewJob(r)) /\ due' = Owed(c, grid)
        /\ at' = "poll" /\ UNCHANGED <<told, disk>>
    BY <1>2, <1>4, <2>2 DEF Submitted, device
  <2>4. Meant' = r
    BY <1>1 DEF Meant, Intended
  <2>5. jobs' = <<NewJob(r)>>
    BY <1>1, <2>3
  <2>6. DOMAIN jobs' = {1} /\ jobs'[1] = NewJob(r) /\ jobs' # <<>>
    BY <2>5
  <2>7. Owed(c, grid) = IF disk[r.path].kind = "whole" /\ disk[r.path].of = <<r.pattern, grid>>
                        THEN disk[r.path].done ELSE 0
    BY DEF Owed, Intended
  <2>8. r.pattern \in Patterns /\ r.path \in Paths /\ r.from.kind # "whole"
    BY <2>2 DEF Absent
  <2> HIDE DEF grid, r, pf
  <2>9. due' \in 0 .. Tiles
    BY <1>1, <2>3, <2>7, <2>8, ServiceAssumption DEF DiskOK
  <2> DEFINE job == NewJob(r)
  <2>10. /\ DOMAIN job = JobFields /\ job.req = r /\ job.cancel = FALSE /\ job.pause = FALSE
         /\ job.more = TRUE /\ job.stop = FALSE /\ job.done = 0 /\ job.busy = 0
         /\ job.at = "start" /\ job.state = "pending"
    BY DEF NewJob, JobFields
  <2> HIDE DEF job
  <2>11. \A d : JobFits(job, r, d)
    <3>1. 0 \in 0 .. Tiles /\ 0 \in Nat /\ 0 + 0 <= Tiles
      BY ServiceAssumption
    <3> QED BY <2>10, <3>1 DEF JobFits
  <2>12. jobs'[1] = job /\ jobs'[1].req = r
    BY <2>6, <2>10 DEF job
  <2>13. (due = Restored(jobs[1].req))'
    BY <2>3, <2>7, <2>8, <2>12 DEF Restored, Fingerprint
  <2>14. DiskOK'
    BY <1>1 DEF DiskOK
  <2> QED BY <1>1, <2>3, <2>4, <2>6, <2>8, <2>9, <2>11, <2>12, <2>13, <2>14 DEF SearchInv, PrintedIsTruth
<1> QED BY <1>3, <1>4

\* The loop sees an error, or prints what a finished job reports.
LEMMA LoopKeeps == ASSUME SearchInv, MainLoop PROVE SearchInv'
<1>1. /\ UNCHANGED <<cmd, due, files, wrote, backend, jobs, disk>> /\ at \in {"poll", "results"}
      /\ jobs # <<>> /\ due \in 0 .. Tiles
  BY DEF MainLoop, PollJob, PrintResults, written, service, SearchInv
<1>2. /\ Searches(cmd) /\ Meant.pattern \in Patterns
      /\ DOMAIN jobs = {1} /\ JobFits(jobs[1], Meant, due)
  BY <1>1 DEF SearchInv
<1>3. Meant' = Meant
  BY <1>1 DEF Meant, Intended
<1>4. ASSUME at' \in {"results", "told"}, at' = "results" => jobs[1].state = "done", (PrintedIsTruth)'
      PROVE  SearchInv'
  BY <1>1, <1>3, <1>4 DEF SearchInv, DiskOK, Restored, Fingerprint
<1>5. Poll(1) = [state |-> jobs[1].state, early |-> jobs[1].early] /\ Results(1) = jobs[1].results
  BY <1>2 DEF Poll, Results
<1>6. CASE PollJob
  <2>1. CASE Failed(Poll(1).state) /\ Exit(1)
    <3>1. at' = "told" /\ told'.code = 1
      BY <2>1 DEF Exit, Silence
    <3> QED BY <1>4, <3>1 DEF PrintedIsTruth
  <2>2. CASE Over(Poll(1).state) /\ at' = "results" /\ UNCHANGED told
    <3>1. jobs[1].state \in {"done", "cancelled"}
      BY <1>5, <2>2 DEF Over
    <3>2. jobs[1].state = "done"
      BY <1>2, <3>1 DEF JobFits, Running, Reports
    <3> QED BY <1>4, <2>2, <3>2 DEF PrintedIsTruth
  <2> QED BY <1>6, <2>1, <2>2 DEF PollJob
<1>7. CASE PrintResults
  <2> DEFINE job == jobs[1]
             p == Meant.pattern
  <2>1. at' = "told" /\ at = "results" /\ told' = [code |-> 0, early |-> job.early, matches |-> Reported(job.req.pattern, job.results)]
    BY <1>5, <1>7 DEF PrintResults
  <2>2. job.state = "done" /\ job.req = Meant /\ job.done \in 0 .. Tiles /\ Reports(job, due)
    BY <1>2, <2>1 DEF SearchInv, JobFits, Running
  <2>3. /\ ~Refused(p) /\ job.results = FoundBy(p, job.done)
        /\ job.early => Meant.first /\ FoundIn(p, job.done)
        /\ ~job.early => job.done = Tiles
    BY <2>2 DEF Reports
  <2>4. p = Asked(cmd, Intended(cmd)) /\ Meant.first = First(cmd, Intended(cmd))
    BY DEF Meant
  <2> HIDE DEF job, p
  <2> DEFINE found == Reported(p, FoundBy(p, job.done))
  <2>5. /\ found \subseteq TrueMatches[p]
        /\ job.done = Tiles => found = TrueMatches[p]
        /\ FoundIn(p, job.done) => found # {} /\ Reported(p, {Min(Hits[p])}) \subseteq found
    BY <1>2, <2>2, <2>3, ReportedIs DEF p
  <2>6. told'.matches = found /\ told'.early = job.early
    BY <2>1, <2>2, <2>3 DEF p
  <2> HIDE DEF found
  <2>7. (Asked(cmd, Intended(cmd)))' = p /\ (First(cmd, Intended(cmd)))' = Meant.first
    BY <1>1, <2>4 DEF Intended
  <2>8. (PrintedIsTruth)'
    <3>1. (LET q == Asked(cmd, Intended(cmd)) IN
           /\ ~Refused(q) /\ told.matches \subseteq TrueMatches[q]
           /\ ~told.early => told.matches = TrueMatches[q]
           /\ told.early => /\ First(cmd, Intended(cmd)) /\ told.matches # {}
                            /\ Reported(q, {Min(Hits[q])}) \subseteq told.matches)'
      BY <2>3, <2>5, <2>6, <2>7
    <3> QED BY <3>1 DEF PrintedIsTruth
  <2> QED BY <1>4, <2>1, <2>8
<1> QED BY <1>6, <1>7 DEF MainLoop

\* The rest begins without a job, or leaves it alone, or ends with it.
LEMMA OthersKeep ==
  ASSUME SearchInv,
         \/ \E c \in Commands : StartBenchmark(c) \/ \E n \in Names : Demo(c, n)
         \/ Sweep \/ EndBenchmark \/ End \/ Kill \/ \E n \in Names : SaveSession(n)
  PROVE  SearchInv'
<1>1. ASSUME jobs = <<>>, UNCHANGED <<jobs, due, disk>>, at' \in {"told", "bench"}, ~Searches(cmd')
      PROVE  SearchInv'
  BY <1>1 DEF SearchInv, DiskOK, PrintedIsTruth
<1>2. ASSUME NEW c \in Commands, StartBenchmark(c) \/ \E n \in Names : Demo(c, n) PROVE SearchInv'
  <2>1. jobs = <<>> /\ cmd' = c /\ ~Searches(c) /\ UNCHANGED <<jobs, due, disk>>
    BY <1>2 DEF StartBenchmark, Demo, Launched, Searches, service, SearchInv
  <2>2. at' \in {"told", "bench"}
    BY <1>2 DEF StartBenchmark, Demo, Exit
  <2> QED BY <1>1, <2>1, <2>2
<1>3. CASE Sweep
  BY <1>1, <1>3 DEF Sweep, process, service, SearchInv
<1>4. CASE EndBenchmark
  BY <1>1, <1>4 DEF EndBenchmark, Exit, service, SearchInv
<1>5. CASE End \/ Kill
  <2>1. at' = "gone" /\ jobs' = <<>> /\ due' = 0 /\ UNCHANGED disk
    BY <1>5 DEF End, Kill, Gone
  <2> QED BY <2>1, ServiceAssumption DEF SearchInv, DiskOK, PrintedIsTruth
<1>6. ASSUME NEW n \in Names, SaveSession(n) PROVE SearchInv'
  <2>1. at' = "gone" /\ jobs = <<>> /\ UNCHANGED <<jobs, due>>
    BY <1>6 DEF SaveSession, process, SearchInv
  <2>2. PICK pf \in Saved, done \in 1 .. Tiles, b \in Backends :
          /\ files' = [files EXCEPT ![n] = Save(pf)]
          /\ wrote' = [wrote EXCEPT ![n] = pf]
          /\ disk' = IF pf.checkpoint = "" THEN disk
                     ELSE [disk EXCEPT ![pf.checkpoint] =
                             [kind |-> "whole", of |-> <<Asked(NoFlags, pf), b>>, done |-> done]]
    BY <1>6 DEF SaveSession
  <2>3. done \in 0 .. Tiles
    BY ServiceAssumption
  <2>4. DiskOK'
    BY <2>2, <2>3 DEF DiskOK, SearchInv
  <2> QED BY <2>1, <2>4 DEF SearchInv, PrintedIsTruth
<1> QED BY <1>2, <1>3, <1>4, <1>5, <1>6

LEMMA SearchesFit == Spec => []SearchInv
<1>1. Init => SearchInv
  BY ServiceAssumption DEF Init, SearchInv, DiskOK, Absent, PrintedIsTruth
<1>2. FileInv /\ SearchInv /\ [Next]_vars => SearchInv'
  <2> SUFFICES ASSUME FileInv, SearchInv, [Next]_vars PROVE SearchInv'
    OBVIOUS
  <2>1. ASSUME NEW c \in Commands, Search(c) PROVE SearchInv'
    BY <2>1, SearchBegins
  <2>2. CASE \/ \E c \in Commands : StartBenchmark(c) \/ \E n \in Names : Demo(c, n)
             \/ Sweep \/ EndBenchmark \/ End \/ Kill \/ \E n \in Names : SaveSession(n)
    BY <2>2, OthersKeep
  <2>3. CASE JobStep
    BY <2>3, JobStepKeeps
  <2>4. CASE MainLoop
    BY <2>4, LoopKeeps
  <2>5. CASE UNCHANGED vars
    BY <2>5 DEF vars, process, written, service, SearchInv, DiskOK, PrintedIsTruth, Meant, Intended, Restored,
                Fingerprint
  <2> QED BY <2>1, <2>2, <2>3, <2>4, <2>5 DEF Next
<1> QED BY <1>1, <1>2, FilesFit, PTL DEF Spec

\* Exit code 0 means that stdout has the matches of what was asked for, whatever
\* searches, kills and sessions came before over the same files (rokksearch.cpp:15-16).
THEOREM PrintedMatchesAreTrue == Spec => []PrintedIsTruth
<1>1. SearchInv => PrintedIsTruth
  BY DEF SearchInv
<1> QED BY <1>1, SearchesFit, PTL

\* A search goes on where its progress file was, and never falls behind it
\* (rokksearch.cpp:694-695).
THEOREM SessionsGoOn == Spec => []SessionGoesOn
<1>1. SearchInv => SessionGoesOn
  BY DEF SearchInv, SessionGoesOn, JobFits, Running, Reports
<1> QED BY <1>1, SearchesFit, PTL

-----------------------------------------------------------------------------
(* Demos                                                                   *)

\* the cells a grid knows
KnownIn(grid) ==
  {k \in [i : Nat, j : Nat, want : {0, 1}] :
     /\ k.j + 1 \in DOMAIN grid /\ k.i + 1 \in DOMAIN grid[k.j + 1]
     /\ k.want = IF grid[k.j + 1][k.i + 1] = "#" THEN 1 ELSE 0}

\* Pattern::knowns() returns such cells.
LEMMA KnownsAre ==
  ASSUME NEW grid, NEW w \in Nat, NEW h \in Nat, DOMAIN grid = 1 .. h,
         \A j \in 1 .. h : DOMAIN grid[j] = 1 .. w
  PROVE  Knowns(grid) \in Seq(KnownIn(grid))
<1> DEFINE S == KnownIn(grid)
           known(j, i) == [i |-> i - 1, j |-> j - 1, want |-> IF grid[j][i] = "#" THEN 1 ELSE 0]
           cell(j, i) == IF grid[j][i] = "." THEN <<>> ELSE <<known(j, i)>>
           cells(j) == [i \in 1 .. w |-> cell(j, i)]
           rows == [j \in 1 .. h |-> FlattenSeq(cells(j))]
<1>1. (\A p, q \in Seq(S) : p \o q \in Seq(S)) /\ <<>> \in Seq(S)
  OBVIOUS
<1>2. ASSUME NEW j \in 1 .. h, NEW i \in 1 .. w PROVE known(j, i) \in S
  <2>1. i - 1 \in Nat /\ j - 1 \in Nat /\ (i - 1) + 1 = i /\ (j - 1) + 1 = j
    OBVIOUS
  <2> QED BY <2>1 DEF KnownIn
<1>3. ASSUME NEW j \in 1 .. h PROVE FlattenSeq(cells(j)) \in Seq(S)
  <2>1. \A i \in 1 .. w : cell(j, i) \in Seq(S)
    <3> HIDE DEF known, S
    <3> QED BY <1>2
  <2> HIDE DEF cell
  <2>2. cells(j) \in Seq(Seq(S))
    BY <2>1
  <2> HIDE DEF cells, S
  <2>3. PlanFacts!FlattenSeq(cells(j)) \in Seq(S)
    BY <1>1, <2>2, PlanFacts!FlattenIn
  <2> QED BY <2>3, SameFlatten
<1>4. rows \in Seq(Seq(S))
  <2> HIDE DEF cells, S
  <2> QED BY <1>3
<1>5. FlattenSeq(rows) \in Seq(S)
  <2> HIDE DEF rows, S
  <2>1. PlanFacts!FlattenSeq(rows) \in Seq(S)
    BY <1>1, <1>4, PlanFacts!FlattenIn
  <2> QED BY <2>1, SameFlatten
<1>6. Knowns(grid) = FlattenSeq(rows)
  BY DEF Knowns
<1> QED BY <1>5, <1>6

\* The anchor is one of the cells.
LEMMA AnchorIn ==
  ASSUME NEW grid, NEW knowns \in Seq(KnownIn(grid)), knowns # <<>>, NEW rare
  PROVE  \E n \in DOMAIN knowns : Plan!Anchor(knowns, rare) = knowns[n]
<1>1. knowns \in Seq(PlanFacts!KnownCells)
  <2>1. KnownIn(grid) \subseteq PlanFacts!KnownCells
    BY DEF KnownIn, PlanFacts!KnownCells
  <2> QED BY <2>1
<1>2. ASSUME NEW m \in DOMAIN knowns, NEW n \in DOMAIN knowns,
             knowns[m].i = knowns[n].i, knowns[m].j = knowns[n].j
      PROVE  knowns[m] = knowns[n]
  <2>1. knowns[m] \in KnownIn(grid) /\ knowns[n] \in KnownIn(grid)
    OBVIOUS
  <2> DEFINE a == knowns[m]
             b == knowns[n]
  <2>2. a \in [i : Nat, j : Nat, want : {0, 1}] /\ b \in [i : Nat, j : Nat, want : {0, 1}]
    BY <2>1 DEF KnownIn
  <2>3. a.i = b.i /\ a.j = b.j /\ a.want = b.want
    BY <1>2, <2>1 DEF KnownIn
  <2> HIDE DEF a, b
  <2>4. a = b
    BY <2>2, <2>3
  <2> QED BY <2>4 DEF a, b
<1>3. \E n \in DOMAIN knowns : PlanFacts!Anchor(knowns, rare) = knowns[n]
  BY <1>1, <1>2, PlanFacts!AnchorExists
<1>4. PlanFacts!Anchor(knowns, rare) = Plan!Anchor(knowns, rare)
  BY DEF PlanFacts!Anchor, Plan!Anchor, PlanFacts!Nearer, Plan!Nearer, PlanFacts!Dist2, Plan!Dist2, PlanFacts!SumOf, Plan!SumOf
<1> QED BY <1>3, <1>4

\* Where a pattern was copied from, all of it lies in the region.
LEMMA CopyFits ==
  ASSUME NEW r \in Radii, NEW s \in Sizes, NEW lo, NEW hi, NEW p \in Spots(lo, hi), NEW k \in 0 .. s - 1,
         \/ lo = DemoRegion(r).x0 /\ hi = DemoRegion(r).x1
         \/ lo = DemoRegion(r).z0 /\ hi = DemoRegion(r).z1
  PROVE  p - s \div 2 + k \in lo .. hi /\ p \in Int /\ s \div 2 \in Int
<1>1. r \in Nat /\ s \in Nat /\ Margin \in Nat /\ Border \in Nat /\ s <= 2 * Margin /\ r >= Margin /\ Margin < Border
  <2>1. r \in Nat /\ s \in 1 .. MaxDim /\ MaxDim \in Nat /\ Margin \in Nat /\ Border \in Nat
    BY RequestAssumption, RokksearchAssumption, PatternFileAssumption
  <2>2. s <= 2 * Margin /\ r >= Margin /\ Margin < Border
    BY DemoAssumption
  <2> QED BY <2>1, <2>2
<1>2. \/ lo = -Border /\ hi = Border - 1
      \/ lo = -r /\ hi = r
  <2>1. CASE 2 * r + 1 >= 2 * Border
    BY <1>1, <2>1 DEF DemoRegion, Square
  <2>2. CASE ~(2 * r + 1 >= 2 * Border)
    <3>1. r # -1
      BY <1>1
    <3>2. DemoRegion(r) = [x0 |-> 0 - r, x1 |-> 0 + r, z0 |-> 0 - r, z1 |-> 0 + r]
      BY <2>2, <3>1 DEF DemoRegion, Square
    <3> QED BY <1>1, <3>2
  <2> QED BY <2>1, <2>2
<1>3. p = lo + Margin \/ p = hi - Margin
  BY DEF Spots
<1> DEFINE half == s \div 2
<1>4. half \in Nat /\ 2 * half <= s /\ s <= 2 * half + 1
  BY <1>1
<1> HIDE DEF half
<1>5. k \in Int /\ 0 <= k /\ k <= s - 1
  BY <1>1
<1>6. p \in Int /\ p - half + k \in lo .. hi
  BY ONLY <1>1, <1>2, <1>3, <1>4, <1>5
<1> QED BY <1>4, <1>6 DEF half

\* a file a demo may write, and what it announces of it
Promised(pf, spot) ==
  \E c \in Commands :
    /\ c.demo /\ Flag(c.y, -60) \in DemoLayers(c)
    /\ \E seed \in DemoSeeds(c), r \in Radii, s \in Sizes :
       \E px \in Spots(DemoRegion(r).x0, DemoRegion(r).x1),
          pz \in Spots(DemoRegion(r).z0, DemoRegion(r).z1) :
         pf = DemoFile(c, seed, r, px, pz, s) /\ spot = Announced(pf, px, pz)

\* What a search of the file of a demo asks for.
LEMMA DemoAsked ==
  ASSUME NEW c \in Commands, c.demo, Flag(c.y, -60) \in DemoLayers(c),
         NEW seed \in DemoSeeds(c), NEW r \in Radii, NEW s \in Sizes,
         NEW px, NEW pz
  PROVE  LET pf == DemoFile(c, seed, r, px, pz, s)
             p == Asked(NoFlags, pf)
         IN /\ p.region = DemoRegion(r) /\ p.grid = pf.grid
            /\ pf.grid = CopyWorld(p.edition, p.seed, p.y, px - s \div 2, pz - s \div 2, s)
<1>1. \A n : HasText(n) => Number[ToText(n)] = n
  BY DEF HasText, ToText
<1> DEFINE radius == IF 2 * r + 1 >= 2 * Border THEN -1 ELSE r
<1>2. HasText(seed) /\ HasText(radius)
  <2>1. c \in CommandLines /\ \A n \in Radii \cup Seeds \cup {-1} : HasText(n)
    BY RequestAssumption
  <2>2. \A n \in Range(c.seed) : HasText(Number[n])
    BY RequestAssumption DEF Searches
  <2>3. c.seed # <<>> => c.seed[1] \in Range(c.seed)
    <3>1. c.seed \in Seq(Texts)
      BY <2>1 DEF CommandLines, Given
    <3>2. c.seed # <<>> => 1 \in DOMAIN c.seed
      BY <3>1
    <3> QED BY <3>2 DEF Range
  <2>4. HasText(seed)
    BY <2>1, <2>2, <2>3 DEF DemoSeeds
  <2> QED BY <2>1, <2>4
<1> DEFINE pf == DemoFile(c, seed, r, px, pz, s)
           p == Asked(NoFlags, pf)
           edition == Flag(c.edition, "java")
           y == Flag(c.y, -60)
           grid == CopyWorld(edition, seed, y, px - s \div 2, pz - s \div 2, s)
<1>3. /\ pf.edition = edition /\ pf.seed = ToText(seed) /\ pf.y = y /\ pf.center_x = "0" /\ pf.center_z = "0"
      /\ pf.radius = ToText(radius) /\ pf.grid = grid
  <2> HIDE DEF grid, y, edition, radius
  <2> DEFINE no == FALSE
  <2>1. pf = [edition |-> edition, seed |-> ToText(seed), y |-> y, center_x |-> "0", center_z |-> "0",
              radius |-> ToText(radius), all_orientations |-> Flag(c.all, TRUE), checkpoint |-> "",
              stop_first |-> no, grid |-> grid]
    BY DEF DemoFile, y, edition, radius, grid
  <2> HIDE DEF no, pf
  <2> QED BY ONLY <2>1
<1> HIDE DEF pf, grid, edition, y, radius
<1>4. Number[pf.seed] = seed /\ Number[pf.radius] = radius /\ Number["0"] = 0
  BY <1>1, <1>2, <1>3, PatternFileAssumption
<1>5. /\ NoFlags.edition = <<>> /\ NoFlags.seed = <<>> /\ NoFlags.y = <<>> /\ NoFlags.size = <<>>
      /\ NoFlags.center = <<>> /\ NoFlags.region = <<>> /\ NoFlags.pattern = <<>>
  <2> DEFINE no == FALSE
             none == <<>>
  <2>1. NoFlags = [pattern |-> none, edition |-> none, seed |-> none, y |-> none, size |-> none,
            center |-> none, radius |-> none, region |-> none, all |-> none, checkpoint |-> none,
            backend |-> "", first |-> no, demo |-> no, benchmark |-> no]
    BY DEF NoFlags
  <2> HIDE DEF no, none
  <2>2. /\ NoFlags.edition = none /\ NoFlags.seed = none /\ NoFlags.y = none /\ NoFlags.size = none
        /\ NoFlags.center = none /\ NoFlags.region = none /\ NoFlags.pattern = none
    BY ONLY <2>1
  <2> QED BY <2>2 DEF none
<1>6. SearchRegion(NoFlags, pf) = DemoRegion(r) /\ Grid(NoFlags, pf) = pf.grid
  <2>1. SearchRegion(NoFlags, pf) = Square(Number[pf.center_x], Number[pf.center_z], Number[pf.radius])
    BY <1>5 DEF SearchRegion
  <2>2. SearchRegion(NoFlags, pf) = Square(0, 0, radius)
    BY <1>3, <1>4, <2>1
  <2> QED BY <1>5, <2>2 DEF Grid, DemoRegion, radius
<1>7. p = [edition |-> edition, seed |-> seed, y |-> y, all |-> Flag(NoFlags.all, pf.all_orientations),
           region |-> DemoRegion(r), grid |-> pf.grid]
  BY <1>3, <1>4, <1>5, <1>6 DEF Asked, Flag
<1> HIDE DEF p
<1>8. p.edition = edition /\ p.seed = seed /\ p.y = y /\ p.region = DemoRegion(r) /\ p.grid = pf.grid
  BY ONLY <1>7
<1> QED BY <1>3, <1>8 DEF grid, pf, p

\* The announced match is one of those that a search of the file finds.
LEMMA SpotMatches ==
  ASSUME NEW pf, NEW spot, Promised(pf, spot),
         Asked(NoFlags, pf) \in Patterns, ~Refused(Asked(NoFlags, pf))
  PROVE  \E match \in MatchesOf(Asked(NoFlags, pf)) :
           match.x = spot.x /\ match.z = spot.z /\ spot.mask \subseteq match.mask
<1>1. PICK c \in Commands :
        /\ c.demo /\ Flag(c.y, -60) \in DemoLayers(c)
        /\ \E seed \in DemoSeeds(c), r \in Radii, s \in Sizes :
           \E px \in Spots(DemoRegion(r).x0, DemoRegion(r).x1),
              pz \in Spots(DemoRegion(r).z0, DemoRegion(r).z1) :
             pf = DemoFile(c, seed, r, px, pz, s) /\ spot = Announced(pf, px, pz)
  BY DEF Promised
<1>2. PICK seed \in DemoSeeds(c), r \in Radii, s \in Sizes :
           \E px \in Spots(DemoRegion(r).x0, DemoRegion(r).x1),
              pz \in Spots(DemoRegion(r).z0, DemoRegion(r).z1) :
             pf = DemoFile(c, seed, r, px, pz, s) /\ spot = Announced(pf, px, pz)
  BY <1>1
<1>3. PICK px \in Spots(DemoRegion(r).x0, DemoRegion(r).x1),
           pz \in Spots(DemoRegion(r).z0, DemoRegion(r).z1) :
             pf = DemoFile(c, seed, r, px, pz, s) /\ spot = Announced(pf, px, pz)
  BY <1>2
<1> DEFINE p == Asked(NoFlags, pf)
           fx == px - s \div 2
           fz == pz - s \div 2
           block == World[<<p.edition, p.seed, p.y>>]
           knowns == Knowns(p.grid)
           anchor == AnchorOf(p)
<1>4. p.region = DemoRegion(r) /\ p.grid = pf.grid /\ p.grid = CopyWorld(p.edition, p.seed, p.y, fx, fz, s)
  BY <1>1, <1>3, DemoAsked
<1>5. s \in Nat /\ s # 0
  <2>1. s \in 1 .. MaxDim /\ MaxDim \in Nat
    BY RequestAssumption, PatternFileAssumption
  <2> QED BY ONLY <2>1
<1>6. /\ fx \in Int /\ fz \in Int
      /\ \A k \in 0 .. s - 1 : fx + k \in p.region.x0 .. p.region.x1 /\ fz + k \in p.region.z0 .. p.region.z1
  <2>1. /\ px \in Int /\ pz \in Int /\ s \div 2 \in Int
        /\ \A k \in 0 .. s - 1 : /\ px - s \div 2 + k \in DemoRegion(r).x0 .. DemoRegion(r).x1
                                  /\ pz - s \div 2 + k \in DemoRegion(r).z0 .. DemoRegion(r).z1
    <3>1. 0 \in 0 .. s - 1
      BY <1>5
    <3> QED BY <3>1, CopyFits
  <2> QED BY <1>4, <2>1
<1>7. \A x \in p.region.x0 .. p.region.x1, z \in p.region.z0 .. p.region.z1 : block[<<x, z>>] \in {0, 1}
  BY DemoAssumption
<1>8. /\ Len(p.grid) = s /\ DOMAIN p.grid = 1 .. s /\ \A j \in 1 .. s : DOMAIN p.grid[j] = 1 .. s
      /\ \A i, j \in 1 .. s : p.grid[j][i] = IF block[<<fx + i - 1, fz + j - 1>>] = 1 THEN "#" ELSE "o"
  <2> DEFINE cell(j, i) == IF block[<<fx + i - 1, fz + j - 1>>] = 1 THEN "#" ELSE "o"
  <2>1. p.grid = [j \in 1 .. s |-> [i \in 1 .. s |-> cell(j, i)]]
    BY <1>4 DEF CopyWorld
  <2> HIDE DEF cell, p
  <2>2. Len(p.grid) = s /\ DOMAIN p.grid = 1 .. s /\ \A j \in 1 .. s : p.grid[j] = [i \in 1 .. s |-> cell(j, i)]
    BY <1>5, <2>1
  <2>3. ASSUME NEW j \in 1 .. s
        PROVE  DOMAIN p.grid[j] = 1 .. s /\ \A i \in 1 .. s : p.grid[j][i] = cell(j, i)
    BY <2>2
  <2>4. \A i, j \in 1 .. s : p.grid[j][i] = cell(j, i)
    BY <2>3
  <2>5. \A j \in 1 .. s : DOMAIN p.grid[j] = 1 .. s
    BY <2>3
  <2> QED BY ONLY <2>2, <2>4, <2>5 DEF cell
<1>9. knowns \in Seq(KnownIn(p.grid)) /\ knowns # <<>>
  BY <1>5, <1>8, KnownsAre DEF Refused
<1>10. PICK a \in DOMAIN knowns : anchor = knowns[a]
  BY <1>9, AnchorIn DEF AnchorOf
<1>11. ASSUME NEW n \in DOMAIN knowns
       PROVE  /\ knowns[n].i \in 0 .. s - 1 /\ knowns[n].j \in 0 .. s - 1
              /\ block[<<fx + knowns[n].i, fz + knowns[n].j>>] = knowns[n].want
  <2> DEFINE k == knowns[n]
  <2>1. k \in KnownIn(p.grid)
    BY <1>9
  <2> HIDE DEF k, p, fx, fz, block
  <2>2. /\ k.i \in Nat /\ k.j \in Nat /\ k.j + 1 \in 1 .. s /\ k.i + 1 \in 1 .. s
        /\ k.want = IF p.grid[k.j + 1][k.i + 1] = "#" THEN 1 ELSE 0
    BY <1>8, <2>1 DEF KnownIn
  <2>3. /\ k.i \in 0 .. s - 1 /\ k.j \in 0 .. s - 1
        /\ fx + (k.i + 1) - 1 = fx + k.i /\ fz + (k.j + 1) - 1 = fz + k.j
    BY ONLY <1>5, <1>6, <2>2
  <2>4. block[<<fx + k.i, fz + k.j>>] \in {0, 1}
    BY <1>6, <1>7, <2>3
  <2>5. p.grid[k.j + 1][k.i + 1] = IF block[<<fx + k.i, fz + k.j>>] = 1 THEN "#" ELSE "o"
    BY <1>8, <2>2, <2>3
  <2>6. block[<<fx + k.i, fz + k.j>>] = k.want
    BY <2>2, <2>4, <2>5
  <2> QED BY <2>3, <2>6 DEF k
<1> DEFINE x == fx + anchor.i
           z == fz + anchor.j
           mask == Plan!TrueMask(knowns, anchor, p.all, block, x, z)
           match == [x |-> x, z |-> z, mask |-> mask]
<1>12. x \in p.region.x0 .. p.region.x1 /\ z \in p.region.z0 .. p.region.z1
  BY <1>6, <1>10, <1>11
<1>13. 1 \in mask
  <2> HIDE DEF p, fx, fz, block, knowns, anchor
  <2>1. 1 \in Plan!Orientations(p.all)
    <3>1. Len(Plan!kOrientations) = 8
      BY DEF Plan!kOrientations
    <3> QED BY <3>1 DEF Plan!Orientations
  <2>2. ASSUME NEW n \in DOMAIN knowns
        PROVE  LET o == Plan!Turn(1, knowns[n].i - anchor.i, knowns[n].j - anchor.j)
               IN block[<<x + o[1], z + o[2]>>] = knowns[n].want
    <3> DEFINE o == Plan!Turn(1, knowns[n].i - anchor.i, knowns[n].j - anchor.j)
               di == knowns[n].i - anchor.i
               dj == knowns[n].j - anchor.j
    <3>1. Plan!kOrientations[1] = <<1, 0, 0, 1>>
      BY DEF Plan!kOrientations
    <3>2. o = <<1 * di + 0 * dj, 0 * di + 1 * dj>>
      BY <3>1 DEF Plan!Turn
    <3>3. /\ anchor.i \in Int /\ anchor.j \in Int
          /\ knowns[n].i \in Int /\ knowns[n].j \in Int
      <4>1. \A m \in DOMAIN knowns : knowns[m].i \in 0 .. s - 1 /\ knowns[m].j \in 0 .. s - 1
        BY <1>11
      <4>2. \A m \in 0 .. s - 1 : m \in Int
        BY <1>5
      <4> HIDE DEF x, z, o
      <4> QED BY <1>10, <4>1, <4>2
    <3> HIDE DEF o
    <3>4. o[1] = di /\ o[2] = dj
      BY <3>2, <3>3
    <3>5. x + o[1] = fx + knowns[n].i /\ z + o[2] = fz + knowns[n].j
      BY <1>6, <3>3, <3>4
    <3>6. block[<<x + o[1], z + o[2]>>] = knowns[n].want
      BY <1>11, <3>5
    <3> QED BY <3>6 DEF o
  <2> HIDE DEF x, z
  <2> QED BY <2>1, <2>2 DEF Plan!TrueMask
<1>14. match \in MatchesOf(p)
  <2> HIDE DEF p, x, z
  <2> QED BY <1>12, <1>13 DEF MatchesOf
<1>15. spot.x = x /\ spot.z = z /\ spot.mask = {1}
  <2>1. spot = [x |-> px - s \div 2 + anchor.i, z |-> pz - s \div 2 + anchor.j, mask |-> {1}]
    BY <1>3, <1>4, <1>8 DEF Announced
  <2> HIDE DEF anchor
  <2> QED BY <2>1
<1>16. match.x = x /\ match.z = z /\ match.mask = mask
  <2> HIDE DEF x, z, mask
  <2> QED OBVIOUS
<1> QED
  <2> HIDE DEF match, x, z, mask, p
  <2> QED BY <1>13, <1>14, <1>15, <1>16 DEF p
\* A process was started with one of the commands, and what a demo announced of a
\* file holds until the file is written again.
DemoInv ==
  /\ at # "gone" => cmd \in Commands
  /\ DOMAIN expected = Names
  /\ \A n \in Names : expected[n] # Nowhere => Promised(wrote[n], expected[n])

LEMMA DemoKept == FileInv /\ DemoInv /\ [Next]_vars => DemoInv'
<1> SUFFICES ASSUME FileInv, DemoInv, [Next]_vars PROVE DemoInv'
  OBVIOUS
<1>1. ASSUME UNCHANGED written, at' # "gone" => cmd' \in Commands PROVE DemoInv'
  <2>1. UNCHANGED <<wrote, expected>>
    BY <1>1 DEF written
  <2> QED BY <1>1, <2>1 DEF DemoInv
<1>2. ASSUME NEW c \in Commands, NEW n \in Names, Demo(c, n) PROVE DemoInv'
  <2>1. cmd' = c /\ c.demo
    BY <1>2 DEF Demo, Launched
  <2>2. CASE UNCHANGED written
    BY <1>1, <2>1, <2>2
  <2>3. CASE /\ Flag(c.y, -60) \in DemoLayers(c)
             /\ \E seed \in DemoSeeds(c), r \in Radii, s \in Sizes :
                \E px \in Spots(DemoRegion(r).x0, DemoRegion(r).x1),
                   pz \in Spots(DemoRegion(r).z0, DemoRegion(r).z1) :
                  LET pf == DemoFile(c, seed, r, px, pz, s) IN
                  /\ wrote' = [wrote EXCEPT ![n] = pf]
                  /\ expected' = [expected EXCEPT ![n] = Announced(pf, px, pz)]
    <3>1. PICK seed \in DemoSeeds(c), r \in Radii, s \in Sizes :
                \E px \in Spots(DemoRegion(r).x0, DemoRegion(r).x1),
                   pz \in Spots(DemoRegion(r).z0, DemoRegion(r).z1) :
                  LET pf == DemoFile(c, seed, r, px, pz, s) IN
                  /\ wrote' = [wrote EXCEPT ![n] = pf]
                  /\ expected' = [expected EXCEPT ![n] = Announced(pf, px, pz)]
      BY <2>3
    <3>2. PICK px \in Spots(DemoRegion(r).x0, DemoRegion(r).x1),
                   pz \in Spots(DemoRegion(r).z0, DemoRegion(r).z1) :
                  LET pf == DemoFile(c, seed, r, px, pz, s) IN
                  /\ wrote' = [wrote EXCEPT ![n] = pf]
                  /\ expected' = [expected EXCEPT ![n] = Announced(pf, px, pz)]
      BY <3>1
    <3> DEFINE pf == DemoFile(c, seed, r, px, pz, s)
               spot == Announced(pf, px, pz)
    <3>3. Promised(pf, spot)
      BY <2>1, <2>3 DEF Promised
    <3>4. wrote' = [wrote EXCEPT ![n] = pf] /\ expected' = [expected EXCEPT ![n] = spot]
      BY <3>2
    <3> HIDE DEF pf, spot
    <3>5. /\ wrote'[n] = pf /\ expected'[n] = spot /\ DOMAIN expected' = Names
          /\ \A k \in Names : k # n => wrote'[k] = wrote[k] /\ expected'[k] = expected[k]
      BY <3>4 DEF FileInv, DemoInv
    <3> QED BY <2>1, <3>3, <3>5 DEF DemoInv
  <2> QED BY <1>2, <2>2, <2>3 DEF Demo
<1>3. ASSUME NEW n \in Names, SaveSession(n) PROVE DemoInv'
  <2>1. PICK pf : wrote' = [wrote EXCEPT ![n] = pf]
    BY <1>3 DEF SaveSession
  <2>2. at' = "gone" /\ expected' = [expected EXCEPT ![n] = Nowhere]
    BY <1>3 DEF SaveSession, process
  <2>3. /\ expected'[n] = Nowhere /\ DOMAIN expected' = Names
        /\ \A k \in Names : k # n => wrote'[k] = wrote[k] /\ expected'[k] = expected[k]
    BY <2>1, <2>2 DEF FileInv, DemoInv
  <2> QED BY <2>2, <2>3 DEF DemoInv
<1>4. ASSUME NEW c \in Commands, Search(c) \/ StartBenchmark(c) PROVE DemoInv'
  <2>1. UNCHANGED written /\ cmd' = c
    BY <1>4 DEF Search, StartBenchmark, Launched
  <2> QED BY <1>1, <2>1
<1>5. CASE JobStep \/ Sweep \/ UNCHANGED vars
  <2>1. UNCHANGED written /\ UNCHANGED <<at, cmd>>
    BY <1>5 DEF JobStep, Sweep, vars, process
  <2> QED BY <1>1, <2>1 DEF DemoInv
<1>6. CASE MainLoop \/ EndBenchmark
  <2>1. UNCHANGED written /\ cmd' = cmd /\ at # "gone"
    BY <1>6 DEF MainLoop, PollJob, PrintResults, EndBenchmark
  <2> QED BY <1>1, <2>1 DEF DemoInv
<1>7. CASE End \/ Kill
  <2>1. UNCHANGED written /\ at' = "gone"
    BY <1>7 DEF End, Kill, Gone
  <2> QED BY <1>1, <2>1
<1> QED BY <1>2, <1>3, <1>4, <1>5, <1>6, <1>7 DEF Next

\* A search of a demo's file finds the announced match: for every world, radius, size
\* of the pattern and spot within the margin (rokksearch.cpp:479-483).
THEOREM DemosAreFound == Spec => []DemoFindable
<1>1. Init => DemoInv
  BY DEF Init, DemoInv
<1>2. Spec => []DemoInv
  BY <1>1, DemoKept, FilesFit, PTL DEF Spec
<1>3. FileInv /\ DemoInv /\ PrintedIsTruth => DemoFindable
  <2> SUFFICES ASSUME FileInv, DemoInv, PrintedIsTruth,
                      at = "told", told.code = 0, ~told.early, Searches(cmd), cmd.pattern # <<>>,
                      expected[cmd.pattern[1]] # Nowhere,
                      Asked(cmd, wrote[cmd.pattern[1]]) = Asked(NoFlags, wrote[cmd.pattern[1]])
               PROVE  LET spot == expected[cmd.pattern[1]] IN
                      \E match \in told.matches :
                        match.x = spot.x /\ match.z = spot.z /\ spot.mask \subseteq match.mask
    BY DEF DemoFindable
  <2> DEFINE n == cmd.pattern[1]
             p == Asked(NoFlags, wrote[n])
  <2>1. cmd \in Commands /\ cmd \in CommandLines
    BY RequestAssumption DEF DemoInv
  <2>2. n \in Names
    <3>1. cmd.pattern \in Given(Names)
      BY <2>1 DEF CommandLines
    <3> QED BY <3>1 DEF Given
  <2>3. Promised(wrote[n], expected[n])
    BY <2>2 DEF DemoInv
  <2>4. wrote[n] \in Written
    <3>1. PICK c \in Commands :
            /\ c.demo /\ Flag(c.y, -60) \in DemoLayers(c)
            /\ \E seed \in DemoSeeds(c), r \in Radii, s \in Sizes :
               \E px \in Spots(DemoRegion(r).x0, DemoRegion(r).x1),
                  pz \in Spots(DemoRegion(r).z0, DemoRegion(r).z1) :
                 wrote[n] = DemoFile(c, seed, r, px, pz, s)
      BY <2>3 DEF Promised
    <3>2. \A r : DemoRegion(r).z0 = DemoRegion(r).x0 /\ DemoRegion(r).z1 = DemoRegion(r).x1
      BY DEF DemoRegion, Square
    <3>3. wrote[n] \in DemoFiles(c)
      BY <3>1, <3>2 DEF DemoFiles
    <3> QED BY <3>1, <3>3 DEF Written
  <2>5. p \in Patterns
    BY <2>1, <2>4, RequestAssumption
  <2>6. Intended(cmd) = wrote[n] /\ Asked(cmd, Intended(cmd)) = p
    BY DEF Intended
  <2>7. ~Refused(p) /\ told.matches = TrueMatches[p]
    BY <2>6 DEF PrintedIsTruth
  <2>8. TrueMatches[p] = MatchesOf(p)
    BY <2>5, <2>7 DEF TrueMatches
  <2> HIDE DEF p
  <2>9. \E match \in MatchesOf(p) :
          match.x = expected[n].x /\ match.z = expected[n].z /\ expected[n].mask \subseteq match.mask
    BY <2>3, <2>5, <2>7, SpotMatches DEF p
  <2> QED BY <2>7, <2>8, <2>9
<1> QED BY <1>2, <1>3, FilesFit, PrintedMatchesAreTrue, PTL
=============================================================================
