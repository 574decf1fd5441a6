----------------------------- MODULE CpuWorker -----------------------------
(***************************************************************************)
(* CpuWorker: begin_tile() scans the tile at once, with threads that take  *)
(* every threads-th row and share nothing but the counter of matches that  *)
(* enforces the cap of the whole job; end_tile() hands out the results in  *)
(* order.                                                                  *)
(***************************************************************************)
EXTENDS WorkerJob, SearchPlan

CONSTANTS
  threads,  \* threads_
  Jobs      \* what configure() is called with, and the tiles that follow

VARIABLES
  job, begun, answers,  \* as in Worker
  truncated,            \* truncated_
  plan,                 \* plan_
  emitted,              \* emitted_, since configure()
  done,                 \* done_
  scanning,             \* the caller is inside run_tile()
  todo,                 \* thread -> the matches ahead of it in its rows
  bucket                \* thread -> its matches

vars == <<job, begun, answers, truncated, plan, emitted, done, scanning, todo, bucket>>

Threads == 0 .. threads - 1

Init == /\ job = NoJob /\ begun = 0 /\ answers = <<>> /\ truncated = FALSE
        /\ plan = NoPlan /\ emitted = 0 /\ done = <<>> /\ scanning = FALSE
        /\ todo = [t \in Threads |-> <<>>] /\ bucket = [t \in Threads |-> {}]

\* configure(), between two jobs
Configure(j) == /\ ~scanning /\ begun = Len(answers) /\ begun = Len(job.tiles)
                /\ job' = j /\ begun' = 0 /\ answers' = <<>>
                /\ plan' = BuildSearchPlan(j.knowns, j.rare, j.all)
                /\ truncated' = FALSE /\ emitted' = 0
                /\ UNCHANGED <<done, scanning, todo, bucket>>

\* mutant: no chunks are drawn for what the pattern reaches beyond the tile
ChunkBedNarrow(t, rx, rz, x, z) ==
  IF /\ ChunkOf(x) \in ChunkOf(t.x0) .. ChunkOf(t.x0 + t.w - 1)
     /\ ChunkOf(z) \in ChunkOf(t.z0) .. ChunkOf(t.z0 + t.h - 1)
  THEN Drawn(BeCoord(x), BeCoord(z)) ELSE Junk

\* Bedrock Edition: a block of the chunks drawn for the tile, see run_tile()
ChunkBed(t, rx, rz, x, z) ==
  IF /\ ChunkOf(x) \in ChunkOf(t.x0 + rx[1]) .. ChunkOf(t.x0 + t.w - 1 + rx[2])
     /\ ChunkOf(z) \in ChunkOf(t.z0 + rz[1]) .. ChunkOf(t.z0 + t.h - 1 + rz[2])
  THEN Drawn(BeCoord(x), BeCoord(z)) ELSE Junk

\* the match at (x, z), if there is one
MatchAt(t, x, z) ==
  LET rx == Reach(plan, 1)
      rz == Reach(plan, 2)
      block == [p \in Int \X Int |-> IF job.edition = "bedrock" THEN ChunkBed(t, rx, rz, p[1], p[2])
                                     ELSE Drawn(p[1], p[2])]
      mask == PlanMask(plan, block, x, z)
  IN IF mask = {} THEN <<>> ELSE <<[x |-> x, z |-> z, mask |-> mask]>>

\* the matches of row z, from west to east
RowMatches(t, z) == FlattenSeq([n \in 1 .. t.w |-> MatchAt(t, t.x0 + n - 1, z)])

\* the matches of thread n, in the order of its rows
ThreadMatches(t, n) ==
  FlattenSeq([dz \in 1 .. t.h |-> IF (dz - 1) % threads = n THEN RowMatches(t, t.z0 + dz - 1) ELSE <<>>])

BeginTile == /\ ~scanning
             /\ begun < Len(job.tiles) /\ begun - Len(answers) < kDepth
             /\ scanning' = TRUE
             /\ todo' = [n \in Threads |-> ThreadMatches(job.tiles[begun + 1], n)]
             /\ bucket' = [n \in Threads |-> {}]
             /\ UNCHANGED <<job, begun, answers, truncated, plan, emitted, done>>

\* mutant: one match too many passes the cap
EmitOneMore(n) ==
  /\ todo[n] # <<>>
  /\ emitted' = emitted + 1
  /\ IF emitted <= job.cap
     THEN bucket' = [bucket EXCEPT ![n] = @ \cup {Head(todo[n])}] /\ UNCHANGED truncated
     ELSE truncated' = TRUE /\ UNCHANGED bucket
  /\ todo' = [todo EXCEPT ![n] = Tail(@)]
  /\ UNCHANGED <<job, begun, answers, plan, done, scanning>>

\* a thread comes to a match: fetch_add, and the cap
Emit(n) == /\ todo[n] # <<>>
           /\ emitted' = emitted + 1
           /\ IF emitted < job.cap
              THEN bucket' = [bucket EXCEPT ![n] = @ \cup {Head(todo[n])}] /\ UNCHANGED truncated
              ELSE truncated' = TRUE /\ UNCHANGED bucket
           /\ todo' = [todo EXCEPT ![n] = Tail(@)]
           /\ UNCHANGED <<job, begun, answers, plan, done, scanning>>

\* the threads are joined, their buckets concatenated and pushed: begin_tile() returns
Join == /\ scanning /\ \A n \in Threads : todo[n] = <<>>
        /\ scanning' = FALSE
        /\ done' = Append(done, UNION {bucket[n] : n \in Threads})
        /\ bucket' = [n \in Threads |-> {}]
        /\ begun' = begun + 1
        /\ UNCHANGED <<job, answers, truncated, plan, emitted, todo>>

EndTile == /\ ~scanning /\ done # <<>>
           /\ answers' = Append(answers, Head(done))
           /\ done' = Tail(done)
           /\ UNCHANGED <<job, begun, truncated, plan, emitted, scanning, todo, bucket>>

Work == BeginTile \/ Join \/ EndTile \/ \E n \in Threads : Emit(n)

Next == Work \/ \E j \in Jobs : Configure(j)

Spec == Init /\ [][Next]_vars

Contract == INSTANCE Worker WITH begun <- IF scanning THEN begun + 1 ELSE begun
=============================================================================
