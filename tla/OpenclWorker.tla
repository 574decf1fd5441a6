---------------------------- MODULE OpenclWorker ----------------------------
(***************************************************************************)
(* OpenclWorker: the host enqueues a tile's commands into one of two       *)
(* in-order queues, the device runs the two queues in any interleaving,    *)
(* and end_tile() blocks for the queue of the oldest tile and reads its    *)
(* counter and its matches.  Buffers keep what they held: a counter has to *)
(* be zeroed, and a plane filled, by the commands of the tile itself.      *)
(*                                                                         *)
(* The compiled match kernel is a variable of its own, because configure() *)
(* compiles a pattern into it, keeps the compiled program from one job to  *)
(* the next, and falls back to the generic kernel when the driver fails.   *)
(***************************************************************************)
EXTENDS WorkerJob, SearchPlan

CONSTANTS
  kSlots,        \* queues, 2 in the code
  kInlineCells,  \* the cells compiled into the kernel, 6 in the code
  Jobs           \* what configure() is called with, and the tiles that follow

\* every tile of the pump's pipeline needs a slot of its own (search_service.cpp:602)
ASSUME SlotAssumption == kSlots \in Nat /\ kDepth <= kSlots

\* the anchor is the first of the cells compiled in
ASSUME InlineAssumption == kInlineCells \in Nat \ {0}

ASSUME JobAssumption == \A j \in Jobs : IsJob(j)

VARIABLES
  job, begun, answers, truncated,  \* as in Worker; truncated is Impl::trunc
  plan,         \* the search plan on the device
  cap,          \* matches kept per tile
  next_begin,   \* the slot of the next begin_tile()
  next_end,     \* the slot of the next end_tile()
  specialized,  \* specialized_program, by the source it was built from
  k_match,      \* the plan that the match kernel in use runs
  queue,        \* slot -> the commands not yet run
  count,        \* slot -> buf_count
  found,        \* slot -> buf_xz and buf_orient, by index
  raw,          \* slot -> what buf_raw was last filled for
  plane         \* slot -> what buf_plane was last filled for

worker == <<job, begun, answers, truncated>>
device == <<plan, cap, next_begin, next_end, specialized, k_match, queue, count, found, raw, plane>>
vars == <<worker, device>>

Slots == 0 .. kSlots - 1
Blank == [px |-> 0, pz |-> 0, low_w |-> 0, low_h |-> 0, words |-> 0, rows |-> 0, raw |-> 0, near |-> TRUE]
\* what a fresh result buffer holds at an index nobody wrote
NoMatch == [x |-> 0, z |-> 0, mask |-> {}]
Generic == [offsets |-> <<>>, want |-> <<>>, more |-> FALSE]

\* What the source of a specialized program depends on: the variants and their
\* first cells, the anchor excepted, and whether a loop over the others follows.
SpecializedSource(p) ==
  LET n == IF Len(p.want) < kInlineCells THEN Len(p.want) ELSE kInlineCells
  IN [offsets |-> [v \in DOMAIN p.offsets |-> SubSeq(p.offsets[v], 2, n)],
      want    |-> SubSeq(p.want, 2, n),
      more    |-> n < Len(p.want)]

\* The plan a match kernel runs: the anchor, the cells compiled into it, then
\* those of buf_var_off and buf_want; the masks are in buf_var_mask.
RunBy(kernel, p) ==
  IF kernel = Generic THEN p
  ELSE LET Cells(anchor, baked, s) ==
             anchor \o baked \o (IF kernel.more THEN SubSeq(s, Len(baked) + 2, Len(s)) ELSE <<>>)
       IN [want    |-> Cells(SubSeq(p.want, 1, 1), kernel.want, p.want),
           offsets |-> [v \in DOMAIN kernel.offsets |->
                          Cells(<<<<0, 0>>>>, kernel.offsets[v], p.offsets[v])],
           masks   |-> p.masks]

Init == /\ job = NoJob /\ begun = 0 /\ answers = <<>> /\ truncated = FALSE
        /\ plan = NoPlan /\ cap = 0 /\ next_begin = 0 /\ next_end = 0
        /\ specialized = Generic /\ k_match = NoPlan
        /\ queue = [s \in Slots |-> <<>>]
        /\ count = [s \in Slots |-> 1] /\ found = [s \in Slots |-> <<NoMatch>>]
        /\ raw = [s \in Slots |-> Blank] /\ plane = [s \in Slots |-> Blank]

\* configure(), between two jobs; compiles says whether the driver builds the
\* program.  Fresh buffers hold anything, for which a count of 1 stands.
Configure(j, compiles) ==
  /\ begun = Len(answers) /\ begun = Len(job.tiles)
  /\ job' = j /\ begun' = 0 /\ answers' = <<>> /\ truncated' = FALSE
  /\ plan' = BuildSearchPlan(j.knowns, j.rare, j.all)
  /\ cap' = TileCap(j)
  /\ next_begin' = 0 /\ next_end' = 0
  /\ LET src == SpecializedSource(plan')
     IN /\ specialized' = IF compiles THEN src ELSE specialized
        /\ k_match' = RunBy(IF compiles \/ src = specialized THEN specialized' ELSE Generic, plan')
  /\ count' = [s \in Slots |-> 1] /\ found' = [s \in Slots |-> <<NoMatch>>]
  /\ raw' = [s \in Slots |-> Blank] /\ plane' = [s \in Slots |-> Blank]
  /\ UNCHANGED queue

\* enqueue_search(): zero the counter, then for each piece fill, remap, match
Commands(t) ==
  LET Of(piece) ==
        LET pl == PlaneOf(job.edition, piece, HaloOf(Reach(plan, 1)), HaloOf(Reach(plan, 2)))
            Cmd(op) == [op |-> op, piece |-> piece, plane |-> pl]
        IN IF job.edition = "java" \/ pl.near THEN <<Cmd("fill"), Cmd("match")>>
           ELSE <<Cmd("draw"), Cmd("remap"), Cmd("match")>>
      pieces == Pieces(t)
  IN <<[op |-> "zero"]>> \o FlattenSeq([n \in DOMAIN pieces |-> Of(pieces[n])])

SlotAfter(s) == (s + 1) % kSlots

BeginTile == /\ begun < Len(job.tiles) /\ begun - Len(answers) < kDepth
             /\ queue' = [queue EXCEPT ![next_begin] = @ \o Commands(job.tiles[begun + 1])]
             /\ next_begin' = SlotAfter(next_begin)
             /\ begun' = begun + 1
             /\ UNCHANGED <<job, answers, truncated, plan, cap, next_end, specialized, k_match,
                            count, found, raw, plane>>

\* read_results(), which waits for the slot's queue to run dry
EndTile == LET n == count[next_end]
               keep == IF n < cap THEN n ELSE cap
           IN /\ Len(answers) < begun
              /\ queue[next_end] = <<>>
              /\ answers' = Append(answers, {found[next_end][i] : i \in 1 .. keep})
              /\ truncated' = (truncated \/ n > cap)
              /\ next_end' = SlotAfter(next_end)
              /\ UNCHANGED <<job, begun, plan, cap, next_begin, specialized, k_match, queue,
                             count, found, raw, plane>>

Takes(s, op) == /\ queue[s] # <<>> /\ Head(queue[s]).op = op
                /\ queue' = [queue EXCEPT ![s] = Tail(@)]
                /\ UNCHANGED <<worker, plan, cap, next_begin, next_end, specialized, k_match>>

\* mutant: the counter keeps what the slot's last tile left in it
ZeroForgotten(s) == Takes(s, "zero") /\ UNCHANGED <<count, found, raw, plane>>

Zero(s) == /\ Takes(s, "zero")
           /\ count' = [count EXCEPT ![s] = 0]
           /\ UNCHANGED <<found, raw, plane>>

\* mutant: a plane of the same size is taken for filled
FillCached(s) ==
  LET new == Head(queue[s]).plane
      same == plane[s].words = new.words /\ plane[s].rows = new.rows
  IN /\ Takes(s, "fill")
     /\ plane' = [plane EXCEPT ![s] = IF same THEN @ ELSE new]
     /\ UNCHANGED <<count, found, raw>>

\* fill_plane, or fill_plane_be where no column is rounded
Fill(s) == /\ Takes(s, "fill")
           /\ plane' = [plane EXCEPT ![s] = Head(queue[s]).plane]
           /\ UNCHANGED <<count, found, raw>>

\* fill_plane_be into buf_raw
Draw(s) == /\ Takes(s, "draw")
           /\ raw' = [raw EXCEPT ![s] = Head(queue[s]).plane]
           /\ UNCHANGED <<count, found, plane>>

\* remap_plane_be, of the raw rows it finds
Remap(s) == /\ Takes(s, "remap")
            /\ plane' = [plane EXCEPT ![s] = raw[s]]
            /\ UNCHANGED <<count, found, raw>>

\* the matches of a piece, tested in the plane as it is now
MatchPlane(s, cmd) ==
  LET bit == [p \in Int \X Int |->
               PlaneBit(job.edition, plane[s], p[2] + cmd.plane.low_h, p[1] + cmd.plane.low_w)]
      At(p) == [x |-> cmd.piece.x0 + p[1], z |-> cmd.piece.z0 + p[2],
                mask |-> PlanMask(k_match, bit, p[1], p[2])]
  IN {m \in {At(p) : p \in (0 .. cmd.piece.w - 1) \X (0 .. cmd.piece.h - 1)} : m.mask # {}}

\* buf with the matches of kept written from index n on.  They are read back as
\* a set, so that one order of them stands for all.
Written(buf, n, kept) ==
  LET k == Cardinality(kept)
      order == CHOOSE f \in [1 .. k -> kept] : {f[i] : i \in 1 .. k} = kept
  IN IF kept = {} THEN buf
     ELSE [i \in 1 .. (IF Len(buf) > n + k THEN Len(buf) ELSE n + k) |->
             IF i \in n + 1 .. n + k THEN order[i - n] ELSE buf[i]]

\* match_plane: every match bumps the counter, and those that find it below
\* the cap are written at it; the work-items come in any order.
Match(s) == LET ms == MatchPlane(s, Head(queue[s]))
                n == count[s]
                room == IF n < cap THEN cap - n ELSE 0
                k == IF Cardinality(ms) < room THEN Cardinality(ms) ELSE room
            IN /\ Takes(s, "match")
               /\ count' = [count EXCEPT ![s] = @ + Cardinality(ms)]
               /\ \E kept \in {ks \in SUBSET ms : Cardinality(ks) = k} :
                    found' = [found EXCEPT ![s] = Written(@, n, kept)]
               /\ UNCHANGED <<raw, plane>>

Run(s) == Zero(s) \/ Fill(s) \/ Draw(s) \/ Remap(s) \/ Match(s)

Work == BeginTile \/ EndTile \/ \E s \in Slots : Run(s)

Next == Work \/ \E j \in Jobs, compiles \in BOOLEAN : Configure(j, compiles)

Spec == Init /\ [][Next]_vars

Contract == INSTANCE Worker

(* Properties *)

\* The planes of a piece, and the whole chunks drawn behind one, fit the buffers
\* that configure() allocated before it knew the tiles.
PlanesFit ==
  \A s \in Slots : \A n \in DOMAIN queue[s] : queue[s][n].op # "zero" =>
    LET p == queue[s][n].plane
        rows == IF job.edition = "bedrock" THEN p.raw ELSE p.rows
    IN /\ p.words <= BufferWords(job.edition, HaloOf(Reach(plan, 1)))
       /\ rows <= BufferRows(job.edition, HaloOf(Reach(plan, 2)))

\* begin_tile() and end_tile() take turns on the slots in step: the tiles in
\* flight sit in different slots, the oldest at next_end, and commands are
\* queued nowhere else, also after a job of an odd number of tiles.  And one plane
\* buffer for a slot is enough (opencl_worker.cpp:407-408): when a match kernel
\* comes up, the plane is the one of its own piece, and when a remap comes up, the
\* raw rows are.
SlotsInTurn ==
  LET flight == begun - Len(answers)
  IN /\ flight \in 0 .. kSlots
     /\ (next_begin - next_end) % kSlots = flight % kSlots
     /\ \A s \in Slots : queue[s] # <<>> =>
          LET cmd == Head(queue[s])
          IN /\ \E k \in 0 .. flight - 1 : s = (next_end + k) % kSlots
             /\ cmd.op = "match" => plane[s] = cmd.plane
             /\ cmd.op = "remap" => raw[s] = cmd.plane
=============================================================================
