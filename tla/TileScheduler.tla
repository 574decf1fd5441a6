--------------------------- MODULE TileScheduler ---------------------------
(***************************************************************************)
(* The TileScheduler of one job: what is restored into it before the pump, *)
(* next(), mark_done(), mark_hit() and the counters behind map().  Its     *)
(* owner is one thread that restores first, then hands tiles out and marks *)
(* them done in whatever order they come back.                             *)
(***************************************************************************)
EXTENDS TileGrid, Sequences, FiniteSetsExt, Functions

CONSTANTS
  Regions,  \* the regions a scheduler may be built for
  Runs,     \* the pairs <<a, b>> a checkpoint's done line may hold
  Driven    \* bound: those of Regions whose scheduler is used once built

\* Every region has few enough tiles of the largest side: with the code's constants,
\* any square of 2^36 blocks, which no world comes near.
ASSUME RegionAssumption ==
  \A r \in Regions : /\ r \in Region
                     /\ Across(r.x0, r.x1, MaxSide) * Across(r.z0, r.z1, MaxSide) <= MaxTiles

VARIABLES
  grid,       \* what the constructor derives from the region
  order,      \* order_
  cursor,     \* cursor_, counted from 1
  done,       \* done_
  busy,       \* busy_
  doneCount,  \* done_count_
  candidates, \* candidates_done_
  cellDone,   \* cell_done_
  cellBusy,   \* cell_busy_
  hit,        \* the map cells with cell_hit_ > 0
  taken       \* history: the tiles next() has handed out, in order

counters == <<doneCount, candidates, cellDone>>
vars == <<grid, order, cursor, done, busy, counters, cellBusy, hit, taken>>

Tiles == Indices(grid)

DrivenGrids == {Grid(r) : r \in Driven}
Used == grid \in DrivenGrids

\* how many of the tiles T of g count towards cell c
Share(g, T, c) == Cardinality({i \in T : CellOf(g, i) = c})

\* the candidates of the tiles T of g
CandidatesOf(g, T) == MapThenSumSet(LAMBDA i : Area(g, i), T)

Init ==
  /\ grid \in {Grid(r) : r \in Regions}
  /\ order = Order(grid)
  /\ cursor = 1 /\ done = {} /\ busy = {}
  /\ doneCount = 0 /\ candidates = 0
  /\ cellDone = [c \in Cells(grid) |-> 0]
  /\ cellBusy = [c \in Cells(grid) |-> 0]
  /\ hit = {} /\ taken = <<>>

\* mutant: a tile marked twice is counted twice
MarkAgain(T) ==
  /\ done' = done \cup T
  /\ doneCount' = doneCount + Cardinality(T)
  /\ candidates' = candidates + CandidatesOf(grid, T)
  /\ cellDone' = [c \in Cells(grid) |-> cellDone[c] + Share(grid, T, c)]
  /\ busy' = busy \ T
  /\ cellBusy' = [c \in Cells(grid) |-> cellBusy[c] - Share(grid, T \cap busy, c)]

\* mark_done of each of the tiles T
Mark(T) ==
  LET new == T \ done IN
  /\ done' = done \cup new
  /\ doneCount' = doneCount + Cardinality(new)
  /\ candidates' = candidates + CandidatesOf(grid, new)
  /\ cellDone' = [c \in Cells(grid) |-> cellDone[c] + Share(grid, new, c)]
  /\ busy' = busy \ new
  /\ cellBusy' = [c \in Cells(grid) |-> cellBusy[c] - Share(grid, new \cap busy, c)]

\* read_checkpoint applies one run of its done line, clipped to the grid
RestoreRun(a, b) ==
  /\ Used /\ taken = <<>> /\ cursor = 1
  /\ Mark(Tiles \cap (a .. b))
  /\ UNCHANGED <<grid, order, cursor, hit, taken>>

\* mutant: next() hands out whatever the cursor is at
PlacesAll == cursor .. Len(order)

\* mutant: next() steps over a place before it looks
PlacesAfter == {p \in cursor + 1 .. Len(order) : order[p] \notin done}

\* the places next() has yet to pass that are not done
Places == {p \in cursor .. Len(order) : order[p] \notin done}

\* next() returns a tile
Take ==
  /\ Used /\ Places # {}
  /\ LET p == Min(Places)
         c == CellOf(grid, order[p])
     IN /\ cursor' = p + 1
        /\ busy' = busy \cup {order[p]}
        /\ cellBusy' = [cellBusy EXCEPT ![c] = @ + 1]
        /\ taken' = Append(taken, order[p])
  /\ UNCHANGED <<grid, order, done, counters, hit>>

\* next() returns false
Exhaust ==
  /\ Used /\ Places = {} /\ cursor <= Len(order)
  /\ cursor' = Len(order) + 1
  /\ UNCHANGED <<grid, order, done, busy, counters, cellBusy, hit, taken>>

\* a tile's results have been collected
MarkDone ==
  /\ \E i \in busy : Mark({i})
  /\ UNCHANGED <<grid, order, cursor, hit, taken>>

\* a restored match, wherever it lies, or one of a tile that has come back
MarkHit(x, z) ==
  /\ Used
  /\ taken = <<>> \/ (InRegion(grid, x, z) /\ TileOf(grid, x, z) \in busy)
  /\ hit' = IF InRegion(grid, x, z) THEN hit \cup {CellOf(grid, TileOf(grid, x, z))} ELSE hit
  /\ UNCHANGED <<grid, order, cursor, done, busy, counters, cellBusy, taken>>

\* the phase map() gives cell c
Phase(c) ==
  IF cellBusy[c] > 0 THEN "searching"
  ELSE IF cellDone[c] = CellTiles(grid, c) THEN "done"
  ELSE IF cellDone[c] > 0 THEN "partial"
  ELSE "pending"

Next ==
  \/ \E run \in Runs : RestoreRun(run[1], run[2])
  \/ Take
  \/ Exhaust
  \/ MarkDone
  \/ \E x \in grid.x0 - 1 .. grid.x1 + 1, z \in {grid.z0, grid.z1 + 1} : MarkHit(x, z)

Spec == Init /\ [][Next]_vars

\* the pump takes tiles and collects them while it is not told to stop
FairSpec == Spec /\ WF_vars(Take \/ Exhaust) /\ WF_vars(MarkDone)

-----------------------------------------------------------------------------
(* Properties                                                              *)

\* Every origin is in exactly one tile (search_service.cpp:457-458); the sorted
\* keys are a spiral that never jumps within a ring (98-106); and a map cell holds
\* as many tiles as map() thinks, for cell_of_tile is the inverse of split along
\* both axes (60-62, 194-199).
GeometrySound ==
  /\ TilesPartition(grid)
  /\ KeysAreSpiral(grid) /\ RingsAreWalks(grid)
  /\ CellsAddUp(grid)
  /\ SplitInverse(grid.nx, grid.mw)
  /\ SplitInverse(grid.nz, grid.mh)

\* next() hands out each tile at most once, none that was done before, and only
\* when every tile of a nearer ring is done or has been handed out; the tiles in
\* flight are those handed out and not marked (search_service.hpp:74-86).
HandedOutInOrder ==
  /\ IsInjective(taken)
  /\ busy \cap done = {} /\ Range(taken) \subseteq busy \cup done
  /\ \A k \in DOMAIN taken, i \in Tiles :
       Ring(grid, i) < Ring(grid, taken[k]) => i \in done \cup {taken[j] : j \in 1 .. k}

\* Counts and map, kept one call at a time, tell the truth about the tiles, each
\* of which counts once however often it is marked: a cell is searching iff a tile
\* of it is in flight, done iff all are done, and a hit is in no cell but those of
\* the map (search_service.cpp:162-164, service_types.hpp:206-212).
MapTruthful ==
  /\ doneCount = Cardinality(done) /\ hit \subseteq Cells(grid)
  /\ candidates = CandidatesOf(grid, done)
  /\ \A c \in Cells(grid) :
       LET own == {i \in Tiles : CellOf(grid, i) = c} IN
       /\ Phase(c) = "searching" <=> own \cap busy # {}
       /\ Phase(c) = "done" <=> own \subseteq done
       /\ Phase(c) = "pending" => own \cap done = {}

\* A cell that is done stays done, and a hit stays a hit.
MapKept ==
  [][/\ \A c \in Cells(grid) : Phase(c) = "done" => Phase(c)' = "done"
     /\ hit \subseteq hit']_vars

\* The region is covered if the owner goes on taking and collecting: every
\* candidate is counted and the whole map says so (service_types.hpp:234-239).
Covered ==
  Used ~>
    (/\ done = Tiles /\ candidates = (grid.x1 - grid.x0 + 1) * (grid.z1 - grid.z0 + 1)
     /\ \A c \in Cells(grid) : Phase(c) = "done")

=============================================================================
