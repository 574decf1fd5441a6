------------------------------ MODULE TileGrid ------------------------------
(***************************************************************************)
(* The geometry of a TileScheduler: how a region is cut into tiles, the    *)
(* spiral in which they are handed out, and the map cells that summarise   *)
(* them.  Everything here is fixed when the scheduler is built.            *)
(***************************************************************************)
EXTENDS Integers, FiniteSets

CONSTANTS
  MaxTiles,  \* kMaxTiles: tiles are doubled until the grid has no more
  MaxSide,   \* the side at which doubling stops all the same
  Stride     \* 2^25: the weight of a ring in a sort key

\* 8 * kMaxTiles < 2^25 in the code: a place along a ring never spills into it.
ASSUME GridAssumption ==
  /\ MaxTiles \in Nat \ {0}
  /\ MaxSide \in Nat \ {0}
  /\ Stride \in Nat
  /\ 8 * MaxTiles < Stride

\* a request's region, tile floor and map size
Region == {r \in [x0 : Int, x1 : Int, z0 : Int, z1 : Int,
                  side : Int, mapW : Int, mapH : Int] : r.x0 <= r.x1 /\ r.z0 <= r.z1}

Clamp(v, lo, hi) == IF v < lo THEN lo ELSE IF v > hi THEN hi ELSE v

\* tiles needed for the columns lo .. hi
Across(lo, hi, side) == (hi - lo + side) \div side

\* the doubling goes on
Crowded(r, side) ==
  /\ Across(r.x0, r.x1, side) * Across(r.z0, r.z1, side) > MaxTiles
  /\ side < MaxSide

TileSide(r) ==
  LET grow[s \in Nat] == IF Crowded(r, s) THEN grow[2 * s] ELSE s
  IN grow[IF r.side < 1 THEN 1 ELSE r.side]

\* C++ division by two, which drops the fraction
Half(v) == IF v >= 0 THEN v \div 2 ELSE -((-v) \div 2)

\* the tile, of n, in which the middle of lo .. hi lies
Centre(lo, hi, side, n) == Clamp((Half(lo + hi) - lo) \div side, 0, n - 1)

GridWith(r, side) ==
  LET nx == Across(r.x0, r.x1, side)
      nz == Across(r.z0, r.z1, side)
  IN [x0 |-> r.x0, x1 |-> r.x1, z0 |-> r.z0, z1 |-> r.z1,
      side |-> side, nx |-> nx, nz |-> nz,
      mw |-> Clamp(r.mapW, 1, nx), mh |-> Clamp(r.mapH, 1, nz),
      cx |-> Centre(r.x0, r.x1, side, nx), cz |-> Centre(r.z0, r.z1, side, nz)]

Grid(r) == GridWith(r, TileSide(r))

-----------------------------------------------------------------------------
(* Tiles: indices are row-major                                            *)

Indices(g) == 0 .. g.nx * g.nz - 1
Column(g, i) == i % g.nx
Row(g, i)    == i \div g.nx

TileAt(g, i) ==
  LET x == g.x0 + Column(g, i) * g.side
      z == g.z0 + Row(g, i) * g.side
  IN [x0 |-> x, z0 |-> z,
      x1 |-> IF Column(g, i) = g.nx - 1 THEN g.x1 ELSE x + g.side - 1,
      z1 |-> IF Row(g, i) = g.nz - 1 THEN g.z1 ELSE z + g.side - 1]

Area(g, i) == LET t == TileAt(g, i) IN (t.x1 - t.x0 + 1) * (t.z1 - t.z0 + 1)

InRegion(g, x, z) == x \in g.x0 .. g.x1 /\ z \in g.z0 .. g.z1

\* the tile mark_hit attributes an origin to
TileOf(g, x, z) == ((z - g.z0) \div g.side) * g.nx + ((x - g.x0) \div g.side)

-----------------------------------------------------------------------------
(* The spiral: rings round the centre tile, each walked clockwise          *)

Dx(g, i) == Column(g, i) - g.cx
Dz(g, i) == Row(g, i) - g.cz
Magnitude(v) == IF v < 0 THEN -v ELSE v

RingOf(dx, dz) == IF Magnitude(dx) >= Magnitude(dz) THEN Magnitude(dx) ELSE Magnitude(dz)

\* mutant: the left column is walked downwards
AlongTorn(dx, dz) ==
  LET r == RingOf(dx, dz) IN
  IF r = 0 THEN 0
  ELSE IF dz = -r THEN dx + r
  ELSE IF dx = r THEN 2 * r + (dz + r)
  ELSE IF dz = r THEN 4 * r + (r - dx)
  ELSE 6 * r + (dz + r)

\* the place on the ring: its top row, right column, bottom row, left column
AlongOf(dx, dz) ==
  LET r == RingOf(dx, dz) IN
  IF r = 0 THEN 0
  ELSE IF dz = -r THEN dx + r
  ELSE IF dx = r THEN 2 * r + (dz + r)
  ELSE IF dz = r THEN 4 * r + (r - dx)
  ELSE 6 * r + (r - dz)

Ring(g, i)  == RingOf(Dx(g, i), Dz(g, i))
Along(g, i) == AlongOf(Dx(g, i), Dz(g, i))

Key(g, i) == Ring(g, i) * Stride + Along(g, i)

\* mutant: tiles stay in row-major order
BeforeByIndex(g, i, j) == i < j

\* i comes before j in the sorted order
Before(g, i, j) == Key(g, i) < Key(g, j) \/ (Key(g, i) = Key(g, j) /\ i < j)

Order(g) ==
  LET rank == [i \in Indices(g) |-> 1 + Cardinality({j \in Indices(g) : Before(g, j, i)})]
  IN [p \in 1 .. g.nx * g.nz |-> CHOOSE i \in Indices(g) : rank[i] = p]

-----------------------------------------------------------------------------
(* Map cells                                                               *)

\* the first of n tiles in cell m of `cells`
Split(n, cells, m) == (m * n) \div cells

CellOfTile(n, cells, t) == ((t + 1) * cells - 1) \div n

CellOf(g, i) == CellOfTile(g.nz, g.mh, Row(g, i)) * g.mw + CellOfTile(g.nx, g.mw, Column(g, i))

Cells(g) == 0 .. g.mw * g.mh - 1

\* how many tiles map() thinks cell c holds
CellTiles(g, c) ==
  LET mx == c % g.mw
      mz == c \div g.mw
  IN (Split(g.nx, g.mw, mx + 1) - Split(g.nx, g.mw, mx))
       * (Split(g.nz, g.mh, mz + 1) - Split(g.nz, g.mh, mz))

-----------------------------------------------------------------------------
(* What the geometry promises                                              *)

\* x, z is an origin of tile i
Covers(g, i, x, z) ==
  LET t == TileAt(g, i) IN x \in t.x0 .. t.x1 /\ z \in t.z0 .. t.z1

\* Every origin of the region is in exactly one tile, the one mark_hit finds,
\* and no tile reaches outside (search_service.cpp:457-458).
TilesPartition(g) ==
  /\ \A x \in g.x0 .. g.x1, z \in g.z0 .. g.z1 :
       /\ TileOf(g, x, z) \in Indices(g)
       /\ Covers(g, TileOf(g, x, z), x, z)
       /\ \A i \in Indices(g) : Covers(g, i, x, z) => i = TileOf(g, x, z)
  /\ \A i \in Indices(g) : LET t == TileAt(g, i) IN
       g.x0 <= t.x0 /\ t.x0 <= t.x1 /\ t.x1 <= g.x1 /\ g.z0 <= t.z0 /\ t.z0 <= t.z1 /\ t.z1 <= g.z1

\* No two tiles have the same key, and a nearer ring always has the lower
\* keys, so the sort is the spiral (search_service.cpp:101-106).
KeysAreSpiral(g) ==
  \A i, j \in Indices(g) :
    /\ Key(g, i) = Key(g, j) => i = j
    /\ Ring(g, i) < Ring(g, j) => Key(g, i) < Key(g, j)

\* Walking the keys of a ring in order never jumps: places next to each other
\* along it are neighbours in the grid (search_service.cpp:98-99).
RingsAreWalks(g) ==
  \A i, j \in Indices(g) :
    Ring(g, i) = Ring(g, j) /\ Along(g, j) = Along(g, i) + 1
      => Magnitude(Dx(g, i) - Dx(g, j)) + Magnitude(Dz(g, i) - Dz(g, j)) = 1

\* The map's idea of how many tiles a cell holds is the number of tiles that
\* count towards it, so a cell can become done, and not too early
\* (search_service.cpp:194-199).
CellsAddUp(g) ==
  \A c \in Cells(g) : Cardinality({i \in Indices(g) : CellOf(g, i) = c}) = CellTiles(g, c)

\* cell_of_tile is the inverse of split: each tile is in the cell whose range
\* of tiles it lies in (search_service.cpp:60-62).
SplitInverse(n, cells) ==
  \A t \in 0 .. n - 1 :
    LET m == CellOfTile(n, cells, t) IN
    m \in 0 .. cells - 1 /\ Split(n, cells, m) <= t /\ t < Split(n, cells, m + 1)

=============================================================================
