------------------------ MODULE TileSchedulerProofs ------------------------
(***************************************************************************)
(* Proofs about TileGrid and TileScheduler, for every region, tile side    *)
(* and map size: tiles partition the region, the sort keys are a spiral,   *)
(* cell_of_tile is the inverse of split; tiles are handed out in turn, the *)
(* counters are exact and the map tells the truth.                         *)
(***************************************************************************)
EXTENDS TileScheduler, FiniteSetTheorems, TLAPS

-----------------------------------------------------------------------------
(* Division                                                                *)

\* Quotient and remainder.
LEMMA DivMod ==
  ASSUME NEW a \in Int, NEW b \in Nat \ {0}
  PROVE  /\ a \div b \in Int /\ (a % b) \in 0 .. b - 1
         /\ a = b * (a \div b) + (a % b)
OBVIOUS

\* A quotient is the largest multiple below.
LEMMA DivBounds ==
  ASSUME NEW a \in Int, NEW b \in Nat \ {0}
  PROVE  a \div b \in Int /\ b * (a \div b) <= a /\ a < b * (a \div b) + b
BY DivMod

\* And the only one.
LEMMA DivUnique ==
  ASSUME NEW a \in Int, NEW b \in Nat \ {0}, NEW q \in Int, b * q <= a, a < b * q + b
  PROVE  a \div b = q
<1>1. b * (a \div b) <= a /\ a < b * (a \div b) + b /\ a \div b \in Int
  BY DivBounds
<1>2. CASE q < a \div b
  <2>1. b * (q + 1) <= b * (a \div b)
    BY <1>1, <1>2
  <2>2. QED
    BY <1>1, <2>1
<1>3. CASE q > a \div b
  <2>1. b * q >= b * ((a \div b) + 1)
    BY <1>1, <1>3
  <2>2. QED
    BY <1>1, <2>1
<1>4. QED
  BY <1>1, <1>2, <1>3

\* A row-major index, taken apart.
LEMMA RowMajor ==
  ASSUME NEW n \in Nat \ {0}, NEW x \in 0 .. n - 1, NEW z \in Nat,
         NEW a \in Int, a = z * n + x
  PROVE  a \div n = z /\ a % n = x
<1>1. a \div n = z
  <2>1. n * z <= a /\ a < n * z + n
    OBVIOUS
  <2>2. QED
    BY <2>1, DivUnique
<1>2. a = n * (a \div n) + (a % n) /\ a % n \in Int
  BY DivMod
<1>3. a = n * z + (a % n)
  BY <1>1, <1>2
<1>4. QED
  BY <1>1, <1>2, <1>3

\* Column and row of a tile.
LEMMA ColumnRow ==
  ASSUME NEW nx \in Nat \ {0}, NEW nz \in Nat \ {0}, NEW i \in 0 .. nx * nz - 1
  PROVE  /\ i % nx \in 0 .. nx - 1 /\ i \div nx \in 0 .. nz - 1
         /\ i = (i \div nx) * nx + (i % nx)
<1>1. i \in Int /\ nx * nz \in Int
  OBVIOUS
<1>2. /\ i \div nx \in Int /\ (i % nx) \in 0 .. nx - 1
      /\ i = nx * (i \div nx) + (i % nx)
  BY <1>1, DivMod
<1>3. i \div nx >= 0
  <2>1. ASSUME i \div nx <= -1 PROVE FALSE
    <3>1. nx * (i \div nx) <= nx * (-1)
      BY <1>2, <2>1
    <3>2. QED
      BY <1>2, <3>1
  <2>2. QED
    BY <1>2, <2>1
<1>4. i \div nx <= nz - 1
  <2>1. ASSUME i \div nx >= nz PROVE FALSE
    <3>1. nx * (i \div nx) >= nx * nz
      BY <1>2, <2>1
    <3>2. QED
      BY <1>1, <1>2, <3>1
  <2>2. QED
    BY <1>2, <2>1
<1>5. QED
  BY <1>2, <1>3, <1>4

-----------------------------------------------------------------------------
(* Map cells                                                               *)

\* Each tile is in the cell whose range of tiles it lies in.
THEOREM SplitIsInverted ==
  ASSUME NEW n \in Nat \ {0}, NEW cells \in 1 .. n
  PROVE  SplitInverse(n, cells)
<1> SUFFICES ASSUME NEW t \in 0 .. n - 1
             PROVE  LET m == CellOfTile(n, cells, t) IN
                    m \in 0 .. cells - 1 /\ Split(n, cells, m) <= t /\ t < Split(n, cells, m + 1)
  BY DEF SplitInverse
<1> DEFINE a == (t + 1) * cells - 1
           m == a \div n
<1>1. a \in Nat /\ cells \in Nat \ {0} /\ m \in Int
  BY DivMod
<1>2. n * m <= a /\ a < n * m + n
  BY <1>1, DivBounds
<1>3. m >= 0
  <2>1. ASSUME m <= -1 PROVE FALSE
    <3>1. n * m <= n * (-1)
      BY <1>1, <2>1
    <3>2. QED
      BY <1>1, <1>2, <3>1
  <2>2. QED
    BY <1>1, <2>1
<1>4. m <= cells - 1
  <2>1. a <= n * cells - 1
    <3>1. (t + 1) * cells <= n * cells
      OBVIOUS
    <3>2. QED
      BY <3>1
  <2>2. ASSUME m >= cells PROVE FALSE
    <3>1. n * m >= n * cells
      BY <1>1, <2>2
    <3>2. QED
      BY <1>1, <1>2, <2>1, <3>1
  <2>3. QED
    BY <1>1, <2>2
<1>5. Split(n, cells, m) <= t
  <2> DEFINE q == (m * n) \div cells
  <2>1. m * n \in Int /\ q \in Int /\ cells * q <= m * n
    BY <1>1, DivBounds
  <2>2. ASSUME q >= t + 1 PROVE FALSE
    <3>1. cells * q >= cells * (t + 1)
      BY <1>1, <2>1, <2>2
    <3>2. QED
      BY <1>1, <1>2, <2>1, <3>1
  <2>3. QED
    BY <2>1, <2>2 DEF Split
<1>6. t < Split(n, cells, m + 1)
  <2> DEFINE q == ((m + 1) * n) \div cells
  <2>1. (m + 1) * n \in Int /\ q \in Int /\ (m + 1) * n < cells * q + cells
    BY <1>1, DivBounds
  <2>2. (t + 1) * cells <= (m + 1) * n
    BY <1>1, <1>2
  <2>3. ASSUME q <= t PROVE FALSE
    <3>1. cells * q <= cells * t
      BY <1>1, <2>1, <2>3
    <3>2. QED
      BY <1>1, <2>1, <2>2, <3>1
  <2>4. QED
    BY <2>1, <2>3 DEF Split
<1>7. QED
  BY <1>1, <1>3, <1>4, <1>5, <1>6 DEF CellOfTile

-----------------------------------------------------------------------------
(* Tiles                                                                   *)

\* The number of tiles that cover lo .. hi.
LEMMA AcrossCovers ==
  ASSUME NEW lo \in Int, NEW hi \in Int, lo <= hi, NEW side \in Nat \ {0},
         NEW n, n = Across(lo, hi, side)
  PROVE  n \in Nat \ {0} /\ side * (n - 1) <= hi - lo /\ hi - lo < side * n
<1> DEFINE a == hi - lo + side
<1>1. a \in Int /\ n = a \div side
  BY DEF Across
<1>2. n \in Int /\ side * n <= a /\ a < side * n + side
  BY <1>1, DivBounds
<1>3. n >= 1
  <2>1. ASSUME n <= 0 PROVE FALSE
    <3>1. side * n <= side * 0
      BY <1>2, <2>1
    <3>2. QED
      BY <1>2, <3>1
  <2>2. QED
    BY <1>2, <2>1
<1>4. QED
  BY <1>2, <1>3

\* x is in tile d of the n that cover lo .. hi
AxisHas(lo, hi, side, n, d, x) ==
  lo + d * side <= x /\ x <= (IF d = n - 1 THEN hi ELSE lo + d * side + side - 1)

\* Along one axis, a coordinate is in the tile of its quotient.
LEMMA AxisHome ==
  ASSUME NEW lo \in Int, NEW hi \in Int, lo <= hi, NEW side \in Nat \ {0},
         NEW n \in Nat \ {0}, n = Across(lo, hi, side),
         NEW x \in Int, lo <= x, x <= hi, NEW c \in Int, c = (x - lo) \div side
  PROVE  c \in 0 .. n - 1 /\ AxisHas(lo, hi, side, n, c, x)
<1>1. side * (n - 1) <= hi - lo /\ hi - lo < side * n
  BY AcrossCovers
<1>2. side * c <= x - lo /\ x - lo < side * c + side
  BY DivBounds
<1>3. c >= 0
  <2>1. ASSUME c <= -1 PROVE FALSE
    <3>1. side * c <= side * (-1)
      BY <2>1
    <3>2. QED
      BY <1>2, <3>1
  <2>2. QED
    BY <2>1
<1>4. c <= n - 1
  <2>1. ASSUME c >= n PROVE FALSE
    <3>1. side * c >= side * n
      BY <2>1
    <3>2. QED
      BY <1>1, <1>2, <3>1
  <2>2. QED
    BY <2>1
<1>5. lo + c * side <= x /\ x <= (IF c = n - 1 THEN hi ELSE lo + c * side + side - 1)
  BY <1>2
<1>6. QED
  BY <1>3, <1>4, <1>5 DEF AxisHas

\* And in no other.
LEMMA AxisOnly ==
  ASSUME NEW lo \in Int, NEW hi \in Int, lo <= hi, NEW side \in Nat \ {0},
         NEW n \in Nat \ {0}, n = Across(lo, hi, side),
         NEW x \in Int, x <= hi, NEW d \in 0 .. n - 1, AxisHas(lo, hi, side, n, d, x)
  PROVE  d = (x - lo) \div side
<1>1. hi - lo < side * n
  BY AcrossCovers
<1>2. lo + d * side <= x /\ x <= (IF d = n - 1 THEN hi ELSE lo + d * side + side - 1)
  BY DEF AxisHas
<1>3. side * d <= x - lo /\ x - lo < side * d + side
  <2>1. CASE d = n - 1
    <3>1. side * d + side = side * n
      BY <2>1
    <3>2. QED
      BY <1>1, <1>2, <3>1
  <2>2. CASE d # n - 1
    BY <1>2, <2>2
  <2>3. QED
    BY <2>1, <2>2
<1>4. x - lo \in Int /\ d \in Int
  OBVIOUS
<1> DEFINE a == x - lo
<1>5. a \in Int /\ side * d <= a /\ a < side * d + side
  BY <1>3, <1>4
<1> HIDE DEF a
<1>6. a \div side = d
  BY <1>4, <1>5, DivUnique
<1>7. QED
  BY <1>6 DEF a

\* Along one axis, every tile is a stretch of the axis.
LEMMA AxisTile ==
  ASSUME NEW lo \in Int, NEW hi \in Int, lo <= hi, NEW side \in Nat \ {0},
         NEW n, n = Across(lo, hi, side), NEW d \in 0 .. n - 1
  PROVE  LET last == IF d = n - 1 THEN hi ELSE lo + d * side + side - 1 IN
         lo <= lo + d * side /\ lo + d * side <= last /\ last <= hi
<1>1. n \in Nat \ {0} /\ side * (n - 1) <= hi - lo
  BY AcrossCovers
<1>2. d * side >= 0
  BY <1>1
<1>3. CASE d = n - 1
  BY <1>1, <1>2, <1>3
<1>4. CASE d # n - 1
  <2>1. side * (d + 1) <= side * (n - 1)
    BY <1>1, <1>4
  <2>2. QED
    BY <1>1, <1>2, <1>4, <2>1
<1>5. QED
  BY <1>3, <1>4

\* What the constructor makes of a region.
LEMMA GridType ==
  ASSUME NEW r \in Region, NEW side \in Nat \ {0}
  PROVE  LET g == GridWith(r, side) IN
         /\ g.x0 \in Int /\ g.x1 \in Int /\ g.x0 <= g.x1
         /\ g.z0 \in Int /\ g.z1 \in Int /\ g.z0 <= g.z1
         /\ g.side = side /\ g.nx = Across(g.x0, g.x1, side) /\ g.nz = Across(g.z0, g.z1, side)
         /\ g.nx \in Nat \ {0} /\ g.nz \in Nat \ {0}
         /\ g.cx \in 0 .. g.nx - 1 /\ g.cz \in 0 .. g.nz - 1
<1> DEFINE nx == Across(r.x0, r.x1, side)
           nz == Across(r.z0, r.z1, side)
<1>1. /\ r.x0 \in Int /\ r.x1 \in Int /\ r.x0 <= r.x1
      /\ r.z0 \in Int /\ r.z1 \in Int /\ r.z0 <= r.z1
  BY DEF Region
<1>2. nx \in Nat \ {0} /\ nz \in Nat \ {0}
  BY <1>1, AcrossCovers
<1>3. ASSUME NEW lo \in Int, NEW hi \in Int, NEW n \in Nat \ {0}
      PROVE  Centre(lo, hi, side, n) \in 0 .. n - 1
  <2>1. Half(lo + hi) \in Int
    BY DEF Half
  <2>2. (Half(lo + hi) - lo) \div side \in Int
    BY <2>1, DivMod
  <2>3. QED
    BY <2>2 DEF Centre, Clamp
<1>4. QED
  BY <1>1, <1>2, <1>3 DEF GridWith

\* Every origin of the region is in exactly one tile, the one mark_hit finds.
THEOREM TilesArePartition ==
  ASSUME NEW r \in Region, NEW side \in Nat \ {0}
  PROVE  TilesPartition(GridWith(r, side))
<1> DEFINE g == GridWith(r, side)
<1>1. PICK x0 \in Int, x1 \in Int, z0 \in Int, z1 \in Int, nx \in Nat \ {0}, nz \in Nat \ {0} :
        /\ g.x0 = x0 /\ g.x1 = x1 /\ x0 <= x1 /\ g.z0 = z0 /\ g.z1 = z1 /\ z0 <= z1
        /\ g.side = side /\ g.nx = nx /\ g.nz = nz
        /\ nx = Across(x0, x1, side) /\ nz = Across(z0, z1, side)
  BY GridType
<1> HIDE DEF g
<1>2. \A i \in Indices(g) : /\ Column(g, i) \in 0 .. nx - 1 /\ Row(g, i) \in 0 .. nz - 1
                            /\ i = Row(g, i) * nx + Column(g, i)
  <2>1. Indices(g) = 0 .. nx * nz - 1 /\ \A i : Column(g, i) = i % nx /\ Row(g, i) = i \div nx
    BY <1>1 DEF Indices, Column, Row
  <2>2. \A i \in 0 .. nx * nz - 1 : /\ i % nx \in 0 .. nx - 1 /\ i \div nx \in 0 .. nz - 1
                                    /\ i = (i \div nx) * nx + (i % nx)
    BY ONLY <1>1, ColumnRow, Zenon
  <2>3. TAKE i \in Indices(g)
  <2>4. i \in 0 .. nx * nz - 1 /\ Column(g, i) = i % nx /\ Row(g, i) = i \div nx
    BY ONLY <2>1, <2>3, Zenon
  <2>5. QED
    BY ONLY <2>2, <2>4, Zenon
<1>3. ASSUME NEW x \in x0 .. x1, NEW z \in z0 .. z1
      PROVE  /\ TileOf(g, x, z) \in Indices(g)
             /\ Covers(g, TileOf(g, x, z), x, z)
             /\ \A i \in Indices(g) : Covers(g, i, x, z) => i = TileOf(g, x, z)
  <2> DEFINE c == (x - x0) \div side
             d == (z - z0) \div side
             t == d * nx + c
  <2>1. c \in 0 .. nx - 1 /\ AxisHas(x0, x1, side, nx, c, x)
    <3>1. c \in Int /\ x \in Int /\ x0 <= x /\ x <= x1 /\ c = (x - x0) \div side
      BY <1>1, DivMod
    <3> HIDE DEF c
    <3>2. QED
      BY <1>1, <3>1, AxisHome
  <2>2. d \in 0 .. nz - 1 /\ AxisHas(z0, z1, side, nz, d, z)
    <3>1. d \in Int /\ z \in Int /\ z0 <= z /\ z <= z1 /\ d = (z - z0) \div side
      BY <1>1, DivMod
    <3> HIDE DEF d
    <3>2. QED
      BY <1>1, <3>1, AxisHome
  <2>3. TileOf(g, x, z) = t
    BY <1>1 DEF TileOf
  <2>0. \A e \in 0 .. nx - 1 : AxisHas(x0, x1, side, nx, e, x) => e = c
    BY <1>1, AxisOnly
  <2>9. \A e \in 0 .. nz - 1 : AxisHas(z0, z1, side, nz, e, z) => e = d
    BY <1>1, AxisOnly
  <2> HIDE DEF c, d
  <2>4. t \in Int /\ t \in Indices(g)
    <3>1. d * nx >= 0 /\ d * nx <= (nz - 1) * nx
      BY <1>1, <2>2
    <3>2. QED
      BY <1>1, <2>1, <2>2, <3>1 DEF Indices
  <2>5. Column(g, t) = c /\ Row(g, t) = d
    BY <1>1, <2>1, <2>2, <2>4, RowMajor DEF Column, Row
  <2> HIDE DEF t
  <2>6. Covers(g, t, x, z)
    BY <1>1, <2>1, <2>2, <2>5 DEF Covers, TileAt, AxisHas
  <2>7. ASSUME NEW i \in Indices(g), Covers(g, i, x, z) PROVE i = t
    <3>1. /\ AxisHas(x0, x1, side, nx, Column(g, i), x)
          /\ AxisHas(z0, z1, side, nz, Row(g, i), z)
      BY <1>1, <2>7 DEF Covers, TileAt, AxisHas
    <3>2. Column(g, i) = c /\ Row(g, i) = d
      BY <1>2, <2>0, <2>9, <3>1
    <3>3. QED
      BY <1>2, <3>2 DEF t
  <2>8. QED
    BY <2>3, <2>4, <2>6, <2>7
<1>4. ASSUME NEW i \in Indices(g)
      PROVE  LET t == TileAt(g, i) IN
             /\ x0 <= t.x0 /\ t.x0 <= t.x1 /\ t.x1 <= x1
             /\ z0 <= t.z0 /\ t.z0 <= t.z1 /\ t.z1 <= z1
  <2>1. Column(g, i) \in 0 .. nx - 1 /\ Row(g, i) \in 0 .. nz - 1
    BY <1>2
  <2> DEFINE c == Column(g, i)
             d == Row(g, i)
  <2>0. c \in 0 .. nx - 1 /\ d \in 0 .. nz - 1
    BY <2>1
  <2> HIDE DEF c, d
  <2>2. LET last == IF c = nx - 1 THEN x1 ELSE x0 + c * side + side - 1 IN
        x0 <= x0 + c * side /\ x0 + c * side <= last /\ last <= x1
    BY ONLY <1>1, <2>0, AxisTile
  <2>3. LET last == IF d = nz - 1 THEN z1 ELSE z0 + d * side + side - 1 IN
        z0 <= z0 + d * side /\ z0 + d * side <= last /\ last <= z1
    BY ONLY <1>1, <2>0, AxisTile
  <2>4. QED
    BY <1>1, <2>2, <2>3 DEF TileAt, c, d
<1>5. QED
  BY <1>1, <1>3, <1>4 DEF TilesPartition, g

-----------------------------------------------------------------------------
(* The spiral                                                              *)

\* The ring of an offset, and the room on it.
LEMMA AlongBounds ==
  ASSUME NEW dx \in Int, NEW dz \in Int
  PROVE  /\ RingOf(dx, dz) \in Nat /\ AlongOf(dx, dz) \in Nat
         /\ AlongOf(dx, dz) <= 8 * RingOf(dx, dz)
BY DEF RingOf, AlongOf, Magnitude

\* An offset is known by its ring and its place on it.
LEMMA AlongDistinct ==
  ASSUME NEW dx \in Int, NEW dz \in Int, NEW ex \in Int, NEW ez \in Int,
         RingOf(dx, dz) = RingOf(ex, ez), AlongOf(dx, dz) = AlongOf(ex, ez)
  PROVE  dx = ex /\ dz = ez
BY DEF RingOf, AlongOf, Magnitude

\* A nearer ring outweighs any place.
LEMMA RingOutweighs ==
  ASSUME NEW r \in Nat, NEW s \in Nat, NEW a \in Nat, NEW b \in Nat, a < Stride, r < s
  PROVE  r * Stride + a < s * Stride + b
<1>1. Stride \in Nat
  BY GridAssumption
<1>2. (r + 1) * Stride <= s * Stride
  BY <1>1
<1>3. QED
  BY <1>1, <1>2

\* Keys are distinct and ordered by ring, for every grid within the tile cap.
THEOREM KeysSpiral ==
  ASSUME NEW r \in Region, NEW side \in Nat \ {0},
         GridWith(r, side).nx * GridWith(r, side).nz <= MaxTiles
  PROVE  KeysAreSpiral(GridWith(r, side))
<1> DEFINE g == GridWith(r, side)
<1>1. /\ g.nx \in Nat \ {0} /\ g.nz \in Nat \ {0} /\ g.nx * g.nz <= MaxTiles
      /\ g.cx \in 0 .. g.nx - 1 /\ g.cz \in 0 .. g.nz - 1
  BY GridType
<1> HIDE DEF g
<1>2. ASSUME NEW i \in Indices(g)
      PROVE  /\ Column(g, i) \in Int /\ Row(g, i) \in Int
             /\ i = Row(g, i) * g.nx + Column(g, i)
             /\ Dx(g, i) \in Int /\ Dz(g, i) \in Int
             /\ Ring(g, i) \in Nat /\ Along(g, i) \in Nat /\ Along(g, i) < Stride
  <2>1. /\ Column(g, i) \in 0 .. g.nx - 1 /\ Row(g, i) \in 0 .. g.nz - 1
        /\ i = Row(g, i) * g.nx + Column(g, i)
    BY <1>1, ColumnRow DEF Indices, Column, Row
  <2>2. /\ Dx(g, i) \in Int /\ Dz(g, i) \in Int
        /\ Magnitude(Dx(g, i)) < g.nx /\ Magnitude(Dz(g, i)) < g.nz
    BY <1>1, <2>1 DEF Dx, Dz, Magnitude
  <2>3. g.nx <= g.nx * g.nz /\ g.nz <= g.nx * g.nz /\ g.nx * g.nz \in Nat
    BY <1>1
  <2>4. Ring(g, i) \in Nat /\ Along(g, i) \in Nat /\ Along(g, i) <= 8 * Ring(g, i)
    BY <2>2, AlongBounds DEF Ring, Along
  <2>5. Ring(g, i) < g.nx \/ Ring(g, i) < g.nz
    BY <2>2 DEF Ring, RingOf
  <2>6. Ring(g, i) < MaxTiles /\ MaxTiles \in Nat /\ Stride \in Nat /\ 8 * MaxTiles < Stride
    BY <1>1, <2>3, <2>4, <2>5, GridAssumption
  <2>7. QED
    BY <2>1, <2>2, <2>4, <2>6
<1>3. ASSUME NEW i \in Indices(g), NEW j \in Indices(g)
      PROVE  /\ Key(g, i) = Key(g, j) => i = j
             /\ Ring(g, i) < Ring(g, j) => Key(g, i) < Key(g, j)
  <2>1. Ring(g, i) < Ring(g, j) => Key(g, i) < Key(g, j)
    BY <1>2, RingOutweighs DEF Key
  <2>2. Ring(g, j) < Ring(g, i) => Key(g, j) < Key(g, i)
    BY <1>2, RingOutweighs DEF Key
  <2>3. Key(g, i) \in Int /\ Key(g, j) \in Int
    BY <1>2, GridAssumption DEF Key
  <2>4. ASSUME Key(g, i) = Key(g, j) PROVE i = j
    <3>1. Ring(g, i) = Ring(g, j)
      BY <1>2, <2>1, <2>2, <2>3, <2>4
    <3>2. Along(g, i) = Along(g, j)
      BY <1>2, <2>4, <3>1, GridAssumption DEF Key
    <3>3. Dx(g, i) = Dx(g, j) /\ Dz(g, i) = Dz(g, j)
      BY <1>2, <3>1, <3>2, AlongDistinct DEF Ring, Along
    <3>4. Column(g, i) = Column(g, j) /\ Row(g, i) = Row(g, j)
      BY <1>1, <1>2, <3>3 DEF Dx, Dz
    <3>5. QED
      BY <1>2, <3>4
  <2>5. QED
    BY <2>1, <2>4
<1>4. QED
  BY <1>3 DEF KeysAreSpiral, g

-----------------------------------------------------------------------------
(* The tile side                                                           *)

\* A set of naturals has a least member.
LEMMA LeastNatural ==
  ASSUME NEW S \in SUBSET Nat, S # {}
  PROVE  \E n \in S : \A m \in S : n <= m
<1> DEFINE R == {x \in Nat \X Nat : x[1] < x[2]}
<1>1. IsWellFoundedOn(R, Nat)
  <2>1. R = OpToRel(<, Nat)
    BY DEF OpToRel
  <2>2. QED
    BY <2>1, NatLessThanWellFounded
<1>2. PICK x \in S : \A y \in S : <<y, x>> \notin R
  <2> HIDE DEF R
  <2>1. QED
    BY <1>1, WFMin
<1>3. ASSUME NEW m \in S PROVE x <= m
  <2>1. <<m, x>> \in Nat \X Nat
    OBVIOUS
  <2>2. ~ (m < x)
    BY <1>2, <2>1
  <2>3. QED
    BY <2>2
<1>4. QED
  BY <1>3

\* What holds of 0, and of the next one with each, holds of every natural.
LEMMA EveryNatural ==
  ASSUME NEW S, 0 \in S, \A n \in Nat : n \in S => n + 1 \in S
  PROVE  Nat \subseteq S
<1>1. ASSUME Nat \ S # {} PROVE FALSE
  <2>1. PICK k \in Nat \ S : \A l \in Nat \ S : k <= l
    BY <1>1, LeastNatural
  <2>2. k # 0 /\ k - 1 \in Nat /\ ~ (k <= k - 1)
    BY <2>1
  <2>3. k - 1 \in S
    BY <2>1, <2>2
  <2>4. k = (k - 1) + 1
    BY <2>1
  <2>5. QED
    BY <2>1, <2>2, <2>3, <2>4
<1>2. QED
  BY <1>1

\* Larger tiles need no more of them.
LEMMA AcrossShrinks ==
  ASSUME NEW lo \in Int, NEW hi \in Int, lo <= hi,
         NEW s \in Nat \ {0}, NEW t \in Nat \ {0}, s <= t
  PROVE  Across(lo, hi, t) <= Across(lo, hi, s)
<1> DEFINE a == Across(lo, hi, s)
           b == Across(lo, hi, t)
<1>1. a \in Nat \ {0} /\ hi - lo < s * a
  BY AcrossCovers
<1>2. b \in Nat \ {0} /\ t * (b - 1) <= hi - lo
  BY AcrossCovers
<1> HIDE DEF a, b
<1>3. ASSUME b > a PROVE FALSE
  <2>1. t * (b - 1) >= t * a
    BY <1>1, <1>2, <1>3
  <2>2. t * a >= s * a
    BY <1>1
  <2>3. t * (b - 1) \in Int /\ t * a \in Int /\ s * a \in Int
    BY <1>1, <1>2
  <2>4. QED
    BY <1>1, <1>2, <2>1, <2>2, <2>3
<1>4. QED
  BY <1>1, <1>2, <1>3 DEF a, b

\* The doubling ends, with tiles few enough.
LEMMA SideFits ==
  ASSUME NEW r \in Regions
  PROVE  /\ r \in Region /\ TileSide(r) \in Nat \ {0}
         /\ Grid(r).nx * Grid(r).nz <= MaxTiles
<1>1. /\ r \in Region /\ MaxSide \in Nat \ {0}
      /\ Across(r.x0, r.x1, MaxSide) * Across(r.z0, r.z1, MaxSide) <= MaxTiles
      /\ r.x0 \in Int /\ r.x1 \in Int /\ r.x0 <= r.x1 /\ r.z0 \in Int /\ r.z1 \in Int /\ r.z0 <= r.z1
      /\ r.side \in Int
  BY RegionAssumption, GridAssumption DEF Region
<1>2. \A s \in Nat : Crowded(r, s) => s < MaxSide
  BY DEF Crowded
<1> DEFINE Grows(f, S) == f = [s \in S |-> IF Crowded(r, s) THEN f[2 * s] ELSE s]
           From(k) == {s \in Nat : s >= MaxSide - k}
           Solved == {k \in Nat : \E f : Grows(f, From(k))}
<1>3. Nat \subseteq Solved
  <2>1. 0 \in Solved
    <3> DEFINE f == [s \in From(0) |-> s]
    <3>1. \A s \in From(0) : ~ Crowded(r, s)
      BY <1>1, <1>2
    <3>2. Grows(f, From(0))
      BY <3>1
    <3>3. QED
      <4> HIDE DEF f, Grows
      <4>1. QED
        BY <3>2
  <2>2. ASSUME NEW k \in Nat, k \in Solved PROVE k + 1 \in Solved
    <3>1. PICK f : Grows(f, From(k))
      BY <2>2
    <3> DEFINE low == MaxSide - (k + 1)
               h == [s \in From(k + 1) |-> IF s \in From(k) THEN f[s]
                                      ELSE IF Crowded(r, s) THEN (IF s = 0 THEN 0 ELSE f[2 * s]) ELSE s]
    <3>2. low \in Int /\ \A s \in From(k + 1) : s \in From(k) \/ s = low
      BY <1>1
    <3>3. From(k) \subseteq From(k + 1)
      BY <1>1
    <3>4. ASSUME NEW s \in From(k + 1)
          PROVE  h[s] = IF Crowded(r, s) THEN h[2 * s] ELSE s
      <4>1. CASE s \in From(k)
        <5>1. 2 * s \in From(k)
          BY <1>1, <4>1
        <5>2. h[s] = f[s] /\ h[2 * s] = f[2 * s]
          BY <3>3, <4>1, <5>1
        <5>3. f[s] = IF Crowded(r, s) THEN f[2 * s] ELSE s
          BY <3>1, <4>1
        <5>4. QED
          BY <5>2, <5>3
      <4>2. CASE s \notin From(k) /\ s # 0
        <5>1. s \in Nat /\ s = low /\ 2 * s >= low + 1
          BY <3>2, <4>2
        <5>2. 2 * s \in From(k)
          BY <1>1, <5>1
        <5>3. h[2 * s] = f[2 * s]
          BY <3>3, <5>2
        <5>4. h[s] = IF Crowded(r, s) THEN f[2 * s] ELSE s
          BY <4>2
        <5>5. QED
          BY <5>3, <5>4
      <4>3. CASE s \notin From(k) /\ s = 0
        <5>1. h[s] = 0 /\ 2 * s = s
          BY <4>3
        <5>2. QED
          BY <4>3, <5>1
      <4>4. QED
        BY <4>1, <4>2, <4>3
    <3>5. Grows(h, From(k + 1))
      <4>1. DOMAIN h = From(k + 1)
        OBVIOUS
      <4> HIDE DEF From
      <4>2. QED
        BY <3>4
    <3>6. QED
      <4> HIDE DEF h, Grows
      <4>1. QED
        BY <3>5
  <2>3. QED
    <3> HIDE DEF Solved
    <3>1. QED
      BY <2>1, <2>2, EveryNatural
<1> DEFINE grow == CHOOSE f : Grows(f, Nat)
<1>4. Grows(grow, Nat)
  <2>1. From(MaxSide) = Nat
    BY <1>1
  <2>2. \E f : Grows(f, Nat)
    BY <1>1, <1>3, <2>1
  <2>3. QED
    BY <2>2
<1> DEFINE side == grow[IF r.side < 1 THEN 1 ELSE r.side]
<1>5. TileSide(r) = side
  BY DEF TileSide
<1> HIDE DEF grow
<1>6. \A s \in Nat \ {0} : grow[s] \in Nat \ {0} /\ ~ Crowded(r, grow[s])
  <2> DEFINE Ends == {k \in Nat : \A s \in Nat \ {0} : s >= MaxSide - k =>
                                    grow[s] \in Nat \ {0} /\ ~ Crowded(r, grow[s])}
  <2>0. \A s \in Nat \ {0} : grow[s] = IF Crowded(r, s) THEN grow[2 * s] ELSE s
    BY <1>4
  <2>1. 0 \in Ends
    <3>1. \A s \in Nat \ {0} : s >= MaxSide - 0 => ~ Crowded(r, s)
      BY <1>1, <1>2
    <3>2. QED
      BY <2>0, <3>1
  <2>2. ASSUME NEW k \in Nat, k \in Ends PROVE k + 1 \in Ends
    <3>1. ASSUME NEW s \in Nat \ {0}, s >= MaxSide - (k + 1)
          PROVE  grow[s] \in Nat \ {0} /\ ~ Crowded(r, grow[s])
      <4>1. CASE Crowded(r, s)
        <5>1. 2 * s \in Nat \ {0} /\ 2 * s >= MaxSide - k
          BY <1>1, <3>1
        <5>2. grow[2 * s] \in Nat \ {0} /\ ~ Crowded(r, grow[2 * s])
          BY <2>2, <5>1
        <5>3. QED
          BY <2>0, <4>1, <5>2
      <4>2. CASE ~ Crowded(r, s)
        BY <2>0, <4>2
      <4>3. QED
        BY <4>1, <4>2
    <3>2. QED
      BY <3>1
  <2>3. MaxSide \in Ends
    <3> HIDE DEF Ends
    <3>1. Nat \subseteq Ends
      BY <2>1, <2>2, EveryNatural
    <3>2. QED
      BY <1>1, <3>1
  <2>4. QED
    BY <1>1, <2>3
<1>7. side \in Nat \ {0} /\ ~ Crowded(r, side)
  <2>1. (IF r.side < 1 THEN 1 ELSE r.side) \in Nat \ {0}
    BY <1>1
  <2>2. QED
    BY <1>6, <2>1
<1> HIDE DEF side
<1>8. Across(r.x0, r.x1, side) * Across(r.z0, r.z1, side) <= MaxTiles
  <2> DEFINE nx == Across(r.x0, r.x1, side)
             nz == Across(r.z0, r.z1, side)
             mx == Across(r.x0, r.x1, MaxSide)
             mz == Across(r.z0, r.z1, MaxSide)
  <2>1. nx \in Nat \ {0} /\ nz \in Nat \ {0} /\ mx \in Nat \ {0} /\ mz \in Nat \ {0} /\ MaxTiles \in Nat
    BY <1>1, <1>7, AcrossCovers, GridAssumption
  <2>2. CASE side < MaxSide
    <3>1. ~ (nx * nz > MaxTiles)
      BY <1>7, <2>2 DEF Crowded
    <3> HIDE DEF nx, nz
    <3>2. nx * nz \in Nat
      BY <2>1
    <3>3. nx * nz <= MaxTiles
      BY <2>1, <3>1, <3>2
    <3>4. QED
      BY <3>3 DEF nx, nz
  <2>3. CASE ~ (side < MaxSide)
    <3>1. MaxSide <= side
      BY <1>1, <1>7, <2>3
    <3>2. nx <= mx /\ nz <= mz
      BY <1>1, <1>7, <3>1, AcrossShrinks
    <3>3. mx * mz <= MaxTiles
      BY <1>1
    <3> HIDE DEF nx, nz, mx, mz
    <3>4. nx * nz <= mx * nz /\ mx * nz <= mx * mz /\ nx * nz \in Nat /\ mx * nz \in Nat /\ mx * mz \in Nat
      BY <2>1, <3>2
    <3>5. nx * nz <= MaxTiles
      BY <2>1, <3>3, <3>4
    <3>6. QED
      BY <3>5 DEF nx, nz
  <2>4. QED
    BY <2>2, <2>3
<1>9. QED
  BY <1>1, <1>5, <1>7, <1>8 DEF Grid, GridWith

-----------------------------------------------------------------------------
(* The order                                                               *)

\* What the proofs below use of a grid.
GridOK(g) ==
  /\ g.nx \in Nat \ {0} /\ g.nz \in Nat \ {0} /\ g.mw \in 1 .. g.nx /\ g.mh \in 1 .. g.nz
  /\ g.x0 \in Int /\ g.x1 \in Int /\ g.z0 \in Int /\ g.z1 \in Int
  /\ \A i \in Indices(g) : Key(g, i) \in Int /\ Ring(g, i) \in Nat /\ Area(g, i) \in Nat
  /\ TilesPartition(g) /\ KeysAreSpiral(g)

\* The constructor makes such a grid of every region.
LEMMA GridIsOK ==
  ASSUME NEW r \in Regions
  PROVE  GridOK(Grid(r))
<1> DEFINE side == TileSide(r)
           g == Grid(r)
<1>1. r \in Region /\ side \in Nat \ {0} /\ g.nx * g.nz <= MaxTiles
  BY SideFits
<1>2. g = GridWith(r, side)
  BY DEF Grid
<1>3. TilesPartition(g) /\ KeysAreSpiral(g)
  BY <1>1, <1>2, TilesArePartition, KeysSpiral
<1>4. /\ g.nx \in Nat \ {0} /\ g.nz \in Nat \ {0} /\ g.cx \in Int /\ g.cz \in Int
      /\ g.x0 \in Int /\ g.x1 \in Int /\ g.z0 \in Int /\ g.z1 \in Int
  BY <1>1, <1>2, GridType
<1>5. g.mw \in 1 .. g.nx /\ g.mh \in 1 .. g.nz
  <2>1. g.mw = Clamp(r.mapW, 1, g.nx) /\ g.mh = Clamp(r.mapH, 1, g.nz)
    BY <1>2 DEF GridWith
  <2>2. r.mapW \in Int /\ r.mapH \in Int
    BY <1>1 DEF Region
  <2> HIDE DEF g
  <2>3. QED
    BY <1>4, <2>1, <2>2 DEF Clamp
<1> HIDE DEF g
<1>6. ASSUME NEW i \in Indices(g)
      PROVE  Key(g, i) \in Int /\ Ring(g, i) \in Nat /\ Area(g, i) \in Nat
  <2>1. Column(g, i) \in Int /\ Row(g, i) \in Int
    BY <1>4, ColumnRow DEF Indices, Column, Row
  <2>2. Dx(g, i) \in Int /\ Dz(g, i) \in Int
    BY <1>4, <2>1 DEF Dx, Dz
  <2>3. Ring(g, i) \in Nat /\ Along(g, i) \in Nat
    BY <2>2, AlongBounds DEF Ring, Along
  <2>4. Key(g, i) \in Int
    BY <2>3, GridAssumption DEF Key
  <2> DEFINE t == TileAt(g, i)
  <2>5. t.x0 <= t.x1 /\ t.z0 <= t.z1
    BY <1>3 DEF TilesPartition
  <2>6. t.x0 \in Int /\ t.x1 \in Int /\ t.z0 \in Int /\ t.z1 \in Int
    <3>1. g.side \in Int
      BY <1>1, <1>2 DEF g, GridWith
    <3>2. Column(g, i) * g.side \in Int /\ Row(g, i) * g.side \in Int
      BY <2>1, <3>1
    <3>3. QED
      BY <1>4, <3>1, <3>2 DEF TileAt
  <2>7. Area(g, i) = (t.x1 - t.x0 + 1) * (t.z1 - t.z0 + 1)
    BY DEF Area
  <2> HIDE DEF t
  <2>8. Area(g, i) \in Nat
    <3> DEFINE w == t.x1 - t.x0 + 1
               h == t.z1 - t.z0 + 1
    <3>1. w \in Nat /\ h \in Nat /\ Area(g, i) = w * h
      BY <2>5, <2>6, <2>7
    <3> HIDE DEF w, h
    <3>2. QED
      BY <3>1
  <2>9. QED
    BY <2>3, <2>4, <2>8
<1>7. QED
  BY <1>3, <1>4, <1>5, <1>6 DEF GridOK, g

\* The tiles of a grid are finitely many.
LEMMA FiniteTiles ==
  ASSUME NEW g, GridOK(g)
  PROVE  /\ g.nx * g.nz \in Nat /\ IsFiniteSet(Indices(g))
         /\ Cardinality(Indices(g)) = g.nx * g.nz /\ Indices(g) \subseteq Nat
<1> DEFINE n == g.nx * g.nz
<1>1. n \in Nat /\ Indices(g) = 0 .. n - 1
  BY DEF GridOK, Indices
<1> HIDE DEF n
<1>2. IsFiniteSet(0 .. n - 1) /\ Cardinality(0 .. n - 1) = n
  <2>1. 0 \in Int /\ n - 1 \in Int
    BY <1>1
  <2>2. Cardinality(0 .. n - 1) = (IF 0 > n - 1 THEN 0 ELSE (n - 1) - 0 + 1) /\ IsFiniteSet(0 .. n - 1)
    BY <2>1, FS_Interval
  <2>3. QED
    BY <1>1, <2>2
<1>3. QED
  BY <1>1, <1>2 DEF n

\* The sorted order has every tile once, and those of a nearer ring first.
LEMMA OrderSorted ==
  ASSUME NEW g, GridOK(g), NEW n, n = g.nx * g.nz
  PROVE  /\ Order(g) \in [1 .. n -> Indices(g)]
         /\ \A p, q \in 1 .. n : Order(g)[p] = Order(g)[q] => p = q
         /\ \A i \in Indices(g) : \E p \in 1 .. n : Order(g)[p] = i
         /\ \A p, q \in 1 .. n : Ring(g, Order(g)[p]) < Ring(g, Order(g)[q]) => p < q
<1> DEFINE I == Indices(g)
           Ahead(i) == {j \in I : Before(g, j, i)}
           rank == [i \in I |-> 1 + Cardinality(Ahead(i))]
<1>1. n \in Nat /\ IsFiniteSet(I) /\ Cardinality(I) = n /\ I \subseteq Nat
  BY FiniteTiles
<1>2. /\ \A i, j \in I : Before(g, i, j) \/ Before(g, j, i) \/ i = j
      /\ \A i \in I : ~ Before(g, i, i)
      /\ \A i, j, k \in I : Before(g, i, j) /\ Before(g, j, k) => Before(g, i, k)
      /\ \A i, j \in I : Ring(g, i) < Ring(g, j) => Before(g, i, j)
  <2>1. \A i \in I : Key(g, i) \in Int /\ i \in Int
    BY <1>1 DEF GridOK
  <2>2. \A i, j \in I : (Key(g, i) = Key(g, j) => i = j) /\ (Ring(g, i) < Ring(g, j) => Key(g, i) < Key(g, j))
    BY DEF GridOK, KeysAreSpiral
  <2> HIDE DEF I
  <2>3. \A i, j \in I : Before(g, i, j) <=> Key(g, i) < Key(g, j)
    BY <2>1, <2>2 DEF Before
  <2>4. QED
    BY <2>1, <2>2, <2>3
<1>3. \A i \in I : IsFiniteSet(Ahead(i)) /\ Cardinality(Ahead(i)) \in Nat /\ Cardinality(Ahead(i)) <= n - 1
  <2> TAKE i \in I
  <2>1. Ahead(i) \subseteq I \ {i}
    BY <1>2
  <2>2. IsFiniteSet(I \ {i}) /\ Cardinality(I \ {i}) = n - 1
    BY <1>1, FS_RemoveElement
  <2> HIDE DEF Ahead
  <2>3. QED
    BY <2>1, <2>2, FS_Subset, FS_CardinalityType
<1>4. rank \in [I -> 1 .. n]
  <2> HIDE DEF Ahead, I
  <2>1. ASSUME NEW i \in I PROVE 1 + Cardinality(Ahead(i)) \in 1 .. n
    <3>1. Cardinality(Ahead(i)) \in Nat /\ Cardinality(Ahead(i)) <= n - 1
      BY <1>3
    <3>2. QED
      BY <1>1, <3>1
  <2>2. QED
    BY <2>1
<1>5. ASSUME NEW i \in I, NEW j \in I, Before(g, i, j)
      PROVE  rank[i] < rank[j]
  <2>1. Ahead(i) \subseteq Ahead(j) /\ i \in Ahead(j) /\ i \notin Ahead(i)
    BY <1>2, <1>5
  <2>2. Cardinality(Ahead(i)) <= Cardinality(Ahead(j)) /\ Cardinality(Ahead(i)) # Cardinality(Ahead(j))
    <3> HIDE DEF Ahead
    <3>1. Ahead(i) \in SUBSET Ahead(j) /\ Ahead(i) # Ahead(j)
      BY <2>1
    <3>2. QED
      BY <1>3, <3>1, FS_Subset
  <2>3. rank[i] = 1 + Cardinality(Ahead(i)) /\ rank[j] = 1 + Cardinality(Ahead(j))
    OBVIOUS
  <2>4. Cardinality(Ahead(i)) \in Nat /\ Cardinality(Ahead(j)) \in Nat
    BY <1>3
  <2> HIDE DEF Ahead, rank
  <2>5. QED
    BY <2>2, <2>3, <2>4
<1> HIDE DEF rank
<1>6. \A i, j \in I : rank[i] = rank[j] => i = j
  <2>1. \A i \in I : rank[i] \in Int
    BY <1>1, <1>4
  <2>2. QED
    BY <1>2, <1>5, <2>1
<1>7. \A p \in 1 .. n : \E i \in I : rank[i] = p
  <2>1. rank \in Injection(I, 1 .. n)
    BY <1>4, <1>6 DEF Injection, IsInjective
  <2>2. IsFiniteSet(1 .. n) /\ Cardinality(1 .. n) = n
    <3>1. n \in Int /\ 1 \in Int
      BY <1>1
    <3>2. Cardinality(1 .. n) = (IF 1 > n THEN 0 ELSE n - 1 + 1) /\ IsFiniteSet(1 .. n)
      BY ONLY <3>1, FS_Interval
    <3>3. QED
      BY <1>1, <3>2
  <2>3. rank \in Surjection(I, 1 .. n)
    BY <1>1, <2>1, <2>2, FS_Injection
  <2>4. QED
    BY <2>3 DEF Surjection
<1>8. Order(g) = [p \in 1 .. n |-> CHOOSE i \in I : rank[i] = p]
  BY DEF Order, rank
<1>9. \A p \in 1 .. n : Order(g)[p] \in I /\ rank[Order(g)[p]] = p
  BY <1>7, <1>8
<1> HIDE DEF I
<1>10. Order(g) \in [1 .. n -> I]
  BY <1>8, <1>9
<1>11. \A i \in I : rank[i] \in 1 .. n /\ Order(g)[rank[i]] = i
  BY <1>4, <1>6, <1>9
<1>12. ASSUME NEW p \in 1 .. n, NEW q \in 1 .. n, Ring(g, Order(g)[p]) < Ring(g, Order(g)[q])
       PROVE  p < q
  <2>1. rank[Order(g)[p]] < rank[Order(g)[q]]
    BY <1>2, <1>5, <1>9, <1>12
  <2>2. QED
    BY <1>9, <2>1
<1>13. QED
  BY <1>9, <1>10, <1>11, <1>12 DEF I

-----------------------------------------------------------------------------
(* Handing out                                                             *)

\* what the history of tiles handed out promises
InRings ==
  \A k \in DOMAIN taken, i \in Tiles :
    Ring(grid, i) < Ring(grid, taken[k]) => i \in done \cup {taken[j] : j \in 1 .. k}

\* Every place the cursor has passed is of a tile that is done or was handed out,
\* and no other tile was.
TakeInv ==
  /\ grid \in {Grid(r) : r \in Regions} /\ order = Order(grid)
  /\ cursor \in 1 .. Len(order) + 1
  /\ done \subseteq Tiles /\ taken \in Seq(Tiles)
  /\ busy \subseteq Range(taken) /\ busy \cap done = {} /\ Range(taken) \subseteq busy \cup done
  /\ IsInjective(taken) /\ InRings
  /\ Range(taken) \subseteq {order[p] : p \in 1 .. cursor - 1}
  /\ {order[p] : p \in 1 .. cursor - 1} \subseteq done \cup Range(taken)

\* The order as next() walks it.
LEMMA OrderWalk ==
  ASSUME grid \in {Grid(r) : r \in Regions}, order = Order(grid)
  PROVE  /\ GridOK(grid) /\ Len(order) \in Nat /\ order \in [1 .. Len(order) -> Tiles]
         /\ \A p, q \in 1 .. Len(order) : order[p] = order[q] => p = q
         /\ \A i \in Tiles : \E p \in 1 .. Len(order) : order[p] = i
         /\ \A p, q \in 1 .. Len(order) : Ring(grid, order[p]) < Ring(grid, order[q]) => p < q
         /\ \A i \in Tiles : Ring(grid, i) \in Nat
<1>1. GridOK(grid)
  BY GridIsOK
<1> DEFINE n == grid.nx * grid.nz
<1>2. n \in Nat
  BY <1>1, FiniteTiles
<1>3. /\ order \in [1 .. n -> Tiles]
      /\ \A p, q \in 1 .. n : order[p] = order[q] => p = q
      /\ \A i \in Tiles : \E p \in 1 .. n : order[p] = i
      /\ \A p, q \in 1 .. n : Ring(grid, order[p]) < Ring(grid, order[q]) => p < q
  BY <1>1, OrderSorted DEF Tiles
<1> HIDE DEF n
<1>4. Len(order) = n
  <2>1. order \in Seq(Tiles)
    BY <1>2, <1>3
  <2>2. DOMAIN order = 1 .. n /\ DOMAIN order = 1 .. Len(order) /\ Len(order) \in Nat
    BY <1>3, <2>1
  <2>3. QED
    BY <1>2, <2>2
<1>5. \A i \in Tiles : Ring(grid, i) \in Nat
  BY <1>1 DEF GridOK, Tiles
<1>6. QED
  BY <1>1, <1>2, <1>3, <1>4, <1>5

\* One more tile of a sequence.
LEMMA AppendFacts ==
  ASSUME NEW S, NEW s \in Seq(S), NEW e \in S
  PROVE  /\ Append(s, e) \in Seq(S) /\ DOMAIN Append(s, e) = 1 .. Len(s) + 1 /\ Len(s) \in Nat
         /\ DOMAIN s = 1 .. Len(s)
         /\ \A k \in 1 .. Len(s) : Append(s, e)[k] = s[k]
         /\ Append(s, e)[Len(s) + 1] = e
         /\ Range(Append(s, e)) = Range(s) \cup {e}
<1>1. /\ Append(s, e) \in Seq(S) /\ DOMAIN Append(s, e) = 1 .. Len(s) + 1 /\ Len(s) \in Nat
      /\ DOMAIN s = 1 .. Len(s)
      /\ \A k \in 1 .. Len(s) : Append(s, e)[k] = s[k]
      /\ Append(s, e)[Len(s) + 1] = e
  OBVIOUS
<1> DEFINE t == Append(s, e)
<1> HIDE DEF t
<1>2. /\ DOMAIN t = 1 .. Len(s) + 1 /\ t[Len(s) + 1] = e
      /\ \A k \in 1 .. Len(s) : t[k] = s[k]
  BY <1>1 DEF t
<1>3. Range(t) = Range(s) \cup {e}
  <2>1. ASSUME NEW k \in 1 .. Len(s) + 1 PROVE t[k] \in Range(s) \cup {e}
    <3>1. CASE k = Len(s) + 1
      BY <1>2, <3>1
    <3>2. CASE k # Len(s) + 1
      <4>1. k \in 1 .. Len(s)
        BY <1>1, <3>2
      <4>2. QED
        BY <1>1, <1>2, <4>1 DEF Range
    <3>3. QED
      BY <3>1, <3>2
  <2>2. \A k \in 1 .. Len(s) : s[k] \in Range(t)
    <3>1. \A k \in 1 .. Len(s) : k \in 1 .. Len(s) + 1
      BY <1>1
    <3>2. QED
      BY <1>2, <3>1 DEF Range
  <2>3. e \in Range(t)
    <3>1. Len(s) + 1 \in 1 .. Len(s) + 1
      BY <1>1
    <3>2. QED
      BY <1>2, <3>1 DEF Range
  <2>4. QED
    BY <1>1, <1>2, <2>1, <2>2, <2>3 DEF Range
<1>4. QED
  BY <1>1, <1>3 DEF t

\* Marking tiles done disturbs nothing of it.
LEMMA MarkKeepsTaken ==
  ASSUME TakeInv, NEW T \in SUBSET Tiles, Mark(T), UNCHANGED <<grid, order, cursor, hit, taken>>
  PROVE  TakeInv'
<1>1. /\ done' = done \cup T /\ busy' = busy \ (T \ done)
      /\ grid' = grid /\ order' = order /\ cursor' = cursor /\ taken' = taken /\ Tiles' = Tiles
  BY DEF Mark, Tiles
<1>2. busy' \subseteq Range(taken) /\ busy' \cap done' = {} /\ Range(taken) \subseteq busy' \cup done'
  BY <1>1 DEF TakeInv
<1>3. InRings'
  BY <1>1 DEF TakeInv, InRings
<1>4. QED
  BY <1>1, <1>2, <1>3 DEF TakeInv

\* next() finds a tile that was never handed out, and none nearer is left behind.
LEMMA TakeKeepsTaken ==
  ASSUME TakeInv, Take
  PROVE  TakeInv' /\ \E p \in Places : order[p] \in Tiles /\ order[p] \notin Range(taken) \cup done
                                       /\ busy' = busy \cup {order[p]}
                                       /\ cellBusy' = [cellBusy EXCEPT ![CellOf(grid, order[p])] = @ + 1]
<1>1. /\ GridOK(grid) /\ Len(order) \in Nat /\ order \in [1 .. Len(order) -> Tiles]
      /\ \A p, q \in 1 .. Len(order) : order[p] = order[q] => p = q
      /\ \A i \in Tiles : \E p \in 1 .. Len(order) : order[p] = i
      /\ \A p, q \in 1 .. Len(order) : Ring(grid, order[p]) < Ring(grid, order[q]) => p < q
  BY OrderWalk DEF TakeInv
<1> DEFINE p == Min(Places)
           i == order[p]
<1>2. p \in Places /\ \A q \in Places : p <= q
  <2>1. Places \subseteq Nat /\ Places # {}
    BY <1>1 DEF TakeInv, Take, Places
  <2>2. \E q \in Places : \A x \in Places : q <= x
    BY <2>1, LeastNatural
  <2>3. QED
    BY <2>2 DEF Min
<1> HIDE DEF p
<1>3. /\ p \in cursor .. Len(order) /\ p \in 1 .. Len(order) /\ i \in Tiles /\ i \notin done
      /\ cursor \in 1 .. Len(order) + 1
  BY <1>1, <1>2 DEF TakeInv, Places
<1>4. /\ cursor' = p + 1 /\ busy' = busy \cup {i} /\ taken' = Append(taken, i)
      /\ cellBusy' = [cellBusy EXCEPT ![CellOf(grid, i)] = @ + 1]
      /\ grid' = grid /\ order' = order /\ done' = done /\ Tiles' = Tiles
  BY DEF Take, p, Tiles
<1>5. i \notin Range(taken)
  <2>1. \A q \in 1 .. cursor - 1 : q \in 1 .. Len(order) /\ q # p
    BY <1>1, <1>3
  <2>2. i \notin {order[q] : q \in 1 .. cursor - 1}
    BY <1>1, <1>3, <2>1
  <2>3. QED
    BY <2>2 DEF TakeInv
<1>6. /\ taken \in Seq(Tiles) /\ taken' \in Seq(Tiles) /\ Len(taken) \in Nat /\ DOMAIN taken = 1 .. Len(taken)
      /\ DOMAIN taken' = 1 .. Len(taken) + 1
      /\ \A k \in 1 .. Len(taken) : taken'[k] = taken[k]
      /\ taken'[Len(taken) + 1] = i /\ Range(taken') = Range(taken) \cup {i}
  <2>1. taken \in Seq(Tiles)
    BY DEF TakeInv
  <2>2. QED
    BY <1>3, <1>4, <2>1, AppendFacts
<1>7. \A q \in 1 .. p - 1 : order[q] \in done \cup Range(taken)
  <2> TAKE q \in 1 .. p - 1
  <2>1. CASE q < cursor
    <3>1. q \in 1 .. cursor - 1
      BY <1>3, <2>1
    <3>2. QED
      BY <3>1 DEF TakeInv
  <2>2. CASE ~ (q < cursor)
    <3>1. q \in cursor .. Len(order) /\ ~ (p <= q)
      BY <1>1, <1>3, <2>2
    <3>2. QED
      BY <1>2, <3>1 DEF Places
  <2>3. QED
    BY <2>1, <2>2
<1> HIDE DEF i
<1>8. IsInjective(taken')
  <2>1. ASSUME NEW a \in 1 .. Len(taken) + 1, NEW b \in 1 .. Len(taken) + 1, taken'[a] = taken'[b]
        PROVE  a = b
    <3>1. \A k \in 1 .. Len(taken) + 1 : k = Len(taken) + 1 \/ k \in 1 .. Len(taken)
      BY <1>6
    <3>2. \A k \in 1 .. Len(taken) : taken'[k] \in Range(taken) /\ taken'[k] # i
      BY <1>5, <1>6 DEF Range
    <3>3. QED
      BY <1>6, <2>1, <3>1, <3>2 DEF TakeInv, IsInjective
  <2>2. QED
    BY <1>6, <2>1 DEF IsInjective
<1>9. ASSUME NEW k \in DOMAIN taken', NEW j \in Tiles, Ring(grid, j) < Ring(grid, taken'[k])
      PROVE  j \in done \cup {taken'[l] : l \in 1 .. k}
  <2>1. CASE k \in 1 .. Len(taken)
    <3>1. \A l \in 1 .. k : l \in 1 .. Len(taken)
      BY <1>6, <2>1
    <3>2. {taken'[l] : l \in 1 .. k} = {taken[l] : l \in 1 .. k}
      BY <1>6, <3>1
    <3>3. QED
      BY <1>6, <1>9, <2>1, <3>2 DEF TakeInv, InRings
  <2>2. CASE k = Len(taken) + 1
    <3>1. PICK q \in 1 .. Len(order) : order[q] = j
      BY <1>1
    <3>2. q < p
      BY <1>1, <1>3, <1>6, <1>9, <2>2, <3>1 DEF i
    <3>3. j \in done \cup Range(taken)
      <4>1. q \in 1 .. p - 1
        BY <1>3, <3>2
      <4>2. QED
        BY <1>7, <3>1, <4>1
    <3>4. ASSUME j \in Range(taken) PROVE \E l \in 1 .. k : taken'[l] = j
      <4>1. PICK l \in 1 .. Len(taken) : taken[l] = j
        BY <1>6, <3>4 DEF Range
      <4>2. l \in 1 .. k /\ taken'[l] = j
        BY <1>6, <2>2, <4>1
      <4>3. QED
        BY <4>2
    <3>5. QED
      BY <3>3, <3>4
  <2>3. QED
    BY <1>6, <2>1, <2>2
<1>10. InRings'
  BY <1>4, <1>9 DEF InRings
<1>11. {order[q] : q \in 1 .. cursor' - 1} \subseteq done \cup Range(taken')
  <2>1. \A q \in 1 .. cursor' - 1 : q \in 1 .. p - 1 \/ q = p
    BY <1>3, <1>4
  <2>2. QED
    BY <1>6, <1>7, <2>1 DEF i
<1>12. Range(taken') \subseteq {order[q] : q \in 1 .. cursor' - 1}
  <2>1. \A q \in 1 .. cursor - 1 : q \in 1 .. cursor' - 1
    BY <1>3, <1>4
  <2>2. p \in 1 .. cursor' - 1
    BY <1>3, <1>4
  <2>3. i \in {order[q] : q \in 1 .. cursor' - 1}
    BY <2>2 DEF i
  <2>4. QED
    BY <1>6, <2>1, <2>3 DEF TakeInv
<1>13. cursor' \in 1 .. Len(order) + 1
  BY <1>1, <1>3, <1>4
<1>14. busy' \subseteq Range(taken') /\ busy' \cap done = {} /\ Range(taken') \subseteq busy' \cup done
  BY <1>3, <1>4, <1>6 DEF TakeInv, i
<1>15. TakeInv'
  <2>1. grid' \in {Grid(r) : r \in Regions} /\ order' = Order(grid')
    BY <1>4 DEF TakeInv
  <2>2. cursor' \in 1 .. Len(order') + 1 /\ done' \subseteq Tiles' /\ taken' \in Seq(Tiles')
    BY <1>4, <1>6, <1>13 DEF TakeInv
  <2>3. busy' \subseteq Range(taken') /\ busy' \cap done' = {} /\ Range(taken') \subseteq busy' \cup done'
    BY <1>4, <1>14
  <2>4. /\ Range(taken') \subseteq {order'[q] : q \in 1 .. cursor' - 1}
        /\ {order'[q] : q \in 1 .. cursor' - 1} \subseteq done' \cup Range(taken')
    BY <1>4, <1>11, <1>12
  <2>5. QED
    BY <1>8, <1>10, <2>1, <2>2, <2>3, <2>4 DEF TakeInv
<1>16. QED
  BY <1>2, <1>3, <1>4, <1>5, <1>15 DEF i

\* Whatever the owner calls, and in whatever order tiles come back.
THEOREM TakenInTurn == Spec => []TakeInv
<1>1. Init => TakeInv
  <2>1. SUFFICES ASSUME Init
                 PROVE  TakeInv
    OBVIOUS
  <2>2. Len(order) \in Nat
    BY <2>1, OrderWalk DEF Init
  <2>3. taken \in Seq(Tiles) /\ Range(taken) = {} /\ DOMAIN taken = {}
    BY <2>1 DEF Init, Range
  <2>4. 1 .. cursor - 1 = {} /\ cursor \in 1 .. Len(order) + 1
    BY <2>1, <2>2 DEF Init
  <2>5. QED
    BY <2>1, <2>3, <2>4 DEF Init, TakeInv, InRings, IsInjective
<1>2. TakeInv /\ [Next]_vars => TakeInv'
  <2>1. SUFFICES ASSUME TakeInv, [Next]_vars
                 PROVE  TakeInv'
    OBVIOUS
  <2>2. ASSUME NEW a, NEW b, RestoreRun(a, b) PROVE TakeInv'
    <3>1. Tiles \cap (a .. b) \in SUBSET Tiles
      OBVIOUS
    <3>2. QED
      BY <2>1, <2>2, <3>1, MarkKeepsTaken DEF RestoreRun
  <2>3. CASE Take
    BY <2>1, <2>3, TakeKeepsTaken
  <2>4. CASE Exhaust
    <3>1. /\ Len(order) \in Nat /\ order \in [1 .. Len(order) -> Tiles]
      BY <2>1, OrderWalk DEF TakeInv
    <3>2. /\ cursor' = Len(order) + 1 /\ Places = {} /\ cursor \in 1 .. Len(order) + 1
          /\ UNCHANGED <<grid, order, done, busy, taken>> /\ Tiles' = Tiles
      BY <2>1, <2>4 DEF Exhaust, Tiles, TakeInv
    <3>3. cursor' \in 1 .. Len(order) + 1
      BY <3>1, <3>2
    <3>4. \A q \in 1 .. cursor - 1 : q \in 1 .. cursor' - 1
      BY <3>1, <3>2
    <3>5. \A q \in 1 .. cursor' - 1 : order[q] \in done \cup Range(taken)
      <4> TAKE q \in 1 .. cursor' - 1
      <4>1. q \in 1 .. cursor - 1 \/ q \in cursor .. Len(order)
        BY <3>1, <3>2
      <4>2. q \in cursor .. Len(order) => order[q] \in done
        BY <3>2 DEF Places
      <4>3. QED
        BY <2>1, <4>1, <4>2 DEF TakeInv
    <3>6. InRings'
      BY <2>1, <3>2 DEF TakeInv, InRings
    <3>7. Range(taken)' = Range(taken) /\ IsInjective(taken)' = IsInjective(taken)
      BY <3>2
    <3>8. QED
      BY <2>1, <3>2, <3>3, <3>4, <3>5, <3>6, <3>7 DEF TakeInv
  <2>5. CASE MarkDone
    <3>1. PICK i \in busy : Mark({i})
      BY <2>5 DEF MarkDone
    <3>2. {i} \in SUBSET Tiles
      BY <2>1 DEF TakeInv, Range
    <3>3. QED
      BY <2>1, <2>5, <3>1, <3>2, MarkKeepsTaken DEF MarkDone
  <2>6. ASSUME NEW x, NEW z, MarkHit(x, z) PROVE TakeInv'
    BY <2>1, <2>6 DEF MarkHit, TakeInv, InRings, Tiles
  <2>7. CASE UNCHANGED vars
    BY <2>1, <2>7 DEF vars, TakeInv, InRings, Tiles
  <2>8. QED
    BY <2>1, <2>2, <2>3, <2>4, <2>5, <2>6, <2>7 DEF Next
<1>3. QED
  BY <1>1, <1>2, PTL DEF Spec

\* Each tile is handed out at most once, never when it was done before, and only when
\* every tile of a nearer ring is done or was handed out.
THEOREM HandsOutInOrder == Spec => []HandedOutInOrder
<1>1. TakeInv => HandedOutInOrder
  BY DEF TakeInv, InRings, HandedOutInOrder
<1>2. QED
  BY <1>1, TakenInTurn, PTL

-----------------------------------------------------------------------------
(* Counting candidates                                                     *)

\* What holds of a subset when it holds of all that are smaller, holds of every
\* subset of a finite set.
LEMMA EverySubset ==
  ASSUME NEW S, IsFiniteSet(S), NEW H,
         \A T \in SUBSET S : (\A U \in SUBSET T : U # T => U \in H) => T \in H
  PROVE  SUBSET S \subseteq H
<1> DEFINE R == StrictSubsetOrdering(S)
<1>1. IsWellFoundedOn(R, SUBSET S)
  BY FS_StrictSubsetOrderingWellFounded, FS_FiniteSubsetsOfFinite
<1>2. ASSUME (SUBSET S) \ H # {} PROVE FALSE
  <2>1. \E T \in (SUBSET S) \ H : \A U \in (SUBSET S) \ H : <<U, T>> \notin R
    <3> DEFINE P == SUBSET S
               Q == P \ H
    <3>1. IsWellFoundedOn(R, P) /\ Q # {} /\ Q \subseteq P
      BY <1>1, <1>2
    <3> HIDE DEF R, P, Q
    <3>2. \E T \in Q : \A U \in Q : <<U, T>> \notin R
      BY <3>1, WFMin
    <3>3. QED
      BY <3>2 DEF P, Q
  <2>2. PICK T \in (SUBSET S) \ H : \A U \in (SUBSET S) \ H : <<U, T>> \notin R
    BY <2>1
  <2>3. ASSUME NEW U \in SUBSET T, U # T PROVE U \in H
    <3>1. U \in SUBSET S /\ U \subseteq T
      BY <2>3
    <3>2. <<U, T>> \in R
      BY <2>2, <2>3, <3>1 DEF StrictSubsetOrdering
    <3>3. QED
      BY <2>2, <3>1, <3>2
  <2>4. QED
    BY <2>2, <2>3
<1>3. QED
  BY <1>2

\* f adds up the candidates of every subset of T
Adds(g, T, f) ==
  f = [s \in SUBSET T |-> IF s = {} THEN 0
                          ELSE LET x == CHOOSE y \in s : TRUE IN Area(g, x) + f[s \ {x}]]

\* Two such functions agree.
LEMMA AddsAgree ==
  ASSUME NEW g, NEW S, IsFiniteSet(S), NEW A \in SUBSET S, NEW B \in SUBSET S,
         NEW e, NEW f, Adds(g, A, e), Adds(g, B, f)
  PROVE  \A u \in SUBSET (A \cap B) : e[u] = f[u]
<1> DEFINE H == {u \in SUBSET (A \cap B) : e[u] = f[u]}
<1>1. IsFiniteSet(A \cap B)
  BY FS_Subset
<1>2. ASSUME NEW u \in SUBSET (A \cap B), \A v \in SUBSET u : v # u => v \in H
      PROVE  u \in H
  <2> DEFINE x == CHOOSE y \in u : TRUE
  <2>1. u \in SUBSET A /\ u \in SUBSET B
    OBVIOUS
  <2>2. /\ e[u] = IF u = {} THEN 0 ELSE Area(g, x) + e[u \ {x}]
        /\ f[u] = IF u = {} THEN 0 ELSE Area(g, x) + f[u \ {x}]
    BY <2>1 DEF Adds
  <2>3. CASE u = {}
    BY <2>2, <2>3
  <2>4. CASE u # {}
    <3>1. x \in u
      BY <2>4
    <3> HIDE DEF x
    <3>2. u \ {x} \in SUBSET u /\ u \ {x} # u
      BY <3>1
    <3>3. e[u \ {x}] = f[u \ {x}]
      BY <1>2, <3>2
    <3>4. QED
      BY <2>2, <2>4, <3>3
  <2>5. QED
    BY <2>3, <2>4
<1>3. SUBSET (A \cap B) \subseteq H
  <2> DEFINE C == A \cap B
  <2>1. IsFiniteSet(C) /\ \A u \in SUBSET C : (\A v \in SUBSET u : v # u => v \in H) => u \in H
    BY <1>1, <1>2
  <2> HIDE DEF H, C
  <2>2. SUBSET C \subseteq H
    BY <2>1, EverySubset
  <2>3. QED
    BY <2>2 DEF C
<1>4. QED
  BY <1>3

\* There is one for every finite set.
LEMMA AddsExists ==
  ASSUME NEW g, NEW S, IsFiniteSet(S)
  PROVE  \A T \in SUBSET S : \E f : Adds(g, T, f)
<1> DEFINE H == {T \in SUBSET S : \E f : Adds(g, T, f)}
<1>1. ASSUME NEW T \in SUBSET S, \A U \in SUBSET T : U # T => U \in H
      PROVE  T \in H
  <2> DEFINE of(U) == CHOOSE f : Adds(g, U, f)
             x == CHOOSE y \in T : TRUE
             h == [u \in SUBSET T |-> IF u = {} THEN 0
                                      ELSE IF u = T THEN Area(g, x) + (IF T \ {x} = {} THEN 0 ELSE of(T \ {x})[T \ {x}])
                                      ELSE of(u)[u]]
  <2>1. \A U \in SUBSET T : U # T => Adds(g, U, of(U))
    <3> TAKE U \in SUBSET T
    <3> HAVE U # T
    <3>1. \E f : Adds(g, U, f)
      BY <1>1
    <3>2. QED
      BY <3>1
  <2> HIDE DEF of
  <2>2. ASSUME NEW u \in SUBSET T, u # {}
        PROVE  LET y == CHOOSE v \in u : TRUE IN h[u] = Area(g, y) + h[u \ {y}]
    <3> DEFINE y == CHOOSE v \in u : TRUE
    <3>1. y \in u /\ u \ {y} \in SUBSET T /\ u \ {y} # T
      BY <2>2
    <3>2. h[u \ {y}] = IF u \ {y} = {} THEN 0 ELSE of(u \ {y})[u \ {y}]
      <4> HIDE DEF y
      <4>1. QED
        BY <3>1
    <3>3. CASE u = T
      <4>1. h[u] = Area(g, y) + (IF u \ {y} = {} THEN 0 ELSE of(u \ {y})[u \ {y}])
        BY <2>2, <3>3
      <4> HIDE DEF h, y
      <4>2. QED
        BY <3>2, <4>1 DEF y
    <3>4. CASE u # T
      <4>1. h[u] = of(u)[u]
        BY <2>2, <3>4
      <4> HIDE DEF h
      <4>2. Adds(g, u, of(u))
        BY <2>1, <3>4
      <4>3. u \in SUBSET u
        OBVIOUS
      <4>4. of(u)[u] = Area(g, y) + of(u)[u \ {y}]
        BY <2>2, <4>2, <4>3 DEF Adds
      <4> HIDE DEF y
      <4>5. of(u)[u \ {y}] = h[u \ {y}]
        <5>1. CASE u \ {y} = {}
          <6>1. {} \in SUBSET u
            OBVIOUS
          <6>2. of(u)[{}] = 0
            BY <4>2, <6>1 DEF Adds
          <6>3. QED
            BY <3>2, <5>1, <6>2
        <5>2. CASE u \ {y} # {}
          <6>1. Adds(g, u \ {y}, of(u \ {y}))
            BY <2>1, <3>1
          <6>2. u \in SUBSET S /\ u \ {y} \in SUBSET S /\ u \ {y} \in SUBSET (u \cap (u \ {y}))
            BY <3>1
          <6>3. of(u)[u \ {y}] = of(u \ {y})[u \ {y}]
            BY <4>2, <6>1, <6>2, AddsAgree
          <6>4. QED
            BY <3>2, <5>2, <6>3
        <5>3. QED
          BY <5>1, <5>2
      <4>6. QED
        BY <4>1, <4>4, <4>5 DEF y
    <3>5. QED
      BY <3>3, <3>4
  <2>3. Adds(g, T, h)
    <3>1. \A u \in SUBSET T : h[u] = IF u = {} THEN 0
                                     ELSE LET y == CHOOSE v \in u : TRUE IN Area(g, y) + h[u \ {y}]
      <4> TAKE u \in SUBSET T
      <4>1. CASE u = {}
        BY <4>1
      <4>2. CASE u # {}
        <5> HIDE DEF h
        <5>1. QED
          BY <2>2, <4>2
      <4>3. QED
        BY <4>1, <4>2
    <3>2. DOMAIN h = SUBSET T /\ h = [u \in SUBSET T |-> h[u]]
      OBVIOUS
    <3> HIDE DEF h
    <3>3. QED
      BY <3>1, <3>2 DEF Adds
  <2>4. QED
    <3> HIDE DEF h
    <3>1. QED
      BY <2>3
<1>2. SUBSET S \subseteq H
  <2> HIDE DEF H
  <2>1. QED
    BY <1>1, EverySubset
<1>3. QED
  BY <1>2

\* The candidates of tiles: those of one, and those of the others.
LEMMA CandidatesStep ==
  ASSUME NEW g, NEW T, IsFiniteSet(T)
  PROVE  /\ T = {} => CandidatesOf(g, T) = 0
         /\ T # {} => LET x == CHOOSE y \in T : TRUE
                      IN CandidatesOf(g, T) = Area(g, x) + CandidatesOf(g, T \ {x})
<1> DEFINE iter(U) == CHOOSE f : Adds(g, U, f)
<1>1. \A U : CandidatesOf(g, U) = iter(U)[U]
  BY DEF CandidatesOf, MapThenSumSet, MapThenFoldSet, Adds
<1>2. \A U \in SUBSET T : Adds(g, U, iter(U))
  <2> TAKE U \in SUBSET T
  <2>1. \E f : Adds(g, U, f)
    BY AddsExists
  <2>2. QED
    BY <2>1
<1> HIDE DEF iter
<1>3. T \in SUBSET T
  OBVIOUS
<1>4. Adds(g, T, iter(T))
  BY <1>2, <1>3
<1>5. T = {} => iter(T)[T] = 0
  BY <1>3, <1>4 DEF Adds
<1> DEFINE x == CHOOSE y \in T : TRUE
<1>6. ASSUME T # {} PROVE CandidatesOf(g, T) = Area(g, x) + CandidatesOf(g, T \ {x})
  <2>1. iter(T)[T] = Area(g, x) + iter(T)[T \ {x}]
    BY <1>3, <1>4, <1>6 DEF Adds
  <2> HIDE DEF x
  <2>2. T \ {x} \in SUBSET T /\ T \ {x} \in SUBSET (T \cap (T \ {x}))
    OBVIOUS
  <2>3. Adds(g, T \ {x}, iter(T \ {x}))
    BY <1>2, <2>2
  <2>4. iter(T)[T \ {x}] = iter(T \ {x})[T \ {x}]
    BY <1>3, <1>4, <2>2, <2>3, AddsAgree
  <2>5. QED
    BY <1>1, <2>1, <2>4
<1>7. QED
  BY <1>1, <1>5, <1>6

\* And it does not matter which one.
LEMMA CandidatesLess ==
  ASSUME NEW g, NEW T, IsFiniteSet(T), \A i \in T : Area(g, i) \in Nat
  PROVE  /\ CandidatesOf(g, T) \in Nat
         /\ \A i \in T : CandidatesOf(g, T) = Area(g, i) + CandidatesOf(g, T \ {i})
<1> DEFINE H == {U \in SUBSET T : /\ CandidatesOf(g, U) \in Nat
                                  /\ \A i \in U : CandidatesOf(g, U) = Area(g, i) + CandidatesOf(g, U \ {i})}
<1>1. ASSUME NEW U \in SUBSET T, \A V \in SUBSET U : V # U => V \in H
      PROVE  U \in H
  <2>1. IsFiniteSet(U)
    BY FS_Subset
  <2>2. CASE U = {}
    <3>1. CandidatesOf(g, U) = 0
      BY <2>1, <2>2, CandidatesStep
    <3>2. QED
      BY <2>2, <3>1
  <2>3. CASE U # {}
    <3> DEFINE x == CHOOSE y \in U : TRUE
    <3>1. x \in U
      BY <2>3
    <3>2. CandidatesOf(g, U) = Area(g, x) + CandidatesOf(g, U \ {x})
      BY <2>1, <2>3, CandidatesStep
    <3> HIDE DEF x
    <3>3. U \ {x} \in H
      <4>1. U \ {x} \in SUBSET U /\ U \ {x} # U
        BY <3>1
      <4> HIDE DEF H
      <4>2. QED
        BY <1>1, <4>1
    <3>4. CandidatesOf(g, U \ {x}) \in Nat /\ Area(g, x) \in Nat
      BY <3>1, <3>3
    <3>5. ASSUME NEW i \in U PROVE CandidatesOf(g, U) = Area(g, i) + CandidatesOf(g, U \ {i})
      <4>1. CASE i = x
        BY <3>2, <4>1
      <4>2. CASE i # x
        <5> DEFINE V == (U \ {x}) \ {i}
        <5>1. i \in U \ {x} /\ x \in U \ {i} /\ (U \ {i}) \ {x} = V
          BY <3>1, <4>2
        <5>2. CandidatesOf(g, U \ {x}) = Area(g, i) + CandidatesOf(g, V)
          BY <3>3, <5>1
        <5>3. U \ {i} \in H
          <6>1. U \ {i} \in SUBSET U /\ U \ {i} # U
            OBVIOUS
          <6> HIDE DEF H
          <6>2. QED
            BY <1>1, <6>1
        <5>4. CandidatesOf(g, U \ {i}) = Area(g, x) + CandidatesOf(g, V)
          BY <5>1, <5>3
        <5>5. V \in H
          <6>1. V \in SUBSET U /\ V # U
            OBVIOUS
          <6> HIDE DEF H, V
          <6>2. QED
            BY <1>1, <6>1
        <5>6. CandidatesOf(g, V) \in Nat /\ Area(g, i) \in Nat
          BY <5>5
        <5> HIDE DEF V
        <5>7. QED
          BY <3>2, <3>4, <5>2, <5>4, <5>6
      <4>3. QED
        BY <4>1, <4>2
    <3>6. QED
      BY <3>2, <3>4, <3>5
  <2>4. QED
    BY <2>2, <2>3
<1>2. SUBSET T \subseteq H
  <2> HIDE DEF H
  <2>1. QED
    BY <1>1, EverySubset
<1>3. T \in H
  <2> HIDE DEF H
  <2>1. QED
    BY <1>2
<1>4. QED
  BY <1>3

\* Candidates of tiles that have none in common add up.
LEMMA CandidatesAdd ==
  ASSUME NEW g, NEW A, NEW B, IsFiniteSet(A), IsFiniteSet(B), A \cap B = {},
         \A i \in A \cup B : Area(g, i) \in Nat
  PROVE  CandidatesOf(g, A \cup B) = CandidatesOf(g, A) + CandidatesOf(g, B)
<1> DEFINE H == {U \in SUBSET B : CandidatesOf(g, A \cup U) = CandidatesOf(g, A) + CandidatesOf(g, U)}
<1>1. ASSUME NEW U \in SUBSET B, \A V \in SUBSET U : V # U => V \in H
      PROVE  U \in H
  <2>1. IsFiniteSet(U) /\ IsFiniteSet(A \cup U)
    BY FS_Subset, FS_Union
  <2>2. CandidatesOf(g, A) \in Nat
    BY CandidatesLess
  <2>3. CASE U = {}
    <3>1. CandidatesOf(g, U) = 0 /\ A \cup U = A
      BY <2>1, <2>3, CandidatesStep
    <3>2. QED
      BY <2>2, <3>1
  <2>4. CASE U # {}
    <3>1. PICK i : i \in U
      BY <2>4
    <3>2. U \ {i} \in H
      <4>1. U \ {i} \in SUBSET U /\ U \ {i} # U
        BY <3>1
      <4> HIDE DEF H
      <4>2. QED
        BY <1>1, <4>1
    <3>3. i \in A \cup U /\ (A \cup U) \ {i} = A \cup (U \ {i})
      BY <3>1
    <3>4. \A j \in A \cup U : Area(g, j) \in Nat
      OBVIOUS
    <3>5. CandidatesOf(g, A \cup U) = Area(g, i) + CandidatesOf(g, A \cup (U \ {i}))
      BY <2>1, <3>3, <3>4, CandidatesLess
    <3>6. CandidatesOf(g, U) = Area(g, i) + CandidatesOf(g, U \ {i}) /\ CandidatesOf(g, U) \in Nat
      BY <2>1, <3>1, <3>4, CandidatesLess
    <3>7. CandidatesOf(g, U \ {i}) \in Nat /\ Area(g, i) \in Nat
      <4>1. IsFiniteSet(U \ {i})
        BY <2>1, FS_RemoveElement
      <4>2. QED
        BY <3>1, <3>4, <4>1, CandidatesLess
    <3>8. CandidatesOf(g, A \cup (U \ {i})) = CandidatesOf(g, A) + CandidatesOf(g, U \ {i})
      BY <3>2
    <3>9. QED
      BY <2>2, <3>5, <3>6, <3>7, <3>8
  <2>5. QED
    BY <2>3, <2>4
<1>2. SUBSET B \subseteq H
  <2> HIDE DEF H
  <2>1. QED
    BY <1>1, EverySubset
<1>3. B \in H
  <2> HIDE DEF H
  <2>1. QED
    BY <1>2
<1>4. QED
  BY <1>3

-----------------------------------------------------------------------------
(* The map                                                                 *)

\* Consecutive places of a ring are neighbours.
LEMMA AlongWalks ==
  ASSUME NEW dx \in Int, NEW dz \in Int, NEW ex \in Int, NEW ez \in Int,
         RingOf(dx, dz) = RingOf(ex, ez), AlongOf(ex, ez) = AlongOf(dx, dz) + 1
  PROVE  Magnitude(dx - ex) + Magnitude(dz - ez) = 1
BY DEF RingOf, AlongOf, Magnitude

\* The first tile of a cell comes no later than that of a later cell.
LEMMA SplitGrows ==
  ASSUME NEW n \in Nat \ {0}, NEW cells \in Nat \ {0}, NEW a \in Nat, NEW b \in Nat, a <= b
  PROVE  Split(n, cells, a) \in Nat /\ Split(n, cells, a) <= Split(n, cells, b)
<1> DEFINE p == (a * n) \div cells
           q == (b * n) \div cells
<1>1. a * n \in Nat /\ b * n \in Nat /\ a * n <= b * n
  OBVIOUS
<1>2. /\ p \in Int /\ cells * p <= a * n /\ a * n < cells * p + cells
      /\ q \in Int /\ cells * q <= b * n /\ b * n < cells * q + cells
  BY <1>1, DivBounds
<1>3. Split(n, cells, a) = p /\ Split(n, cells, b) = q
  BY DEF Split
<1> DEFINE an == a * n
           bn == b * n
<1>4. /\ an \in Nat /\ bn \in Nat /\ an <= bn
      /\ p \in Int /\ cells * p <= an /\ an < cells * p + cells
      /\ q \in Int /\ cells * q <= bn /\ bn < cells * q + cells
  BY <1>1, <1>2
<1> HIDE DEF p, q, an, bn
<1>5. ASSUME p < 0 PROVE FALSE
  <2>1. cells * p <= cells * (-1)
    BY <1>4, <1>5
  <2>2. QED
    BY <1>4, <2>1
<1>6. ASSUME q < p PROVE FALSE
  <2>1. cells * (q + 1) <= cells * p
    BY <1>4, <1>6
  <2>2. cells * (q + 1) = cells * q + cells
    BY <1>4
  <2>3. QED
    BY <1>4, <2>1, <2>2
<1>7. QED
  BY <1>3, <1>4, <1>5, <1>6

\* The cell of a tile is the one cell whose range of tiles it lies in.
LEMMA CellIsRange ==
  ASSUME NEW n \in Nat \ {0}, NEW cells \in 1 .. n, NEW t \in 0 .. n - 1, NEW m \in 0 .. cells - 1
  PROVE  /\ CellOfTile(n, cells, t) \in 0 .. cells - 1
         /\ CellOfTile(n, cells, t) = m <=> t \in Split(n, cells, m) .. Split(n, cells, m + 1) - 1
<1> DEFINE k == CellOfTile(n, cells, t)
<1>1. k \in 0 .. cells - 1 /\ Split(n, cells, k) <= t /\ t < Split(n, cells, k + 1)
  BY SplitIsInverted DEF SplitInverse
<1> HIDE DEF k
<1>2. /\ k \in Nat /\ k + 1 \in Nat /\ m \in Nat /\ m + 1 \in Nat /\ cells \in Nat \ {0}
  BY <1>1
<1>3. /\ Split(n, cells, k) \in Nat /\ Split(n, cells, k + 1) \in Nat
      /\ Split(n, cells, m) \in Nat /\ Split(n, cells, m + 1) \in Nat
      /\ k + 1 <= m => Split(n, cells, k + 1) <= Split(n, cells, m)
      /\ m + 1 <= k => Split(n, cells, m + 1) <= Split(n, cells, k)
  <2>1. \A a \in Nat : Split(n, cells, a) \in Nat
    BY <1>2, SplitGrows
  <2>2. k + 1 <= m => Split(n, cells, k + 1) <= Split(n, cells, m)
    BY <1>2, SplitGrows
  <2>3. m + 1 <= k => Split(n, cells, m + 1) <= Split(n, cells, k)
    BY <1>2, SplitGrows
  <2>4. QED
    BY <1>2, <2>1, <2>2, <2>3
<1>4. k = m <=> t \in Split(n, cells, m) .. Split(n, cells, m + 1) - 1
  <2>1. CASE k = m
    BY <1>1, <1>3, <2>1
  <2>2. CASE k + 1 <= m
    BY <1>1, <1>2, <1>3, <2>2
  <2>3. CASE m + 1 <= k
    BY <1>1, <1>2, <1>3, <2>3
  <2>4. QED
    BY <1>2, <2>1, <2>2, <2>3
<1>5. QED
  BY <1>1, <1>4 DEF k

\* The map has a cell for every tile, and the cell of a tile is known from the
\* cells of its column and its row.
LEMMA CellOfTiles ==
  ASSUME NEW g, GridOK(g), NEW i \in Indices(g)
  PROVE  /\ CellOf(g, i) \in Cells(g)
         /\ \A c \in Cells(g) :
              CellOf(g, i) = c <=> /\ CellOfTile(g.nx, g.mw, Column(g, i)) = c % g.mw
                                   /\ CellOfTile(g.nz, g.mh, Row(g, i)) = c \div g.mw
<1> DEFINE mx == CellOfTile(g.nx, g.mw, Column(g, i))
           mz == CellOfTile(g.nz, g.mh, Row(g, i))
<1>1. /\ g.nx \in Nat \ {0} /\ g.nz \in Nat \ {0} /\ g.mw \in 1 .. g.nx /\ g.mh \in 1 .. g.nz
      /\ g.mw \in Nat \ {0} /\ g.mh \in Nat \ {0}
  BY DEF GridOK
<1>2. Column(g, i) \in 0 .. g.nx - 1 /\ Row(g, i) \in 0 .. g.nz - 1
  BY <1>1, ColumnRow DEF Column, Row, Indices
<1>3. mx \in 0 .. g.mw - 1 /\ mz \in 0 .. g.mh - 1
  <2>1. 0 \in 0 .. g.mw - 1 /\ 0 \in 0 .. g.mh - 1
    BY <1>1
  <2>2. QED
    BY <1>1, <1>2, <2>1, CellIsRange
<1>4. CellOf(g, i) = mz * g.mw + mx
  BY DEF CellOf
<1> HIDE DEF mx, mz
<1> DEFINE c == mz * g.mw + mx
<1>5. c \in Int /\ c \in 0 .. g.mw * g.mh - 1
  <2>1. mz * g.mw >= 0 /\ mz * g.mw <= (g.mh - 1) * g.mw /\ (g.mh - 1) * g.mw = g.mw * g.mh - g.mw
        /\ mz * g.mw \in Int /\ g.mw * g.mh \in Int
    BY <1>1, <1>3
  <2>2. QED
    BY <1>1, <1>3, <2>1
<1>6. c \div g.mw = mz /\ c % g.mw = mx
  <2>1. mz \in Nat
    BY <1>3
  <2> DEFINE w == g.mw
  <2>2. w \in Nat \ {0} /\ mx \in 0 .. w - 1 /\ c \in Int /\ c = mz * w + mx
    BY <1>1, <1>3, <1>5
  <2> HIDE DEF w, c
  <2>3. c \div w = mz /\ c % w = mx
    BY <2>1, <2>2, RowMajor
  <2>4. QED
    BY <2>3 DEF w
<1> HIDE DEF c
<1>7. ASSUME NEW d \in Cells(g), mx = d % g.mw, mz = d \div g.mw PROVE d = c
  <2>1. d = (d \div g.mw) * g.mw + (d % g.mw)
    <3> DEFINE w == g.mw
               h == g.mh
    <3>1. w \in Nat \ {0} /\ h \in Nat \ {0} /\ d \in 0 .. w * h - 1
      BY <1>1 DEF Cells
    <3> HIDE DEF w, h
    <3>2. d = (d \div w) * w + (d % w)
      BY <3>1, ColumnRow
    <3>3. QED
      BY <3>2 DEF w
  <2>2. QED
    BY <1>7, <2>1 DEF c
<1>8. QED
  BY <1>4, <1>5, <1>6, <1>7 DEF c, mx, mz, Cells

\* What map() computes from two splits is the number of tiles of a cell.
LEMMA CellSizes ==
  ASSUME NEW g, GridOK(g)
  PROVE  CellsAddUp(g)
<1> SUFFICES ASSUME NEW c \in Cells(g)
             PROVE  Cardinality({i \in Indices(g) : CellOf(g, i) = c}) = CellTiles(g, c)
  BY DEF CellsAddUp
<1> DEFINE nx == g.nx
           nz == g.nz
           mx == c % g.mw
           mz == c \div g.mw
           left == Split(g.nx, g.mw, mx)
           right == Split(g.nx, g.mw, mx + 1)
           top == Split(g.nz, g.mh, mz)
           bottom == Split(g.nz, g.mh, mz + 1)
           own == {i \in Indices(g) : CellOf(g, i) = c}
           place == [i \in own |-> <<Column(g, i), Row(g, i)>>]
<1>1. /\ nx \in Nat \ {0} /\ nz \in Nat \ {0} /\ g.mw \in 1 .. nx /\ g.mh \in 1 .. nz
      /\ g.mw \in Nat \ {0} /\ g.mh \in Nat \ {0}
  BY DEF GridOK
<1>2. mx \in 0 .. g.mw - 1 /\ mz \in 0 .. g.mh - 1
  BY <1>1, ColumnRow DEF Cells
<1>3. \A i \in Indices(g) : /\ Column(g, i) \in 0 .. nx - 1 /\ Row(g, i) \in 0 .. nz - 1
                            /\ i = Row(g, i) * nx + Column(g, i)
  BY <1>1, ColumnRow DEF Column, Row, Indices
<1>4. /\ left \in Nat /\ right \in Nat /\ top \in Nat /\ bottom \in Nat
      /\ left <= right /\ top <= bottom /\ right <= nx /\ bottom <= nz
  <2> HIDE DEF mx, mz
  <2>1. mx \in Nat /\ mx + 1 \in Nat /\ mx <= mx + 1 /\ mx + 1 <= g.mw
    BY <1>1, <1>2
  <2>2. mz \in Nat /\ mz + 1 \in Nat /\ mz <= mz + 1 /\ mz + 1 <= g.mh
    BY <1>1, <1>2
  <2>3. \A n \in Nat, k \in Nat \ {0} : Split(n, k, k) = n
    <3> TAKE n \in Nat, k \in Nat \ {0}
    <3>1. (k * n) \div k = n
      <4> DEFINE a == k * n
      <4>1. a \in Int /\ k * n <= a /\ a < k * n + k /\ n \in Int
        OBVIOUS
      <4> HIDE DEF a
      <4>2. a \div k = n
        BY <4>1, DivUnique
      <4>3. QED
        BY <4>2 DEF a
    <3>2. QED
      BY <3>1 DEF Split
  <2>4. Split(nx, g.mw, mx + 1) <= Split(nx, g.mw, g.mw) /\ Split(nz, g.mh, mz + 1) <= Split(nz, g.mh, g.mh)
    BY <1>1, <2>1, <2>2, SplitGrows
  <2>5. Split(nx, g.mw, g.mw) = nx /\ Split(nz, g.mh, g.mh) = nz
    BY <1>1, <2>3
  <2>6. left \in Nat /\ right \in Nat /\ left <= right
    BY <1>1, <2>1, SplitGrows
  <2>7. top \in Nat /\ bottom \in Nat /\ top <= bottom
    BY <1>1, <2>2, SplitGrows
  <2>8. QED
    BY <2>4, <2>5, <2>6, <2>7
<1> DEFINE columns == left .. right - 1
           rows == top .. bottom - 1
<1>5. \A i \in Indices(g) : i \in own <=> Column(g, i) \in columns /\ Row(g, i) \in rows
  <2> TAKE i \in Indices(g)
  <2>1. CellOf(g, i) = c <=> /\ CellOfTile(g.nx, g.mw, Column(g, i)) = mx
                             /\ CellOfTile(g.nz, g.mh, Row(g, i)) = mz
    BY CellOfTiles
  <2>2. CellOfTile(g.nx, g.mw, Column(g, i)) = mx <=> Column(g, i) \in columns
    <3> HIDE DEF mx
    <3>1. QED
      BY <1>1, <1>2, <1>3, CellIsRange
  <2>3. CellOfTile(g.nz, g.mh, Row(g, i)) = mz <=> Row(g, i) \in rows
    <3> HIDE DEF mz
    <3>1. QED
      BY <1>1, <1>2, <1>3, CellIsRange
  <2>4. QED
    BY <2>1, <2>2, <2>3
<1> HIDE DEF left, right, top, bottom, mx, mz
<1>6. place \in Bijection(own, columns \X rows)
  <2>1. place \in [own -> columns \X rows]
    BY <1>5
  <2>2. \A i, j \in own : place[i] = place[j] => i = j
    <3> TAKE i \in own, j \in own
    <3>1. place[i] = place[j] => Column(g, i) = Column(g, j) /\ Row(g, i) = Row(g, j)
      OBVIOUS
    <3>2. i \in Indices(g) /\ j \in Indices(g)
      OBVIOUS
    <3> HIDE DEF place, own
    <3>3. QED
      BY <1>3, <3>1, <3>2
  <2>3. ASSUME NEW col \in columns, NEW row \in rows
        PROVE  \E i \in own : place[i] = <<col, row>>
    <3> DEFINE i == row * nx + col
    <3>1. col \in 0 .. nx - 1 /\ row \in 0 .. nz - 1 /\ row \in Nat
      <4>1. col \in Int /\ left <= col /\ col <= right - 1 /\ row \in Int /\ top <= row /\ row <= bottom - 1
        BY <1>4
      <4> HIDE DEF nx, nz, columns, rows
      <4>2. QED
        BY <1>1, <1>4, <4>1
    <3>2. i \in Int /\ i \in 0 .. nx * nz - 1
      <4> HIDE DEF nx, nz, columns, rows
      <4>1. row * nx >= 0 /\ row * nx <= (nz - 1) * nx /\ (nz - 1) * nx = nx * nz - nx
            /\ row * nx \in Int /\ nx * nz \in Int
        BY <1>1, <3>1
      <4>2. QED
        BY <1>1, <3>1, <4>1
    <3>3. i \div nx = row /\ i % nx = col
      <4> HIDE DEF nx, nz, columns, rows
      <4>1. i = row * nx + col
        OBVIOUS
      <4> HIDE DEF i
      <4>2. QED
        BY <1>1, <3>1, <3>2, <4>1, RowMajor
    <3> HIDE DEF i
    <3>4. i \in Indices(g) /\ Column(g, i) = col /\ Row(g, i) = row
      BY <3>2, <3>3 DEF Indices, Column, Row
    <3>5. i \in own
      BY <1>5, <3>4
    <3>6. place[i] = <<col, row>>
      BY <3>4, <3>5
    <3>7. QED
      BY <3>5, <3>6
  <2> HIDE DEF place, own, columns, rows
  <2>4. place \in Injection(own, columns \X rows)
    BY <2>1, <2>2 DEF Injection, IsInjective
  <2>5. place \in Surjection(own, columns \X rows)
    <3>1. \A t \in columns \X rows : \E i \in own : place[i] = t
      BY <2>3
    <3>2. QED
      BY <2>1, <3>1 DEF Surjection
  <2>6. QED
    BY <2>4, <2>5 DEF Bijection
<1>7. /\ IsFiniteSet(columns) /\ Cardinality(columns) = right - left
      /\ IsFiniteSet(rows) /\ Cardinality(rows) = bottom - top
  <2>1. \A a, b \in Nat : a <= b => IsFiniteSet(a .. b - 1) /\ Cardinality(a .. b - 1) = b - a
    <3> SUFFICES ASSUME NEW a \in Nat, NEW b \in Nat, a <= b
                 PROVE  IsFiniteSet(a .. b - 1) /\ Cardinality(a .. b - 1) = b - a
      OBVIOUS
    <3>1. a \in Int /\ b - 1 \in Int
      OBVIOUS
    <3>2. IsFiniteSet(a .. b - 1) /\ Cardinality(a .. b - 1) = IF a > b - 1 THEN 0 ELSE (b - 1) - a + 1
      BY ONLY <3>1, FS_Interval
    <3>3. QED
      BY <3>2
  <2>2. QED
    BY <1>4, <2>1
<1>8. IsFiniteSet(columns \X rows) /\ Cardinality(columns \X rows) = (right - left) * (bottom - top)
  <2>1. Cardinality(columns \X rows) = Cardinality(columns) * Cardinality(rows) /\ IsFiniteSet(columns \X rows)
    <3> HIDE DEF columns, rows
    <3>1. QED
      BY <1>7, FS_Product
  <2> HIDE DEF columns, rows
  <2>2. QED
    BY <1>7, <2>1
<1>9. Cardinality(own) = Cardinality(columns \X rows)
  <2>1. IsFiniteSet(own)
    <3>1. own \in SUBSET Indices(g)
      OBVIOUS
    <3> HIDE DEF own
    <3>2. QED
      BY <3>1, FiniteTiles, FS_Subset
  <2> HIDE DEF own, place, columns, rows
  <2>2. ExistsBijection(own, columns \X rows)
    BY <1>6 DEF ExistsBijection
  <2>3. QED
    BY <2>1, <2>2, FS_Bijection
<1>10. CellTiles(g, c) = (right - left) * (bottom - top)
  BY DEF CellTiles, left, right, top, bottom, mx, mz
<1>11. QED
  BY <1>8, <1>9, <1>10

-----------------------------------------------------------------------------
(* The counters                                                            *)

\* Counters are what counting again would find.
CountInv ==
  /\ TakeInv
  /\ doneCount = Cardinality(done)
  /\ candidates = CandidatesOf(grid, done)
  /\ cellDone = [c \in Cells(grid) |-> Share(grid, done, c)]
  /\ cellBusy = [c \in Cells(grid) |-> Share(grid, busy, c)]
  /\ hit \subseteq Cells(grid)

\* Every set of tiles is finite, and the share of a cell in it a number.
LEMMA ShareType ==
  ASSUME GridOK(grid), NEW T \in SUBSET Tiles, NEW c
  PROVE  /\ IsFiniteSet(T) /\ Cardinality(T) \in Nat
         /\ IsFiniteSet({i \in T : CellOf(grid, i) = c}) /\ Share(grid, T, c) \in Nat
<1>1. IsFiniteSet(Tiles)
  BY FiniteTiles DEF Tiles
<1>2. IsFiniteSet(T)
  BY <1>1, FS_Subset
<1>3. {i \in T : CellOf(grid, i) = c} \in SUBSET T
  OBVIOUS
<1>4. IsFiniteSet({i \in T : CellOf(grid, i) = c})
  BY <1>2, <1>3, FS_Subset
<1>5. QED
  BY <1>2, <1>4, FS_CardinalityType DEF Share

\* Shares add up.
LEMMA ShareAdds ==
  ASSUME GridOK(grid), NEW A \in SUBSET Tiles, NEW B \in SUBSET Tiles, NEW c
  PROVE  /\ A \cap B = {} => Share(grid, A \cup B, c) = Share(grid, A, c) + Share(grid, B, c)
         /\ Share(grid, A \ B, c) = Share(grid, A, c) - Share(grid, B \cap A, c)
<1> DEFINE a == {i \in A : CellOf(grid, i) = c}
           b == {i \in B : CellOf(grid, i) = c}
<1>1. IsFiniteSet(a) /\ IsFiniteSet(b) /\ Share(grid, A, c) = Cardinality(a) /\ Share(grid, B, c) = Cardinality(b)
  BY ShareType DEF Share
<1>2. Share(grid, A \cup B, c) = Cardinality(a \cup b)
  <2>1. {i \in A \cup B : CellOf(grid, i) = c} = a \cup b
    OBVIOUS
  <2>2. QED
    BY <2>1 DEF Share
<1>3. Share(grid, A \ B, c) = Cardinality(a \ b)
  <2>1. {i \in A \ B : CellOf(grid, i) = c} = a \ b
    OBVIOUS
  <2>2. QED
    BY <2>1 DEF Share
<1>4. Share(grid, B \cap A, c) = Cardinality(a \cap b)
  <2>1. {i \in B \cap A : CellOf(grid, i) = c} = a \cap b
    OBVIOUS
  <2>2. QED
    BY <2>1 DEF Share
<1>5. ASSUME A \cap B = {} PROVE a \cap b = {}
  BY <1>5
<1> HIDE DEF a, b
<1>6. Cardinality(a \ b) = Cardinality(a) - Cardinality(a \cap b)
  BY <1>1, FS_Difference
<1>7. ASSUME A \cap B = {} PROVE Cardinality(a \cup b) = Cardinality(a) + Cardinality(b)
  <2>1. Cardinality(a \cup b) = Cardinality(a) + Cardinality(b) - Cardinality({})
    BY <1>1, <1>5, <1>7, FS_Union
  <2>2. Cardinality({}) = 0 /\ Cardinality(a) \in Nat /\ Cardinality(b) \in Nat
    BY <1>1, FS_EmptySet, FS_CardinalityType
  <2>3. QED
    BY <2>1, <2>2
<1>8. QED
  BY <1>1, <1>2, <1>3, <1>4, <1>6, <1>7

\* mark_done counts each new tile once, and takes it off the tiles in flight.
LEMMA MarkCounts ==
  ASSUME CountInv, NEW T \in SUBSET Tiles, Mark(T), UNCHANGED <<grid, order, cursor, hit, taken>>
  PROVE  CountInv'
<1> DEFINE new == T \ done
<1>1. /\ done' = done \cup new /\ busy' = busy \ new
      /\ doneCount' = doneCount + Cardinality(new)
      /\ candidates' = candidates + CandidatesOf(grid, new)
      /\ cellDone' = [c \in Cells(grid) |-> cellDone[c] + Share(grid, new, c)]
      /\ cellBusy' = [c \in Cells(grid) |-> cellBusy[c] - Share(grid, new \cap busy, c)]
      /\ grid' = grid /\ hit' = hit
  BY DEF Mark
<1>2. TakeInv /\ TakeInv'
  BY MarkKeepsTaken DEF CountInv
<1>3. GridOK(grid)
  BY <1>2, OrderWalk DEF TakeInv
<1>4. new \in SUBSET Tiles /\ done \in SUBSET Tiles /\ busy \in SUBSET Tiles /\ done \cap new = {}
  <2>1. Range(taken) \subseteq Tiles
    BY <1>2 DEF TakeInv, Range
  <2>2. QED
    BY <1>2, <2>1 DEF TakeInv
<1> HIDE DEF new
<1>5. IsFiniteSet(done) /\ IsFiniteSet(new) /\ Cardinality(done) \in Nat /\ Cardinality(new) \in Nat
  BY <1>3, <1>4, ShareType
<1>6. doneCount' = Cardinality(done')
  <2>1. Cardinality(done \cup new) = Cardinality(done) + Cardinality(new) - Cardinality({})
    BY <1>4, <1>5, FS_Union
  <2>2. QED
    BY <1>1, <1>5, <2>1, FS_EmptySet DEF CountInv
<1>7. candidates' = CandidatesOf(grid', done')
  <2>1. \A i \in done \cup new : Area(grid, i) \in Nat
    BY <1>3, <1>4 DEF GridOK, Tiles
  <2>2. CandidatesOf(grid, done \cup new) = CandidatesOf(grid, done) + CandidatesOf(grid, new)
    BY <1>4, <1>5, <2>1, CandidatesAdd
  <2>3. QED
    BY <1>1, <2>2 DEF CountInv
<1>8. \A c : /\ Share(grid, done \cup new, c) = Share(grid, done, c) + Share(grid, new, c)
            /\ Share(grid, busy \ new, c) = Share(grid, busy, c) - Share(grid, new \cap busy, c)
  <2>1. \A A, B \in SUBSET Tiles : \A c : A \cap B = {} =>
          Share(grid, A \cup B, c) = Share(grid, A, c) + Share(grid, B, c)
    BY <1>3, ShareAdds, ZenonT(30)
  <2>2. \A A, B \in SUBSET Tiles : \A c :
          Share(grid, A \ B, c) = Share(grid, A, c) - Share(grid, B \cap A, c)
    BY <1>3, ShareAdds
  <2>3. \A c : done \cap new = {} => Share(grid, done \cup new, c) = Share(grid, done, c) + Share(grid, new, c)
    BY ONLY <1>4, <2>1, Zenon
  <2>4. \A c : Share(grid, busy \ new, c) = Share(grid, busy, c) - Share(grid, new \cap busy, c)
    BY <1>4, <2>2
  <2>5. QED
    BY <1>4, <2>3, <2>4
<1>9. cellDone' = [c \in Cells(grid') |-> Share(grid', done', c)]
  <2>1. \A c \in Cells(grid) : cellDone[c] + Share(grid, new, c) = Share(grid, done \cup new, c)
    <3> TAKE c \in Cells(grid)
    <3>1. cellDone[c] = Share(grid, done, c)
      BY DEF CountInv
    <3>2. Share(grid, done \cup new, c) = Share(grid, done, c) + Share(grid, new, c)
      BY <1>8
    <3>3. QED
      BY <3>1, <3>2
  <2>2. cellDone' = [c \in Cells(grid) |-> Share(grid, done \cup new, c)]
    BY <1>1, <2>1
  <2>3. QED
    BY <1>1, <2>2
<1>10. cellBusy' = [c \in Cells(grid') |-> Share(grid', busy', c)]
  <2>1. \A c \in Cells(grid) : cellBusy[c] - Share(grid, new \cap busy, c) = Share(grid, busy \ new, c)
    <3> TAKE c \in Cells(grid)
    <3>1. cellBusy[c] = Share(grid, busy, c)
      BY DEF CountInv
    <3>2. Share(grid, busy \ new, c) = Share(grid, busy, c) - Share(grid, new \cap busy, c)
      BY <1>8
    <3>3. QED
      BY <3>1, <3>2
  <2>2. cellBusy' = [c \in Cells(grid) |-> Share(grid, busy \ new, c)]
    BY <1>1, <2>1
  <2>3. QED
    BY <1>1, <2>2
<1>11. hit' \subseteq Cells(grid')
  BY <1>1 DEF CountInv
<1>12. QED
  BY <1>2, <1>6, <1>7, <1>9, <1>10, <1>11 DEF CountInv

\* next() puts one tile in flight, which was not.
LEMMA TakeCounts ==
  ASSUME CountInv, Take
  PROVE  CountInv'
<1>1. TakeInv /\ TakeInv'
  BY TakeKeepsTaken DEF CountInv
<1>2. PICK p \in Places : /\ order[p] \in Tiles /\ order[p] \notin Range(taken) \cup done
                          /\ busy' = busy \cup {order[p]}
                          /\ cellBusy' = [cellBusy EXCEPT ![CellOf(grid, order[p])] = @ + 1]
  BY <1>1, TakeKeepsTaken
<1> DEFINE i == order[p]
<1>3. GridOK(grid) /\ grid' = grid
  BY <1>1, OrderWalk DEF TakeInv, Take
<1>4. /\ doneCount' = doneCount /\ candidates' = candidates /\ cellDone' = cellDone /\ hit' = hit /\ done' = done
  BY DEF Take, counters
<1>5. i \in Tiles /\ i \notin busy /\ busy \in SUBSET Tiles /\ {i} \in SUBSET Tiles
      /\ busy' = busy \cup {i} /\ cellBusy' = [cellBusy EXCEPT ![CellOf(grid, i)] = @ + 1]
  BY <1>1, <1>2 DEF TakeInv, Range
<1> HIDE DEF i
<1>6. \A c \in Cells(grid) : Share(grid, busy', c) = Share(grid, busy, c) + (IF c = CellOf(grid, i) THEN 1 ELSE 0)
  <2> TAKE c \in Cells(grid)
  <2>1. busy \cap {i} = {}
    BY <1>5
  <2>2. Share(grid, busy \cup {i}, c) = Share(grid, busy, c) + Share(grid, {i}, c)
    BY <1>3, <1>5, <2>1, ShareAdds
  <2>3. Share(grid, {i}, c) = IF c = CellOf(grid, i) THEN 1 ELSE 0
    <3>1. CASE c = CellOf(grid, i)
      <4>1. {j \in {i} : CellOf(grid, j) = c} = {i}
        BY <3>1
      <4>2. Cardinality({i}) = 1
        BY FS_Singleton
      <4>3. QED
        BY <3>1, <4>1, <4>2 DEF Share
    <3>2. CASE c # CellOf(grid, i)
      <4>1. {j \in {i} : CellOf(grid, j) = c} = {}
        BY <3>2
      <4>2. QED
        BY <3>2, <4>1, FS_EmptySet DEF Share
    <3>3. QED
      BY <3>1, <3>2
  <2>4. QED
    BY <1>5, <2>2, <2>3
<1>7. cellBusy' = [c \in Cells(grid) |-> Share(grid, busy', c)]
  <2>1. CellOf(grid, i) \in Cells(grid)
    BY <1>3, <1>5, CellOfTiles DEF Tiles
  <2>2. /\ cellBusy = [c \in Cells(grid) |-> Share(grid, busy, c)]
        /\ \A c \in Cells(grid) : Share(grid, busy, c) \in Nat
    <3>1. \A c : Share(grid, busy, c) \in Nat
      BY <1>3, <1>5, ShareType
    <3>2. QED
      BY <3>1 DEF CountInv
  <2>3. \A c \in Cells(grid) :
          Share(grid, busy', c) = IF c = CellOf(grid, i) THEN cellBusy[c] + 1 ELSE cellBusy[c]
    BY <1>6, <2>2
  <2>4. QED
    BY <1>5, <2>1, <2>2, <2>3
<1>8. cellBusy' = [c \in Cells(grid') |-> Share(grid', busy', c)]
  BY <1>3, <1>7
<1>9. cellDone' = [c \in Cells(grid') |-> Share(grid', done', c)]
  BY <1>3, <1>4 DEF CountInv
<1>10. QED
  BY <1>1, <1>3, <1>4, <1>8, <1>9 DEF CountInv

\* A hit is counted in a cell of the map.
LEMMA HitCounts ==
  ASSUME CountInv, TakeInv', NEW x, NEW z, MarkHit(x, z)
  PROVE  CountInv'
<1>1. GridOK(grid)
  BY OrderWalk DEF CountInv, TakeInv
<1>2. UNCHANGED <<grid, order, cursor, done, busy, doneCount, candidates, cellDone, cellBusy, taken>>
  BY DEF MarkHit, counters
<1>3. hit' \subseteq Cells(grid)
  <2>1. CASE InRegion(grid, x, z)
    <3>1. TileOf(grid, x, z) \in Indices(grid)
      BY <1>1, <2>1 DEF GridOK, TilesPartition, InRegion
    <3>2. CellOf(grid, TileOf(grid, x, z)) \in Cells(grid)
      BY <1>1, <3>1, CellOfTiles
    <3>3. QED
      BY <2>1, <3>2 DEF MarkHit, CountInv
  <2>2. CASE ~ InRegion(grid, x, z)
    BY <2>2 DEF MarkHit, CountInv
  <2>3. QED
    BY <2>1, <2>2
<1>4. QED
  BY <1>2, <1>3 DEF CountInv, Share

\* The counters, kept one call at a time, are those that counting again would find.
THEOREM CountsExact == Spec => []CountInv
<1>1. Init /\ TakeInv => CountInv
  <2>1. SUFFICES ASSUME Init, TakeInv
                 PROVE  CountInv
    OBVIOUS
  <2>2. \A c : Share(grid, {}, c) = 0
    <3>1. \A c : {i \in {} : CellOf(grid, i) = c} = {}
      OBVIOUS
    <3>2. QED
      BY <3>1, FS_EmptySet DEF Share
  <2>3. CandidatesOf(grid, {}) = 0 /\ Cardinality({}) = 0
    BY FS_EmptySet, CandidatesStep
  <2>4. QED
    BY <2>1, <2>2, <2>3 DEF Init, CountInv
<1>2. CountInv /\ TakeInv' /\ [Next]_vars => CountInv'
  <2>1. SUFFICES ASSUME CountInv, TakeInv', [Next]_vars
                 PROVE  CountInv'
    OBVIOUS
  <2>2. ASSUME NEW a, NEW b, RestoreRun(a, b) PROVE CountInv'
    <3>1. Tiles \cap (a .. b) \in SUBSET Tiles
      OBVIOUS
    <3>2. QED
      BY <2>1, <2>2, <3>1, MarkCounts DEF RestoreRun
  <2>3. CASE Take
    BY <2>1, <2>3, TakeCounts
  <2>4. CASE Exhaust
    BY <2>1, <2>4 DEF Exhaust, counters, CountInv, Share
  <2>5. CASE MarkDone
    <3>1. PICK i \in busy : Mark({i})
      BY <2>5 DEF MarkDone
    <3>2. {i} \in SUBSET Tiles
      BY <2>1 DEF CountInv, TakeInv, Range
    <3>3. QED
      BY <2>1, <2>5, <3>1, <3>2, MarkCounts DEF MarkDone
  <2>6. ASSUME NEW x, NEW z, MarkHit(x, z) PROVE CountInv'
    BY <2>1, <2>6, HitCounts
  <2>7. CASE UNCHANGED vars
    BY <2>1, <2>7 DEF vars, counters, CountInv, Share
  <2>8. QED
    BY <2>1, <2>2, <2>3, <2>4, <2>5, <2>6, <2>7 DEF Next
<1>3. QED
  BY <1>1, <1>2, TakenInTurn, PTL DEF Spec

\* What the phase of a cell says of its tiles.
LEMMA PhaseTells ==
  ASSUME CountInv, NEW c \in Cells(grid), NEW own, own = {i \in Tiles : CellOf(grid, i) = c}
  PROVE  /\ Phase(c) = "searching" <=> own \cap busy # {}
         /\ Phase(c) = "done" <=> own \subseteq done
         /\ Phase(c) = "pending" => own \cap done = {}
<1>1. GridOK(grid) /\ done \in SUBSET Tiles /\ busy \in SUBSET Tiles /\ busy \cap done = {}
  <2>1. TakeInv
    BY DEF CountInv
  <2>2. Range(taken) \subseteq Tiles
    BY <2>1 DEF TakeInv, Range
  <2>3. QED
    BY <2>1, <2>2, OrderWalk DEF TakeInv
<1> DEFINE d == {i \in done : CellOf(grid, i) = c}
           b == {i \in busy : CellOf(grid, i) = c}
<1>2. /\ IsFiniteSet(d) /\ IsFiniteSet(b) /\ Cardinality(d) \in Nat /\ Cardinality(b) \in Nat
      /\ cellDone[c] = Cardinality(d) /\ cellBusy[c] = Cardinality(b)
  BY <1>1, ShareType DEF CountInv, Share
<1>3. d = own \cap done /\ b = own \cap busy
  BY <1>1
<1>4. IsFiniteSet(own) /\ Cardinality(own) = CellTiles(grid, c)
  <2>1. Tiles \in SUBSET Tiles
    OBVIOUS
  <2>2. IsFiniteSet(own)
    BY <1>1, <2>1, ShareType
  <2>3. Cardinality(own) = CellTiles(grid, c)
    BY <1>1, CellSizes DEF CellsAddUp, Tiles
  <2>4. QED
    BY <2>2, <2>3
<1> HIDE DEF d, b
<1>5. /\ Cardinality(d) = 0 <=> d = {}
      /\ Cardinality(b) = 0 <=> b = {}
  BY <1>2, FS_EmptySet
<1>6. Cardinality(d) = Cardinality(own) <=> own \subseteq done
  <2>1. d \in SUBSET own
    BY <1>3
  <2>2. Cardinality(own) = Cardinality(d) => own = d
    BY <1>4, <2>1, FS_Subset
  <2>3. own \subseteq done => own = d
    BY <1>3
  <2>4. QED
    BY <1>3, <2>2, <2>3
<1>7. own \subseteq done => b = {}
  BY <1>1, <1>3
<1>8. QED
  BY <1>2, <1>3, <1>4, <1>5, <1>6, <1>7 DEF Phase

\* Counts and map, kept one call at a time, tell the truth about the tiles.
THEOREM MapTellsTheTruth == Spec => []MapTruthful
<1>1. CountInv => MapTruthful
  BY PhaseTells DEF CountInv, MapTruthful
<1>2. QED
  BY <1>1, CountsExact, PTL

\* A done cell is one whose tiles are all done.
DoneTells ==
  \A c \in Cells(grid) : Phase(c) = "done" <=> {i \in Tiles : CellOf(grid, i) = c} \subseteq done

\* A cell that is done stays done, and a hit stays a hit.
THEOREM MapStays == Spec => MapKept
<1>1. CountInv => DoneTells
  BY PhaseTells DEF DoneTells
<1>2. DoneTells /\ DoneTells' /\ [Next]_vars =>
        [/\ \A c \in Cells(grid) : Phase(c) = "done" => Phase(c)' = "done"
         /\ hit \subseteq hit']_vars
  <2>1. SUFFICES ASSUME DoneTells, DoneTells', Next
                 PROVE  /\ \A c \in Cells(grid) : Phase(c) = "done" => Phase(c)' = "done"
                        /\ hit \subseteq hit'
    OBVIOUS
  <2>2. grid' = grid /\ done \subseteq done' /\ hit \subseteq hit'
    BY <2>1 DEF Next, RestoreRun, Take, Exhaust, MarkDone, MarkHit, Mark
  <2>3. \A c \in Cells(grid) : Phase(c) = "done" <=> {i \in Tiles : CellOf(grid, i) = c} \subseteq done
    BY <2>1 DEF DoneTells
  <2>4. \A c \in Cells(grid') : Phase(c)' = "done" <=> {i \in Tiles' : CellOf(grid', i) = c} \subseteq done'
    BY <2>1 DEF DoneTells
  <2>5. Tiles' = Tiles
    BY <2>2 DEF Tiles
  <2>6. QED
    BY <2>2, <2>3, <2>4, <2>5
<1>3. QED
  BY <1>1, <1>2, CountsExact, PTL DEF Spec, MapKept

\* Whatever the region, the tile floor and the size of the map, tiles partition the
\* region, the sorted keys are a spiral that never jumps, and map cells add up.
THEOREM GeometryIsSound == Spec => []GeometrySound
<1>1. TakeInv => GeometrySound
  <2>1. SUFFICES ASSUME TakeInv
                 PROVE  GeometrySound
    OBVIOUS
  <2>2. GridOK(grid)
    BY <2>1, OrderWalk DEF TakeInv
  <2>3. RingsAreWalks(grid)
    <3>1. \A i \in Indices(grid) : Dx(grid, i) \in Int /\ Dz(grid, i) \in Int
      <4>1. PICK r \in Regions : grid = Grid(r)
        BY <2>1 DEF TakeInv
      <4>2. grid.cx \in Int /\ grid.cz \in Int
        BY <4>1, SideFits, GridType DEF Grid
      <4>3. \A i \in Indices(grid) : Column(grid, i) \in Int /\ Row(grid, i) \in Int
        BY <2>2, ColumnRow DEF GridOK, Indices, Column, Row
      <4>4. QED
        BY <4>2, <4>3 DEF Dx, Dz
    <3>2. QED
      BY <3>1, AlongWalks DEF RingsAreWalks, Ring, Along
  <2>4. CellsAddUp(grid) /\ SplitInverse(grid.nx, grid.mw) /\ SplitInverse(grid.nz, grid.mh)
    BY <2>2, CellSizes, SplitIsInverted DEF GridOK
  <2>5. QED
    BY <2>2, <2>3, <2>4 DEF GeometrySound, GridOK
<1>2. QED
  BY <1>1, TakenInTurn, PTL
=============================================================================
