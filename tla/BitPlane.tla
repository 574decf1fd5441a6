------------------------------ MODULE BitPlane ------------------------------
(***************************************************************************)
(* How the two workers lay blocks out before they test them: the float     *)
(* rounding of Bedrock Edition's floor, the pieces and bit planes of       *)
(* OpenclWorker, and the chunks CpuWorker draws in advance.                *)
(*                                                                         *)
(* Word is 32, ChunkSide 16, KChunk 16384 and FloatLimit 2^24 in the code. *)
(***************************************************************************)
EXTENDS Integers, Sequences

CONSTANTS
  Word,        \* blocks in one word of a plane; a work-item draws a word's columns
  ChunkSide,   \* blocks along a chunk
  KChunk,      \* the side of a piece
  FloatLimit,  \* coordinates from here on are rounded
  Drawn(_, _)  \* the floor the generator draws, 1 for bedrock

ASSUME PlaneAssumption ==
  /\ ChunkSide \in Nat \ {0} /\ ChunkSide % 2 = 0
  /\ Word = 2 * ChunkSide
  /\ KChunk \in Nat \ {0}
  /\ FloatLimit \in Nat \ {0} /\ FloatLimit % Word = 0

Magnitude(v) == IF v < 0 THEN -v ELSE v

\* the distance of the integers a float can hold around a, for a below 16 FloatLimit
FloatStep(a) ==
  CHOOSE u \in {2, 4, 8, 16} : /\ a \div u < FloatLimit
                               /\ \A t \in {2, 4, 8, 16} : t < u => a \div t >= FloatLimit

\* a magnitude rounded to a multiple of u, ties to the even multiple
Nearest(a, u) ==
  LET rem == a % u
      up == 2 * rem > u \/ (2 * rem = u /\ (a \div u) % 2 = 1)
  IN IF up THEN a - rem + u ELSE a - rem

\* a position as the game rounds it through a float
BeCoord(v) ==
  LET a == Magnitude(v)
  IN IF a < FloatLimit THEN v
     ELSE IF v < 0 THEN -Nearest(a, FloatStep(a)) ELSE Nearest(a, FloatStep(a))

\* is the block at (x, z) bedrock?
Bed(edition, x, z) ==
  IF edition = "bedrock" THEN Drawn(BeCoord(x), BeCoord(z)) ELSE Drawn(x, z)

LowMultiple(v, n) == (v \div n) * n

\* how a tile is cut, in queue order
Pieces(t) ==
  LET across == (t.w + KChunk - 1) \div KChunk
      down == (t.h + KChunk - 1) \div KChunk
      Least(a, b) == IF a < b THEN a ELSE b
  IN [n \in 1 .. across * down |->
        LET cx == ((n - 1) % across) * KChunk
            cz == ((n - 1) \div across) * KChunk
        IN [x0 |-> t.x0 + cx, z0 |-> t.z0 + cz,
            w |-> Least(KChunk, t.w - cx), h |-> Least(KChunk, t.h - cz)]]

\* how far a pattern reaches along an axis, on the side where it reaches further
HaloOf(r) == IF r[2] > -r[1] THEN r[2] ELSE -r[1]

Planes == [px : Int, pz : Int, low_w : Nat, low_h : Nat, words : Nat, rows : Nat, raw : Nat, near : BOOLEAN]

\* The plane of a piece: its corner, the margins before the first candidate,
\* its words across and its rows, the rows of whole chunks drawn for it and
\* whether the float rounding cannot touch it.
PlaneOf(edition, piece, hw, hh) ==
  LET be == edition = "bedrock"
      px == IF be THEN LowMultiple(piece.x0 - hw, Word) ELSE piece.x0 - hw
      pz == IF be THEN LowMultiple(piece.z0 - hh, ChunkSide) ELSE piece.z0 - hh
      low_w == piece.x0 - px
      low_h == piece.z0 - pz
      words == ((piece.w + low_w + hw + Word - 1) \div Word) + 1
      rows == piece.h + low_h + hh
      raw == ((rows + ChunkSide) \div ChunkSide) * ChunkSide
  IN [px |-> px, pz |-> pz, low_w |-> low_w, low_h |-> low_h, words |-> words, rows |-> rows,
      raw |-> raw,
      near |-> /\ -FloatLimit <= px /\ px + Word * words <= FloatLimit
               /\ -FloatLimit <= pz /\ pz + raw <= FloatLimit]

\* what configure() allocates for a plane, and for the raw rows behind it
\* mutant: nothing is added for the alignment
PadNone(edition) == 0

Pad(edition) == IF edition = "bedrock" THEN Word ELSE 0
BufferWords(edition, hw) == ((KChunk + 2 * hw + Word - 1 + Pad(edition)) \div Word) + 1
BufferRows(edition, hh) == KChunk + 2 * hh + Pad(edition)

\* remap_plane_be: the row and the bit of the raw plane that row r and bit b show
SourceRow(plane, r) == BeCoord(plane.pz + r) - plane.pz
\* mutant: every odd column shows its western neighbour
SourceBitWest(plane, b) ==
  LET word == plane.px + LowMultiple(b, Word)
      far == word >= FloatLimit \/ word < -FloatLimit
  IN IF far /\ b % 2 = 1 THEN b - 1 ELSE b
SourceBit(plane, b) ==
  LET word == plane.px + LowMultiple(b, Word)
      far == word >= FloatLimit \/ word < -FloatLimit
  IN IF far /\ b % 4 = 1 THEN b - 1 ELSE IF far /\ b % 4 = 3 THEN b + 1 ELSE b

\* The bit at row r, bit b of a plane once it is filled, and remapped where it
\* has to be; Junk is memory that no kernel wrote for it.
Junk == 2
Inside(plane, rows, r, b) == r \in 0 .. rows - 1 /\ b \in 0 .. Word * plane.words - 1
RawBit(plane, rows, r, b) ==
  IF Inside(plane, rows, r, b) THEN Drawn(plane.px + b, plane.pz + r) ELSE Junk
Remapped(plane, r, b) ==
  IF ~Inside(plane, plane.rows, r, b) THEN Junk
  ELSE IF SourceBit(plane, b) = Word * plane.words THEN 0
  ELSE RawBit(plane, plane.raw, SourceRow(plane, r), SourceBit(plane, b))
PlaneBit(edition, plane, r, b) ==
  IF edition = "java" THEN RawBit(plane, plane.rows, r, b)
  ELSE IF plane.near THEN RawBit(plane, plane.raw, r, b) ELSE Remapped(plane, r, b)

\* the chunk, along one axis, that holds what the game shows at v
ChunkOf(v) == BeCoord(v) \div ChunkSide
=============================================================================
