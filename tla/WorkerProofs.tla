---------------------------- MODULE WorkerProofs ----------------------------
(***************************************************************************)
(* What the planes of a piece show, which matches the tiles and pieces of  *)
(* a job have, and that OpenclWorker and CpuWorker find them, for every    *)
(* number of slots and threads, every job and size of a plane.             *)
(***************************************************************************)
EXTENDS WorkerPair, SearchPlanProofs, FiniteSetTheorems, SequenceTheorems

-----------------------------------------------------------------------------
(* Halos, pieces and planes                                                *)

\* The reach of a plan is that of the cells which reach furthest, the anchor's at least.
LEMMA ReachIs ==
  ASSUME NEW p, PlanOK(p), NEW axis \in {1, 2}
  PROVE  /\ Reach(p, axis)[1] \in Int /\ Reach(p, axis)[1] <= 0
         /\ Reach(p, axis)[2] \in Int /\ 0 <= Reach(p, axis)[2]
         /\ \A v \in DOMAIN p.offsets, c \in DOMAIN p.want :
              /\ p.offsets[v][c][axis] \in Int
              /\ Reach(p, axis)[1] <= p.offsets[v][c][axis] /\ p.offsets[v][c][axis] <= Reach(p, axis)[2]
         /\ \E v \in DOMAIN p.offsets, c \in DOMAIN p.want : Reach(p, axis)[1] = p.offsets[v][c][axis]
         /\ \E v \in DOMAIN p.offsets, c \in DOMAIN p.want : Reach(p, axis)[2] = p.offsets[v][c][axis]
<1> DEFINE at == {p.offsets[v][c][axis] : v \in DOMAIN p.offsets, c \in DOMAIN p.want}
           V == Len(p.offsets)
           C == Len(p.want)
<1>1. /\ DOMAIN p.offsets = 1 .. V /\ V \in Nat /\ 1 \in DOMAIN p.offsets
      /\ DOMAIN p.want = 1 .. C /\ C \in Nat /\ 1 \in DOMAIN p.want
  BY DEF PlanOK
<1>2. \A v \in DOMAIN p.offsets, c \in DOMAIN p.want : p.offsets[v][c][axis] \in Int
  <2>1. ASSUME NEW v \in DOMAIN p.offsets, NEW c \in DOMAIN p.want
        PROVE  p.offsets[v][c] \in Int \X Int
    <3>1. p.offsets[v] \in Seq(Int \X Int) /\ c \in DOMAIN p.offsets[v]
      BY DEF PlanOK
    <3> QED BY <3>1
  <2>2. QED
    BY <2>1
<1>3. at \in SUBSET Int /\ 0 \in at
  <2>1. p.offsets[1][1][axis] = 0
    <3>1. p.offsets[1][1] = <<0, 0>>
      BY <1>1 DEF PlanOK
    <3>2. QED
      BY <3>1
  <2>2. QED
    BY <1>1, <1>2, <2>1
<1>4. PICK b \in Nat : \A x \in at : -b <= x /\ x <= b
  <2> DEFINE Bounds(v, m) == m \in Nat /\ \A c \in 1 .. C : -m <= p.offsets[v][c][axis] /\ p.offsets[v][c][axis] <= m
             g == [v \in 1 .. V |-> CHOOSE m : Bounds(v, m)]
  <2>1. ASSUME NEW v \in 1 .. V PROVE Bounds(v, g[v])
    <3> DEFINE f == [c \in 1 .. C |-> p.offsets[v][c][axis]]
    <3>1. f \in [1 .. C -> Int]
      BY <1>1, <1>2
    <3>2. \E m \in Nat : \A c \in 1 .. C : -m <= f[c] /\ f[c] <= m
      <4> HIDE DEF f
      <4>1. QED
        BY <1>1, <3>1, Bounded
    <3>3. \E m : Bounds(v, m)
      BY <3>2
    <3>4. QED
      BY <3>3
  <2>2. g \in [1 .. V -> Int]
    <3>1. \A v \in 1 .. V : g[v] \in Int
      <4> HIDE DEF g
      <4>1. QED
        BY <2>1
    <3>2. DOMAIN g = 1 .. V /\ g = [v \in 1 .. V |-> g[v]]
      <4> HIDE DEF Bounds
      <4>1. QED
        OBVIOUS
    <3>3. QED
      <4> HIDE DEF g
      <4>1. QED
        BY <3>1, <3>2
  <2>3. PICK b \in Nat : \A v \in 1 .. V : -b <= g[v] /\ g[v] <= b
    <3> HIDE DEF g
    <3>1. QED
      BY <1>1, <2>2, Bounded
  <2>4. ASSUME NEW x \in at PROVE -b <= x /\ x <= b
    <3> HIDE DEF g
    <3>1. PICK v \in 1 .. V, c \in 1 .. C : x = p.offsets[v][c][axis]
      BY <1>1
    <3>2. g[v] \in Nat /\ -g[v] <= x /\ x <= g[v]
      <4>1. Bounds(v, g[v])
        BY <2>1
      <4> HIDE DEF at
      <4>2. QED
        BY <3>1, <4>1
    <3>3. x \in Int /\ g[v] <= b
      BY <1>3, <2>3
    <3> HIDE DEF at, Bounds
    <3>4. QED
      BY <3>2, <3>3
  <2>5. QED
    BY <2>4
<1>5. Reach(p, axis) = <<CHOOSE n \in at : \A k \in at : n <= k, CHOOSE n \in at : \A k \in at : k <= n>>
  BY DEF Reach
<1>6. \A v \in DOMAIN p.offsets, c \in DOMAIN p.want : p.offsets[v][c][axis] \in at
  OBVIOUS
<1> DEFINE lo == CHOOSE n \in at : \A k \in at : n <= k
           hi == CHOOSE n \in at : \A k \in at : k <= n
<1> HIDE DEF at
<1>7. lo \in at /\ \A k \in at : lo <= k
  <2>1. -b \in Int /\ \A x \in at : -b <= x
    BY <1>4
  <2>2. \E n \in at : \A k \in at : n <= k
    BY <1>3, <2>1, IntMin
  <2>3. QED
    BY <2>2
<1>8. hi \in at /\ \A k \in at : k <= hi
  <2>1. b \in Int /\ \A x \in at : x <= b
    BY <1>4
  <2>2. \E n \in at : \A k \in at : k <= n
    BY <1>3, <2>1, IntMax
  <2>3. QED
    BY <2>2
<1> HIDE DEF lo, hi
<1>9. Reach(p, axis)[1] = lo /\ Reach(p, axis)[2] = hi
  BY <1>5 DEF lo, hi
<1>10. lo \in Int /\ hi \in Int /\ lo <= 0 /\ 0 <= hi
  BY <1>3, <1>7, <1>8
<1>11. \A x \in at : \E v \in DOMAIN p.offsets, c \in DOMAIN p.want : x = p.offsets[v][c][axis]
  BY DEF at
<1> QED BY <1>2, <1>6, <1>7, <1>8, <1>9, <1>10, <1>11

\* The cells of a plan reach an integer away, on both sides of the anchor.
LEMMA ReachType ==
  ASSUME NEW p, PlanOK(p), NEW axis \in {1, 2}
  PROVE  /\ HaloOf(Reach(p, axis)) \in Nat
         /\ \A v \in DOMAIN p.offsets, c \in DOMAIN p.want :
              /\ -HaloOf(Reach(p, axis)) <= p.offsets[v][c][axis]
              /\ p.offsets[v][c][axis] <= HaloOf(Reach(p, axis))
<1> DEFINE r == Reach(p, axis)
<1>1. r[1] \in Int /\ r[1] <= 0 /\ r[2] \in Int /\ 0 <= r[2]
  BY ReachIs
<1>2. HaloOf(r) = IF r[2] > -r[1] THEN r[2] ELSE -r[1]
  BY DEF HaloOf
<1>3. ASSUME NEW v \in DOMAIN p.offsets, NEW c \in DOMAIN p.want
      PROVE  -HaloOf(r) <= p.offsets[v][c][axis] /\ p.offsets[v][c][axis] <= HaloOf(r)
  <2>1. p.offsets[v][c][axis] \in Int /\ r[1] <= p.offsets[v][c][axis] /\ p.offsets[v][c][axis] <= r[2]
    BY ReachIs
  <2> HIDE DEF r
  <2> QED BY <1>1, <1>2, <2>1
<1>4. HaloOf(r) \in Nat
  <2> HIDE DEF r
  <2> QED BY <1>1, <1>2
<1> QED BY <1>3, <1>4

\* Quotient and remainder.
LEMMA DivMod ==
  ASSUME NEW a \in Int, NEW b \in Nat \ {0}
  PROVE  /\ a \div b \in Int /\ a % b \in 0 .. b - 1
         /\ a = b * (a \div b) + (a % b)
OBVIOUS

\* A quotient grows with its dividend.
LEMMA DivGrows ==
  ASSUME NEW a \in Int, NEW c \in Int, NEW b \in Nat \ {0}, a <= c
  PROVE  a \div b <= c \div b
<1>1. /\ a \div b \in Int /\ c \div b \in Int /\ a % b \in 0 .. b - 1 /\ c % b \in 0 .. b - 1
      /\ a = b * (a \div b) + (a % b) /\ c = b * (c \div b) + (c % b)
  BY DivMod
<1> DEFINE qa == a \div b
           qc == c \div b
<1>2. qa \in Int /\ qc \in Int /\ b * qa < b * qc + b
  BY <1>1
<1>3. ASSUME qa > qc PROVE FALSE
  <2> HIDE DEF qa, qc
  <2>1. qa >= qc + 1
    BY <1>2, <1>3
  <2>2. b * qa >= b * (qc + 1)
    BY <1>2, <2>1
  <2>3. b * (qc + 1) = b * qc + b
    BY <1>2
  <2>4. QED
    BY <1>2, <2>2, <2>3
<1>4. QED
  BY <1>2, <1>3

\* A whole multiple is less than a multiple below.
LEMMA LowMultipleBounds ==
  ASSUME NEW v \in Int, NEW n \in Nat \ {0}
  PROVE  LowMultiple(v, n) \in Int /\ LowMultiple(v, n) <= v /\ v < LowMultiple(v, n) + n
<1>1. v \div n \in Int /\ v % n \in 0 .. n - 1 /\ v = n * (v \div n) + (v % n)
  BY DivMod
<1> DEFINE q == v \div n
<1>2. LowMultiple(v, n) = q * n
  BY DEF LowMultiple
<1>3. q \in Int /\ q * n \in Int /\ q * n = n * q
  <2>1. q \in Int
    BY <1>1
  <2>2. QED
    <3> HIDE DEF q
    <3>1. QED
      BY <2>1
<1>4. QED
  BY <1>1, <1>2, <1>3

\* A piece of a tile is a tile no larger than KChunk.
Piece == {t \in TileSet : t.w <= KChunk /\ t.h <= KChunk}

\* enqueue_search() cuts a tile into such pieces.
LEMMA PiecesType ==
  ASSUME NEW t \in TileSet
  PROVE  Pieces(t) \in Seq(Piece)
<1> DEFINE across == (t.w + KChunk - 1) \div KChunk
           down == (t.h + KChunk - 1) \div KChunk
           Least(a, b) == IF a < b THEN a ELSE b
<1>1. KChunk \in Nat \ {0} /\ t.x0 \in Int /\ t.z0 \in Int /\ t.w \in Nat \ {0} /\ t.h \in Nat \ {0}
  BY PlaneAssumption DEF TileSet
<1>2. /\ across \in Nat \ {0} /\ KChunk * across <= t.w + KChunk - 1
      /\ down \in Nat \ {0} /\ KChunk * down <= t.h + KChunk - 1
  <2>1. ASSUME NEW a \in Nat \ {0}
        PROVE  /\ (a + KChunk - 1) \div KChunk \in Nat \ {0}
               /\ KChunk * ((a + KChunk - 1) \div KChunk) <= a + KChunk - 1
    <3> DEFINE q == (a + KChunk - 1) \div KChunk
    <3>1. /\ q \in Int /\ (a + KChunk - 1) % KChunk \in 0 .. KChunk - 1
          /\ a + KChunk - 1 = KChunk * q + ((a + KChunk - 1) % KChunk)
      <4>1. a + KChunk - 1 \in Int
        BY <1>1
      <4>2. QED
        BY <1>1, <4>1, DivMod
    <3>2. KChunk * q <= a + KChunk - 1 /\ KChunk * q > 0
      BY <1>1, <3>1
    <3>3. q > 0
      <4>1. q \in Int /\ KChunk \in Nat /\ KChunk * q > 0
        BY <1>1, <3>1, <3>2
      <4> HIDE DEF q
      <4>2. q <= 0 => KChunk * q <= 0
        BY <4>1
      <4>3. KChunk * q \in Int
        BY <4>1
      <4>4. QED
        BY <4>1, <4>2, <4>3
    <3>4. QED
      BY <3>1, <3>2, <3>3
  <2>2. QED
    BY <1>1, <2>1
<1> HIDE DEF across, down
<1> DEFINE cell(n) == LET cx == ((n - 1) % across) * KChunk
                          cz == ((n - 1) \div across) * KChunk
                      IN [x0 |-> t.x0 + cx, z0 |-> t.z0 + cz,
                          w |-> Least(KChunk, t.w - cx), h |-> Least(KChunk, t.h - cz)]
<1>3. across * down \in Nat
  BY <1>2
<1>4. Pieces(t) = [n \in 1 .. across * down |-> cell(n)]
  BY DEF Pieces, across, down
<1>5. ASSUME NEW n \in 1 .. across * down PROVE cell(n) \in Piece
  <2> DEFINE col == (n - 1) % across
             row == (n - 1) \div across
  <2>1. /\ row \in Int /\ col \in 0 .. across - 1 /\ n - 1 = across * row + col
    <3>1. n - 1 \in Int
      BY <1>3
    <3>2. QED
      BY <1>2, <3>1, DivMod
  <2> HIDE DEF col, row
  <2>2. row >= 0 /\ row <= down - 1
    <3>1. row < 0 => across * row <= -across
      BY <1>2, <2>1
    <3>2. row >= down => across * row >= across * down
      BY <1>2, <2>1
    <3>3. n - 1 >= 0 /\ n - 1 < across * down /\ across * row \in Int
      BY <1>2, <1>3, <2>1
    <3>4. QED
      BY <1>2, <1>3, <2>1, <3>1, <3>2, <3>3
  <2>3. col * KChunk \in Nat /\ col * KChunk < t.w
    <3>1. col * KChunk <= (across - 1) * KChunk
      BY <1>1, <1>2, <2>1
    <3>2. (across - 1) * KChunk = KChunk * across - KChunk
      BY <1>1, <1>2
    <3>3. col * KChunk \in Nat
      BY <1>1, <2>1
    <3>4. QED
      BY <1>1, <1>2, <3>1, <3>2, <3>3
  <2>4. row * KChunk \in Nat /\ row * KChunk < t.h
    <3>1. row * KChunk <= (down - 1) * KChunk
      BY <1>1, <1>2, <2>1, <2>2
    <3>2. (down - 1) * KChunk = KChunk * down - KChunk
      BY <1>1, <1>2
    <3>3. row * KChunk \in Nat
      BY <1>1, <2>1, <2>2
    <3>4. QED
      BY <1>1, <1>2, <3>1, <3>2, <3>3
  <2> DEFINE cx == col * KChunk
             cz == row * KChunk
             w == Least(KChunk, t.w - cx)
             h == Least(KChunk, t.h - cz)
  <2>5. cell(n) = [x0 |-> t.x0 + cx, z0 |-> t.z0 + cz, w |-> w, h |-> h]
    BY DEF col, row
  <2>6. t.x0 + cx \in Int /\ t.z0 + cz \in Int
    BY <1>1, <2>3, <2>4
  <2>7. w \in Nat \ {0} /\ w <= KChunk
    BY <1>1, <2>3
  <2>8. h \in Nat \ {0} /\ h <= KChunk
    BY <1>1, <2>4
  <2>9. QED
    <3> HIDE DEF cell, cx, cz, w, h
    <3>1. QED
      BY <2>5, <2>6, <2>7, <2>8 DEF Piece, TileSet
<1>6. QED
  <2> HIDE DEF cell
  <2>1. QED
    BY <1>3, <1>4, <1>5

\* The buffers allocated for halos hw and hh have room for a plane.
Fits(edition, p, hw, hh) ==
  /\ p.words <= BufferWords(edition, hw)
  /\ (IF edition = "bedrock" THEN p.raw ELSE p.rows) <= BufferRows(edition, hh)

\* The plane of any piece, aligned and drawn in whole chunks, fits the buffers
\* that configure() allocates from the halo alone.
LEMMA PlaneFits ==
  ASSUME NEW edition \in {"java", "bedrock"}, NEW piece \in Piece, NEW hw \in Nat, NEW hh \in Nat
  PROVE  /\ PlaneOf(edition, piece, hw, hh) \in Planes
         /\ Fits(edition, PlaneOf(edition, piece, hw, hh), hw, hh)
<1> DEFINE be == edition = "bedrock"
           px == IF be THEN LowMultiple(piece.x0 - hw, Word) ELSE piece.x0 - hw
           pz == IF be THEN LowMultiple(piece.z0 - hh, ChunkSide) ELSE piece.z0 - hh
           low_w == piece.x0 - px
           low_h == piece.z0 - pz
           across == piece.w + low_w + hw + Word - 1
           words == (across \div Word) + 1
           rows == piece.h + low_h + hh
           raw0 == ((rows + ChunkSide) \div ChunkSide) * ChunkSide
           near == /\ -FloatLimit <= px /\ px + Word * words <= FloatLimit
                   /\ -FloatLimit <= pz /\ pz + raw0 <= FloatLimit
<1>1. PlaneOf(edition, piece, hw, hh) =
        [px |-> px, pz |-> pz, low_w |-> low_w, low_h |-> low_h, words |-> words, rows |-> rows,
         raw |-> raw0, near |-> near]
  BY DEF PlaneOf
<1>2. /\ piece.x0 \in Int /\ piece.z0 \in Int /\ piece.w \in Nat \ {0} /\ piece.h \in Nat \ {0}
      /\ piece.w <= KChunk /\ piece.h <= KChunk
  BY DEF Piece, TileSet
<1>3. /\ Word \in Nat \ {0} /\ ChunkSide \in Nat \ {0} /\ KChunk \in Nat \ {0}
      /\ Word = 2 * ChunkSide /\ FloatLimit \in Nat
  BY PlaneAssumption
<1>4. /\ LowMultiple(piece.x0 - hw, Word) \in Int /\ LowMultiple(piece.x0 - hw, Word) <= piece.x0 - hw
      /\ piece.x0 - hw < LowMultiple(piece.x0 - hw, Word) + Word
  <2>1. piece.x0 - hw \in Int
    BY <1>2
  <2>2. QED
    BY <1>3, <2>1, LowMultipleBounds
<1>5. /\ LowMultiple(piece.z0 - hh, ChunkSide) \in Int /\ LowMultiple(piece.z0 - hh, ChunkSide) <= piece.z0 - hh
      /\ piece.z0 - hh < LowMultiple(piece.z0 - hh, ChunkSide) + ChunkSide
  <2>1. piece.z0 - hh \in Int
    BY <1>2
  <2>2. QED
    BY <1>3, <2>1, LowMultipleBounds
<1>6. /\ px \in Int /\ pz \in Int /\ low_w \in Nat /\ low_h \in Nat
      /\ be => low_w <= hw + Word - 1 /\ low_h <= hh + ChunkSide - 1
      /\ ~ be => low_w = hw /\ low_h = hh
  <2>1. CASE be
    <3>1. px = LowMultiple(piece.x0 - hw, Word) /\ pz = LowMultiple(piece.z0 - hh, ChunkSide)
      BY <2>1
    <3> HIDE DEF px, pz
    <3>2. QED
      BY <1>2, <1>3, <1>4, <1>5, <2>1, <3>1
  <2>2. CASE ~ be
    <3>1. px = piece.x0 - hw /\ pz = piece.z0 - hh
      BY <2>2
    <3> HIDE DEF px, pz
    <3>2. QED
      BY <1>2, <2>2, <3>1
  <2>3. QED
    BY <2>1, <2>2
<1> HIDE DEF px, pz, low_w, low_h
<1>7. /\ across \in Nat /\ rows \in Nat /\ rows <= KChunk + low_h + hh
      /\ across <= KChunk + 2 * hw + Word - 1 + Pad(edition)
  <2>1. Pad(edition) = IF be THEN Word ELSE 0
    BY DEF Pad
  <2>2. QED
    BY <1>2, <1>3, <1>6, <2>1
<1> HIDE DEF across, rows
<1>8. words \in Nat /\ words <= BufferWords(edition, hw)
  <2> DEFINE most == KChunk + 2 * hw + Word - 1 + Pad(edition)
  <2>1. most \in Int
    <3>1. Pad(edition) \in Int
      BY <1>3 DEF Pad
    <3>2. QED
      BY <1>3, <3>1
  <2>2. across <= most
    BY <1>7
  <2>3. BufferWords(edition, hw) = (most \div Word) + 1
    BY DEF BufferWords
  <2> HIDE DEF most
  <2>4. across \div Word <= most \div Word /\ across \div Word \in Int /\ most \div Word \in Int
    <3>1. across \in Int /\ Word \in Nat \ {0}
      BY <1>3, <1>7
    <3>2. across \div Word \in Int /\ most \div Word \in Int
      BY <2>1, <3>1, DivMod
    <3>3. across \div Word <= most \div Word
      BY <2>1, <2>2, <3>1, DivGrows
    <3>4. QED
      BY <3>2, <3>3
  <2>5. 0 <= across \div Word
    <3>1. 0 \div Word = 0
      BY <1>3
    <3>2. 0 \div Word <= across \div Word
      BY <1>3, <1>7, DivGrows
    <3>3. QED
      BY <3>1, <3>2
  <2>6. QED
    BY <2>3, <2>4, <2>5
<1>9. raw0 \in Nat /\ raw0 <= rows + ChunkSide
  <2>1. rows + ChunkSide \in Int
    BY <1>3, <1>7
  <2>2. LowMultiple(rows + ChunkSide, ChunkSide) = raw0
    BY DEF LowMultiple
  <2>3. raw0 \in Int /\ raw0 <= rows + ChunkSide /\ rows + ChunkSide < raw0 + ChunkSide
    BY <1>3, <2>1, <2>2, LowMultipleBounds
  <2> HIDE DEF raw0
  <2>4. QED
    BY <1>3, <1>7, <2>3
<1> HIDE DEF raw0, words
<1>10. (IF be THEN raw0 ELSE rows) <= BufferRows(edition, hh)
  <2>1. BufferRows(edition, hh) = KChunk + 2 * hh + (IF be THEN Word ELSE 0)
    BY DEF BufferRows, Pad
  <2>2. QED
    BY <1>3, <1>6, <1>7, <1>9, <2>1
<1>11. near \in BOOLEAN
  OBVIOUS
<1> HIDE DEF near
<1>12. PlaneOf(edition, piece, hw, hh) \in Planes
  BY <1>1, <1>6, <1>7, <1>8, <1>9, <1>11 DEF Planes
<1>13. QED
  BY <1>1, <1>8, <1>10, <1>12 DEF Fits

\* The bounds of the floats, the words and the chunks are multiples of 4, 4 and 2.
LEMMA Multiples ==
  /\ Word \in Nat \ {0} /\ ChunkSide \in Nat \ {0} /\ FloatLimit \in Nat \ {0}
  /\ \E n \in Nat : Word = 4 * n
  /\ \E n \in Nat : ChunkSide = 2 * n
  /\ \E n \in Nat : FloatLimit = Word * n
<1>1. /\ ChunkSide \in Nat \ {0} /\ ChunkSide % 2 = 0 /\ Word = 2 * ChunkSide
      /\ FloatLimit \in Nat \ {0} /\ FloatLimit % Word = 0
  BY PlaneAssumption
<1>2. ChunkSide \div 2 \in Nat /\ ChunkSide = 2 * (ChunkSide \div 2)
  BY <1>1
<1>3. Word = 4 * (ChunkSide \div 2) /\ Word \in Nat \ {0}
  BY <1>1, <1>2
<1>4. FloatLimit \div Word \in Int /\ FloatLimit = Word * (FloatLimit \div Word) + (FloatLimit % Word)
  <2>1. FloatLimit \in Int /\ Word \in Nat \ {0}
    BY <1>1, <1>3
  <2>2. QED
    BY <2>1, DivMod
<1> DEFINE q == FloatLimit \div Word
<1>5. q \in Int /\ FloatLimit = Word * q
  BY <1>1, <1>3, <1>4
<1>6. q \in Nat
  <2>1. Word \in Nat \ {0} /\ FloatLimit \in Nat \ {0}
    BY <1>1, <1>3
  <2> HIDE DEF q
  <2>2. q < 0 => Word * q < 0
    BY <1>5, <2>1
  <2>3. QED
    BY <1>5, <2>1, <2>2
<1>7. QED
  BY <1>1, <1>2, <1>3, <1>5, <1>6

\* Within twice its limit, a float rounds every other odd number down and the
\* ones between up, on both sides of zero.
LEMMA Rounds ==
  ASSUME NEW v \in Int, -(2 * FloatLimit) < v, v < 2 * FloatLimit
  PROVE  BeCoord(v) = IF -FloatLimit <= v /\ v < FloatLimit THEN v
                      ELSE IF v % 4 = 1 THEN v - 1 ELSE IF v % 4 = 3 THEN v + 1 ELSE v
<1>1. FloatLimit \in Nat \ {0} /\ FloatLimit % 4 = 0
  <2>1. PICK n \in Nat : Word = 4 * n
    BY Multiples
  <2>2. PICK m \in Nat : FloatLimit = Word * m
    BY Multiples
  <2>3. FloatLimit = 4 * (n * m) /\ n * m \in Nat
    BY <2>1, <2>2
  <2> DEFINE k == n * m
  <2>4. FloatLimit = 4 * k /\ k \in Nat
    BY <2>3
  <2> HIDE DEF k
  <2>5. QED
    BY <2>4, Multiples
<1> DEFINE a == Magnitude(v)
<1>2. a = (IF v < 0 THEN -v ELSE v) /\ a \in Nat
  BY DEF Magnitude
<1>3. CASE a < FloatLimit
  <2>1. BeCoord(v) = v
    BY <1>3 DEF BeCoord
  <2>2. QED
    BY <1>1, <1>2, <1>3, <2>1
<1>4. CASE ~ (a < FloatLimit)
  <2>1. FloatStep(a) = 2
    <3>1. a \div 2 < FloatLimit
      BY <1>1, <1>2
    <3>2. \A u \in {2, 4, 8, 16} :
            (/\ a \div u < FloatLimit
             /\ \A t \in {2, 4, 8, 16} : t < u => a \div t >= FloatLimit) <=> u = 2
      BY <1>1, <1>2, <3>1
    <3>3. QED
      BY <3>2 DEF FloatStep
  <2>2. Nearest(a, 2) = IF a % 4 = 1 THEN a - 1 ELSE IF a % 4 = 3 THEN a + 1 ELSE a
    <3>1. Nearest(a, 2) = IF 2 * (a % 2) > 2 \/ (2 * (a % 2) = 2 /\ (a \div 2) % 2 = 1)
                          THEN a - (a % 2) + 2 ELSE a - (a % 2)
      BY DEF Nearest
    <3> HIDE DEF a
    <3>2. QED
      BY <1>2, <3>1
  <2>3. BeCoord(v) = IF v < 0 THEN -Nearest(a, 2) ELSE Nearest(a, 2)
    BY <1>4, <2>1 DEF BeCoord
  <2> HIDE DEF a
  <2>4. CASE v < 0
    <3>1. a = -v /\ v <= -FloatLimit
      BY <1>1, <1>2, <1>4, <2>4
    <3>2. (a % 4 = 1 <=> v % 4 = 3) /\ (a % 4 = 3 <=> v % 4 = 1)
      BY <3>1
    <3>3. v = -FloatLimit => v % 4 = 0
      BY <1>1
    <3>4. QED
      BY <1>1, <2>2, <2>3, <2>4, <3>1, <3>2, <3>3
  <2>5. CASE ~ (v < 0)
    BY <1>1, <1>2, <1>4, <2>2, <2>3, <2>5
  <2>6. QED
    BY <2>4, <2>5
<1>5. QED
  BY <1>3, <1>4

\* How a plane lies around its piece: the halo is within it, with a word and a
\* row to spare.
LEMMA PlaneShape ==
  ASSUME NEW edition \in {"java", "bedrock"}, NEW piece \in Piece, NEW hw \in Nat, NEW hh \in Nat,
         NEW p, p = PlaneOf(edition, piece, hw, hh)
  PROVE  /\ p.px \in Int /\ p.px <= piece.x0 - hw /\ p.low_w = piece.x0 - p.px
         /\ p.pz \in Int /\ p.pz <= piece.z0 - hh /\ p.low_h = piece.z0 - p.pz
         /\ p.words \in Int /\ piece.w + p.low_w + hw <= Word * (p.words - 1)
         /\ p.rows = piece.h + p.low_h + hh /\ p.raw \in Int /\ p.rows < p.raw
         /\ p.near => /\ -FloatLimit <= p.px /\ p.px + Word * p.words <= FloatLimit
                      /\ -FloatLimit <= p.pz /\ p.pz + p.raw <= FloatLimit
         /\ edition = "bedrock" => (\E n \in Int : p.px = Word * n) /\ (\E n \in Int : p.pz = 2 * n)
<1> DEFINE be == edition = "bedrock"
           across == piece.w + p.low_w + hw + Word - 1
<1>1. /\ p.px = (IF be THEN LowMultiple(piece.x0 - hw, Word) ELSE piece.x0 - hw)
      /\ p.pz = (IF be THEN LowMultiple(piece.z0 - hh, ChunkSide) ELSE piece.z0 - hh)
      /\ p.low_w = piece.x0 - p.px /\ p.low_h = piece.z0 - p.pz
      /\ p.words = (across \div Word) + 1
      /\ p.rows = piece.h + p.low_h + hh
      /\ p.raw = LowMultiple(p.rows + ChunkSide, ChunkSide)
      /\ p.near => /\ -FloatLimit <= p.px /\ p.px + Word * p.words <= FloatLimit
                   /\ -FloatLimit <= p.pz /\ p.pz + p.raw <= FloatLimit
  BY DEF PlaneOf, LowMultiple
<1>2. piece.x0 \in Int /\ piece.z0 \in Int /\ piece.w \in Nat /\ piece.h \in Nat
  BY DEF Piece, TileSet
<1>3. Word \in Nat \ {0} /\ ChunkSide \in Nat \ {0}
  BY Multiples
<1>4. p.px \in Int /\ p.px <= piece.x0 - hw
  <2>1. piece.x0 - hw \in Int
    BY <1>2
  <2>2. LowMultiple(piece.x0 - hw, Word) \in Int /\ LowMultiple(piece.x0 - hw, Word) <= piece.x0 - hw
    BY <1>3, <2>1, LowMultipleBounds
  <2>3. QED
    BY <1>1, <2>1, <2>2
<1>5. p.pz \in Int /\ p.pz <= piece.z0 - hh
  <2>1. piece.z0 - hh \in Int
    BY <1>2
  <2>2. LowMultiple(piece.z0 - hh, ChunkSide) \in Int /\ LowMultiple(piece.z0 - hh, ChunkSide) <= piece.z0 - hh
    BY <1>3, <2>1, LowMultipleBounds
  <2>3. QED
    BY <1>1, <2>1, <2>2
<1>6. p.words \in Int /\ piece.w + p.low_w + hw <= Word * (p.words - 1)
  <2>1. across \in Int /\ piece.w + p.low_w + hw \in Int /\ across = piece.w + p.low_w + hw + Word - 1
    BY <1>1, <1>2, <1>3, <1>4
  <2> DEFINE q == across \div Word
  <2>2. q \in Int /\ across % Word \in 0 .. Word - 1 /\ across = Word * q + (across % Word)
    BY <1>3, <2>1, DivMod
  <2>3. p.words = q + 1
    BY <1>1
  <2> HIDE DEF q, across
  <2>4. Word * q \in Int
    BY <1>3, <2>2
  <2>5. p.words - 1 = q
    BY <2>2, <2>3
  <2>6. QED
    BY <1>3, <2>1, <2>2, <2>3, <2>4, <2>5
<1>7. p.rows \in Int /\ p.raw \in Int /\ p.rows < p.raw
  <2>1. p.rows \in Int /\ p.rows + ChunkSide \in Int
    BY <1>1, <1>2, <1>3, <1>5
  <2>2. p.raw \in Int /\ p.rows + ChunkSide < p.raw + ChunkSide
    BY <1>1, <1>3, <2>1, LowMultipleBounds
  <2>3. QED
    BY <1>3, <2>1, <2>2
<1>8. ASSUME be PROVE (\E n \in Int : p.px = Word * n) /\ (\E n \in Int : p.pz = 2 * n)
  <2>1. p.px = Word * ((piece.x0 - hw) \div Word) /\ (piece.x0 - hw) \div Word \in Int
    <3>1. (piece.x0 - hw) \div Word \in Int
      <4>1. piece.x0 - hw \in Int
        BY <1>2
      <4>2. QED
        BY <1>3, <4>1, DivMod
    <3>2. QED
      BY <1>1, <1>3, <1>8, <3>1 DEF LowMultiple
  <2>2. PICK c \in Nat : ChunkSide = 2 * c
    BY Multiples
  <2> DEFINE m == (piece.z0 - hh) \div ChunkSide
  <2>3. m \in Int
    <3>1. piece.z0 - hh \in Int
      BY <1>2
    <3>2. QED
      BY <1>3, <3>1, DivMod
  <2>4. p.pz = m * ChunkSide
    BY <1>1, <1>8 DEF LowMultiple
  <2>5. p.pz = 2 * (m * c) /\ m * c \in Int
    <3> HIDE DEF m
    <3>1. QED
      BY <2>2, <2>3, <2>4
  <2>6. QED
    BY <2>1, <2>5
<1>9. QED
  BY <1>1, <1>4, <1>5, <1>6, <1>7, <1>8

\* Wherever a candidate of a piece looks, near or far, the plane drawn for the
\* piece, shuffled where floats round, shows the block that the game has there.
THEOREM PlaneShows ==
  ASSUME NEW edition \in {"java", "bedrock"}, NEW piece \in Piece, NEW hw \in Nat, NEW hh \in Nat,
         NEW p, p = PlaneOf(edition, piece, hw, hh),
         NEW c \in -hw .. piece.w - 1 + hw, NEW r \in -hh .. piece.h - 1 + hh,
         edition = "bedrock" =>
           /\ -(2 * FloatLimit) < piece.x0 + c /\ piece.x0 + c < 2 * FloatLimit
           /\ -(2 * FloatLimit) < piece.z0 + r /\ piece.z0 + r < 2 * FloatLimit
  PROVE  PlaneBit(edition, p, r + p.low_h, c + p.low_w) = Bed(edition, piece.x0 + c, piece.z0 + r)
<1> DEFINE x == piece.x0 + c
           z == piece.z0 + r
           b == c + p.low_w
           row == r + p.low_h
<1>1. piece.x0 \in Int /\ piece.z0 \in Int /\ piece.w \in Nat /\ piece.h \in Nat
  BY DEF Piece, TileSet
<1>2. /\ p.px \in Int /\ p.px <= piece.x0 - hw /\ p.low_w = piece.x0 - p.px
      /\ p.pz \in Int /\ p.pz <= piece.z0 - hh /\ p.low_h = piece.z0 - p.pz
      /\ p.words \in Int /\ piece.w + p.low_w + hw <= Word * (p.words - 1)
      /\ p.rows = piece.h + p.low_h + hh /\ p.raw \in Int /\ p.rows < p.raw
      /\ p.near => /\ -FloatLimit <= p.px /\ p.px + Word * p.words <= FloatLimit
                   /\ -FloatLimit <= p.pz /\ p.pz + p.raw <= FloatLimit
      /\ edition = "bedrock" => (\E n \in Int : p.px = Word * n) /\ (\E n \in Int : p.pz = 2 * n)
  BY PlaneShape
<1>3. Word \in Nat \ {0} /\ FloatLimit \in Nat \ {0}
  BY Multiples
<1>4. Word * p.words \in Int /\ Word * (p.words - 1) = Word * p.words - Word
  BY <1>2, <1>3
<1>5. /\ x \in Int /\ z \in Int /\ b \in Int /\ row \in Int
      /\ x = p.px + b /\ z = p.pz + row
      /\ 0 <= b /\ b + Word < Word * p.words /\ 0 <= row /\ row < p.rows
  BY <1>1, <1>2, <1>3, <1>4
<1>6. p.rows \in Int
  BY <1>1, <1>2
<1> HIDE DEF x, z, b, row
<1>7. Inside(p, p.rows, row, b) /\ Inside(p, p.raw, row, b)
  BY <1>2, <1>3, <1>4, <1>5, <1>6 DEF Inside
<1>8. CASE edition = "java"
  BY <1>5, <1>7, <1>8 DEF PlaneBit, RawBit, Bed, x, z, b, row
<1>9. CASE edition = "bedrock" /\ p.near
  <2>1. -FloatLimit <= x /\ x < FloatLimit /\ -FloatLimit <= z /\ z < FloatLimit
    BY <1>2, <1>3, <1>4, <1>5, <1>6, <1>9
  <2>2. BeCoord(x) = x /\ BeCoord(z) = z
    BY <1>3, <1>5, <2>1, Rounds
  <2>3. PlaneBit(edition, p, row, b) = Drawn(x, z)
    BY <1>5, <1>7, <1>9 DEF PlaneBit, RawBit
  <2>4. Bed(edition, x, z) = Drawn(x, z)
    BY <1>9, <2>2 DEF Bed
  <2>5. QED
    BY <2>3, <2>4 DEF x, z, b, row
<1>10. CASE edition = "bedrock" /\ ~ p.near
  <2>1. /\ -(2 * FloatLimit) < x /\ x < 2 * FloatLimit
        /\ -(2 * FloatLimit) < z /\ z < 2 * FloatLimit
    BY <1>10 DEF x, z
  <2>2. SourceBit(p, b) = BeCoord(x) - p.px /\ SourceBit(p, b) \in 0 .. b + 1
    <3> DEFINE low == LowMultiple(b, Word)
               word == p.px + low
    <3>1. low \in Int /\ low <= b /\ b < low + Word /\ \E n \in Int : low = Word * n
      <4>1. low = (b \div Word) * Word /\ b \div Word \in Int
        BY <1>3, <1>5, DivMod DEF LowMultiple
      <4>2. low = Word * (b \div Word)
        <5> DEFINE q == b \div Word
        <5>1. q \in Int /\ low = q * Word
          BY <4>1
        <5> HIDE DEF q, low
        <5>2. low = Word * q
          BY <1>3, <5>1
        <5>3. QED
          BY <5>2 DEF q
      <4>3. QED
        BY <1>3, <1>5, <4>1, <4>2, LowMultipleBounds
    <3> HIDE DEF low
    <3>2. PICK n \in Int : p.px = Word * n
      BY <1>2, <1>10
    <3>3. PICK m \in Int : low = Word * m
      BY <3>1
    <3>4. PICK f \in Nat : FloatLimit = Word * f
      BY Multiples
    <3>5. PICK w \in Nat : Word = 4 * w
      BY Multiples
    <3>6. word = Word * (n + m) /\ word \in Int /\ word <= x /\ x < word + Word
      BY <1>2, <1>3, <1>5, <3>1, <3>2, <3>3
    <3>7. word >= FloatLimit <=> x >= FloatLimit
      <4> DEFINE d == n + m
      <4>1. d \in Int /\ word = Word * d
        BY <3>6
      <4> HIDE DEF d, word
      <4>2. d < f => Word * d <= Word * (f - 1)
        BY <1>3, <3>4, <4>1
      <4>3. Word * (f - 1) = Word * f - Word
        BY <1>3, <3>4
      <4>4. d >= f => Word * d >= Word * f
        BY <1>3, <3>4, <4>1
      <4>5. QED
        BY <1>3, <1>5, <3>4, <3>6, <4>1, <4>2, <4>3, <4>4
    <3>8. word < -FloatLimit <=> x < -FloatLimit
      <4> DEFINE d == n + m
      <4>1. d \in Int /\ word = Word * d
        BY <3>6
      <4> HIDE DEF d, word
      <4>2. d < -f => Word * d <= Word * (-f - 1)
        BY <1>3, <3>4, <4>1
      <4>3. Word * (-f - 1) = -(Word * f) - Word
        BY <1>3, <3>4
      <4>4. d >= -f => Word * d >= -(Word * f)
        <5>1. d >= -f => Word * d >= Word * (-f)
          BY <1>3, <3>4, <4>1
        <5>2. Word * (-f) = -(Word * f)
          BY <1>3, <3>4
        <5>3. QED
          BY <5>1, <5>2
      <4>5. QED
        BY <1>3, <1>5, <3>4, <3>6, <4>1, <4>2, <4>3, <4>4
    <3>9. b % 4 = x % 4
      <4>1. p.px = 4 * (w * n) /\ w * n \in Int
        BY <3>2, <3>5
      <4> DEFINE k == w * n
      <4>2. x = 4 * k + b /\ k \in Int
        BY <1>2, <1>5, <4>1
      <4> HIDE DEF k
      <4>3. QED
        BY <1>5, <4>2
    <3>10. SourceBit(p, b) = IF -FloatLimit <= x /\ x < FloatLimit THEN b
                             ELSE IF b % 4 = 1 THEN b - 1 ELSE IF b % 4 = 3 THEN b + 1 ELSE b
      <4>1. (word >= FloatLimit \/ word < -FloatLimit) <=> ~ (-FloatLimit <= x /\ x < FloatLimit)
        BY <1>3, <1>5, <3>7, <3>8
      <4>2. CASE -FloatLimit <= x /\ x < FloatLimit
        BY <4>1, <4>2 DEF SourceBit, low
      <4>3. CASE ~ (-FloatLimit <= x /\ x < FloatLimit)
        <5>1. b % 4 = 1 => b % 4 # 3
          OBVIOUS
        <5>2. QED
          BY <4>1, <4>3 DEF SourceBit, low
      <4>4. QED
        BY <4>2, <4>3
    <3>11. BeCoord(x) = IF -FloatLimit <= x /\ x < FloatLimit THEN x
                        ELSE IF x % 4 = 1 THEN x - 1 ELSE IF x % 4 = 3 THEN x + 1 ELSE x
      BY <1>5, <2>1, Rounds
    <3>12. b % 4 = 1 => b - 1 >= 0
      BY <1>5
    <3>13. QED
      BY <1>2, <1>5, <3>9, <3>10, <3>11, <3>12
  <2>3. SourceRow(p, row) = BeCoord(z) - p.pz /\ SourceRow(p, row) \in 0 .. p.raw - 1
    <3>1. SourceRow(p, row) = BeCoord(z) - p.pz
      BY <1>5 DEF SourceRow
    <3>2. BeCoord(z) = IF -FloatLimit <= z /\ z < FloatLimit THEN z
                       ELSE IF z % 4 = 1 THEN z - 1 ELSE IF z % 4 = 3 THEN z + 1 ELSE z
      BY <1>5, <2>1, Rounds
    <3>3. PICK n \in Int : p.pz = 2 * n
      BY <1>2, <1>10
    <3>4. z % 4 = 1 => row >= 1
      BY <1>5, <3>3
    <3>5. QED
      BY <1>2, <1>3, <1>5, <1>6, <3>1, <3>2, <3>4
  <2>4. Inside(p, p.raw, SourceRow(p, row), SourceBit(p, b))
    BY <1>2, <1>3, <1>4, <1>5, <2>2, <2>3 DEF Inside
  <2>5. SourceBit(p, b) # Word * p.words
    BY <1>3, <1>4, <1>5, <2>2
  <2>6. Remapped(p, row, b) = Drawn(p.px + SourceBit(p, b), p.pz + SourceRow(p, row))
    BY <1>7, <2>4, <2>5 DEF Remapped, RawBit
  <2>7. p.px + SourceBit(p, b) = BeCoord(x) /\ p.pz + SourceRow(p, row) = BeCoord(z)
    <3>1. BeCoord(x) \in Int /\ BeCoord(z) \in Int
      BY <1>5, <2>1, Rounds
    <3>2. QED
      BY <1>2, <2>2, <2>3, <3>1
  <2>8. PlaneBit(edition, p, row, b) = Remapped(p, row, b)
    BY <1>10 DEF PlaneBit
  <2>9. Bed(edition, x, z) = Drawn(BeCoord(x), BeCoord(z))
    BY <1>10 DEF Bed
  <2>10. QED
    BY <2>6, <2>7, <2>8, <2>9 DEF x, z, b, row
<1>11. QED
  BY <1>8, <1>9, <1>10

-----------------------------------------------------------------------------
(* The matches of a job                                                    *)

World(j) == [p \in Int \X Int |-> Bed(j.edition, p[1], p[2])]

\* by the definition: what matches at (x, z), if its mask is not empty
MaskOf(j, x, z) == TrueMask(j.knowns, Anchor(j.knowns, j.rare), j.all, World(j), x, z)
MatchOf(j, x, z) == [x |-> x, z |-> z, mask |-> MaskOf(j, x, z)]

\* The matches of a tile: its candidates that have a mask.
LEMMA MatchesAre ==
  ASSUME NEW j, NEW t
  PROVE  MatchesIn(j, t) = {MatchOf(j, p[1], p[2]) : p \in {q \in Candidates(t) : MaskOf(j, q[1], q[2]) # {}}}
<1> DEFINE At(p) == [x |-> p[1], z |-> p[2], mask |-> MaskOf(j, p[1], p[2])]
<1>1. MatchesIn(j, t) = {m \in {At(p) : p \in Candidates(t)} : m.mask # {}}
  BY DEF MatchesIn, MaskOf, World
<1>2. \A p \in Candidates(t) : At(p) = MatchOf(j, p[1], p[2]) /\ At(p).mask = MaskOf(j, p[1], p[2])
  BY DEF MatchOf
<1> HIDE DEF At
<1> QED BY <1>1, <1>2

\* A tile has finitely many matches, each a candidate of it and known by its place.
LEMMA MatchFacts ==
  ASSUME NEW j, NEW t \in TileSet
  PROVE  /\ IsFiniteSet(MatchesIn(j, t))
         /\ \A m \in MatchesIn(j, t) : /\ m = MatchOf(j, m.x, m.z) /\ <<m.x, m.z>> \in Candidates(t)
                                       /\ m.x \in Int /\ m.z \in Int /\ MaskOf(j, m.x, m.z) # {}
         /\ \A x, z : <<x, z>> \in Candidates(t) /\ MaskOf(j, x, z) # {} => MatchOf(j, x, z) \in MatchesIn(j, t)
<1> DEFINE places == {q \in Candidates(t) : MaskOf(j, q[1], q[2]) # {}}
<1>1. MatchesIn(j, t) = {MatchOf(j, p[1], p[2]) : p \in places}
  BY MatchesAre
<1>2. t.x0 \in Int /\ t.w \in Int /\ t.z0 \in Int /\ t.h \in Int
  BY DEF TileSet
<1>3. IsFiniteSet(MatchesIn(j, t))
  <2>1. IsFiniteSet(t.x0 .. t.x0 + t.w - 1) /\ IsFiniteSet(t.z0 .. t.z0 + t.h - 1)
    <3>1. t.x0 + t.w - 1 \in Int /\ t.z0 + t.h - 1 \in Int
      BY <1>2
    <3> QED BY <1>2, <3>1, FS_Interval
  <2>2. IsFiniteSet(Candidates(t))
    BY <2>1, FS_Product DEF Candidates
  <2>3. IsFiniteSet(places)
    BY <2>2, FS_Subset
  <2> DEFINE f == [p \in places |-> MatchOf(j, p[1], p[2])]
  <2>4. f \in Surjection(places, MatchesIn(j, t))
    <3> HIDE DEF places
    <3> QED BY <1>1 DEF Surjection
  <2> HIDE DEF places, f
  <2> QED BY <2>3, <2>4, FS_Surjection
<1>4. \A p \in Candidates(t) : p = <<p[1], p[2]>> /\ p[1] \in Int /\ p[2] \in Int
  BY <1>2 DEF Candidates
<1>5. \A x, z : MatchOf(j, x, z).x = x /\ MatchOf(j, x, z).z = z
  BY DEF MatchOf
<1>6. ASSUME NEW m \in MatchesIn(j, t)
      PROVE  /\ m = MatchOf(j, m.x, m.z) /\ <<m.x, m.z>> \in Candidates(t)
             /\ m.x \in Int /\ m.z \in Int /\ MaskOf(j, m.x, m.z) # {}
  <2>1. PICK p \in places : m = MatchOf(j, p[1], p[2])
    BY <1>1
  <2>2. m.x = p[1] /\ m.z = p[2]
    BY <1>5, <2>1
  <2>3. p \in Candidates(t) /\ MaskOf(j, p[1], p[2]) # {}
    OBVIOUS
  <2> QED BY <1>4, <2>1, <2>2, <2>3
<1>7. ASSUME NEW x, NEW z, <<x, z>> \in Candidates(t), MaskOf(j, x, z) # {} PROVE MatchOf(j, x, z) \in MatchesIn(j, t)
  <2>1. <<x, z>> \in places
    BY <1>7
  <2> HIDE DEF places
  <2> QED BY <1>1, <2>1
<1> QED BY <1>3, <1>6, <1>7

\* Tiles of a job share no match.
LEMMA MatchesApart ==
  ASSUME NEW j, IsJob(j), NEW m \in DOMAIN j.tiles, NEW n \in DOMAIN j.tiles, m # n
  PROVE  MatchesIn(j, j.tiles[m]) \cap MatchesIn(j, j.tiles[n]) = {}
<1>1. j.tiles[m] \in TileSet /\ j.tiles[n] \in TileSet
  BY DEF IsJob, JobSet
<1>2. Candidates(j.tiles[m]) \cap Candidates(j.tiles[n]) = {}
  BY DEF IsJob
<1>3. \A e \in MatchesIn(j, j.tiles[m]) : <<e.x, e.z>> \in Candidates(j.tiles[m])
  BY <1>1, MatchFacts
<1>4. \A e \in MatchesIn(j, j.tiles[n]) : <<e.x, e.z>> \in Candidates(j.tiles[n])
  BY <1>1, MatchFacts
<1> QED BY <1>2, <1>3, <1>4

\* The matches of the first tiles: none of none, finitely many, one tile more each time.
LEMMA MatchesGrow ==
  ASSUME NEW j, IsJob(j), NEW n \in 0 .. Len(j.tiles)
  PROVE  /\ MatchesUpTo(j, 0) = {} /\ IsFiniteSet(MatchesUpTo(j, n))
         /\ \A k \in 1 .. n : MatchesIn(j, j.tiles[k]) \subseteq MatchesUpTo(j, n)
         /\ n < Len(j.tiles) => /\ MatchesUpTo(j, n + 1) = MatchesUpTo(j, n) \cup MatchesIn(j, j.tiles[n + 1])
                                /\ MatchesUpTo(j, n) \cap MatchesIn(j, j.tiles[n + 1]) = {}
<1> DEFINE L == Len(j.tiles)
<1>1. L \in Nat /\ DOMAIN j.tiles = 1 .. L /\ \A k \in 1 .. L : j.tiles[k] \in TileSet
  <2>1. j.tiles \in Seq(TileSet)
    BY DEF IsJob, JobSet
  <2> QED BY <2>1
<1> HIDE DEF L
<1>2. MatchesUpTo(j, 0) = {}
  BY DEF MatchesUpTo
<1>3. ASSUME NEW i \in 0 .. L
      PROVE  i < L => MatchesUpTo(j, i + 1) = MatchesUpTo(j, i) \cup MatchesIn(j, j.tiles[i + 1])
  <2>1. 1 .. i + 1 = (1 .. i) \cup {i + 1}
    BY <1>1
  <2> QED BY <2>1 DEF MatchesUpTo
<1> DEFINE Good == {i \in Nat : i \in 0 .. L => IsFiniteSet(MatchesUpTo(j, i))}
<1>4. 0 \in Good
  BY <1>2, FS_EmptySet
<1>5. ASSUME NEW i \in Nat, i \in Good PROVE i + 1 \in Good
  <2>1. CASE i + 1 \in 0 .. L
    <3>1. i \in 0 .. L /\ i < L /\ i + 1 \in 1 .. L
      BY <1>1, <2>1
    <3>2. IsFiniteSet(MatchesUpTo(j, i)) /\ IsFiniteSet(MatchesIn(j, j.tiles[i + 1]))
      BY <1>1, <1>5, <3>1, MatchFacts
    <3>3. IsFiniteSet(MatchesUpTo(j, i + 1))
      <4>1. MatchesUpTo(j, i + 1) = MatchesUpTo(j, i) \cup MatchesIn(j, j.tiles[i + 1])
        BY <1>3, <3>1
      <4>2. IsFiniteSet(MatchesUpTo(j, i) \cup MatchesIn(j, j.tiles[i + 1]))
        BY <3>2, FS_Union
      <4> QED BY <4>1, <4>2
    <3> QED BY <3>3
  <2>2. CASE ~ (i + 1 \in 0 .. L)
    BY <2>2
  <2> QED BY <2>1, <2>2
<1>6. n \in Good
  <2>1. Nat \subseteq Good
    <3> HIDE DEF Good
    <3> QED BY <1>4, <1>5, NatInd
  <2> QED BY <1>1, <2>1 DEF L
<1>7. \A k \in 1 .. n : MatchesIn(j, j.tiles[k]) \subseteq MatchesUpTo(j, n)
  BY DEF MatchesUpTo
<1>8. ASSUME n < L PROVE MatchesUpTo(j, n) \cap MatchesIn(j, j.tiles[n + 1]) = {}
  <2>1. ASSUME NEW k \in 1 .. n PROVE MatchesIn(j, j.tiles[k]) \cap MatchesIn(j, j.tiles[n + 1]) = {}
    <3>1. k \in DOMAIN j.tiles /\ n + 1 \in DOMAIN j.tiles /\ k # n + 1
      BY <1>1, <1>8
    <3> QED BY <3>1, MatchesApart
  <2> QED BY <2>1 DEF MatchesUpTo
<1> QED BY <1>2, <1>3, <1>6, <1>7, <1>8 DEF L

-----------------------------------------------------------------------------
(* What is tested from a candidate                                         *)

\* a plan sees the same blocks from one place as from another
SeesAlike(p, b1, x1, z1, b2, x2, z2) ==
  /\ b1[<<x1, z1>>] = b2[<<x2, z2>>]
  /\ \A v \in DOMAIN p.offsets, c \in 2 .. Len(p.want) :
       b1[<<x1 + p.offsets[v][c][1], z1 + p.offsets[v][c][2]>>] =
       b2[<<x2 + p.offsets[v][c][1], z2 + p.offsets[v][c][2]>>]

\* It finds the same mask there.
LEMMA SameMask ==
  ASSUME NEW p, NEW b1, NEW x1, NEW z1, NEW b2, NEW x2, NEW z2, SeesAlike(p, b1, x1, z1, b2, x2, z2)
  PROVE  PlanMask(p, b1, x1, z1) = PlanMask(p, b2, x2, z2)
<1> DEFINE Seen1(u) == \A c \in 2 .. Len(p.want) :
                         b1[<<x1 + p.offsets[u][c][1], z1 + p.offsets[u][c][2]>>] = p.want[c]
           Seen2(u) == \A c \in 2 .. Len(p.want) :
                         b2[<<x2 + p.offsets[u][c][1], z2 + p.offsets[u][c][2]>>] = p.want[c]
<1>1. \A u \in DOMAIN p.offsets : Seen1(u) <=> Seen2(u)
  BY DEF SeesAlike
<1>2. /\ PlanMask(p, b1, x1, z1) = IF b1[<<x1, z1>>] # p.want[1] THEN {}
                                   ELSE UNION {p.masks[v] : v \in {u \in DOMAIN p.offsets : Seen1(u)}}
      /\ PlanMask(p, b2, x2, z2) = IF b2[<<x2, z2>>] # p.want[1] THEN {}
                                   ELSE UNION {p.masks[v] : v \in {u \in DOMAIN p.offsets : Seen2(u)}}
  BY DEF PlanMask
<1>3. b1[<<x1, z1>>] = b2[<<x2, z2>>]
  BY DEF SeesAlike
<1> HIDE DEF Seen1, Seen2
<1> QED BY <1>1, <1>2, <1>3

\* Rounding keeps the order of the coordinates.
LEMMA RoundGrows ==
  ASSUME NEW v \in Int, NEW w \in Int, -(2 * FloatLimit) < v, v <= w, w < 2 * FloatLimit
  PROVE  BeCoord(v) \in Int /\ BeCoord(v) <= BeCoord(w)
<1>1. FloatLimit \in Nat \ {0} /\ \E n \in Nat : FloatLimit = 4 * n
  <2>1. PICK n \in Nat, k \in Nat : Word = 4 * n /\ FloatLimit = Word * k
    BY Multiples
  <2>2. FloatLimit = 4 * (n * k) /\ n * k \in Nat
    BY <2>1
  <2> QED BY <2>2, Multiples
<1>2. /\ BeCoord(v) = IF -FloatLimit <= v /\ v < FloatLimit THEN v
                      ELSE IF v % 4 = 1 THEN v - 1 ELSE IF v % 4 = 3 THEN v + 1 ELSE v
      /\ BeCoord(w) = IF -FloatLimit <= w /\ w < FloatLimit THEN w
                      ELSE IF w % 4 = 1 THEN w - 1 ELSE IF w % 4 = 3 THEN w + 1 ELSE w
  BY <1>1, Rounds
<1> HIDE DEF BeCoord
<1>3. BeCoord(v) \in Int
  BY <1>2
<1>4. CASE v = w
  BY <1>2, <1>3, <1>4
<1>5. CASE v + 1 = w
  <2>1. PICK n \in Nat : FloatLimit = 4 * n
    BY <1>1
  <2>2. w % 4 = (v + 1) % 4
    BY <1>5
  <2>3. v % 4 = 3 => w % 4 = 0
    BY <1>5
  <2>4. v = FloatLimit - 1 \/ w = -FloatLimit => v % 4 = 3 /\ w % 4 = 0
    BY <2>1, <1>5
  <2>5. v % 4 = 1 => w % 4 = 2
    BY <1>5
  <2>6. w % 4 = 1 => v % 4 = 0
    BY <1>5
  <2> QED BY <1>1, <1>2, <1>5, <2>3, <2>4, <2>5, <2>6
<1>6. CASE v + 1 < w
  BY <1>2, <1>6
<1> QED BY <1>3, <1>4, <1>5, <1>6

PlanOf(j) == BuildSearchPlan(j.knowns, j.rare, j.all)

\* Where a plan looks from a candidate of a job: near enough for the rounding of Bedrock
\* Edition to move a column by one block.
LEMMA LooksNear ==
  ASSUME NEW j, IsJob(j), NEW t \in TileSet, (\E k \in DOMAIN j.tiles : t = j.tiles[k]), NEW p, p = PlanOf(j),
         NEW v \in DOMAIN p.offsets, NEW c \in DOMAIN p.want,
         NEW x, NEW z, <<x, z>> \in Candidates(t)
  PROVE  /\ x \in Int /\ z \in Int /\ PlanOK(p)
         /\ p.offsets[v][c][1] \in Int /\ p.offsets[v][c][2] \in Int
         /\ j.edition = "bedrock" =>
              /\ -(2 * FloatLimit) < t.x0 + p.offsets[v][c][1] /\ t.x0 + p.offsets[v][c][1] <= x + p.offsets[v][c][1]
              /\ x + p.offsets[v][c][1] <= t.x0 + t.w - 1 + p.offsets[v][c][1]
              /\ t.x0 + t.w - 1 + p.offsets[v][c][1] < 2 * FloatLimit
              /\ -(2 * FloatLimit) < t.z0 + p.offsets[v][c][2] /\ t.z0 + p.offsets[v][c][2] <= z + p.offsets[v][c][2]
              /\ z + p.offsets[v][c][2] <= t.z0 + t.h - 1 + p.offsets[v][c][2]
              /\ t.z0 + t.h - 1 + p.offsets[v][c][2] < 2 * FloatLimit
<1>1. /\ j \in JobSet /\ IsPattern(j.knowns) /\ j.all \in BOOLEAN
      /\ \A n \in DOMAIN j.knowns : j.knowns[n].i < kMaxDim /\ j.knowns[n].j < kMaxDim
  BY DEF IsJob, JobSet
<1>2. PlanOK(p)
  BY <1>1, PlanBuilt DEF PlanOf
<1>3. \A a \in {1, 2} : p.offsets[v][c][a] \in Int /\ -kMaxDim < p.offsets[v][c][a] /\ p.offsets[v][c][a] < kMaxDim
  <2>1. \A a \in {1, 2} : -kMaxDim < p.offsets[v][c][a] /\ p.offsets[v][c][a] < kMaxDim
    BY <1>1, LimitAssumption, OffsetsNear DEF PlanOf
  <2>2. \A a \in {1, 2} : p.offsets[v][c][a] \in Int
    BY <1>2, ReachIs
  <2> QED BY <2>1, <2>2
<1>4. t.x0 \in Int /\ t.w \in Int /\ t.z0 \in Int /\ t.h \in Int
  BY DEF TileSet
<1>5. x \in Int /\ z \in Int /\ t.x0 <= x /\ x <= t.x0 + t.w - 1 /\ t.z0 <= z /\ z <= t.z0 + t.h - 1
  BY <1>4 DEF Candidates
<1>6. j.edition = "bedrock" =>
        /\ -t.x0 <= 2 * FloatLimit - kMaxDim /\ t.x0 + t.w - 1 <= 2 * FloatLimit - kMaxDim
        /\ -t.z0 <= 2 * FloatLimit - kMaxDim /\ t.z0 + t.h - 1 <= 2 * FloatLimit - kMaxDim
  BY DEF IsJob
<1>7. FloatLimit \in Nat /\ kMaxDim \in Nat
  BY Multiples, LimitAssumption
<1> DEFINE o1 == p.offsets[v][c][1]
           o2 == p.offsets[v][c][2]
<1>8. o1 \in Int /\ -kMaxDim < o1 /\ o1 < kMaxDim /\ o2 \in Int /\ -kMaxDim < o2 /\ o2 < kMaxDim
  BY <1>3
<1> HIDE DEF o1, o2
<1>9. j.edition = "bedrock" =>
        /\ -(2 * FloatLimit) < t.x0 + o1 /\ t.x0 + o1 <= x + o1
        /\ x + o1 <= t.x0 + t.w - 1 + o1 /\ t.x0 + t.w - 1 + o1 < 2 * FloatLimit
        /\ -(2 * FloatLimit) < t.z0 + o2 /\ t.z0 + o2 <= z + o2
        /\ z + o2 <= t.z0 + t.h - 1 + o2 /\ t.z0 + t.h - 1 + o2 < 2 * FloatLimit
  BY <1>4, <1>5, <1>6, <1>7, <1>8
<1> QED BY <1>2, <1>5, <1>8, <1>9 DEF o1, o2

\* Along an axis, what a tile's plan looks at lies in the chunks drawn for the tile.
LEMMA ChunksReach ==
  ASSUME NEW low \in Int, NEW a \in Int, NEW high \in Int,
         -(2 * FloatLimit) < low, low <= a, a <= high, high < 2 * FloatLimit
  PROVE  ChunkOf(a) \in ChunkOf(low) .. ChunkOf(high)
<1>1. /\ BeCoord(low) \in Int /\ BeCoord(a) \in Int /\ BeCoord(high) \in Int
      /\ BeCoord(low) <= BeCoord(a) /\ BeCoord(a) <= BeCoord(high)
  <2>1. -(2 * FloatLimit) < a /\ a < 2 * FloatLimit /\ FloatLimit \in Nat
    BY Multiples
  <2>2. BeCoord(low) \in Int /\ BeCoord(low) <= BeCoord(a)
    BY <2>1, RoundGrows
  <2>3. BeCoord(a) \in Int /\ BeCoord(a) <= BeCoord(high)
    BY <2>1, RoundGrows
  <2>4. BeCoord(high) \in Int
    <3>1. -(2 * FloatLimit) < high /\ high <= high
      BY <2>1
    <3> QED BY <3>1, RoundGrows
  <2> QED BY <2>2, <2>3, <2>4
<1> HIDE DEF BeCoord
<1>2. ChunkSide \in Nat \ {0}
  BY Multiples
<1>3. ChunkOf(low) <= ChunkOf(a) /\ ChunkOf(a) <= ChunkOf(high)
  BY <1>1, <1>2, DivGrows DEF ChunkOf
<1>4. ChunkOf(low) \in Int /\ ChunkOf(a) \in Int /\ ChunkOf(high) \in Int
  BY <1>1, <1>2, DivMod DEF ChunkOf
<1> QED BY <1>3, <1>4

-----------------------------------------------------------------------------
(* The pieces of a tile                                                    *)

Least(a, b) == IF a < b THEN a ELSE b

\* Along an axis, strip c of a cut of 0 .. a - 1 into strips of KChunk holds what lies c
\* strips in, and nothing else.
LEMMA Strips ==
  ASSUME NEW a \in Nat \ {0}
  PROVE  LET strips == (a + KChunk - 1) \div KChunk
         IN /\ strips \in Nat \ {0}
            /\ \A v \in 0 .. a - 1 : /\ v \div KChunk \in 0 .. strips - 1
                                     /\ (v \div KChunk) * KChunk <= v
                                     /\ v < (v \div KChunk) * KChunk + Least(KChunk, a - (v \div KChunk) * KChunk)
            /\ \A c \in 0 .. strips - 1, v \in Int :
                 c * KChunk <= v /\ v < c * KChunk + Least(KChunk, a - c * KChunk)
                   => v \in 0 .. a - 1 /\ v \div KChunk = c
<1> DEFINE strips == (a + KChunk - 1) \div KChunk
<1>1. KChunk \in Nat \ {0}
  BY PlaneAssumption
<1>2. /\ strips \in Int /\ (a + KChunk - 1) % KChunk \in 0 .. KChunk - 1
      /\ a + KChunk - 1 = KChunk * strips + ((a + KChunk - 1) % KChunk)
  <2>1. a + KChunk - 1 \in Int
    BY <1>1
  <2> QED BY <1>1, <2>1, DivMod
<1>3. KChunk * strips >= a /\ KChunk * strips \in Int
  <2> DEFINE r == (a + KChunk - 1) % KChunk
  <2> HIDE DEF strips, r
  <2>1. KChunk * strips \in Int
    BY <1>1, <1>2
  <2> QED BY <1>1, <1>2, <2>1 DEF r
<1> HIDE DEF strips
<1>4. ASSUME NEW m \in Int, NEW n \in Int, m < n PROVE KChunk * m + KChunk <= KChunk * n
  <2>1. KChunk * (n - m - 1) >= 0
    BY <1>1, <1>4
  <2>2. KChunk * (n - m - 1) = KChunk * n - KChunk * m - KChunk
    BY <1>1
  <2>3. KChunk * n \in Int /\ KChunk * m \in Int
    BY <1>1
  <2> QED BY <1>1, <2>1, <2>2, <2>3
<1>5. strips \in Nat \ {0}
  <2>1. strips < 1 => KChunk * strips + KChunk <= KChunk * 1
    BY <1>2, <1>4
  <2> QED BY <1>1, <1>2, <1>3, <2>1
<1>6. ASSUME NEW v \in 0 .. a - 1
      PROVE  /\ v \div KChunk \in 0 .. strips - 1
             /\ (v \div KChunk) * KChunk <= v
             /\ v < (v \div KChunk) * KChunk + Least(KChunk, a - (v \div KChunk) * KChunk)
  <2> DEFINE q == v \div KChunk
             r == v % KChunk
  <2>1. q \in Int /\ r \in 0 .. KChunk - 1 /\ v = KChunk * q + r
    BY <1>1, DivMod
  <2> HIDE DEF q, r
  <2>2. KChunk * q \in Int /\ q * KChunk = KChunk * q
    BY <1>1, <2>1
  <2>3. q >= 0
    <3>1. q < 0 => KChunk * q + KChunk <= KChunk * 0
      BY <2>1, <1>4
    <3> QED BY <1>1, <2>1, <2>2, <3>1
  <2>4. q < strips
    <3>1. strips < q => KChunk * strips + KChunk <= KChunk * q
      BY <1>2, <2>1, <1>4
    <3> QED BY <1>1, <1>2, <1>3, <2>1, <2>2, <3>1
  <2>5. q \in 0 .. strips - 1 /\ q * KChunk <= v /\ v < q * KChunk + Least(KChunk, a - q * KChunk)
    BY <1>1, <1>2, <2>1, <2>2, <2>3, <2>4 DEF Least
  <2> QED BY <2>5 DEF q
<1>7. ASSUME NEW c \in 0 .. strips - 1, NEW v \in Int,
             c * KChunk <= v, v < c * KChunk + Least(KChunk, a - c * KChunk)
      PROVE  v \in 0 .. a - 1 /\ v \div KChunk = c
  <2>1. c \in Int /\ c >= 0 /\ c * KChunk = KChunk * c /\ KChunk * c \in Nat
    BY <1>1, <1>2
  <2>2. KChunk * c <= v /\ v < KChunk * c + KChunk /\ v < a /\ v >= 0
    BY <1>1, <1>7, <2>1 DEF Least
  <2> DEFINE q == v \div KChunk
             r == v % KChunk
  <2>3. q \in Int /\ r \in 0 .. KChunk - 1 /\ v = KChunk * q + r
    BY <1>1, DivMod
  <2> HIDE DEF q, r
  <2>4. KChunk * q \in Int
    BY <1>1, <2>3
  <2>5. ~ (q < c)
    <3>1. q < c => KChunk * q + KChunk <= KChunk * c
      BY <2>1, <2>3, <1>4
    <3> QED BY <1>1, <2>1, <2>2, <2>3, <2>4, <3>1
  <2>6. ~ (c < q)
    <3>1. c < q => KChunk * c + KChunk <= KChunk * q
      BY <2>1, <2>3, <1>4
    <3> QED BY <1>1, <2>1, <2>2, <2>3, <2>4, <3>1
  <2>7. q = c
    BY <2>1, <2>3, <2>5, <2>6
  <2> QED BY <2>2, <2>7 DEF q
<1> QED BY <1>5, <1>6, <1>7 DEF strips

\* The pieces of a tile have its candidates, each of them once.
LEMMA PiecesPart ==
  ASSUME NEW t \in TileSet
  PROVE  /\ UNION {Candidates(Pieces(t)[n]) : n \in DOMAIN Pieces(t)} = Candidates(t)
         /\ \A m, n \in DOMAIN Pieces(t) : m # n => Candidates(Pieces(t)[m]) \cap Candidates(Pieces(t)[n]) = {}
<1> DEFINE across == (t.w + KChunk - 1) \div KChunk
           down == (t.h + KChunk - 1) \div KChunk
           col(n) == (n - 1) % across
           row(n) == (n - 1) \div across
           W(c) == Least(KChunk, t.w - c * KChunk)
           H(c) == Least(KChunk, t.h - c * KChunk)
<1>1. KChunk \in Nat \ {0} /\ t.x0 \in Int /\ t.z0 \in Int /\ t.w \in Nat \ {0} /\ t.h \in Nat \ {0}
  BY PlaneAssumption DEF TileSet
<1>2. /\ across \in Nat \ {0}
      /\ \A v \in 0 .. t.w - 1 : /\ v \div KChunk \in 0 .. across - 1 /\ (v \div KChunk) * KChunk <= v
                                 /\ v < (v \div KChunk) * KChunk + W(v \div KChunk)
      /\ \A c \in 0 .. across - 1, v \in Int :
           c * KChunk <= v /\ v < c * KChunk + W(c) => v \in 0 .. t.w - 1 /\ v \div KChunk = c
  BY <1>1, Strips
<1>3. /\ down \in Nat \ {0}
      /\ \A v \in 0 .. t.h - 1 : /\ v \div KChunk \in 0 .. down - 1 /\ (v \div KChunk) * KChunk <= v
                                 /\ v < (v \div KChunk) * KChunk + H(v \div KChunk)
      /\ \A c \in 0 .. down - 1, v \in Int :
           c * KChunk <= v /\ v < c * KChunk + H(c) => v \in 0 .. t.h - 1 /\ v \div KChunk = c
  BY <1>1, Strips
<1>4. /\ DOMAIN Pieces(t) = 1 .. across * down
      /\ \A n \in 1 .. across * down :
           Pieces(t)[n] = [x0 |-> t.x0 + col(n) * KChunk, z0 |-> t.z0 + row(n) * KChunk,
                           w |-> W(col(n)), h |-> H(row(n))]
  BY DEF Pieces, Least
<1> HIDE DEF across, down, W, H
<1>5. \A c \in Int : c * KChunk \in Int /\ W(c) \in Int /\ H(c) \in Int
  BY <1>1 DEF W, H, Least
<1>6. across * down \in Nat
  BY <1>2, <1>3
<1>7. ASSUME NEW n \in 1 .. across * down
      PROVE  col(n) \in 0 .. across - 1 /\ row(n) \in 0 .. down - 1 /\ n = across * row(n) + col(n) + 1
  <2>1. n - 1 \in Int /\ 0 <= n - 1 /\ n - 1 < across * down
    BY <1>6
  <2>2. row(n) \in Int /\ col(n) \in 0 .. across - 1 /\ n - 1 = across * row(n) + col(n)
    BY <1>2, <2>1, DivMod
  <2> DEFINE r == row(n)
             c == col(n)
  <2>3. r \in Int /\ c \in 0 .. across - 1 /\ n - 1 = across * r + c
    BY <2>2
  <2> HIDE DEF r, c
  <2>4. across * r \in Int
    BY <1>2, <2>3
  <2>5. r < 0 => across * r <= -across
    BY <1>2, <2>3
  <2>6. r >= down => across * r >= across * down
    BY <1>2, <1>3, <2>3
  <2>7. r \in 0 .. down - 1 /\ n = across * r + c + 1
    BY <1>2, <1>3, <1>6, <2>1, <2>3, <2>4, <2>5, <2>6
  <2> QED BY <2>3, <2>7 DEF r, c
<1>8. ASSUME NEW n \in 1 .. across * down, NEW x \in Int, NEW z \in Int
      PROVE  <<x, z>> \in Candidates(Pieces(t)[n]) <=>
               /\ col(n) * KChunk <= x - t.x0 /\ x - t.x0 < col(n) * KChunk + W(col(n))
               /\ row(n) * KChunk <= z - t.z0 /\ z - t.z0 < row(n) * KChunk + H(row(n))
  <2> DEFINE cx == col(n) * KChunk
             cz == row(n) * KChunk
             w == W(col(n))
             h == H(row(n))
  <2>1. cx \in Int /\ cz \in Int /\ w \in Int /\ h \in Int
    <3>1. col(n) \in Int /\ row(n) \in Int
      BY <1>2, <1>3, <1>7
    <3> HIDE DEF col, row
    <3> QED BY <1>5, <3>1
  <2>2. Candidates(Pieces(t)[n]) = (t.x0 + cx .. t.x0 + cx + w - 1) \X (t.z0 + cz .. t.z0 + cz + h - 1)
    BY <1>4 DEF Candidates
  <2> HIDE DEF cx, cz, w, h
  <2>3. <<x, z>> \in (t.x0 + cx .. t.x0 + cx + w - 1) \X (t.z0 + cz .. t.z0 + cz + h - 1) <=>
          /\ cx <= x - t.x0 /\ x - t.x0 < cx + w
          /\ cz <= z - t.z0 /\ z - t.z0 < cz + h
    BY <1>1, <2>1
  <2> QED BY <2>2, <2>3 DEF cx, cz, w, h
<1>9. ASSUME NEW n \in 1 .. across * down PROVE Candidates(Pieces(t)[n]) \subseteq Int \X Int
  <2>1. Pieces(t)[n] \in TileSet
    <3>1. Pieces(t) \in Seq(Piece) /\ n \in DOMAIN Pieces(t)
      BY <1>4, PiecesType
    <3>2. Pieces(t)[n] \in Piece
      BY <3>1
    <3> QED BY <3>2 DEF Piece
  <2> QED BY <2>1 DEF Candidates, TileSet
<1> HIDE DEF col, row
<1>10. ASSUME NEW n \in 1 .. across * down, NEW p \in Candidates(Pieces(t)[n])
       PROVE  /\ p \in Candidates(t) /\ (p[1] - t.x0) \div KChunk = col(n) /\ (p[2] - t.z0) \div KChunk = row(n)
  <2>1. p[1] \in Int /\ p[2] \in Int /\ p = <<p[1], p[2]>>
    BY <1>9
  <2> DEFINE x == p[1] - t.x0
             z == p[2] - t.z0
  <2>2. x \in Int /\ z \in Int
    BY <1>1, <2>1
  <2>3. /\ col(n) * KChunk <= x /\ x < col(n) * KChunk + W(col(n))
        /\ row(n) * KChunk <= z /\ z < row(n) * KChunk + H(row(n))
    BY <1>8, <2>1
  <2>4. x \in 0 .. t.w - 1 /\ x \div KChunk = col(n) /\ z \in 0 .. t.h - 1 /\ z \div KChunk = row(n)
    <3> HIDE DEF x, z
    <3> QED BY <1>2, <1>3, <1>7, <2>2, <2>3
  <2>5. p \in Candidates(t)
    BY <1>1, <2>1, <2>4 DEF Candidates
  <2> QED BY <2>4, <2>5
<1>11. ASSUME NEW p \in Candidates(t)
       PROVE  \E n \in 1 .. across * down : p \in Candidates(Pieces(t)[n])
  <2>1. p[1] \in Int /\ p[2] \in Int /\ p = <<p[1], p[2]>>
    BY <1>1 DEF Candidates
  <2> DEFINE x == p[1] - t.x0
             z == p[2] - t.z0
             c == x \div KChunk
             r == z \div KChunk
             n == across * r + c + 1
  <2>2. x \in 0 .. t.w - 1 /\ z \in 0 .. t.h - 1
    BY <1>1 DEF Candidates
  <2>3. /\ c \in 0 .. across - 1 /\ c * KChunk <= x /\ x < c * KChunk + W(c)
        /\ r \in 0 .. down - 1 /\ r * KChunk <= z /\ z < r * KChunk + H(r)
    <3> HIDE DEF x, z
    <3> QED BY <1>2, <1>3, <2>2
  <2> HIDE DEF x, z, c, r
  <2>4. n \in 1 .. across * down
    <3>1. across * r >= 0 /\ across * r \in Int
      BY <1>2, <1>3, <2>3
    <3>2. across * r <= across * (down - 1)
      BY <1>2, <1>3, <2>3
    <3>3. across * (down - 1) = across * down - across
      BY <1>2, <1>3
    <3> QED BY <1>2, <1>3, <1>6, <2>3, <3>1, <3>2, <3>3
  <2>5. col(n) = c /\ row(n) = r
    <3>1. /\ row(n) \in Int /\ col(n) \in 0 .. across - 1 /\ n - 1 = across * row(n) + col(n)
      <4>1. row(n) \in Int /\ row(n) \in 0 .. down - 1 /\ col(n) \in 0 .. across - 1 /\ n = across * row(n) + col(n) + 1
        BY <1>3, <1>7, <2>4
      <4>2. across * row(n) \in Int /\ col(n) \in Int
        BY <1>2, <4>1
      <4> HIDE DEF n
      <4> QED BY <4>1, <4>2
    <3> DEFINE a == row(n)
               b == col(n)
    <3>2. a \in Int /\ b \in 0 .. across - 1 /\ across * r + c = across * a + b
      <4>1. across * r \in Int /\ c \in Int /\ n - 1 = across * r + c
        BY <1>2, <1>3, <2>3
      <4> HIDE DEF n
      <4> QED BY <3>1, <4>1
    <3> HIDE DEF a, b, n
    <3>3. across * (a - r) = c - b
      BY <1>2, <1>3, <2>3, <3>2
    <3> DEFINE d == a - r
    <3>4. d \in Int /\ across * d = c - b
      BY <1>3, <2>3, <3>2, <3>3
    <3> HIDE DEF d
    <3>5. d >= 1 => across * d >= across
      BY <1>2, <3>4
    <3>6. d <= -1 => across * d <= -across
      BY <1>2, <3>4
    <3>7. d = 0
      BY <1>2, <2>3, <3>2, <3>4, <3>5, <3>6
    <3>8. across * d = 0 /\ a = r
      BY <1>2, <1>3, <2>3, <3>2, <3>7 DEF d
    <3> QED BY <1>2, <2>3, <3>2, <3>4, <3>8 DEF a, b
  <2>6. <<p[1], p[2]>> \in Candidates(Pieces(t)[n])
    <3> HIDE DEF n
    <3>1. /\ col(n) * KChunk <= p[1] - t.x0 /\ p[1] - t.x0 < col(n) * KChunk + W(col(n))
          /\ row(n) * KChunk <= p[2] - t.z0 /\ p[2] - t.z0 < row(n) * KChunk + H(row(n))
      BY <2>3, <2>5 DEF x, z
    <3> QED BY <1>8, <2>1, <2>4, <3>1
  <2> HIDE DEF n
  <2> QED BY <2>1, <2>4, <2>6
<1>12. ASSUME NEW m \in 1 .. across * down, NEW n \in 1 .. across * down, m # n
       PROVE  Candidates(Pieces(t)[m]) \cap Candidates(Pieces(t)[n]) = {}
  <2> SUFFICES ASSUME NEW p \in Candidates(Pieces(t)[m]), p \in Candidates(Pieces(t)[n]) PROVE FALSE
    OBVIOUS
  <2>1. col(m) = col(n) /\ row(m) = row(n)
    BY <1>10
  <2>2. m = across * row(m) + col(m) + 1 /\ n = across * row(n) + col(n) + 1
    BY <1>7
  <2> QED BY <1>12, <2>1, <2>2
<1>13. UNION {Candidates(Pieces(t)[n]) : n \in 1 .. across * down} = Candidates(t)
  BY <1>10, <1>11
<1> QED BY <1>4, <1>12, <1>13

\* A piece has the matches of its tile that lie in it.
LEMMA PieceMatches ==
  ASSUME NEW j, NEW t \in TileSet, NEW n \in DOMAIN Pieces(t)
  PROVE  /\ Pieces(t)[n] \in Piece /\ Pieces(t)[n] \in TileSet
         /\ MatchesIn(j, Pieces(t)[n]) = {m \in MatchesIn(j, t) : <<m.x, m.z>> \in Candidates(Pieces(t)[n])}
<1> DEFINE u == Pieces(t)[n]
<1>1. u \in Piece /\ u \in TileSet
  <2>1. Pieces(t) \in Seq(Piece)
    BY PiecesType
  <2>2. u \in Piece
    BY <2>1
  <2> QED BY <2>2 DEF Piece
<1>2. Candidates(u) \subseteq Candidates(t)
  BY PiecesPart
<1> HIDE DEF u
<1>3. ASSUME NEW m \in MatchesIn(j, u) PROVE m \in MatchesIn(j, t) /\ <<m.x, m.z>> \in Candidates(u)
  <2>1. m = MatchOf(j, m.x, m.z) /\ <<m.x, m.z>> \in Candidates(u) /\ MaskOf(j, m.x, m.z) # {}
    BY <1>1, MatchFacts
  <2>2. MatchOf(j, m.x, m.z) \in MatchesIn(j, t)
    BY <1>2, <2>1, MatchFacts
  <2> QED BY <2>1, <2>2
<1>4. ASSUME NEW m \in MatchesIn(j, t), <<m.x, m.z>> \in Candidates(u) PROVE m \in MatchesIn(j, u)
  <2>1. m = MatchOf(j, m.x, m.z) /\ MaskOf(j, m.x, m.z) # {}
    BY MatchFacts
  <2>2. MatchOf(j, m.x, m.z) \in MatchesIn(j, u)
    BY <1>1, <1>4, <2>1, MatchFacts
  <2> QED BY <2>1, <2>2
<1> QED BY <1>1, <1>3, <1>4 DEF u

-----------------------------------------------------------------------------
(* The two queues                                                          *)

Command == [op : {"fill", "draw", "remap", "match"}, piece : TileSet, plane : Planes]
           \cup [op : {"zero"}]

\* A match follows the fill or the remap of its plane, a remap the draw of its rows.
Chained(q) ==
  \A n \in DOMAIN q : n > 1 =>
    /\ q[n].op = "match" => q[n - 1].op \in {"fill", "remap"} /\ q[n - 1].plane = q[n].plane
    /\ q[n].op = "remap" => q[n - 1].op = "draw" /\ q[n - 1].plane = q[n].plane

\* the halos of the plan on the device
Across == HaloOf(Reach(plan, 1))
Down == HaloOf(Reach(plan, 2))

AllFit(q) == \A n \in DOMAIN q : q[n].op # "zero" => Fits(job.edition, q[n].plane, Across, Down)

\* The types of the host's variables, the queues and the planes; a job with a
\* tile has its plan on the device.
TypeOK ==
  /\ job \in JobSet /\ (job.tiles # <<>> => PlanOK(plan))
  /\ begun \in Nat /\ begun <= Len(job.tiles) /\ (\E S : answers \in Seq(S))
  /\ next_begin \in Slots /\ next_end \in Slots
  /\ queue \in [Slots -> Seq(Command)]
  /\ raw \in [Slots -> Planes] /\ plane \in [Slots -> Planes]

Flight == begun - Len(answers)

\* The tiles in flight sit in the slots from next_end on, and no other has commands.
InTurn ==
  /\ Flight \in 0 .. kDepth
  /\ next_begin = (next_end + Flight) % kSlots
  /\ \A s \in Slots : queue[s] # <<>> => \E k \in 0 .. Flight - 1 : s = (next_end + k) % kSlots

\* The queue of slot s goes on from what the buffers of s hold.
QueueOK(s) ==
  /\ Chained(queue[s])
  /\ queue[s] # <<>> => /\ Head(queue[s]).op = "match" => plane[s] = Head(queue[s]).plane
                        /\ Head(queue[s]).op = "remap" => raw[s] = Head(queue[s]).plane

OpenclInv == /\ TypeOK /\ InTurn
             /\ \A s \in Slots : QueueOK(s) /\ AllFit(queue[s])

\* A slot counter wraps.
LEMMA SlotWraps ==
  ASSUME NEW s \in Slots
  PROVE  /\ kSlots \in Nat \ {0} /\ kDepth \in 0 .. kSlots /\ s % kSlots = s
         /\ \A k \in 0 .. kDepth : (s + k) % kSlots = IF s + k < kSlots THEN s + k ELSE s + k - kSlots
         /\ SlotAfter(s) = (IF s + 1 < kSlots THEN s + 1 ELSE 0) /\ SlotAfter(s) \in Slots
<1>1. kSlots \in Nat /\ 2 <= kSlots /\ s \in 0 .. kSlots - 1 /\ kDepth = 2
  BY SlotAssumption DEF kDepth, Slots
<1>2. ASSUME NEW a \in 0 .. 2 * kSlots - 1 PROVE a % kSlots = IF a < kSlots THEN a ELSE a - kSlots
  <2>1. a \div kSlots \in Int /\ a % kSlots \in 0 .. kSlots - 1 /\ a = kSlots * (a \div kSlots) + (a % kSlots)
    BY <1>1, DivMod
  <2> DEFINE q == a \div kSlots
             r == a % kSlots
  <2>2. q \in Int /\ r \in 0 .. kSlots - 1 /\ a = kSlots * q + r
    BY <2>1
  <2> HIDE DEF q, r
  <2>3. q >= 0
    <3>1. q < 0 => kSlots * q <= -kSlots
      BY <1>1, <2>2
    <3>2. kSlots * q \in Int
      BY <1>1, <2>2
    <3>3. QED
      BY <1>1, <2>2, <3>1, <3>2
  <2>4. q < 2
    <3>1. q >= 2 => kSlots * q >= 2 * kSlots
      BY <1>1, <2>2
    <3>2. kSlots * q \in Int
      BY <1>1, <2>2
    <3>3. QED
      BY <1>1, <2>2, <3>1, <3>2
  <2>5. q = 0 \/ q = 1
    BY <2>2, <2>3, <2>4
  <2>6. kSlots * 0 = 0 /\ kSlots * 1 = kSlots
    BY <1>1
  <2>7. r = IF a < kSlots THEN a ELSE a - kSlots
    BY <1>1, <2>2, <2>5, <2>6
  <2>8. QED
    BY <2>7 DEF r
<1>3. s \in 0 .. 2 * kSlots - 1 /\ \A k \in 0 .. kDepth : s + k \in 0 .. 2 * kSlots - 1
  BY <1>1
<1>4. /\ s % kSlots = s
      /\ \A k \in 0 .. kDepth : (s + k) % kSlots = IF s + k < kSlots THEN s + k ELSE s + k - kSlots
  BY <1>1, <1>2, <1>3
<1>5. SlotAfter(s) = (IF s + 1 < kSlots THEN s + 1 ELSE 0)
  <2>1. SlotAfter(s) = IF s + 1 < kSlots THEN s + 1 ELSE s + 1 - kSlots
    BY <1>1, <1>4 DEF SlotAfter
  <2>2. QED
    BY <1>1, <2>1
<1>6. SlotAfter(s) \in Slots
  BY <1>1, <1>5 DEF Slots
<1>7. QED
  BY <1>1, <1>4, <1>5, <1>6

\* The commands of a tile: the counter first, every plane drawn before it is
\* used, and every plane within its buffer.
LEMMA CommandsOK ==
  ASSUME NEW t \in TileSet, job \in JobSet, PlanOK(plan)
  PROVE  /\ Commands(t) \in Seq(Command) /\ Commands(t) # <<>> /\ Commands(t)[1].op = "zero"
         /\ Chained(Commands(t)) /\ AllFit(Commands(t))
<1> DEFINE Of(piece) ==
             LET pl == PlaneOf(job.edition, piece, Across, Down)
                 Cmd(op) == [op |-> op, piece |-> piece, plane |-> pl]
             IN IF job.edition = "java" \/ pl.near THEN <<Cmd("fill"), Cmd("match")>>
                ELSE <<Cmd("draw"), Cmd("remap"), Cmd("match")>>
           pieces == Pieces(t)
           all == [n \in DOMAIN pieces |-> Of(pieces[n])]
           G == {q \in Seq(Command) : /\ Chained(q) /\ AllFit(q)
                                      /\ q # <<>> => q[1].op \in {"fill", "draw"}}
<1>1. Across \in Nat /\ Down \in Nat /\ job.edition \in {"java", "bedrock"}
  BY ReachType DEF Across, Down, JobSet
<1>2. pieces \in Seq(Piece)
  BY PiecesType
<1>3. ASSUME NEW piece \in Piece PROVE Of(piece) \in G
  <2> DEFINE pl == PlaneOf(job.edition, piece, Across, Down)
             Cmd(op) == [op |-> op, piece |-> piece, plane |-> pl]
  <2>1. pl \in Planes /\ Fits(job.edition, pl, Across, Down)
    BY <1>1, PlaneFits
  <2> HIDE DEF pl
  <2>2. \A op \in {"fill", "draw", "remap", "match"} : Cmd(op) \in Command
    BY <2>1 DEF Command, Piece
  <2>3. CASE job.edition = "java" \/ pl.near
    <3> DEFINE q == <<Cmd("fill"), Cmd("match")>>
    <3>1. Of(piece) = q
      BY <2>3 DEF pl
    <3>2. /\ q \in Seq(Command) /\ DOMAIN q = 1 .. 2 /\ q # <<>>
          /\ q[1].op = "fill" /\ q[2].op = "match" /\ q[1].plane = pl /\ q[2].plane = pl
      BY <2>2
    <3> HIDE DEF q
    <3>3. Chained(q)
      BY <3>2 DEF Chained
    <3>4. AllFit(q)
      BY <2>1, <3>2 DEF AllFit
    <3>5. QED
      BY <3>1, <3>2, <3>3, <3>4
  <2>4. CASE ~ (job.edition = "java" \/ pl.near)
    <3> DEFINE q == <<Cmd("draw"), Cmd("remap"), Cmd("match")>>
    <3>1. Of(piece) = q
      BY <2>4 DEF pl
    <3>2. /\ q \in Seq(Command) /\ DOMAIN q = 1 .. 3 /\ q # <<>>
          /\ q[1].op = "draw" /\ q[2].op = "remap" /\ q[3].op = "match"
          /\ q[1].plane = pl /\ q[2].plane = pl /\ q[3].plane = pl
      BY <2>2
    <3> HIDE DEF q
    <3>3. Chained(q)
      BY <3>2 DEF Chained
    <3>4. AllFit(q)
      BY <2>1, <3>2 DEF AllFit
    <3>5. QED
      BY <3>1, <3>2, <3>3, <3>4
  <2>5. QED
    BY <2>3, <2>4
<1>4. all \in Seq(G)
  <2> HIDE DEF Of, G, pieces
  <2>1. DOMAIN pieces = 1 .. Len(pieces) /\ Len(pieces) \in Nat /\ \A n \in DOMAIN pieces : pieces[n] \in Piece
    BY <1>2
  <2>2. \A n \in DOMAIN pieces : Of(pieces[n]) \in G
    BY <1>3, <2>1
  <2>3. QED
    BY <2>1, <2>2
<1>5. ASSUME NEW p \in G, NEW q \in G PROVE p \o q \in G
  <2>1. /\ p \in Seq(Command) /\ q \in Seq(Command) /\ p \o q \in Seq(Command)
        /\ Len(p) \in Nat /\ Len(q) \in Nat /\ DOMAIN (p \o q) = 1 .. Len(p) + Len(q)
        /\ DOMAIN p = 1 .. Len(p) /\ DOMAIN q = 1 .. Len(q)
        /\ \A n \in 1 .. Len(p) : (p \o q)[n] = p[n]
        /\ \A n \in Len(p) + 1 .. Len(p) + Len(q) : (p \o q)[n] = q[n - Len(p)]
    OBVIOUS
  <2>2. Chained(p) /\ Chained(q) /\ AllFit(p) /\ AllFit(q)
    OBVIOUS
  <2>3. (p # <<>> => p[1].op \in {"fill", "draw"}) /\ (q # <<>> => q[1].op \in {"fill", "draw"})
    OBVIOUS
  <2> DEFINE pq == p \o q
  <2> HIDE DEF pq, G
  <2>4. AllFit(pq)
    <3>1. ASSUME NEW n \in DOMAIN pq, pq[n].op # "zero" PROVE Fits(job.edition, pq[n].plane, Across, Down)
      <4>1. CASE n <= Len(p)
        BY <2>1, <2>2, <3>1, <4>1 DEF AllFit, pq
      <4>2. CASE n > Len(p)
        <5>1. n - Len(p) \in DOMAIN q /\ pq[n] = q[n - Len(p)]
          BY <2>1, <4>2 DEF pq
        <5>2. QED
          BY <2>2, <3>1, <5>1 DEF AllFit
      <4>3. QED
        BY <2>1, <4>1, <4>2 DEF pq
    <3>2. QED
      BY <3>1 DEF AllFit
  <2>5. Chained(pq)
    <3>1. ASSUME NEW n \in DOMAIN pq, n > 1
          PROVE  /\ pq[n].op = "match" => pq[n - 1].op \in {"fill", "remap"} /\ pq[n - 1].plane = pq[n].plane
                 /\ pq[n].op = "remap" => pq[n - 1].op = "draw" /\ pq[n - 1].plane = pq[n].plane
      <4>1. CASE n <= Len(p)
        <5>1. n \in DOMAIN p /\ pq[n] = p[n] /\ pq[n - 1] = p[n - 1]
          BY <2>1, <3>1, <4>1 DEF pq
        <5>2. QED
          BY <2>2, <3>1, <5>1 DEF Chained
      <4>2. CASE n = Len(p) + 1
        <5>1. q # <<>> /\ pq[n] = q[1]
          BY <2>1, <4>2 DEF pq
        <5>2. QED
          BY <2>3, <5>1
      <4>3. CASE n > Len(p) + 1
        <5>1. /\ n - Len(p) \in DOMAIN q /\ n - Len(p) > 1 /\ pq[n] = q[n - Len(p)]
              /\ pq[n - 1] = q[(n - 1) - Len(p)] /\ (n - 1) - Len(p) = (n - Len(p)) - 1
          BY <2>1, <4>3 DEF pq
        <5>2. QED
          BY <2>2, <5>1 DEF Chained
      <4>4. n \in Int /\ Len(p) \in Int
        BY <2>1 DEF pq
      <4>5. QED
        BY <4>1, <4>2, <4>3, <4>4
    <3>2. QED
      BY <3>1 DEF Chained
  <2>6. pq # <<>> => pq[1].op \in {"fill", "draw"}
    <3>1. CASE p = <<>>
      BY <2>1, <2>3, <3>1 DEF pq
    <3>2. CASE p # <<>>
      BY <2>1, <2>3, <3>2 DEF pq
    <3>3. QED
      BY <3>1, <3>2
  <2>7. QED
    BY <2>1, <2>4, <2>5, <2>6 DEF pq, G
<1>6. <<>> \in G
  BY DEF Chained, AllFit
<1>7. FlattenSeq(all) \in G
  <2> HIDE DEF all, G
  <2>1. QED
    BY <1>4, <1>5, <1>6, FlattenIn
<1>8. Commands(t) = <<[op |-> "zero"]>> \o FlattenSeq(all)
  BY DEF Commands, Across, Down
<1> DEFINE q == FlattenSeq(all)
           c == <<[op |-> "zero"]>> \o q
<1>9. q \in Seq(Command) /\ Chained(q) /\ AllFit(q) /\ (q # <<>> => q[1].op \in {"fill", "draw"})
  <2> HIDE DEF all
  <2>1. QED
    BY <1>7
<1> HIDE DEF all, q
<1>10. /\ c \in Seq(Command) /\ c # <<>> /\ c[1].op = "zero" /\ Len(q) \in Nat
       /\ DOMAIN c = 1 .. Len(q) + 1 /\ DOMAIN q = 1 .. Len(q)
       /\ \A n \in 2 .. Len(q) + 1 : c[n] = q[n - 1]
  <2>1. [op |-> "zero"] \in Command
    BY DEF Command
  <2>2. <<[op |-> "zero"]>> \in Seq(Command) /\ Len(<<[op |-> "zero"]>>) = 1
    BY <2>1
  <2>3. QED
    BY <1>9, <2>2
<1> HIDE DEF c
<1>11. AllFit(c)
  <2>1. ASSUME NEW n \in DOMAIN c, c[n].op # "zero" PROVE n - 1 \in DOMAIN q /\ c[n] = q[n - 1]
    BY <1>10, <2>1
  <2>2. QED
    BY <1>9, <2>1 DEF AllFit
<1>12. Chained(c)
  <2>1. ASSUME NEW n \in DOMAIN c, n > 1
        PROVE  /\ c[n].op = "match" => c[n - 1].op \in {"fill", "remap"} /\ c[n - 1].plane = c[n].plane
               /\ c[n].op = "remap" => c[n - 1].op = "draw" /\ c[n - 1].plane = c[n].plane
    <3>1. CASE n = 2
      <4>1. c[n] = q[1] /\ q # <<>>
        BY <1>10, <3>1
      <4>2. QED
        BY <1>9, <4>1
    <3>2. CASE n > 2
      <4>1. n - 1 \in DOMAIN q /\ n - 1 > 1 /\ c[n] = q[n - 1] /\ c[n - 1] = q[(n - 1) - 1]
        BY <1>10, <3>2
      <4>2. QED
        BY <1>9, <4>1 DEF Chained
    <3>3. QED
      BY <1>10, <2>1, <3>1, <3>2
  <2>2. QED
    BY <2>1 DEF Chained
<1>13. QED
  BY <1>8, <1>10, <1>11, <1>12 DEF c, q

-----------------------------------------------------------------------------
(* The two queues take turns                                               *)

\* Before the first configure() nothing is queued.
LEMMA InitOK ==
  ASSUME Init
  PROVE  OpenclInv
<1>1. job \in JobSet /\ job.tiles = <<>>
  BY DEF Init, NoJob, JobSet
<1>2. 0 \in Slots /\ Len(answers) = 0 /\ answers \in Seq({}) /\ 0 % kSlots = 0
  <2>1. kSlots \in Nat /\ 2 <= kSlots
    BY SlotAssumption DEF kDepth
  <2>2. 0 \in Slots
    BY <2>1 DEF Slots
  <2>3. QED
    BY <2>2, SlotWraps DEF Init
<1>3. Blank \in Planes
  BY DEF Blank, Planes
<1>4. TypeOK
  <2>1. begun \in Nat /\ begun <= Len(job.tiles)
    BY <1>1 DEF Init
  <2>2. (\E S : answers \in Seq(S)) /\ next_begin \in Slots /\ next_end \in Slots
    BY <1>2 DEF Init
  <2>3. queue \in [Slots -> Seq(Command)] /\ raw \in [Slots -> Planes] /\ plane \in [Slots -> Planes]
    BY <1>3 DEF Init
  <2>4. QED
    BY <1>1, <2>1, <2>2, <2>3 DEF TypeOK
<1>5. Flight = 0
  BY <1>2 DEF Init, Flight
<1>6. InTurn
  BY <1>2, <1>5 DEF InTurn, Init, kDepth
<1>7. \A s \in Slots : QueueOK(s) /\ AllFit(queue[s])
  BY DEF Init, QueueOK, Chained, AllFit
<1>8. QED
  BY <1>4, <1>6, <1>7 DEF OpenclInv

\* configure() finds every queue empty, and takes both slots back to the first.
LEMMA ConfigureOK ==
  ASSUME OpenclInv, NEW j \in Jobs, NEW compiles \in BOOLEAN, Configure(j, compiles)
  PROVE  OpenclInv'
<1> USE DEF OpenclInv
<1>1. begun = Len(answers) /\ job' = j /\ begun' = 0 /\ answers' = <<>> /\ queue' = queue
      /\ next_begin' = 0 /\ next_end' = 0 /\ plan' = BuildSearchPlan(j.knowns, j.rare, j.all)
      /\ raw' = [s \in Slots |-> Blank] /\ plane' = [s \in Slots |-> Blank]
  BY DEF Configure
<1>2. \A s \in Slots : queue[s] = <<>>
  <2>1. Flight = 0
    BY <1>1 DEF TypeOK, Flight
  <2>2. QED
    BY <2>1 DEF InTurn
<1>3. j \in JobSet /\ IsPattern(j.knowns) /\ j.all \in BOOLEAN
  BY JobAssumption DEF IsJob, JobSet
<1>4. PlanOK(plan')
  <2>1. PlanOK(BuildSearchPlan(j.knowns, j.rare, j.all))
    BY <1>3, PlanBuilt
  <2>2. QED
    BY <1>1, <2>1
<1>5. 0 \in Slots /\ 0 % kSlots = 0
  <2>1. 0 \in Slots
    BY SlotAssumption DEF kDepth, Slots
  <2>2. QED
    BY <2>1, SlotWraps
<1>6. TypeOK'
  <2>1. Blank \in Planes
    BY DEF Blank, Planes
  <2>2. Len(j.tiles) \in Nat
    BY <1>3 DEF JobSet
  <2>3. job' \in JobSet /\ (job'.tiles # <<>> => PlanOK(plan'))
    BY <1>1, <1>3, <1>4
  <2>4. begun' \in Nat /\ begun' <= Len(job'.tiles)
    BY <1>1, <2>2
  <2>5. \E S : answers' \in Seq(S)
    <3>1. answers' \in Seq({})
      BY <1>1
    <3>2. QED
      BY <3>1
  <2>6. queue' \in [Slots -> Seq(Command)] /\ raw' \in [Slots -> Planes] /\ plane' \in [Slots -> Planes]
    BY <1>1, <2>1 DEF TypeOK
  <2>7. QED
    BY <1>1, <1>5, <2>3, <2>4, <2>5, <2>6 DEF TypeOK
<1>7. InTurn'
  <2>1. Flight' = 0
    <3>1. Len(answers') = 0 /\ begun' = 0
      BY <1>1
    <3>2. QED
      BY <3>1 DEF Flight
  <2>2. QED
    BY <1>1, <1>2, <1>5, <2>1 DEF InTurn, kDepth
<1>8. \A s \in Slots : QueueOK(s)' /\ AllFit(queue[s])'
  BY <1>1, <1>2 DEF QueueOK, Chained, AllFit
<1>9. QED
  BY <1>6, <1>7, <1>8

\* begin_tile() finds the queue of its slot empty.
LEMMA BeginOK ==
  ASSUME OpenclInv, BeginTile
  PROVE  OpenclInv'
<1> USE DEF OpenclInv
<1> DEFINE t == job.tiles[begun + 1]
<1>1. /\ begun < Len(job.tiles) /\ begun - Len(answers) < kDepth
      /\ queue' = [queue EXCEPT ![next_begin] = @ \o Commands(t)]
      /\ next_begin' = SlotAfter(next_begin) /\ begun' = begun + 1
      /\ UNCHANGED <<job, answers, plan, next_end, raw, plane>>
  BY DEF BeginTile
<1>2. /\ job \in JobSet /\ (job.tiles # <<>> => PlanOK(plan)) /\ begun \in Nat /\ Len(answers) \in Nat
      /\ next_begin \in Slots /\ next_end \in Slots /\ queue \in [Slots -> Seq(Command)]
  BY DEF TypeOK
<1>3. t \in TileSet /\ PlanOK(plan)
  <2>1. job.tiles \in Seq(TileSet)
    BY <1>2 DEF JobSet
  <2>2. begun + 1 \in 1 .. Len(job.tiles) /\ job.tiles # <<>>
    BY <1>1, <1>2, <2>1
  <2>3. QED
    BY <1>2, <2>1, <2>2
<1>4. Flight \in 0 .. kDepth - 1 /\ Flight' = Flight + 1
  BY <1>1, <1>2 DEF Flight, InTurn, kDepth
<1>5. kSlots \in Nat /\ kDepth <= kSlots /\ next_begin \in 0 .. kSlots - 1 /\ next_end \in 0 .. kSlots - 1
  BY <1>2, SlotAssumption DEF Slots
<1>6. \A k \in 0 .. kDepth : (next_end + k) % kSlots =
                               IF next_end + k < kSlots THEN next_end + k ELSE next_end + k - kSlots
  BY <1>2, SlotWraps
<1>7. next_begin = (next_end + Flight) % kSlots
  BY DEF InTurn
<1>8. queue[next_begin] = <<>>
  <2>1. ASSUME NEW k \in 0 .. Flight - 1 PROVE next_begin # (next_end + k) % kSlots
    <3>1. k \in 0 .. kDepth /\ Flight \in 0 .. kDepth /\ k < Flight /\ Flight - k < kSlots
      BY <1>4, <1>5 DEF kDepth
    <3>2. QED
      BY <1>4, <1>5, <1>6, <1>7, <3>1
  <2>2. QED
    BY <1>2, <2>1 DEF InTurn
<1> HIDE DEF t
<1>9. /\ Commands(t) \in Seq(Command) /\ Commands(t) # <<>> /\ Commands(t)[1].op = "zero"
      /\ Chained(Commands(t)) /\ AllFit(Commands(t))
  BY <1>2, <1>3, CommandsOK
<1>10. /\ queue' \in [Slots -> Seq(Command)] /\ queue'[next_begin] = Commands(t)
       /\ \A s \in Slots : s # next_begin => queue'[s] = queue[s]
  <2>1. queue[next_begin] \o Commands(t) = Commands(t)
    BY <1>8, <1>9
  <2>2. QED
    BY <1>1, <1>2, <1>9, <2>1
<1>11. next_begin' \in Slots /\ next_begin' = (next_end + Flight') % kSlots
  <2>1. next_begin' \in Slots /\ next_begin' = IF next_begin + 1 < kSlots THEN next_begin + 1 ELSE 0
    BY <1>1, <1>2, SlotWraps
  <2>2. Flight + 1 \in 0 .. kDepth /\ Flight \in 0 .. kDepth
    BY <1>4 DEF kDepth
  <2>3. QED
    BY <1>4, <1>5, <1>6, <1>7, <2>1, <2>2
<1>12. TypeOK'
  <2>1. begun' \in Nat /\ begun' <= Len(job'.tiles)
    <3>1. Len(job.tiles) \in Nat
      BY <1>2 DEF JobSet
    <3>2. QED
      BY <1>1, <1>2, <3>1
  <2>2. QED
    BY <1>1, <1>10, <1>11, <2>1 DEF TypeOK
<1>13. InTurn'
  <2>1. ASSUME NEW s \in Slots, queue'[s] # <<>>
        PROVE  \E k \in 0 .. Flight' - 1 : s = (next_end' + k) % kSlots
    <3>1. CASE s = next_begin
      <4>1. Flight \in 0 .. Flight' - 1
        BY <1>4 DEF kDepth
      <4>2. QED
        BY <1>1, <1>7, <3>1, <4>1
    <3>2. CASE s # next_begin
      <4>1. PICK k \in 0 .. Flight - 1 : s = (next_end + k) % kSlots
        BY <1>10, <2>1, <3>2 DEF InTurn
      <4>2. k \in 0 .. Flight' - 1
        BY <1>4 DEF kDepth
      <4>3. QED
        BY <1>1, <4>1, <4>2
    <3>3. QED
      BY <3>1, <3>2
  <2>2. Flight' \in 0 .. kDepth
    BY <1>4 DEF kDepth
  <2>3. QED
    BY <1>1, <1>11, <2>1, <2>2 DEF InTurn
<1>14. ASSUME NEW s \in Slots PROVE QueueOK(s)' /\ AllFit(queue[s])'
  <2>1. CASE s = next_begin
    <3>1. Head(queue'[s]).op = "zero" /\ Chained(queue'[s])
      BY <1>9, <1>10, <2>1
    <3>2. AllFit(queue[s])'
      BY <1>1, <1>9, <1>10, <2>1 DEF AllFit, Across, Down
    <3>3. Head(queue'[s]).op \notin {"match", "remap"}
      BY <3>1
    <3>4. QueueOK(s)'
      BY <3>1, <3>3 DEF QueueOK
    <3>5. QED
      BY <3>2, <3>4
  <2>2. CASE s # next_begin
    <3>1. queue'[s] = queue[s]
      BY <1>10, <2>2
    <3>2. AllFit(queue[s])'
      BY <1>1, <3>1 DEF AllFit, Across, Down
    <3>3. QueueOK(s) /\ raw'[s] = raw[s] /\ plane'[s] = plane[s]
      BY <1>1
    <3>4. QueueOK(s)'
      BY <3>1, <3>3 DEF QueueOK
    <3>5. QED
      BY <3>2, <3>4
  <2>3. QED
    BY <2>1, <2>2
<1>15. QED
  BY <1>12, <1>13, <1>14

\* end_tile() leaves the slot it found run dry.
LEMMA EndOK ==
  ASSUME OpenclInv, EndTile
  PROVE  OpenclInv'
<1> USE DEF OpenclInv
<1>1. /\ Len(answers) < begun /\ queue[next_end] = <<>> /\ next_end' = SlotAfter(next_end)
      /\ UNCHANGED <<job, begun, plan, next_begin, queue, raw, plane>>
  BY DEF EndTile
<1>2. PICK x : answers' = Append(answers, x)
  BY DEF EndTile
<1>3. /\ (\E S : answers' \in Seq(S)) /\ Len(answers') = Len(answers) + 1 /\ Len(answers) \in Nat
  <2>1. PICK S : answers \in Seq(S)
    BY DEF TypeOK
  <2>2. Append(answers, x) \in Seq(S \cup {x})
    BY <2>1
  <2>3. Len(Append(answers, x)) = Len(answers) + 1 /\ Len(answers) \in Nat
    BY <2>1
  <2>4. QED
    BY <1>2, <2>2, <2>3
<1>4. begun \in Nat /\ next_begin \in Slots /\ next_end \in Slots
  BY DEF TypeOK
<1>5. Flight \in 1 .. kDepth /\ Flight' = Flight - 1
  BY <1>1, <1>3, <1>4 DEF Flight, InTurn, kDepth
<1>6. kSlots \in Nat /\ kDepth <= kSlots /\ next_end \in 0 .. kSlots - 1 /\ kDepth = 2
  BY <1>4, SlotAssumption DEF Slots, kDepth
<1>7. next_end' \in Slots /\ next_end' = IF next_end + 1 < kSlots THEN next_end + 1 ELSE 0
  BY <1>1, <1>4, SlotWraps
<1>8. ASSUME NEW k \in 1 .. kDepth PROVE (next_end' + (k - 1)) % kSlots = (next_end + k) % kSlots
  <2>1. (next_end + k) % kSlots = IF next_end + k < kSlots THEN next_end + k ELSE next_end + k - kSlots
    <3>1. k \in 0 .. kDepth
      BY <1>6
    <3>2. QED
      BY <1>4, <3>1, SlotWraps
  <2>2. (next_end' + (k - 1)) % kSlots =
          IF next_end' + (k - 1) < kSlots THEN next_end' + (k - 1) ELSE next_end' + (k - 1) - kSlots
    <3>1. k - 1 \in 0 .. kDepth
      BY <1>6
    <3>2. QED
      BY <1>7, <3>1, SlotWraps
  <2>3. QED
    BY <1>6, <1>7, <2>1, <2>2
<1>9. TypeOK'
  BY <1>1, <1>3, <1>7 DEF TypeOK
<1>10. InTurn'
  <2>1. next_begin' = (next_end' + Flight') % kSlots
    BY <1>1, <1>5, <1>8 DEF InTurn
  <2>2. ASSUME NEW s \in Slots, queue'[s] # <<>>
        PROVE  \E k \in 0 .. Flight' - 1 : s = (next_end' + k) % kSlots
    <3>1. PICK k \in 0 .. Flight - 1 : s = (next_end + k) % kSlots
      BY <1>1, <2>2 DEF InTurn
    <3>2. k # 0
      <4>1. next_end % kSlots = next_end /\ next_end + 0 = next_end
        BY <1>4, <1>6, SlotWraps
      <4>2. QED
        BY <1>1, <2>2, <3>1, <4>1
    <3>3. k \in 1 .. kDepth /\ k - 1 \in 0 .. Flight' - 1
      BY <1>5, <1>6, <3>2
    <3>4. QED
      BY <1>8, <3>1, <3>3
  <2>3. Flight' \in 0 .. kDepth
    BY <1>5, <1>6
  <2>4. QED
    BY <2>1, <2>2, <2>3 DEF InTurn
<1>11. \A s \in Slots : QueueOK(s)' /\ AllFit(queue[s])'
  BY <1>1 DEF QueueOK, Chained, AllFit, Across, Down
<1>12. QED
  BY <1>9, <1>10, <1>11

\* Running a command leaves the plane, or the rows, that the next one needs.
LEMMA RunOK ==
  ASSUME OpenclInv, NEW s \in Slots, Run(s)
  PROVE  OpenclInv'
<1> USE DEF OpenclInv
<1> DEFINE c == Head(queue[s])
<1>1. /\ queue[s] # <<>> /\ queue' = [queue EXCEPT ![s] = Tail(@)]
      /\ UNCHANGED <<job, begun, answers, plan, next_begin, next_end>>
  BY DEF Run, Zero, Fill, Draw, Remap, Match, Takes, worker
<1>2. /\ queue \in [Slots -> Seq(Command)] /\ raw \in [Slots -> Planes] /\ plane \in [Slots -> Planes]
  BY DEF TypeOK
<1>3. /\ queue[s] \in Seq(Command) /\ c = queue[s][1] /\ c \in Command
      /\ Tail(queue[s]) \in Seq(Command) /\ Len(queue[s]) \in Nat \ {0}
      /\ DOMAIN Tail(queue[s]) = 1 .. Len(queue[s]) - 1 /\ DOMAIN queue[s] = 1 .. Len(queue[s])
      /\ \A n \in DOMAIN Tail(queue[s]) : Tail(queue[s])[n] = queue[s][n + 1]
  <2>1. queue[s] \in Seq(Command)
    BY <1>2
  <2>2. QED
    BY <1>1, <2>1
<1>4. /\ queue' \in [Slots -> Seq(Command)] /\ queue'[s] = Tail(queue[s])
      /\ \A r \in Slots : r # s => queue'[r] = queue[r]
  BY <1>1, <1>2, <1>3
<1> HIDE DEF c
<1>5. c.op # "zero" => c.plane \in Planes
  BY <1>3 DEF Command
<1>6. \/ c.op = "zero" /\ UNCHANGED <<raw, plane>>
      \/ c.op = "fill" /\ raw' = raw /\ plane' = [plane EXCEPT ![s] = c.plane]
      \/ c.op = "draw" /\ plane' = plane /\ raw' = [raw EXCEPT ![s] = c.plane]
      \/ c.op = "remap" /\ raw' = raw /\ plane' = [plane EXCEPT ![s] = raw[s]]
      \/ c.op = "match" /\ UNCHANGED <<raw, plane>>
  BY DEF Run, Zero, Fill, Draw, Remap, Match, Takes, c
<1>7. raw' \in [Slots -> Planes] /\ plane' \in [Slots -> Planes]
  BY <1>2, <1>5, <1>6
<1>8. \A r \in Slots : r # s => raw'[r] = raw[r] /\ plane'[r] = plane[r]
  BY <1>2, <1>6
<1>9. /\ c.op \in {"fill", "remap"} => plane'[s] = c.plane
      /\ c.op = "draw" => raw'[s] = c.plane
  <2>1. c.op = "remap" => raw[s] = c.plane
    BY <1>1 DEF QueueOK, c
  <2>2. QED
    BY <1>2, <1>6, <2>1
<1>10. TypeOK'
  BY <1>1, <1>4, <1>7 DEF TypeOK
<1>11. InTurn'
  <2>1. \A r \in Slots : queue'[r] # <<>> => queue[r] # <<>>
    BY <1>1, <1>4
  <2>2. QED
    BY <1>1, <2>1 DEF InTurn, Flight
<1>12. ASSUME NEW r \in Slots PROVE QueueOK(r)' /\ AllFit(queue[r])'
  <2>1. CASE r # s
    <3>1. queue'[r] = queue[r] /\ raw'[r] = raw[r] /\ plane'[r] = plane[r]
      BY <1>4, <1>8, <2>1
    <3>2. AllFit(queue[r])'
      BY <1>1, <3>1 DEF AllFit, Across, Down
    <3>3. QED
      BY <3>1, <3>2 DEF QueueOK, Chained
  <2>2. CASE r = s
    <3> DEFINE q == queue[s]
               u == Tail(q)
    <3>1. Chained(q) /\ AllFit(q)
      BY DEF QueueOK
    <3>2. /\ q \in Seq(Command) /\ c = q[1] /\ Len(q) \in Nat \ {0} /\ u \in Seq(Command)
          /\ DOMAIN u = 1 .. Len(q) - 1 /\ DOMAIN q = 1 .. Len(q)
          /\ \A n \in DOMAIN u : u[n] = q[n + 1]
      BY <1>3
    <3>3. queue'[s] = u
      BY <1>4
    <3> HIDE DEF q, u
    <3>4. Chained(u)
      <4>1. ASSUME NEW n \in DOMAIN u, n > 1
            PROVE  /\ u[n].op = "match" => u[n - 1].op \in {"fill", "remap"} /\ u[n - 1].plane = u[n].plane
                   /\ u[n].op = "remap" => u[n - 1].op = "draw" /\ u[n - 1].plane = u[n].plane
        <5>1. /\ n + 1 \in DOMAIN q /\ n + 1 > 1 /\ u[n] = q[n + 1]
              /\ n - 1 \in DOMAIN u /\ u[n - 1] = q[(n - 1) + 1] /\ (n - 1) + 1 = (n + 1) - 1
          BY <3>2, <4>1
        <5>2. QED
          BY <3>1, <5>1 DEF Chained
      <4>2. QED
        BY <4>1 DEF Chained
    <3>5. AllFit(u)
      <4>1. \A n \in DOMAIN u : n + 1 \in DOMAIN q /\ u[n] = q[n + 1]
        BY <3>2
      <4>2. QED
        BY <3>1, <4>1 DEF AllFit
    <3>6. ASSUME u # <<>>
          PROVE  /\ u[1].op = "match" => plane'[s] = u[1].plane
                 /\ u[1].op = "remap" => raw'[s] = u[1].plane
      <4>1. 1 \in DOMAIN u /\ 2 \in DOMAIN q /\ u[1] = q[2]
        BY <3>2, <3>6
      <4>2. /\ q[2].op = "match" => q[2 - 1].op \in {"fill", "remap"} /\ q[2 - 1].plane = q[2].plane
            /\ q[2].op = "remap" => q[2 - 1].op = "draw" /\ q[2 - 1].plane = q[2].plane
        BY <3>1, <4>1 DEF Chained
      <4>3. /\ u[1].op = "match" => c.op \in {"fill", "remap"} /\ c.plane = u[1].plane
            /\ u[1].op = "remap" => c.op = "draw" /\ c.plane = u[1].plane
        BY <3>2, <4>1, <4>2
      <4>4. QED
        BY <1>9, <4>3
    <3>7. AllFit(queue[r])'
      BY <1>1, <2>2, <3>3, <3>5 DEF AllFit, Across, Down
    <3>8. u # <<>> => Head(u) = u[1]
      BY <3>2
    <3>9. QED
      BY <2>2, <3>3, <3>4, <3>6, <3>7, <3>8 DEF QueueOK, Chained
  <2>3. QED
    BY <2>1, <2>2
<1>13. QED
  BY <1>10, <1>11, <1>12

\* The invariant of OpenclWorker: tiles in flight and queues are in turn, every
\* queue goes on from what its buffers hold, and every plane in one fits.
THEOREM OpenclInvariant == Spec => []OpenclInv
<1>1. Init => OpenclInv
  BY InitOK
<1>2. OpenclInv /\ [Next]_vars => OpenclInv'
  <2>1. SUFFICES ASSUME OpenclInv, [Next]_vars
                 PROVE  OpenclInv'
    OBVIOUS
  <2>2. CASE \E j \in Jobs, compiles \in BOOLEAN : Configure(j, compiles)
    BY <2>1, <2>2, ConfigureOK
  <2>3. CASE BeginTile
    BY <2>1, <2>3, BeginOK
  <2>4. CASE EndTile
    BY <2>1, <2>4, EndOK
  <2>5. CASE \E s \in Slots : Run(s)
    BY <2>1, <2>5, RunOK
  <2>6. CASE UNCHANGED vars
    BY <2>1, <2>6 DEF OpenclInv, TypeOK, InTurn, Flight, QueueOK, Chained, AllFit, Across, Down,
                      vars, worker, device
  <2>7. QED
    BY <2>1, <2>2, <2>3, <2>4, <2>5, <2>6 DEF Next, Work
<1>3. QED
  BY <1>1, <1>2, PTL DEF Spec

\* The tiles in flight sit in different slots, the oldest at next_end; a match
\* kernel finds the plane of its own piece in the slot's only buffer, and a remap
\* its own rows (opencl_worker.cpp:407-408).
THEOREM SlotsStayInTurn == Spec => []SlotsInTurn
<1>1. OpenclInv => SlotsInTurn
  <2>1. SUFFICES ASSUME OpenclInv
                 PROVE  SlotsInTurn
    OBVIOUS
  <2>2. /\ next_end \in Slots /\ next_begin \in Slots /\ Flight \in 0 .. kDepth
        /\ next_begin = (next_end + Flight) % kSlots
    BY <2>1 DEF OpenclInv, TypeOK, InTurn
  <2>3. kSlots \in Nat /\ kDepth = 2 /\ 2 <= kSlots /\ next_end \in 0 .. kSlots - 1 /\ next_begin \in 0 .. kSlots - 1
    BY <2>2, SlotAssumption DEF Slots, kDepth
  <2>4. next_begin = IF next_end + Flight < kSlots THEN next_end + Flight ELSE next_end + Flight - kSlots
    BY <2>2, SlotWraps
  <2>5. (next_begin - next_end) % kSlots = Flight % kSlots
    <3>1. Flight < kSlots => Flight % kSlots = Flight
      <4>1. Flight < kSlots => Flight \in Slots
        BY <2>2, <2>3 DEF Slots
      <4>2. QED
        BY <4>1, SlotWraps
    <3>2. CASE next_end + Flight < kSlots
      <4>1. next_begin - next_end = Flight
        BY <2>2, <2>3, <2>4, <3>2
      <4>2. QED
        BY <4>1
    <3>3. CASE ~ (next_end + Flight < kSlots)
      <4>1. next_begin - next_end = Flight - kSlots
        BY <2>2, <2>3, <2>4, <3>3
      <4> DEFINE f == Flight - kSlots
      <4>2. f \in -kSlots .. 0
        BY <2>2, <2>3
      <4>3. /\ f \div kSlots \in Int /\ f % kSlots \in 0 .. kSlots - 1 /\ f = kSlots * (f \div kSlots) + (f % kSlots)
            /\ Flight \div kSlots \in Int /\ Flight % kSlots \in 0 .. kSlots - 1
            /\ Flight = kSlots * (Flight \div kSlots) + (Flight % kSlots)
        <5>1. f \in Int /\ Flight \in Int /\ kSlots \in Nat \ {0}
          BY <2>2, <2>3, <4>2
        <5>2. QED
          BY <5>1, DivMod
      <4> DEFINE q1 == f \div kSlots
                 r1 == f % kSlots
                 q2 == Flight \div kSlots
                 r2 == Flight % kSlots
      <4>4. /\ q1 \in Int /\ q2 \in Int /\ r1 \in 0 .. kSlots - 1 /\ r2 \in 0 .. kSlots - 1
            /\ Flight - kSlots = kSlots * q1 + r1 /\ Flight = kSlots * q2 + r2
        BY <4>3
      <4>5. r1 = r2
        <5> HIDE DEF q1, q2, r1, r2
        <5>1. kSlots * (q2 - q1 - 1) = r1 - r2
          BY <2>3, <4>4
        <5> DEFINE d == q2 - q1 - 1
        <5>2. d \in Int /\ kSlots * d = r1 - r2
          BY <4>4, <5>1
        <5> HIDE DEF d
        <5>3. d >= 1 => kSlots * d >= kSlots
          BY <2>3, <5>2
        <5>4. d <= -1 => kSlots * d <= -kSlots
          BY <2>3, <5>2
        <5>5. d = 0
          BY <2>3, <4>4, <5>2, <5>3, <5>4
        <5>6. QED
          BY <2>3, <4>4, <5>2, <5>5
      <4>6. QED
        BY <4>1, <4>5
    <3>4. QED
      BY <3>2, <3>3
  <2>6. Flight \in 0 .. kSlots
    BY <2>2, <2>3
  <2>7. QED
    BY <2>1, <2>5, <2>6 DEF SlotsInTurn, OpenclInv, InTurn, QueueOK, Flight
<1>2. QED
  BY <1>1, OpenclInvariant, PTL

\* Whatever the pattern, the job and its tiles, no plane, and none of the whole
\* chunks drawn behind one, outgrows the buffers that configure() allocated.
THEOREM PlanesAlwaysFit == Spec => []PlanesFit
<1>1. OpenclInv => PlanesFit
  BY DEF OpenclInv, AllFit, Fits, Across, Down, PlanesFit
<1>2. QED
  BY <1>1, OpenclInvariant, PTL

-----------------------------------------------------------------------------
(* What its commands test                                                  *)

\* A function on a prefix of the numbers is a sequence.
LEMMA AsSeq ==
  ASSUME NEW S, NEW n \in Nat, NEW f \in [1 .. n -> S]
  PROVE  f \in Seq(S)
OBVIOUS

\* The beginning of a sequence and the rest of it make it up.
LEMMA Glued ==
  ASSUME NEW S, NEW s \in Seq(S), NEW a \in Seq(S), NEW b \in Seq(S), Len(s) = Len(a) + Len(b),
         \A i \in 1 .. Len(a) : a[i] = s[i], \A i \in 1 .. Len(b) : b[i] = s[i + Len(a)]
  PROVE  a \o b = s
<1> DEFINE c == a \o b
<1>1. /\ c \in Seq(S) /\ Len(c) = Len(s) /\ Len(a) \in Nat /\ Len(b) \in Nat /\ Len(s) \in Nat
      /\ \A i \in 1 .. Len(a) : c[i] = a[i]
      /\ \A i \in 1 .. Len(s) : i > Len(a) => c[i] = b[i - Len(a)]
  <2>1. a \in Seq(S) /\ b \in Seq(S) /\ s \in Seq(S) /\ Len(s) = Len(a) + Len(b)
    OBVIOUS
  <2> QED BY ONLY <2>1
<1> HIDE DEF c
<1>2. ASSUME NEW i \in 1 .. Len(c) PROVE c[i] = s[i]
  <2>1. CASE i <= Len(a)
    BY <1>1, <2>1
  <2>2. CASE i > Len(a)
    <3>1. c[i] = b[i - Len(a)] /\ i - Len(a) \in 1 .. Len(b) /\ (i - Len(a)) + Len(a) = i
      BY <1>1, <2>2
    <3> QED BY <3>1
  <2> QED BY <1>1, <2>1, <2>2
<1>3. c = s
  BY <1>1, <1>2, SeqEqual
<1> QED BY <1>3 DEF c

\* What is inlined into a match kernel and what it reads from the buffers make up the
\* plan they come from, whatever the number of cells that are inlined.
LEMMA KernelRunsPlan ==
  ASSUME NEW p, PlanOK(p), p = [want |-> p.want, offsets |-> p.offsets, masks |-> p.masks]
  PROVE  RunBy(Generic, p) = p /\ RunBy(SpecializedSource(p), p) = p
<1> DEFINE n == IF Len(p.want) < kInlineCells THEN Len(p.want) ELSE kInlineCells
           kernel == SpecializedSource(p)
           Cells(anchor, baked, s) ==
             anchor \o baked \o (IF kernel.more THEN SubSeq(s, Len(baked) + 2, Len(s)) ELSE <<>>)
<1>1. n \in Nat \ {0} /\ n <= Len(p.want) /\ Len(p.want) \in Nat
  BY InlineAssumption DEF PlanOK
<1> HIDE DEF n
<1>2. /\ kernel.offsets = [v \in DOMAIN p.offsets |-> SubSeq(p.offsets[v], 2, n)]
      /\ kernel.want = SubSeq(p.want, 2, n) /\ kernel.more = (n < Len(p.want))
  BY DEF SpecializedSource, n
<1>3. ASSUME NEW S, NEW s \in Seq(S), Len(s) = Len(p.want) PROVE Cells(<<s[1]>>, SubSeq(s, 2, n), s) = s
  <2>1. s # <<>> /\ s[1] \in S
    BY <1>1, <1>3
  <2>2. SubSeq(s, 2, n) \in Seq(S) /\ Len(SubSeq(s, 2, n)) = n - 1
        /\ \A i \in 1 .. n - 1 : SubSeq(s, 2, n)[i] = s[i + 1]
    BY <1>1, <1>3
  <2>3. CASE n < Len(p.want)
    <3> DEFINE rest == SubSeq(s, n + 1, Len(s))
               head == <<s[1]>> \o SubSeq(s, 2, n)
    <3>1. Cells(<<s[1]>>, SubSeq(s, 2, n), s) = head \o rest
      <4>1. Len(SubSeq(s, 2, n)) + 2 = n + 1
        BY <1>1, <2>2
      <4> QED BY <1>2, <2>3, <4>1
    <3>2. rest \in Seq(S) /\ Len(rest) = Len(s) - n /\ \A i \in 1 .. Len(s) - n : rest[i] = s[i + n]
      BY <1>1, <1>3, <2>3
    <3>3. head \in Seq(S) /\ Len(head) = n /\ \A i \in 1 .. n : head[i] = s[i]
      BY <1>1, <2>1, <2>2
    <3> HIDE DEF head, rest, Cells
    <3>4. n \in 1 .. Len(s)
      BY <1>1, <1>3
    <3>5. Len(rest) = Len(s) - n /\ \A i \in 1 .. Len(s) - n : rest[i] = s[i + n]
      BY <3>2
    <3>6. head \o rest = s
      <4>1. /\ head \in Seq(S) /\ rest \in Seq(S) /\ s \in Seq(S) /\ Len(s) = Len(head) + Len(rest)
            /\ \A i \in 1 .. Len(head) : head[i] = s[i]
            /\ \A i \in 1 .. Len(rest) : rest[i] = s[i + Len(head)]
        BY <3>2, <3>3, <3>4, <3>5
      <4> QED BY ONLY <4>1, Glued
    <3> QED BY <3>1, <3>6
  <2>4. CASE ~ (n < Len(p.want))
    <3> DEFINE head == <<s[1]>> \o SubSeq(s, 2, n)
    <3>1. Cells(<<s[1]>>, SubSeq(s, 2, n), s) = head \o <<>>
      BY <1>2, <2>4
    <3>2. head \in Seq(S) /\ Len(head) = n /\ \A i \in 1 .. n : head[i] = s[i]
      BY <1>1, <2>1, <2>2
    <3>3. n = Len(s)
      BY <1>1, <1>3, <2>4
    <3> HIDE DEF head, Cells
    <3>4. head \o <<>> = head
      BY <3>2
    <3> QED BY <3>1, <3>2, <3>3, <3>4
  <2> QED BY <2>3, <2>4
<1>4. ASSUME kernel # Generic PROVE RunBy(kernel, p) = p
  <2> DEFINE built == [want    |-> Cells(SubSeq(p.want, 1, 1), kernel.want, p.want),
                       offsets |-> [v \in DOMAIN kernel.offsets |->
                                      Cells(<<<<0, 0>>>>, kernel.offsets[v], p.offsets[v])],
                       masks   |-> p.masks]
  <2>1. RunBy(kernel, p) = built
    BY <1>4 DEF RunBy
  <2>2. built.want = p.want
    <3> DEFINE w == p.want
    <3>1. w \in Seq({0, 1}) /\ Len(w) \in Nat \ {0} /\ Len(w) = Len(p.want)
      BY <1>1 DEF PlanOK
    <3> HIDE DEF Cells, kernel, w
    <3>2. Len(SubSeq(w, 1, 1)) = 1 /\ SubSeq(w, 1, 1)[1] = w[1] /\ SubSeq(w, 1, 1) \in Seq({0, 1})
      BY <3>1
    <3>3. SubSeq(w, 1, 1) = <<w[1]>>
      <4> DEFINE u == SubSeq(w, 1, 1)
      <4>1. u \in Seq({0, 1}) /\ Len(u) = 1 /\ u[1] = w[1] /\ w[1] \in {0, 1}
        BY <3>1, <3>2
      <4> HIDE DEF u
      <4>2. u = <<w[1]>>
        BY <4>1
      <4> QED BY <4>2 DEF u
    <3> QED BY <1>2, <1>3, <3>1, <3>3 DEF w
  <2>3. built.offsets = p.offsets
    <3>1. DOMAIN kernel.offsets = DOMAIN p.offsets
      BY <1>2
    <3>2. ASSUME NEW v \in DOMAIN p.offsets PROVE built.offsets[v] = p.offsets[v]
      <4>1. p.offsets[v] \in Seq(Int \X Int) /\ Len(p.offsets[v]) = Len(p.want) /\ p.offsets[v][1] = <<0, 0>>
        BY DEF PlanOK
      <4>2. kernel.offsets[v] = SubSeq(p.offsets[v], 2, n)
        BY <1>2
      <4>3. Cells(<<p.offsets[v][1]>>, SubSeq(p.offsets[v], 2, n), p.offsets[v]) = p.offsets[v]
        <5> HIDE DEF Cells
        <5> QED BY <1>3, <4>1
      <4> HIDE DEF Cells, kernel
      <4> QED BY <3>1, <4>1, <4>2, <4>3
    <3>3. DOMAIN built.offsets = DOMAIN p.offsets
      BY <3>1
    <3>4. built.offsets = [v \in DOMAIN p.offsets |-> built.offsets[v]] /\ p.offsets = [v \in DOMAIN p.offsets |-> p.offsets[v]]
      <4>1. p.offsets \in Seq(Seq(Int \X Int))
        BY DEF PlanOK
      <4> HIDE DEF Cells, kernel
      <4> QED BY <3>1, <4>1
    <3> HIDE DEF built
    <3> QED BY <3>2, <3>4
  <2> HIDE DEF Cells, kernel
  <2> QED BY <2>1, <2>2, <2>3
<1>5. RunBy(Generic, p) = p
  BY DEF RunBy
<1> QED BY <1>4, <1>5

\* The commands of a tile are all different: the counter, then for every piece those
\* that draw its plane, and its one match.
LEMMA CommandsAre ==
  ASSUME NEW t \in TileSet, job \in JobSet, PlanOK(plan)
  PROVE  /\ Commands(t) \in Seq(Command) /\ Len(Commands(t)) \in Nat \ {0}
         /\ \A i \in DOMAIN Commands(t) : Commands(t)[i].op = "zero" <=> i = 1
         /\ \A i \in DOMAIN Commands(t) : Commands(t)[i].op = "match" =>
              \E n \in DOMAIN Pieces(t) :
                /\ Commands(t)[i].piece = Pieces(t)[n]
                /\ Commands(t)[i].plane = PlaneOf(job.edition, Pieces(t)[n], Across, Down)
         /\ \A n \in DOMAIN Pieces(t) : \E i \in DOMAIN Commands(t) :
              Commands(t)[i].op = "match" /\ Commands(t)[i].piece = Pieces(t)[n]
         /\ \A i, k \in DOMAIN Commands(t) :
              /\ Commands(t)[i].op = "match" /\ Commands(t)[k].op = "match"
              /\ Commands(t)[i].piece = Commands(t)[k].piece
              => i = k
<1> DEFINE pieces == Pieces(t)
           Pl(n) == PlaneOf(job.edition, pieces[n], Across, Down)
           Cmd(op, n) == [op |-> op, piece |-> pieces[n], plane |-> Pl(n)]
           direct(n) == job.edition = "java" \/ Pl(n).near
           Of(n) == IF direct(n) THEN <<Cmd("fill", n), Cmd("match", n)>>
                    ELSE <<Cmd("draw", n), Cmd("remap", n), Cmd("match", n)>>
           Ops(n) == IF direct(n) THEN {"fill", "match"} ELSE {"draw", "remap", "match"}
           all == [n \in DOMAIN pieces |-> Of(n)]
           C == Command \ [op : {"zero"}]
           q == FlattenSeq(all)
           c == <<[op |-> "zero"]>> \o q
<1>1. pieces \in Seq(Piece) /\ DOMAIN pieces = 1 .. Len(pieces) /\ Len(pieces) \in Nat
      /\ \A n \in DOMAIN pieces : pieces[n] \in Piece /\ pieces[n] \in TileSet
  BY PiecesType DEF Piece
<1>2. Across \in Nat /\ Down \in Nat /\ job.edition \in {"java", "bedrock"}
  BY ReachType DEF Across, Down, JobSet
<1>3. \A n \in DOMAIN pieces : Pl(n) \in Planes
  BY <1>1, <1>2, PlaneFits
<1>4. Commands(t) = c
  BY DEF Commands, Across, Down
<1>5. \A m, n \in DOMAIN pieces : pieces[m] = pieces[n] => m = n
  <2>1. \A n \in DOMAIN pieces : <<pieces[n].x0, pieces[n].z0>> \in Candidates(pieces[n])
    BY <1>1 DEF Candidates, TileSet
  <2>2. \A m, n \in DOMAIN pieces : m # n => Candidates(pieces[m]) \cap Candidates(pieces[n]) = {}
    BY PiecesPart
  <2> HIDE DEF pieces
  <2> QED BY <2>1, <2>2
<1> HIDE DEF pieces, Pl
<1>6. ASSUME NEW n \in DOMAIN pieces, NEW op \in {"fill", "draw", "remap", "match"}
      PROVE  Cmd(op, n) \in C /\ Cmd(op, n).op = op /\ Cmd(op, n).piece = pieces[n] /\ Cmd(op, n).plane = Pl(n)
  <2>1. Cmd(op, n) \in Command
    BY <1>1, <1>3 DEF Command
  <2>2. \A e \in [op : {"zero"}] : e.op = "zero"
    OBVIOUS
  <2> QED BY <2>1, <2>2
<1> HIDE DEF C, Cmd, direct
<1>7. ASSUME NEW n \in DOMAIN pieces
      PROVE  /\ Of(n) \in Seq(C) /\ IsInjective(Of(n)) /\ Range(Of(n)) = {Cmd(op, n) : op \in Ops(n)}
  <2>1. CASE direct(n)
    <3> DEFINE a == Cmd("fill", n)
               b == Cmd("match", n)
               s == <<a, b>>
    <3>1. a \in C /\ b \in C /\ a # b
      BY <1>6
    <3>2. Of(n) = s /\ {Cmd(op, n) : op \in Ops(n)} = {a, b}
      BY <2>1
    <3> HIDE DEF a, b
    <3>3. s \in Seq(C) /\ DOMAIN s = {1, 2} /\ s[1] = a /\ s[2] = b
      BY <3>1
    <3> HIDE DEF s
    <3>4. IsInjective(s) /\ Range(s) = {a, b}
      BY <3>1, <3>3 DEF IsInjective, Range
    <3> HIDE DEF Of, Ops
    <3> QED BY <3>2, <3>3, <3>4
  <2>2. CASE ~direct(n)
    <3> DEFINE a == Cmd("draw", n)
               b == Cmd("remap", n)
               d == Cmd("match", n)
               s == <<a, b, d>>
    <3>1. a \in C /\ b \in C /\ d \in C /\ a # b /\ a # d /\ b # d
      BY <1>6
    <3>2. Of(n) = s /\ {Cmd(op, n) : op \in Ops(n)} = {a, b, d}
      BY <2>2
    <3> HIDE DEF a, b, d
    <3>3. s \in Seq(C) /\ DOMAIN s = {1, 2, 3} /\ s[1] = a /\ s[2] = b /\ s[3] = d
      BY <3>1
    <3> HIDE DEF s
    <3>4. IsInjective(s) /\ Range(s) = {a, b, d}
      BY <3>1, <3>3 DEF IsInjective, Range
    <3> HIDE DEF Of, Ops
    <3> QED BY <3>2, <3>3, <3>4
  <2> QED BY <2>1, <2>2
<1>8. \A n \in DOMAIN pieces : "match" \in Ops(n) /\ Ops(n) \subseteq {"fill", "draw", "remap", "match"}
  OBVIOUS
<1> HIDE DEF Of, Ops
<1>9. all \in Seq(Seq(C)) /\ DOMAIN all = DOMAIN pieces /\ \A n \in DOMAIN pieces : all[n] = Of(n)
  <2>1. DOMAIN all = DOMAIN pieces /\ \A n \in DOMAIN pieces : all[n] = Of(n)
    OBVIOUS
  <2>2. all \in [1 .. Len(pieces) -> Seq(C)]
    BY <1>1, <1>7
  <2> HIDE DEF all
  <2>3. all \in Seq(Seq(C))
    BY <1>1, <2>2, AsSeq
  <2> QED BY <2>1, <2>3
<1> HIDE DEF all
<1>10. IsInjective(q)
  <2>1. ASSUME NEW m \in DOMAIN all, NEW n \in DOMAIN all, m # n PROVE Range(all[m]) \cap Range(all[n]) = {}
    <3>1. ASSUME NEW k \in DOMAIN all, NEW e \in Range(all[k]) PROVE e.piece = pieces[k]
      <4>1. k \in DOMAIN pieces /\ e \in {Cmd(op, k) : op \in Ops(k)}
        BY <1>7, <1>9
      <4>2. PICK op \in Ops(k) : e = Cmd(op, k)
        BY <4>1
      <4> QED BY <1>6, <1>8, <4>1, <4>2
    <3>2. (\A e \in Range(all[m]) : e.piece = pieces[m]) /\ (\A e \in Range(all[n]) : e.piece = pieces[n])
      BY <3>1
    <3>3. pieces[m] # pieces[n]
      BY <1>5, <1>9, <2>1
    <3> QED BY <3>2, <3>3
  <2>2. \A m \in DOMAIN all : IsInjective(all[m])
    BY <1>7, <1>9
  <2> QED BY <1>9, <2>1, <2>2, FlattenOnce
<1>11. Range(q) = UNION {Range(all[n]) : n \in DOMAIN all}
  BY <1>9, FlattenRange
<1>12. q \in Seq(C)
  <2>1. \A a, b \in Seq(C) : a \o b \in Seq(C)
    OBVIOUS
  <2>2. <<>> \in Seq(C)
    OBVIOUS
  <2> QED BY <1>9, <2>1, <2>2, FlattenIn
<1> HIDE DEF q
<1>13. /\ c \in Seq(Command) /\ c[1] = [op |-> "zero"] /\ Len(q) \in Nat /\ Len(c) = Len(q) + 1
       /\ DOMAIN c = 1 .. Len(q) + 1 /\ DOMAIN q = 1 .. Len(q)
       /\ \A n \in 2 .. Len(q) + 1 : c[n] = q[n - 1]
  <2>1. [op |-> "zero"] \in Command /\ q \in Seq(Command)
    BY <1>12 DEF Command, C
  <2>2. <<[op |-> "zero"]>> \in Seq(Command) /\ Len(<<[op |-> "zero"]>>) = 1
    BY <2>1
  <2> QED BY <2>1, <2>2
<1> HIDE DEF c
<1>14. ASSUME NEW i \in 1 .. Len(q)
       PROVE  \E n \in DOMAIN pieces, op \in {"fill", "draw", "remap", "match"} : op \in Ops(n) /\ q[i] = Cmd(op, n)
  <2>1. q[i] \in Range(q)
    BY <1>13 DEF Range
  <2>2. PICK n \in DOMAIN pieces : q[i] \in Range(Of(n))
    BY <1>9, <1>11, <2>1
  <2> QED BY <1>7, <1>8, <2>2
<1>15. ASSUME NEW i \in DOMAIN c PROVE c[i].op = "zero" <=> i = 1
  <2>1. CASE i = 1
    BY <1>13, <2>1
  <2>2. CASE i # 1
    <3>1. i - 1 \in 1 .. Len(q) /\ c[i] = q[i - 1]
      BY <1>13, <2>2
    <3> QED BY <1>6, <1>14, <2>2, <3>1
  <2> QED BY <2>1, <2>2
<1>16. ASSUME NEW i \in DOMAIN c, c[i].op = "match"
       PROVE  /\ i - 1 \in DOMAIN q /\ c[i] = q[i - 1]
              /\ \E n \in DOMAIN pieces : q[i - 1] = Cmd("match", n) /\ c[i].piece = pieces[n] /\ c[i].plane = Pl(n)
  <2>1. i # 1
    BY <1>15, <1>16
  <2>2. i - 1 \in 1 .. Len(q) /\ c[i] = q[i - 1]
    BY <1>13, <2>1
  <2>3. PICK n \in DOMAIN pieces, op \in {"fill", "draw", "remap", "match"} : q[i - 1] = Cmd(op, n)
    BY <1>14, <2>2
  <2>4. op = "match"
    BY <1>6, <1>16, <2>2, <2>3
  <2> QED BY <1>6, <1>13, <2>2, <2>3, <2>4
<1>17. ASSUME NEW n \in DOMAIN pieces
       PROVE  \E i \in DOMAIN c : c[i].op = "match" /\ c[i].piece = pieces[n]
  <2>1. Cmd("match", n) \in Range(q)
    BY <1>7, <1>8, <1>9, <1>11
  <2>2. PICK i \in DOMAIN q : q[i] = Cmd("match", n)
    BY <2>1 DEF Range
  <2>3. i + 1 \in DOMAIN c /\ c[i + 1] = q[i]
    <3>1. i + 1 \in 2 .. Len(q) + 1 /\ (i + 1) - 1 = i
      BY <1>13
    <3> QED BY <1>13, <3>1
  <2> QED BY <1>6, <2>2, <2>3
<1>18. ASSUME NEW i \in DOMAIN c, NEW k \in DOMAIN c, c[i].op = "match", c[k].op = "match", c[i].piece = c[k].piece
       PROVE  i = k
  <2>1. i - 1 \in DOMAIN q /\ k - 1 \in DOMAIN q /\ q[i - 1] = q[k - 1]
    <3>1. PICK m \in DOMAIN pieces : q[i - 1] = Cmd("match", m) /\ c[i].piece = pieces[m]
      BY <1>16, <1>18
    <3>2. PICK n \in DOMAIN pieces : q[k - 1] = Cmd("match", n) /\ c[k].piece = pieces[n]
      BY <1>16, <1>18
    <3>3. m = n
      BY <1>5, <1>18, <3>1, <3>2
    <3> QED BY <1>16, <1>18, <3>1, <3>2, <3>3
  <2>2. i - 1 = k - 1
    BY <1>10, <2>1 DEF IsInjective
  <2> QED BY <1>13, <2>2
<1>19. Len(c) \in Nat \ {0}
  BY <1>13
<1> QED BY <1>4, <1>13, <1>15, <1>16, <1>17, <1>18, <1>19 DEF pieces, Pl

\* the matches of the pieces whose match kernel is among the first d commands of cs
Tested(cs, d) == UNION {MatchesIn(job, cs[i].piece) : i \in {m \in 1 .. d : cs[m].op = "match"}}

\* Along the commands of a tile: no match before the first piece, those of a piece more
\* with every match kernel, none of them twice, all in the end.
LEMMA TestedGrows ==
  ASSUME NEW t \in TileSet, job \in JobSet, PlanOK(plan), NEW cs, cs = Commands(t)
  PROVE  /\ Tested(cs, 1) = {} /\ Tested(cs, Len(cs)) = MatchesIn(job, t)
         /\ \A d \in 0 .. Len(cs) : Tested(cs, d) \subseteq MatchesIn(job, t) /\ IsFiniteSet(Tested(cs, d))
         /\ \A d \in 0 .. Len(cs) - 1 :
              /\ cs[d + 1].op # "match" => Tested(cs, d + 1) = Tested(cs, d)
              /\ cs[d + 1].op = "match" =>
                   /\ Tested(cs, d + 1) = Tested(cs, d) \cup MatchesIn(job, cs[d + 1].piece)
                   /\ Tested(cs, d) \cap MatchesIn(job, cs[d + 1].piece) = {}
<1> DEFINE M == MatchesIn(job, t)
           isMatch(i) == cs[i].op = "match"
           Of(i) == MatchesIn(job, cs[i].piece)
<1>1. /\ Len(cs) \in Nat \ {0} /\ DOMAIN cs = 1 .. Len(cs) /\ cs[1].op = "zero"
      /\ \A i \in 1 .. Len(cs) : isMatch(i) => \E n \in DOMAIN Pieces(t) : cs[i].piece = Pieces(t)[n]
      /\ \A n \in DOMAIN Pieces(t) : \E i \in 1 .. Len(cs) : isMatch(i) /\ cs[i].piece = Pieces(t)[n]
      /\ \A i, k \in 1 .. Len(cs) : isMatch(i) /\ isMatch(k) /\ cs[i].piece = cs[k].piece => i = k
  <2>1. cs \in Seq(Command) /\ Len(cs) \in Nat \ {0}
    BY CommandsAre
  <2>2. DOMAIN cs = 1 .. Len(cs)
    BY <2>1
  <2> QED BY <2>1, <2>2, CommandsAre
<1>2. ASSUME NEW i \in 1 .. Len(cs), isMatch(i) PROVE Of(i) \subseteq M
  <2>1. PICK n \in DOMAIN Pieces(t) : cs[i].piece = Pieces(t)[n]
    BY <1>1, <1>2
  <2>2. MatchesIn(job, Pieces(t)[n]) = {m \in M : <<m.x, m.z>> \in Candidates(Pieces(t)[n])}
    BY PieceMatches
  <2> HIDE DEF M
  <2> QED BY <2>1, <2>2
<1>3. ASSUME NEW i \in 1 .. Len(cs), NEW k \in 1 .. Len(cs), isMatch(i), isMatch(k), i # k
      PROVE  Of(i) \cap Of(k) = {}
  <2>1. PICK m \in DOMAIN Pieces(t) : cs[i].piece = Pieces(t)[m]
    BY <1>1, <1>3
  <2>2. PICK n \in DOMAIN Pieces(t) : cs[k].piece = Pieces(t)[n]
    BY <1>1, <1>3
  <2>3. m # n
    BY <1>1, <1>3, <2>1, <2>2
  <2>4. Candidates(Pieces(t)[m]) \cap Candidates(Pieces(t)[n]) = {}
    BY <2>3, PiecesPart
  <2>5. /\ Of(i) = {e \in M : <<e.x, e.z>> \in Candidates(Pieces(t)[m])}
        /\ Of(k) = {e \in M : <<e.x, e.z>> \in Candidates(Pieces(t)[n])}
    BY <2>1, <2>2, PieceMatches
  <2> HIDE DEF Of, M
  <2> QED BY <2>4, <2>5
<1>4. M \subseteq Tested(cs, Len(cs))
  <2> SUFFICES ASSUME NEW e \in M PROVE e \in Tested(cs, Len(cs))
    OBVIOUS
  <2>1. <<e.x, e.z>> \in Candidates(t)
    BY MatchFacts
  <2>2. PICK n \in DOMAIN Pieces(t) : <<e.x, e.z>> \in Candidates(Pieces(t)[n])
    BY <2>1, PiecesPart
  <2>3. PICK i \in 1 .. Len(cs) : isMatch(i) /\ cs[i].piece = Pieces(t)[n]
    BY <1>1
  <2>4. e \in Of(i)
    BY <2>2, <2>3, PieceMatches
  <2> QED BY <2>3, <2>4 DEF Tested
<1>5. \A d \in 0 .. Len(cs) : Tested(cs, d) \subseteq M
  <2>1. \A d \in 0 .. Len(cs) : 1 .. d \subseteq 1 .. Len(cs)
    BY <1>1
  <2> HIDE DEF M
  <2> QED BY <1>2, <2>1 DEF Tested
<1>6. IsFiniteSet(M)
  BY MatchFacts
<1>7. Tested(cs, 1) = {}
  BY <1>1 DEF Tested
<1>8. ASSUME NEW d \in 0 .. Len(cs) - 1
      PROVE  /\ ~isMatch(d + 1) => Tested(cs, d + 1) = Tested(cs, d)
             /\ isMatch(d + 1) => /\ Tested(cs, d + 1) = Tested(cs, d) \cup Of(d + 1)
                                  /\ Tested(cs, d) \cap Of(d + 1) = {}
  <2>1. /\ 1 .. d + 1 = (1 .. d) \cup {d + 1} /\ d + 1 \in 1 .. Len(cs) /\ d + 1 \notin 1 .. d
        /\ 1 .. d \subseteq 1 .. Len(cs)
    BY <1>1
  <2>2. ~isMatch(d + 1) => {m \in 1 .. d + 1 : isMatch(m)} = {m \in 1 .. d : isMatch(m)}
    BY <2>1
  <2>3. isMatch(d + 1) => {m \in 1 .. d + 1 : isMatch(m)} = {m \in 1 .. d : isMatch(m)} \cup {d + 1}
    BY <2>1
  <2>4. isMatch(d + 1) => \A i \in 1 .. d : isMatch(i) => Of(i) \cap Of(d + 1) = {}
    BY <1>3, <2>1
  <2> QED BY <2>2, <2>3, <2>4 DEF Tested
<1>9. \A d \in 0 .. Len(cs) : IsFiniteSet(Tested(cs, d))
  BY <1>5, <1>6, FS_Subset
<1>10. Len(cs) \in 0 .. Len(cs)
  BY <1>1
<1> QED BY <1>4, <1>5, <1>7, <1>8, <1>9, <1>10

\* A match kernel that finds the plane of its piece finds the matches of the piece.
LEMMA PlaneMatches ==
  ASSUME IsJob(job), plan = PlanOf(job), k_match = plan,
         NEW t \in TileSet, (\E k \in DOMAIN job.tiles : t = job.tiles[k]), NEW n \in DOMAIN Pieces(t),
         NEW s, NEW cmd, cmd.piece = Pieces(t)[n], plane[s] = cmd.plane,
         cmd.plane = PlaneOf(job.edition, Pieces(t)[n], Across, Down)
  PROVE  MatchPlane(s, cmd) = MatchesIn(job, Pieces(t)[n])
<1> DEFINE u == Pieces(t)[n]
           pl == cmd.plane
           bit == [p \in Int \X Int |-> PlaneBit(job.edition, pl, p[2] + pl.low_h, p[1] + pl.low_w)]
           area == (0 .. u.w - 1) \X (0 .. u.h - 1)
           At(p) == [x |-> u.x0 + p[1], z |-> u.z0 + p[2], mask |-> PlanMask(k_match, bit, p[1], p[2])]
<1>1. u \in Piece /\ u.x0 \in Int /\ u.z0 \in Int /\ u.w \in Nat \ {0} /\ u.h \in Nat \ {0}
  BY PieceMatches DEF TileSet
<1>2. Candidates(u) \subseteq Candidates(t)
  BY PiecesPart
<1>3. IsPattern(job.knowns) /\ job.all \in BOOLEAN /\ PlanOK(plan) /\ job.edition \in {"java", "bedrock"}
  <2>1. IsPattern(job.knowns) /\ job.all \in BOOLEAN /\ job.edition \in {"java", "bedrock"}
    BY DEF IsJob, JobSet
  <2> QED BY <2>1, PlanBuilt DEF PlanOf
<1>4. /\ DOMAIN plan.want = 1 .. Len(plan.want) /\ Len(plan.want) \in Nat \ {0} /\ 1 \in DOMAIN plan.offsets
      /\ plan.offsets[1][1] = <<0, 0>>
  BY <1>3 DEF PlanOK
<1>5. MatchPlane(s, cmd) = {m \in {At(p) : p \in area} : m.mask # {}}
  BY DEF MatchPlane
<1> HIDE DEF u, pl
<1>6. ASSUME NEW p \in area, NEW v \in DOMAIN plan.offsets, NEW c \in DOMAIN plan.want
      PROVE  bit[<<p[1] + plan.offsets[v][c][1], p[2] + plan.offsets[v][c][2]>>] =
             World(job)[<<(u.x0 + p[1]) + plan.offsets[v][c][1], (u.z0 + p[2]) + plan.offsets[v][c][2]>>]
  <2> DEFINE x == u.x0 + p[1]
             z == u.z0 + p[2]
             o1 == plan.offsets[v][c][1]
             o2 == plan.offsets[v][c][2]
  <2>1. p[1] \in 0 .. u.w - 1 /\ p[2] \in 0 .. u.h - 1 /\ x \in Int /\ z \in Int
    BY <1>1
  <2>2. <<x, z>> \in Candidates(t)
    BY <1>1, <1>2, <2>1 DEF Candidates
  <2>3. /\ o1 \in Int /\ o2 \in Int
        /\ job.edition = "bedrock" =>
             /\ -(2 * FloatLimit) < t.x0 + o1 /\ t.x0 + o1 <= x + o1
             /\ x + o1 <= t.x0 + t.w - 1 + o1 /\ t.x0 + t.w - 1 + o1 < 2 * FloatLimit
             /\ -(2 * FloatLimit) < t.z0 + o2 /\ t.z0 + o2 <= z + o2
             /\ z + o2 <= t.z0 + t.h - 1 + o2 /\ t.z0 + t.h - 1 + o2 < 2 * FloatLimit
    BY <2>2, LooksNear
  <2>4. /\ Across \in Nat /\ Down \in Nat /\ -Across <= o1 /\ o1 <= Across /\ -Down <= o2 /\ o2 <= Down
    BY <1>3, ReachType DEF Across, Down
  <2> HIDE DEF o1, o2
  <2>5. p[1] + o1 \in -Across .. u.w - 1 + Across /\ p[2] + o2 \in -Down .. u.h - 1 + Down
    BY <1>1, <2>1, <2>3, <2>4
  <2>6. x + o1 = u.x0 + (p[1] + o1) /\ z + o2 = u.z0 + (p[2] + o2) /\ x + o1 \in Int /\ z + o2 \in Int
    BY <1>1, <2>1, <2>3
  <2>7. job.edition = "bedrock" =>
          /\ -(2 * FloatLimit) < u.x0 + (p[1] + o1) /\ u.x0 + (p[1] + o1) < 2 * FloatLimit
          /\ -(2 * FloatLimit) < u.z0 + (p[2] + o2) /\ u.z0 + (p[2] + o2) < 2 * FloatLimit
    <3>1. FloatLimit \in Int /\ t.x0 \in Int /\ t.z0 \in Int /\ t.w \in Int /\ t.h \in Int
      BY PlaneAssumption DEF TileSet
    <3> HIDE DEF x, z
    <3> QED BY <2>3, <2>6, <3>1
  <2>8. pl = PlaneOf(job.edition, u, Across, Down)
    BY DEF pl, u
  <2>9. PlaneBit(job.edition, pl, (p[2] + o2) + pl.low_h, (p[1] + o1) + pl.low_w) =
          Bed(job.edition, u.x0 + (p[1] + o1), u.z0 + (p[2] + o2))
    <3> DEFINE a == p[1] + o1
               b == p[2] + o2
    <3>1. /\ a \in -Across .. u.w - 1 + Across /\ b \in -Down .. u.h - 1 + Down
          /\ job.edition = "bedrock" => /\ -(2 * FloatLimit) < u.x0 + a /\ u.x0 + a < 2 * FloatLimit
                                        /\ -(2 * FloatLimit) < u.z0 + b /\ u.z0 + b < 2 * FloatLimit
      BY <2>5, <2>7
    <3> HIDE DEF a, b
    <3>2. PlaneBit(job.edition, pl, b + pl.low_h, a + pl.low_w) = Bed(job.edition, u.x0 + a, u.z0 + b)
      BY <1>1, <1>3, <2>4, <2>8, <3>1, PlaneShows
    <3> QED BY <3>2 DEF a, b
  <2>10. <<p[1] + o1, p[2] + o2>> \in Int \X Int /\ <<x + o1, z + o2>> \in Int \X Int
    BY <2>1, <2>3, <2>6
  <2>11. bit[<<p[1] + o1, p[2] + o2>>] =
           PlaneBit(job.edition, pl, (p[2] + o2) + pl.low_h, (p[1] + o1) + pl.low_w)
    BY <2>10
  <2> HIDE DEF bit, x, z
  <2>12. World(job)[<<x + o1, z + o2>>] = Bed(job.edition, x + o1, z + o2)
    BY <2>10 DEF World
  <2>13. bit[<<p[1] + o1, p[2] + o2>>] = World(job)[<<x + o1, z + o2>>]
    BY <2>6, <2>9, <2>11, <2>12
  <2> QED BY <2>13 DEF o1, o2, x, z
<1> HIDE DEF bit
<1>7. ASSUME NEW p \in area
      PROVE  /\ At(p) = MatchOf(job, u.x0 + p[1], u.z0 + p[2])
             /\ At(p).mask = MaskOf(job, u.x0 + p[1], u.z0 + p[2])
  <2> DEFINE x == u.x0 + p[1]
             z == u.z0 + p[2]
             w == World(job)
  <2>1. x \in Int /\ z \in Int /\ p[1] \in Int /\ p[2] \in Int
    BY <1>1
  <2>2. bit[<<p[1], p[2]>>] = w[<<x, z>>]
    <3>1. /\ p[1] + plan.offsets[1][1][1] = p[1] /\ p[2] + plan.offsets[1][1][2] = p[2]
          /\ x + plan.offsets[1][1][1] = x /\ z + plan.offsets[1][1][2] = z
          /\ 1 \in DOMAIN plan.offsets /\ 1 \in DOMAIN plan.want
      BY <1>4, <2>1
    <3>2. bit[<<p[1] + plan.offsets[1][1][1], p[2] + plan.offsets[1][1][2]>>] =
          w[<<x + plan.offsets[1][1][1], z + plan.offsets[1][1][2]>>]
      BY <1>6, <3>1
    <3> QED BY <3>1, <3>2
  <2>3. \A v \in DOMAIN plan.offsets, c \in 2 .. Len(plan.want) :
          bit[<<p[1] + plan.offsets[v][c][1], p[2] + plan.offsets[v][c][2]>>] =
          w[<<x + plan.offsets[v][c][1], z + plan.offsets[v][c][2]>>]
    <3>1. \A c \in 2 .. Len(plan.want) : c \in DOMAIN plan.want
      BY <1>4
    <3> QED BY <1>6, <3>1
  <2> HIDE DEF x, z, w
  <2>4. SeesAlike(plan, bit, p[1], p[2], w, x, z)
    BY <2>2, <2>3 DEF SeesAlike
  <2>5. PlanMask(plan, bit, p[1], p[2]) = PlanMask(plan, w, x, z)
    BY <2>4, SameMask
  <2>6. PlanMask(plan, w, x, z) = MaskOf(job, x, z)
    BY <1>3, <2>1, PlanAgrees DEF PlanOf, MaskOf, w
  <2>7. PlanMask(k_match, bit, p[1], p[2]) = MaskOf(job, x, z)
    BY <2>5, <2>6
  <2>8. At(p) = [x |-> x, z |-> z, mask |-> MaskOf(job, x, z)]
    BY <2>7 DEF x, z
  <2> HIDE DEF At
  <2> QED BY <2>8 DEF MatchOf, x, z
<1> HIDE DEF At, area
<1>8. MatchesIn(job, u) = {MatchOf(job, q[1], q[2]) : q \in {r \in Candidates(u) : MaskOf(job, r[1], r[2]) # {}}}
  BY MatchesAre
<1>9. ASSUME NEW p \in area PROVE <<u.x0 + p[1], u.z0 + p[2]>> \in Candidates(u)
  BY <1>1 DEF area, Candidates
<1>10. ASSUME NEW q \in Candidates(u)
       PROVE  \E p \in area : q[1] = u.x0 + p[1] /\ q[2] = u.z0 + p[2]
  <2> DEFINE p == <<q[1] - u.x0, q[2] - u.z0>>
  <2>1. q[1] \in u.x0 .. u.x0 + u.w - 1 /\ q[2] \in u.z0 .. u.z0 + u.h - 1
    BY DEF Candidates
  <2>2. p \in area /\ q[1] = u.x0 + p[1] /\ q[2] = u.z0 + p[2]
    BY <1>1, <2>1 DEF area
  <2> QED BY <2>2
<1>11. ASSUME NEW m \in MatchPlane(s, cmd) PROVE m \in MatchesIn(job, u)
  <2>1. PICK p \in area : m = At(p) /\ m.mask # {}
    BY <1>5
  <2>2. m = MatchOf(job, u.x0 + p[1], u.z0 + p[2]) /\ MaskOf(job, u.x0 + p[1], u.z0 + p[2]) # {}
    BY <1>7, <2>1
  <2>3. <<u.x0 + p[1], u.z0 + p[2]>> \in Candidates(u)
    BY <1>9
  <2> QED BY <1>1, <2>2, <2>3, MatchFacts DEF Piece
<1>12. ASSUME NEW m \in MatchesIn(job, u) PROVE m \in MatchPlane(s, cmd)
  <2>1. PICK q \in Candidates(u) : m = MatchOf(job, q[1], q[2]) /\ MaskOf(job, q[1], q[2]) # {}
    BY <1>8
  <2>2. PICK p \in area : q[1] = u.x0 + p[1] /\ q[2] = u.z0 + p[2]
    BY <1>10
  <2>3. m = At(p) /\ m.mask # {}
    BY <1>7, <2>1, <2>2
  <2> QED BY <1>5, <2>3
<1> QED BY <1>11, <1>12 DEF u

\* a sequence of whatever
IsSeq(s) == \E S : s \in Seq(S)

\* The first n + k entries of a buffer, once k matches are written from n on.
LEMMA WrittenHolds ==
  ASSUME NEW buf, IsSeq(buf), NEW n \in Nat, NEW kept, IsFiniteSet(kept)
  PROVE  /\ IsSeq(Written(buf, n, kept))
         /\ \A i \in 1 .. n : Written(buf, n, kept)[i] = buf[i]
         /\ \A i \in n + 1 .. n + Cardinality(kept) : Written(buf, n, kept)[i] \in kept
         /\ \A e \in kept : \E i \in n + 1 .. n + Cardinality(kept) : Written(buf, n, kept)[i] = e
<1> DEFINE k == Cardinality(kept)
           order == CHOOSE f \in [1 .. k -> kept] : {f[i] : i \in 1 .. k} = kept
           N == IF Len(buf) > n + k THEN Len(buf) ELSE n + k
           w == [i \in 1 .. N |-> IF i \in n + 1 .. n + k THEN order[i - n] ELSE buf[i]]
<1>1. k \in Nat /\ Len(buf) \in Nat
  BY FS_CardinalityType DEF IsSeq
<1>2. order \in [1 .. k -> kept] /\ {order[i] : i \in 1 .. k} = kept
  <2>1. ExistsBijection(1 .. k, kept)
    BY FS_CardinalityType
  <2> HIDE DEF k
  <2>2. PICK f : f \in Bijection(1 .. k, kept)
    BY <2>1 DEF ExistsBijection
  <2>3. f \in [1 .. k -> kept] /\ {f[i] : i \in 1 .. k} = kept
    BY <2>2 DEF Bijection, Injection, Surjection
  <2> QED BY <2>3
<1>3. CASE kept = {}
  <2>1. k = 0 /\ Written(buf, n, kept) = buf
    BY <1>3, FS_EmptySet DEF Written
  <2>2. n + k = n
    BY <2>1
  <2>3. n + 1 .. n + 0 = {}
    OBVIOUS
  <2> HIDE DEF k
  <2> QED BY <1>3, <2>1, <2>3 DEF k
<1>4. CASE kept # {}
  <2>1. Written(buf, n, kept) = w
    BY <1>4 DEF Written
  <2> HIDE DEF k, order
  <2>2. N \in Nat /\ n + k <= N /\ DOMAIN w = 1 .. N
    BY <1>1
  <2>3. w \in Seq({w[i] : i \in 1 .. N})
    <3>1. w \in [1 .. N -> {w[i] : i \in 1 .. N}]
      OBVIOUS
    <3> HIDE DEF w, N
    <3> QED BY <2>2, <3>1, AsSeq
  <2>4. \A i \in 1 .. n : w[i] = buf[i]
    BY <1>1, <2>2
  <2>5. \A i \in 1 .. k : w[n + i] = order[i]
    <3> SUFFICES ASSUME NEW i \in 1 .. k PROVE w[n + i] = order[i]
      OBVIOUS
    <3>1. n + i \in 1 .. N /\ n + i \in n + 1 .. n + k /\ (n + i) - n = i
      BY <1>1, <2>2
    <3> QED BY <3>1
  <2>6. ASSUME NEW i \in n + 1 .. n + k PROVE i - n \in 1 .. k /\ w[i] = order[i - n]
    <3>1. i - n \in 1 .. k /\ n + (i - n) = i
      BY <1>1
    <3> HIDE DEF w
    <3> QED BY <2>5, <3>1
  <2> HIDE DEF w, N
  <2>7. \A i \in n + 1 .. n + k : w[i] \in kept
    BY <1>2, <2>6
  <2>8. ASSUME NEW e \in kept PROVE \E i \in n + 1 .. n + k : w[i] = e
    <3>1. PICK m \in 1 .. k : order[m] = e
      BY <1>2
    <3>2. n + m \in n + 1 .. n + k
      BY <1>1
    <3> QED BY <2>5, <3>1, <3>2
  <2> QED BY <2>1, <2>3, <2>4, <2>7, <2>8 DEF k, IsSeq
<1> QED BY <1>3, <1>4

\* Of the matches ms, counted by n, a result buffer holds as many as fit c.
Keeps(buf, n, c, ms) ==
  LET kept == {buf[i] : i \in 1 .. Least(n, c)}
  IN IsSeq(buf) /\ n = Cardinality(ms) /\ kept \subseteq ms /\ Cardinality(kept) = Least(n, c)

\* It does once others are counted and written, as many as there is room for.
LEMMA KeptMore ==
  ASSUME NEW buf, NEW n, NEW c \in Nat, NEW old, IsFiniteSet(old), Keeps(buf, n, c, old),
         NEW new, IsFiniteSet(new), old \cap new = {}, NEW kept \in SUBSET new,
         Cardinality(kept) = Least(Cardinality(new), IF n < c THEN c - n ELSE 0)
  PROVE  Keeps(Written(buf, n, kept), n + Cardinality(new), c, old \cup new)
<1> DEFINE held == {buf[i] : i \in 1 .. Least(n, c)}
           buf1 == Written(buf, n, kept)
           n1 == n + Cardinality(new)
           held1 == {buf1[i] : i \in 1 .. Least(n1, c)}
<1>0. IsSeq(buf) /\ n = Cardinality(old) /\ held \subseteq old /\ Cardinality(held) = Least(n, c)
  BY DEF Keeps
<1>1. n \in Nat /\ Cardinality(new) \in Nat
  BY <1>0, FS_CardinalityType
<1>2. IsFiniteSet(kept) /\ IsFiniteSet(held) /\ kept \cap held = {}
  BY <1>0, FS_Subset
<1>3. /\ IsSeq(buf1)
      /\ \A i \in 1 .. n : buf1[i] = buf[i]
      /\ \A i \in n + 1 .. n + Cardinality(kept) : buf1[i] \in kept
      /\ \A e \in kept : \E i \in n + 1 .. n + Cardinality(kept) : buf1[i] = e
  <2>1. IsSeq(buf) /\ n \in Nat /\ IsFiniteSet(kept)
    BY <1>0, <1>1, <1>2
  <2> QED BY ONLY <2>1, WrittenHolds DEF buf1
<1> HIDE DEF buf1
<1>4. n1 = Cardinality(old \cup new)
  <2>1. Cardinality(old \cup new) = Cardinality(old) + Cardinality(new) - Cardinality(old \cap new)
    BY FS_Union
  <2>2. Cardinality(old \cap new) = 0
    BY FS_EmptySet
  <2> QED BY <1>0, <1>1, <2>1, <2>2
<1> SUFFICES held1 \subseteq old \cup new /\ Cardinality(held1) = Least(n1, c)
  BY <1>3, <1>4 DEF Keeps, buf1
<1>5. CASE n < c
  <2>1. Least(n, c) = n /\ Least(n1, c) = n + Cardinality(kept) /\ Cardinality(kept) \in Nat
    BY <1>1, <1>5 DEF Least
  <2>2. held1 = held \cup kept
    <3>1. ASSUME NEW i \in 1 .. Least(n1, c) PROVE buf1[i] \in held \cup kept
      <4>1. i \in 1 .. n \/ i \in n + 1 .. n + Cardinality(kept)
        BY <1>1, <2>1
      <4> QED BY <1>3, <2>1, <4>1
    <3>2. ASSUME NEW e \in held \cup kept PROVE \E i \in 1 .. Least(n1, c) : buf1[i] = e
      <4>1. (\A i \in 1 .. n : i \in 1 .. Least(n1, c)) /\ \A i \in n + 1 .. n + Cardinality(kept) : i \in 1 .. Least(n1, c)
        BY <1>1, <2>1
      <4>2. e \in held => \E i \in 1 .. n : buf[i] = e
        BY <2>1
      <4> QED BY <1>3, <4>1, <4>2
    <3> QED BY <3>1, <3>2
  <2>3. Cardinality(held \cup kept) = Cardinality(held) + Cardinality(kept) - Cardinality(held \cap kept)
    BY <1>2, FS_Union
  <2>4. Cardinality(held \cap kept) = 0
    BY <1>2, FS_EmptySet
  <2>5. Cardinality(held1) = Least(n1, c)
    <3>1. Cardinality(held) = n
      BY <1>0, <2>1
    <3> HIDE DEF held, held1, n1
    <3> QED BY <1>1, <2>1, <2>2, <2>3, <2>4, <3>1
  <2>6. held1 \subseteq old \cup new
    BY <1>0, <2>2
  <2> QED BY <2>5, <2>6
<1>6. CASE ~ (n < c)
  <2>1. Least(n, c) = c /\ Least(n1, c) = c /\ Cardinality(kept) = 0
    BY <1>1, <1>6 DEF Least
  <2>2. kept = {}
    BY <1>2, <2>1, FS_EmptySet
  <2>3. buf1 = buf
    BY <2>2 DEF Written, buf1
  <2>4. held1 = held
    BY <2>1, <2>3
  <2> HIDE DEF held, held1
  <2> QED BY <1>0, <2>1, <2>4
<1> QED BY <1>5, <1>6

\* A rest of a sequence loses its head.
LEMMA Popped ==
  ASSUME NEW S, NEW cs \in Seq(S), NEW d \in 0 .. Len(cs), NEW q, q = SubSeq(cs, d + 1, Len(cs))
  PROVE  /\ q = <<>> => d = Len(cs)
         /\ q # <<>> => d < Len(cs) /\ Head(q) = cs[d + 1] /\ Tail(q) = SubSeq(cs, (d + 1) + 1, Len(cs))
<1>1. Len(cs) \in Nat /\ q \in Seq(S) /\ Len(q) = Len(cs) - d /\ \A i \in 1 .. Len(cs) - d : q[i] = cs[i + d]
  OBVIOUS
<1>2. ASSUME q = <<>> PROVE d = Len(cs)
  <2>1. Len(<<>>) = 0
    OBVIOUS
  <2>2. Len(q) = 0
    BY ONLY <1>2, <2>1
  <2> QED BY <1>1, <2>2
<1>3. ASSUME q # <<>> PROVE d < Len(cs) /\ Head(q) = cs[d + 1] /\ Tail(q) = SubSeq(cs, (d + 1) + 1, Len(cs))
  <2>1. Len(q) > 0 /\ d < Len(cs)
    BY <1>1, <1>3
  <2>2. Head(q) = cs[d + 1]
    <3>1. Head(q) = q[1] /\ 1 \in 1 .. Len(cs) - d /\ 1 + d = d + 1
      BY <1>1, <1>3, <2>1
    <3> QED BY <1>1, <3>1
  <2> DEFINE u == Tail(q)
             r == SubSeq(cs, (d + 1) + 1, Len(cs))
  <2>3. /\ u \in Seq(S) /\ Len(u) = Len(cs) - d - 1
        /\ \A i \in 1 .. Len(cs) - d - 1 : u[i] = q[i + 1]
    BY <1>1, <1>3
  <2>4. /\ r \in Seq(S) /\ Len(r) = Len(cs) - d - 1
        /\ \A i \in 1 .. Len(cs) - d - 1 : r[i] = cs[i + (d + 1)]
    BY <2>1
  <2> HIDE DEF u, r
  <2>5. \A i \in 1 .. Len(cs) - d - 1 : u[i] = r[i]
    <3> SUFFICES ASSUME NEW i \in 1 .. Len(cs) - d - 1 PROVE u[i] = r[i]
      OBVIOUS
    <3>1. i + 1 \in 1 .. Len(cs) - d /\ (i + 1) + d = i + (d + 1)
      BY <1>1
    <3> QED BY <1>1, <2>3, <2>4, <3>1
  <2>6. u = r
    <3>1. /\ u \in Seq(S) /\ r \in Seq(S) /\ Len(u) = Len(r)
          /\ \A i \in 1 .. Len(u) : u[i] = r[i]
      BY <2>3, <2>4, <2>5
    <3> QED BY ONLY <3>1, SeqEqual
  <2> QED BY <2>1, <2>2, <2>6 DEF u, r
<1> QED BY <1>2, <1>3

-----------------------------------------------------------------------------
(* What its buffers and answers hold                                       *)

\* the matches of the k-th tile of the job
Found(k) == MatchesIn(job, job.tiles[k])

\* The counter of slot s says how many matches ms are, and as many of them as fit the
\* cap are in its buffer.
Held(s, ms) ==
  LET keep == Least(count[s], cap)
      kept == {found[s][i] : i \in 1 .. keep}
  IN count[s] = Cardinality(ms) /\ kept \subseteq ms /\ Cardinality(kept) = keep

\* Slot s has run the first d of the commands cs, and holds the matches they tested.
RanTo(s, cs, d) == /\ queue[s] = SubSeq(cs, d + 1, Len(cs))
                   /\ d > 0 => Held(s, Tested(cs, d))

\* cs are the commands of the tile that is k-th in flight, and s its slot
InFlight(k, s, cs) == /\ s = (next_end + k) % kSlots
                      /\ cs = Commands(job.tiles[Len(answers) + k + 1])

GpuJob == \/ job = NoJob /\ begun = 0
          \/ job \in Jobs /\ plan = PlanOf(job) /\ k_match = plan /\ cap = TileCap(job)

GpuBuffers == /\ DOMAIN found = Slots /\ DOMAIN count = Slots
              /\ \A s \in Slots : IsSeq(found[s]) /\ count[s] \in Nat

GpuFlight == \A k \in 0 .. Flight - 1, s \in Slots, cs \in Seq(Command) :
               InFlight(k, s, cs) => \E d \in 0 .. Len(cs) : RanTo(s, cs, d)

\* as many matches of every tile were answered as fit the cap
GpuAnswers ==
  /\ \A k \in 1 .. Len(answers) :
       answers[k] \subseteq Found(k) /\ Cardinality(answers[k]) = Least(Cardinality(Found(k)), cap)
  /\ truncated \in BOOLEAN
  /\ truncated <=> \E k \in 1 .. Len(answers) : Cardinality(Found(k)) > cap

GpuInv == OpenclInv /\ GpuJob /\ GpuBuffers /\ GpuFlight /\ GpuAnswers

\* What holds of every job, also of the one before the first configure().
LEMMA GpuFacts ==
  ASSUME OpenclInv, GpuJob
  PROVE  /\ Len(job.tiles) \in Nat /\ begun \in 0 .. Len(job.tiles) /\ Len(answers) \in 0 .. begun
         /\ DOMAIN answers = 1 .. Len(answers) /\ Flight \in 0 .. kDepth /\ begun = Len(answers) + Flight
         /\ \A k \in 1 .. Len(job.tiles) :
              /\ IsJob(job) /\ job \in JobSet /\ job \in Jobs /\ plan = PlanOf(job) /\ PlanOK(plan) /\ k_match = plan
              /\ cap = TileCap(job) /\ cap \in Nat
              /\ k \in DOMAIN job.tiles /\ job.tiles[k] \in TileSet /\ IsFiniteSet(Found(k))
              /\ Commands(job.tiles[k]) \in Seq(Command)
<1>1. /\ job \in JobSet /\ (job.tiles # <<>> => PlanOK(plan)) /\ begun \in Nat /\ begun <= Len(job.tiles)
      /\ Flight \in 0 .. kDepth
  BY DEF OpenclInv, TypeOK, InTurn
<1>2. job.tiles \in Seq(TileSet)
  BY <1>1 DEF JobSet
<1>3. Len(answers) \in Nat /\ DOMAIN answers = 1 .. Len(answers)
  BY DEF OpenclInv, TypeOK
<1>4. /\ Len(job.tiles) \in Nat /\ begun \in 0 .. Len(job.tiles) /\ Len(answers) \in 0 .. begun
      /\ begun = Len(answers) + Flight
  BY <1>1, <1>2, <1>3 DEF Flight
<1>5. ASSUME NEW k \in 1 .. Len(job.tiles)
      PROVE  /\ IsJob(job) /\ job \in Jobs /\ plan = PlanOf(job) /\ PlanOK(plan) /\ k_match = plan
             /\ cap = TileCap(job) /\ cap \in Nat
             /\ k \in DOMAIN job.tiles /\ job.tiles[k] \in TileSet /\ IsFiniteSet(Found(k))
             /\ Commands(job.tiles[k]) \in Seq(Command)
  <2>1. job.tiles # <<>> /\ k \in DOMAIN job.tiles /\ job.tiles[k] \in TileSet
    BY <1>2
  <2>2. job # NoJob
    BY <2>1 DEF NoJob
  <2>3. job \in Jobs /\ plan = PlanOf(job) /\ PlanOK(plan) /\ k_match = plan /\ cap = TileCap(job)
    BY <1>1, <2>1, <2>2 DEF GpuJob
  <2>4. IsJob(job)
    BY <2>3, JobAssumption
  <2>5. cap \in Nat
    BY <1>1, <2>3, LimitAssumption DEF TileCap, JobSet
  <2>6. IsFiniteSet(Found(k))
    BY <2>1, MatchFacts DEF Found
  <2>7. Commands(job.tiles[k]) \in Seq(Command)
    BY <1>1, <2>1, <2>3, CommandsAre
  <2> QED BY <2>1, <2>3, <2>4, <2>5, <2>6, <2>7
<1> QED BY <1>1, <1>3, <1>4, <1>5

\* Tiles in flight sit in slots of their own.
LEMMA SlotsApart ==
  ASSUME NEW s \in Slots, NEW k \in 0 .. kDepth - 1
  PROVE  /\ (s + k) % kSlots \in Slots
         /\ \A l \in 0 .. kDepth - 1 : (s + k) % kSlots = (s + l) % kSlots => k = l
         /\ (s + (k + 1)) % kSlots = (SlotAfter(s) + k) % kSlots
<1>1. kSlots \in Nat /\ kDepth = 2 /\ 2 <= kSlots /\ s \in 0 .. kSlots - 1
  BY SlotAssumption DEF kDepth, Slots
<1>2. /\ \A l \in 0 .. kDepth : (s + l) % kSlots = IF s + l < kSlots THEN s + l ELSE s + l - kSlots
      /\ SlotAfter(s) = (IF s + 1 < kSlots THEN s + 1 ELSE 0) /\ SlotAfter(s) \in Slots
  BY SlotWraps
<1>3. k \in 0 .. kDepth /\ k + 1 \in 0 .. kDepth /\ \A l \in 0 .. kDepth - 1 : l \in 0 .. kDepth
  BY <1>1
<1>4. (s + k) % kSlots = (IF s + k < kSlots THEN s + k ELSE s + k - kSlots)
  BY <1>2, <1>3
<1>5. (s + (k + 1)) % kSlots = IF s + (k + 1) < kSlots THEN s + (k + 1) ELSE s + (k + 1) - kSlots
  BY <1>2, <1>3
<1>6. (SlotAfter(s) + k) % kSlots = IF SlotAfter(s) + k < kSlots THEN SlotAfter(s) + k ELSE SlotAfter(s) + k - kSlots
  <2>1. \A r \in Slots : (r + k) % kSlots = IF r + k < kSlots THEN r + k ELSE r + k - kSlots
    BY <1>3, SlotWraps
  <2> QED BY <1>2, <2>1
<1>7. (s + k) % kSlots \in Slots
  BY <1>1, <1>4 DEF Slots
<1>8. ASSUME NEW l \in 0 .. kDepth - 1, (s + k) % kSlots = (s + l) % kSlots PROVE k = l
  <2>1. (s + l) % kSlots = (IF s + l < kSlots THEN s + l ELSE s + l - kSlots)
    BY <1>2, <1>3
  <2> QED BY <1>1, <1>4, <1>8, <2>1
<1>9. (s + (k + 1)) % kSlots = (SlotAfter(s) + k) % kSlots
  BY <1>1, <1>2, <1>5, <1>6
<1> QED BY <1>7, <1>8, <1>9

\* A slot that nothing touches has run no further.
LEMMA RanStays ==
  ASSUME NEW s, NEW cs, NEW d, RanTo(s, cs, d), job' = job, cap' = cap,
         queue'[s] = queue[s], count'[s] = count[s], found'[s] = found[s]
  PROVE  RanTo(s, cs, d)'
BY DEF RanTo, Held, Tested

\* With nothing begun the invariant holds.
LEMMA GpuFresh ==
  ASSUME OpenclInv', begun' = 0, answers' = <<>>, truncated' = FALSE, GpuJob', GpuBuffers'
  PROVE  GpuInv'
<1>1. Len(answers') = 0
  BY DEF GpuJob
<1>2. Flight' = 0
  <2>1. begun' = 0
    OBVIOUS
  <2> QED BY ONLY <1>1, <2>1 DEF Flight
<1>3. GpuFlight'
  BY <1>2 DEF GpuFlight
<1>4. GpuAnswers'
  <2>1. 1 .. Len(answers') = {}
    BY ONLY <1>1
  <2>2. truncated' = FALSE
    OBVIOUS
  <2> QED BY ONLY <2>1, <2>2 DEF GpuAnswers
<1> QED BY <1>3, <1>4 DEF GpuInv

\* configure() leaves a kernel that runs the plan of the job, whether the driver compiles
\* it, it was compiled before or the generic one has to do.
LEMMA GpuConfigureKeeps ==
  ASSUME GpuInv, NEW j \in Jobs, NEW compiles \in BOOLEAN, Configure(j, compiles)
  PROVE  GpuInv'
<1>1. OpenclInv'
  BY ConfigureOK DEF GpuInv
<1> DEFINE src == SpecializedSource(plan')
<1>2. /\ job' = j /\ begun' = 0 /\ answers' = <<>> /\ truncated' = FALSE /\ plan' = PlanOf(j) /\ cap' = TileCap(j)
      /\ specialized' = (IF compiles THEN src ELSE specialized)
      /\ k_match' = RunBy(IF compiles \/ src = specialized THEN specialized' ELSE Generic, plan')
      /\ count' = [s \in Slots |-> 1] /\ found' = [s \in Slots |-> <<NoMatch>>]
  BY DEF Configure, PlanOf
<1>3. PlanOK(plan') /\ plan' = [want |-> plan'.want, offsets |-> plan'.offsets, masks |-> plan'.masks]
  <2>1. IsPattern(j.knowns) /\ j.all \in BOOLEAN
    BY JobAssumption DEF IsJob, JobSet
  <2>2. PlanOK(PlanOf(j))
    BY <2>1, PlanBuilt DEF PlanOf
  <2>3. PlanOf(j) = [want |-> PlanOf(j).want, offsets |-> PlanOf(j).offsets, masks |-> PlanOf(j).masks]
    BY DEF PlanOf, BuildSearchPlan
  <2> QED BY <1>2, <2>2, <2>3
<1>4. RunBy(Generic, plan') = plan' /\ RunBy(src, plan') = plan'
  <2> DEFINE p == plan'
  <2>1. PlanOK(p) /\ p = [want |-> p.want, offsets |-> p.offsets, masks |-> p.masks]
    BY <1>3
  <2> HIDE DEF p
  <2>2. RunBy(Generic, p) = p /\ RunBy(SpecializedSource(p), p) = p
    BY <2>1, KernelRunsPlan
  <2> QED BY <2>2 DEF p
<1> HIDE DEF src
<1>5. k_match' = plan'
  BY <1>2, <1>4
<1>6. GpuJob'
  BY <1>2, <1>5 DEF GpuJob, PlanOf, TileCap
<1>7. GpuBuffers'
  <2>1. IsSeq(<<NoMatch>>)
    <3>1. <<NoMatch>> \in Seq({NoMatch})
      OBVIOUS
    <3> QED BY <3>1 DEF IsSeq
  <2>2. \A s \in Slots : IsSeq(found'[s]) /\ count'[s] \in Nat
    BY <1>2, <2>1
  <2>3. DOMAIN found' = Slots /\ DOMAIN count' = Slots
    BY <1>2
  <2> QED BY <2>1, <2>2, <2>3 DEF GpuBuffers, Slots, IsSeq
<1> QED BY <1>1, <1>2, <1>6, <1>7, GpuFresh

\* begin_tile() queues the commands of the tile, of which none has run.
LEMMA GpuBeginKeeps ==
  ASSUME GpuInv, BeginTile
  PROVE  GpuInv'
<1> DEFINE t == job.tiles[begun + 1]
<1>1. OpenclInv'
  BY BeginOK DEF GpuInv
<1>2. /\ begun < Len(job.tiles) /\ begun - Len(answers) < kDepth /\ begun' = begun + 1
      /\ queue' = [queue EXCEPT ![next_begin] = @ \o Commands(t)]
      /\ UNCHANGED <<job, answers, truncated, plan, cap, next_end, k_match, count, found>>
  BY DEF BeginTile
<1>3. /\ Len(job.tiles) \in Nat /\ begun \in 0 .. Len(job.tiles) /\ Len(answers) \in 0 .. begun
      /\ Flight \in 0 .. kDepth /\ begun = Len(answers) + Flight
  BY GpuFacts DEF GpuInv
<1>4. begun + 1 \in 1 .. Len(job.tiles) /\ Flight \in 0 .. kDepth - 1 /\ Flight' = Flight + 1
  BY <1>2, <1>3 DEF Flight, kDepth
<1>5. job \in Jobs /\ Commands(t) \in Seq(Command)
  BY <1>4, GpuFacts DEF GpuInv
<1> HIDE DEF t
<1>6. /\ next_begin \in Slots /\ next_end \in Slots /\ next_begin = (next_end + Flight) % kSlots
      /\ queue \in [Slots -> Seq(Command)]
  BY DEF GpuInv, OpenclInv, TypeOK, InTurn
<1>7. \A k \in 0 .. Flight - 1 : k \in 0 .. kDepth - 1 /\ (next_end + k) % kSlots # next_begin
  <2>1. \A k \in 0 .. Flight - 1 : k \in 0 .. kDepth - 1 /\ k # Flight
    BY <1>4 DEF kDepth
  <2> QED BY <1>4, <1>6, <2>1, SlotsApart
<1>8. queue[next_begin] = <<>>
  BY <1>6, <1>7 DEF GpuInv, OpenclInv, InTurn
<1>9. queue'[next_begin] = Commands(t) /\ \A s \in Slots : s # next_begin => queue'[s] = queue[s]
  <2>1. queue[next_begin] \o Commands(t) = Commands(t)
    BY <1>5, <1>8
  <2> QED BY <1>2, <1>6, <2>1
<1>10. GpuFlight'
  <2> SUFFICES ASSUME NEW k \in 0 .. Flight' - 1, NEW s \in Slots, NEW cs \in Seq(Command), InFlight(k, s, cs)'
               PROVE  \E d \in 0 .. Len(cs) : RanTo(s, cs, d)'
    BY DEF GpuFlight, Slots
  <2>1. s = (next_end + k) % kSlots /\ cs = Commands(job.tiles[Len(answers) + k + 1])
    BY <1>2 DEF InFlight, Commands
  <2>2. CASE k = Flight
    <3>1. s = next_begin /\ cs = Commands(t)
      <4>1. Len(answers) + k + 1 = begun + 1
        BY <1>3, <2>2
      <4> QED BY <1>6, <2>1, <2>2, <4>1 DEF t
    <3>2. queue'[s] = cs /\ SubSeq(cs, 0 + 1, Len(cs)) = cs /\ 0 \in 0 .. Len(cs)
      BY <1>9, <3>1
    <3>3. RanTo(s, cs, 0)'
      BY <3>2 DEF RanTo
    <3> QED BY <3>2, <3>3
  <2>3. CASE k # Flight
    <3>1. k \in 0 .. Flight - 1
      BY <1>4, <2>3 DEF kDepth
    <3>2. InFlight(k, s, cs)
      BY <2>1 DEF InFlight
    <3>3. PICK d \in 0 .. Len(cs) : RanTo(s, cs, d)
      BY <3>1, <3>2 DEF GpuInv, GpuFlight
    <3>4. queue'[s] = queue[s] /\ count'[s] = count[s] /\ found'[s] = found[s]
      BY <1>2, <1>7, <1>9, <2>1, <3>1
    <3>5. RanTo(s, cs, d)'
      BY <1>2, <3>3, <3>4, RanStays
    <3> QED BY <3>5
  <2> QED BY <2>2, <2>3
<1>11. GpuJob' /\ GpuBuffers' /\ GpuAnswers'
  <2>1. GpuJob'
    BY <1>2, <1>5, <1>4, GpuFacts DEF GpuInv, GpuJob, PlanOf, TileCap
  <2>2. GpuBuffers'
    BY <1>2 DEF GpuInv, GpuBuffers, Slots, IsSeq
  <2>3. GpuAnswers'
    BY <1>2 DEF GpuInv, GpuAnswers, Found
  <2> QED BY <2>1, <2>2, <2>3
<1> QED BY <1>1, <1>10, <1>11 DEF GpuInv

\* A slot whose queue has run dry holds the matches of its tile.
LEMMA Drained ==
  ASSUME OpenclInv, GpuJob, GpuFlight, Flight > 0, queue[next_end] = <<>>
  PROVE  Held(next_end, Found(Len(answers) + 1))
<1> DEFINE n == Len(answers) + 1
           t == job.tiles[n]
           cs == Commands(t)
<1>1. /\ Len(job.tiles) \in Nat /\ begun \in 0 .. Len(job.tiles) /\ Len(answers) \in 0 .. begun
      /\ Flight \in 0 .. kDepth /\ begun = Len(answers) + Flight
  BY GpuFacts
<1>2. n \in 1 .. Len(job.tiles) /\ 0 \in 0 .. Flight - 1
  BY <1>1 DEF kDepth
<1>3. job \in JobSet /\ PlanOK(plan) /\ t \in TileSet /\ cs \in Seq(Command)
  BY <1>2, GpuFacts
<1>4. next_end \in Slots /\ next_end % kSlots = next_end /\ next_end + 0 = next_end
  <2>1. next_end \in Slots
    BY DEF OpenclInv, TypeOK
  <2>2. next_end \in Int
    BY <2>1, SlotAssumption DEF Slots
  <2> QED BY <2>1, <2>2, SlotWraps
<1>5. InFlight(0, next_end, cs)
  <2>1. Len(answers) + 0 + 1 = n
    BY <1>1
  <2> QED BY <1>4, <2>1 DEF InFlight
<1> HIDE DEF cs
<1>6. PICK d \in 0 .. Len(cs) : RanTo(next_end, cs, d)
  BY <1>2, <1>3, <1>4, <1>5 DEF GpuFlight
<1>7. d = Len(cs)
  <2>1. queue[next_end] = SubSeq(cs, d + 1, Len(cs))
    BY <1>6 DEF RanTo
  <2> DEFINE q == queue[next_end]
  <2>2. q = SubSeq(cs, d + 1, Len(cs)) /\ q = <<>>
    BY <2>1
  <2> HIDE DEF q
  <2> QED BY <1>3, <2>2, Popped
<1>8. Len(cs) \in Nat \ {0} /\ Tested(cs, Len(cs)) = MatchesIn(job, t)
  <2>1. cs = Commands(t)
    BY DEF cs
  <2> HIDE DEF t
  <2> QED BY <1>3, <2>1, TestedGrows, CommandsAre
<1>9. Held(next_end, MatchesIn(job, t))
  BY <1>6, <1>7, <1>8 DEF RanTo
<1> QED BY <1>9 DEF Found

\* end_tile() takes an answer from a slot that has run all commands of its tile.
LEMMA GpuEndKeeps ==
  ASSUME GpuInv, EndTile
  PROVE  /\ GpuInv' /\ Len(answers) < begun
         /\ truncated' \in {truncated, TRUE}
         /\ truncated' /\ ~truncated => Cardinality(Found(Len(answers) + 1)) > cap
         /\ \E ms \in SUBSET Found(Len(answers) + 1) :
              answers' = Append(answers, ms) /\ (ms # Found(Len(answers) + 1) => truncated')
<1> DEFINE n == Len(answers) + 1
           F == Found(n)
           keep == Least(count[next_end], cap)
           ms == {found[next_end][i] : i \in 1 .. keep}
<1>1. OpenclInv'
  BY EndOK DEF GpuInv
<1>2. /\ Len(answers) < begun /\ queue[next_end] = <<>>
      /\ answers' = Append(answers, ms) /\ truncated' = (truncated \/ count[next_end] > cap)
      /\ next_end' = SlotAfter(next_end)
      /\ UNCHANGED <<job, begun, plan, cap, k_match, queue, count, found>>
  BY DEF EndTile, Least
<1>3. /\ Len(job.tiles) \in Nat /\ begun \in 0 .. Len(job.tiles) /\ Len(answers) \in 0 .. begun
      /\ DOMAIN answers = 1 .. Len(answers) /\ Flight \in 0 .. kDepth /\ begun = Len(answers) + Flight
  BY GpuFacts DEF GpuInv
<1>4. n \in 1 .. Len(job.tiles) /\ Flight > 0
  BY <1>2, <1>3 DEF kDepth
<1>5. IsFiniteSet(F) /\ cap \in Nat
  BY <1>4, GpuFacts DEF GpuInv
<1>6. Cardinality(F) \in Nat
  BY <1>5, FS_CardinalityType
<1>7. count[next_end] = Cardinality(F) /\ ms \subseteq F /\ Cardinality(ms) = Least(Cardinality(F), cap)
  <2>1. Held(next_end, F)
    BY <1>2, <1>4, Drained DEF GpuInv
  <2> HIDE DEF F
  <2> QED BY <2>1 DEF Held
<1> HIDE DEF ms, F, n
<1>8. truncated' \in {truncated, TRUE} /\ (truncated' /\ ~truncated => Cardinality(F) > cap)
  BY <1>2, <1>7 DEF GpuInv, GpuAnswers
<1>9. ASSUME ms # F PROVE truncated'
  <2>1. Cardinality(ms) # Cardinality(F)
    BY <1>5, <1>7, <1>9, FS_Subset
  <2>2. Cardinality(F) > cap
    BY <1>5, <1>6, <1>7, <2>1 DEF Least
  <2> QED BY <1>2, <1>7, <2>2
<1>10. /\ Len(answers') = n /\ answers'[n] = ms /\ n \in Nat
       /\ \A k \in 1 .. Len(answers) : answers'[k] = answers[k]
       /\ \A k \in 1 .. n : k = n \/ k \in 1 .. Len(answers)
       /\ n \in 1 .. n /\ \A k \in 1 .. Len(answers) : k \in 1 .. n
  <2>1. PICK S : answers \in Seq(S)
    BY DEF GpuInv, OpenclInv, TypeOK
  <2> QED BY <1>2, <2>1 DEF n
<1>11. GpuAnswers'
  <2>1. \A k : Found(k)' = Found(k)
    BY <1>2 DEF Found
  <2>2. ASSUME NEW k \in 1 .. n
        PROVE  answers'[k] \subseteq Found(k) /\ Cardinality(answers'[k]) = Least(Cardinality(Found(k)), cap)
    <3>1. CASE k = n
      BY <1>7, <1>10, <3>1 DEF F
    <3>2. CASE k \in 1 .. Len(answers)
      BY <1>10, <3>2 DEF GpuInv, GpuAnswers
    <3> QED BY <1>10, <3>1, <3>2
  <2>3. truncated' <=> \E k \in 1 .. n : Cardinality(Found(k)) > cap
    <3>1. truncated <=> \E k \in 1 .. Len(answers) : Cardinality(Found(k)) > cap
      BY DEF GpuInv, GpuAnswers
    <3>2. truncated' <=> truncated \/ Cardinality(Found(n)) > cap
      BY <1>2, <1>7 DEF F
    <3> QED BY <1>10, <3>1, <3>2
  <2>4. truncated' \in BOOLEAN
    BY <1>2 DEF GpuInv, GpuAnswers
  <2> QED BY <1>2, <1>10, <2>1, <2>2, <2>3, <2>4 DEF GpuAnswers, Found
<1>12. GpuFlight'
  <2> SUFFICES ASSUME NEW k \in 0 .. Flight' - 1, NEW s \in Slots, NEW cs \in Seq(Command), InFlight(k, s, cs)'
               PROVE  \E d \in 0 .. Len(cs) : RanTo(s, cs, d)'
    BY DEF GpuFlight, Slots
  <2>1. s = (next_end' + k) % kSlots /\ cs = Commands(job.tiles[Len(answers') + k + 1])
    BY <1>2 DEF InFlight, Commands
  <2>2. Flight' = Flight - 1
    BY <1>2, <1>3, <1>10 DEF Flight, n
  <2>3. k + 1 \in 0 .. Flight - 1 /\ k \in 0 .. kDepth - 1
    BY <1>3, <2>2 DEF kDepth
  <2>4. next_end \in Slots
    BY DEF GpuInv, OpenclInv, TypeOK
  <2>5. InFlight(k + 1, s, cs)
    <3>1. Len(answers') + k + 1 = Len(answers) + (k + 1) + 1
      BY <1>3, <1>10, <2>3 DEF n
    <3>2. (next_end' + k) % kSlots = (next_end + (k + 1)) % kSlots
      BY <1>2, <2>3, <2>4, SlotsApart
    <3> QED BY <2>1, <3>1, <3>2 DEF InFlight
  <2>6. PICK d \in 0 .. Len(cs) : RanTo(s, cs, d)
    BY <2>3, <2>5 DEF GpuInv, GpuFlight
  <2>7. RanTo(s, cs, d)'
    BY <1>2, <2>6, RanStays
  <2> QED BY <2>7
<1>13. GpuJob' /\ GpuBuffers'
  BY <1>2 DEF GpuInv, GpuJob, PlanOf, TileCap, GpuBuffers, Slots, IsSeq
<1> QED BY <1>1, <1>2, <1>7, <1>8, <1>9, <1>11, <1>12, <1>13 DEF GpuInv, F, n

\* A slot runs the command at the head of its queue.
LEMMA RunAdvances ==
  ASSUME GpuInv, NEW s \in Slots, Run(s), NEW k \in 0 .. Flight - 1, NEW cs \in Seq(Command), InFlight(k, s, cs)
  PROVE  (\E d \in 0 .. Len(cs) : RanTo(s, cs, d)') /\ IsSeq(found'[s]) /\ count'[s] \in Nat
<1> DEFINE t == job.tiles[Len(answers) + k + 1]
           cmd == Head(queue[s])
<1>1. /\ Len(job.tiles) \in Nat /\ begun \in 0 .. Len(job.tiles) /\ Len(answers) \in 0 .. begun
      /\ Flight \in 0 .. kDepth /\ begun = Len(answers) + Flight
  BY GpuFacts DEF GpuInv
<1>2. Len(answers) + k + 1 \in 1 .. Len(job.tiles)
  BY <1>1 DEF kDepth
<1>3. /\ IsJob(job) /\ job \in JobSet /\ plan = PlanOf(job) /\ PlanOK(plan) /\ k_match = plan /\ cap \in Nat
      /\ t \in TileSet /\ (\E l \in DOMAIN job.tiles : t = job.tiles[l])
  BY <1>2, GpuFacts DEF GpuInv
<1>4. cs = Commands(t)
  BY DEF InFlight
<1> HIDE DEF t
<1>5. /\ Tested(cs, 1) = {}
      /\ \A e \in 0 .. Len(cs) : Tested(cs, e) \subseteq MatchesIn(job, t) /\ IsFiniteSet(Tested(cs, e))
      /\ \A e \in 0 .. Len(cs) - 1 :
              /\ cs[e + 1].op # "match" => Tested(cs, e + 1) = Tested(cs, e)
              /\ cs[e + 1].op = "match" =>
                   /\ Tested(cs, e + 1) = Tested(cs, e) \cup MatchesIn(job, cs[e + 1].piece)
                   /\ Tested(cs, e) \cap MatchesIn(job, cs[e + 1].piece) = {}
  BY <1>3, <1>4, TestedGrows
<1>6. /\ Len(cs) \in Nat \ {0} /\ DOMAIN cs = 1 .. Len(cs)
      /\ \A i \in 1 .. Len(cs) : cs[i].op = "zero" <=> i = 1
      /\ \A i \in 1 .. Len(cs) : cs[i].op = "match" =>
           \E n \in DOMAIN Pieces(t) : /\ cs[i].piece = Pieces(t)[n]
                                       /\ cs[i].plane = PlaneOf(job.edition, Pieces(t)[n], Across, Down)
  <2>1. DOMAIN cs = 1 .. Len(cs)
    OBVIOUS
  <2> QED BY <1>3, <1>4, <2>1, CommandsAre
<1>7. PICK d \in 0 .. Len(cs) : RanTo(s, cs, d)
  BY DEF GpuInv, GpuFlight
<1>8. /\ queue[s] # <<>> /\ queue' = [queue EXCEPT ![s] = Tail(@)] /\ job' = job /\ cap' = cap
  BY DEF Run, Zero, Fill, Draw, Remap, Match, Takes, worker
<1>9. DOMAIN found = Slots /\ DOMAIN count = Slots /\ IsSeq(found[s]) /\ count[s] \in Nat /\ s \in DOMAIN queue
  BY DEF GpuInv, GpuBuffers, OpenclInv, TypeOK
<1>10. d < Len(cs) /\ cmd = cs[d + 1] /\ queue'[s] = SubSeq(cs, (d + 1) + 1, Len(cs))
  <2> DEFINE q == queue[s]
  <2>1. q = SubSeq(cs, d + 1, Len(cs)) /\ q # <<>>
    BY <1>7, <1>8 DEF RanTo
  <2>2. queue'[s] = Tail(q)
    BY <1>8, <1>9
  <2> HIDE DEF q
  <2>3. d < Len(cs) /\ Head(q) = cs[d + 1] /\ Tail(q) = SubSeq(cs, (d + 1) + 1, Len(cs))
    BY <2>1, Popped
  <2> QED BY <2>2, <2>3 DEF q
<1>11. d + 1 \in 1 .. Len(cs) /\ d + 1 \in 0 .. Len(cs) /\ d \in 0 .. Len(cs) - 1 /\ d + 1 > 0
  BY <1>6, <1>10
<1>12. \A e : Tested(cs, e)' = Tested(cs, e)
  BY <1>8 DEF Tested
<1> HIDE DEF cmd
<1>13. SUFFICES /\ IsSeq(found'[s]) /\ count'[s] \in Nat
                /\ LET ms == Tested(cs, d + 1)
                       kept == {found'[s][i] : i \in 1 .. Least(count'[s], cap)}
                   IN /\ count'[s] = Cardinality(ms) /\ kept \subseteq ms
                      /\ Cardinality(kept) = Least(count'[s], cap)
  BY <1>8, <1>10, <1>11, <1>12 DEF RanTo, Held
<1>14. CASE Zero(s)
  <2>1. cmd.op = "zero" /\ count' = [count EXCEPT ![s] = 0] /\ found' = found
    BY <1>14 DEF Zero, Takes, cmd
  <2>2. d + 1 = 1
    BY <1>6, <1>10, <1>11, <2>1
  <2>3. count'[s] = 0 /\ found'[s] = found[s] /\ Least(count'[s], cap) = 0
    BY <1>3, <1>9, <2>1 DEF Least
  <2>4. Tested(cs, d + 1) = {}
    BY <1>5, <2>2
  <2>5. {found'[s][i] : i \in 1 .. Least(count'[s], cap)} = {}
    BY <2>3
  <2> DEFINE ms == Tested(cs, d + 1)
             kept == {found'[s][i] : i \in 1 .. Least(count'[s], cap)}
  <2>6. ms = {} /\ kept = {} /\ Cardinality(ms) = 0 /\ Cardinality(kept) = 0
    BY <2>4, <2>5, FS_EmptySet
  <2>7. IsSeq(found'[s]) /\ count'[s] \in Nat
    <3>1. 0 \in Nat
      OBVIOUS
    <3> QED BY ONLY <1>9, <2>3, <3>1
  <2>8. count'[s] = Cardinality(ms) /\ kept \subseteq ms /\ Cardinality(kept) = Least(count'[s], cap)
    BY ONLY <2>3, <2>6
  <2> QED BY ONLY <2>7, <2>8 DEF ms, kept
<1>15. CASE Fill(s) \/ Draw(s) \/ Remap(s)
  <2>1. cmd.op \notin {"zero", "match"} /\ count' = count /\ found' = found
    BY <1>15 DEF Fill, Draw, Remap, Takes, cmd
  <2>2. d > 0
    BY <1>6, <1>10, <1>11, <2>1
  <2>3. Tested(cs, d + 1) = Tested(cs, d)
    BY <1>5, <1>10, <1>11, <2>1
  <2>4. Held(s, Tested(cs, d))
    BY <1>7, <2>2 DEF RanTo
  <2> QED BY <1>9, <2>1, <2>3, <2>4 DEF Held
<1>16. CASE Match(s)
  <2> DEFINE new == MatchesIn(job, cs[d + 1].piece)
             old == Tested(cs, d)
             room == IF count[s] < cap THEN cap - count[s] ELSE 0
             held == {found[s][i] : i \in 1 .. Least(count[s], cap)}
  <2>1. cmd.op = "match"
    BY <1>16 DEF Match, Takes, cmd
  <2>2. PICK n \in DOMAIN Pieces(t) :
          cmd.piece = Pieces(t)[n] /\ cmd.plane = PlaneOf(job.edition, Pieces(t)[n], Across, Down)
    BY <1>6, <1>10, <1>11, <2>1
  <2>3. plane[s] = cmd.plane
    BY <1>8, <2>1 DEF GpuInv, OpenclInv, QueueOK, cmd
  <2>4. MatchPlane(s, cmd) = new
    BY <1>3, <1>10, <2>2, <2>3, PlaneMatches
  <2>5. IsFiniteSet(new)
    BY <1>3, <1>10, <2>2, PieceMatches, MatchFacts
  <2>6. d > 0
    BY <1>6, <1>10, <1>11, <2>1
  <2>7. count[s] = Cardinality(old) /\ held \subseteq old /\ Cardinality(held) = Least(count[s], cap)
    <3>1. Held(s, Tested(cs, d))
      BY <1>7, <2>6 DEF RanTo
    <3> QED BY <3>1 DEF Held
  <2>8. Tested(cs, d + 1) = old \cup new /\ old \cap new = {} /\ IsFiniteSet(old)
    BY <1>5, <1>10, <1>11, <2>1
  <2>9. PICK kept \in SUBSET new : /\ Cardinality(kept) = Least(Cardinality(new), room)
                                   /\ count'[s] = count[s] + Cardinality(new)
                                   /\ found'[s] = Written(found[s], count[s], kept)
    <3>1. /\ count' = [count EXCEPT ![s] = @ + Cardinality(new)]
          /\ \E kept \in {ks \in SUBSET new : Cardinality(ks) = Least(Cardinality(new), room)} :
               found' = [found EXCEPT ![s] = Written(@, count[s], kept)]
      BY <1>16, <2>4 DEF Match, Least, cmd
    <3> HIDE DEF new, room
    <3> QED BY <1>9, <3>1
  <2> HIDE DEF new, old, room, held
  <2>10. Cardinality(new) \in Nat
    BY <2>5, FS_CardinalityType
  <2>11. Keeps(found[s], count[s], cap, old)
    BY <1>9, <2>7 DEF Keeps, held
  <2>12. Cardinality(kept) = Least(Cardinality(new), IF count[s] < cap THEN cap - count[s] ELSE 0)
    BY <2>9 DEF room
  <2>13. Keeps(found'[s], count'[s], cap, old \cup new)
    <3>1. Keeps(Written(found[s], count[s], kept), count[s] + Cardinality(new), cap, old \cup new)
      BY ONLY <1>3, <2>5, <2>8, <2>9, <2>11, <2>12, KeptMore
    <3> QED BY ONLY <2>9, <3>1
  <2>14. count'[s] \in Nat
    BY <1>9, <2>9, <2>10
  <2> QED BY <2>8, <2>13, <2>14 DEF Keeps
<1> QED BY <1>14, <1>15, <1>16 DEF Run

\* The device keeps the invariant, whichever queue it goes on with.
LEMMA GpuRunKeeps ==
  ASSUME GpuInv, NEW s \in Slots, Run(s)
  PROVE  GpuInv' /\ worker' = worker
<1>1. OpenclInv'
  BY RunOK DEF GpuInv
<1>2. /\ queue[s] # <<>> /\ queue' = [queue EXCEPT ![s] = Tail(@)]
      /\ UNCHANGED <<job, begun, answers, truncated, plan, cap, next_begin, next_end, k_match>>
  BY DEF Run, Zero, Fill, Draw, Remap, Match, Takes, worker
<1>3. /\ DOMAIN found' = DOMAIN found /\ DOMAIN count' = DOMAIN count
      /\ \A r \in Slots : r # s => found'[r] = found[r] /\ count'[r] = count[r]
  <2>1. DOMAIN found = Slots /\ DOMAIN count = Slots
    BY DEF GpuInv, GpuBuffers
  <2>2. CASE Zero(s)
    BY <2>1, <2>2 DEF Zero
  <2>3. CASE Fill(s) \/ Draw(s) \/ Remap(s)
    BY <2>3 DEF Fill, Draw, Remap
  <2>4. CASE Match(s)
    <3>1. PICK n, f : count' = [count EXCEPT ![s] = n] /\ found' = [found EXCEPT ![s] = f]
      BY <2>4 DEF Match
    <3> QED BY <2>1, <3>1
  <2> QED BY <2>2, <2>3, <2>4 DEF Run
<1>4. \A r \in Slots : r # s => queue'[r] = queue[r]
  BY <1>2 DEF GpuInv, OpenclInv, TypeOK
<1>5. PICK k \in 0 .. Flight - 1 : s = (next_end + k) % kSlots
  BY <1>2 DEF GpuInv, OpenclInv, InTurn
<1> DEFINE n == Len(answers) + k + 1
<1> PICK cs : cs = Commands(job.tiles[n])
  OBVIOUS
<1>6. /\ Len(job.tiles) \in Nat /\ begun \in 0 .. Len(job.tiles) /\ Len(answers) \in 0 .. begun
      /\ Flight \in 0 .. kDepth /\ begun = Len(answers) + Flight
  BY GpuFacts DEF GpuInv
<1>7. n \in 1 .. Len(job.tiles)
  BY <1>6 DEF kDepth
<1>8. cs \in Seq(Command) /\ job \in Jobs
  BY <1>7, GpuFacts DEF GpuInv
<1>9. InFlight(k, s, cs)
  BY <1>5 DEF InFlight
<1>10. (\E d \in 0 .. Len(cs) : RanTo(s, cs, d)') /\ IsSeq(found'[s]) /\ count'[s] \in Nat
  BY <1>8, <1>9, RunAdvances
<1>11. GpuBuffers'
  <2>1. \A r \in Slots : IsSeq(found'[r]) /\ count'[r] \in Nat
    BY <1>3, <1>10 DEF GpuInv, GpuBuffers
  <2> QED BY <1>3, <2>1 DEF GpuInv, GpuBuffers, Slots, IsSeq
<1>12. GpuFlight'
  <2>1. Flight' = Flight
    BY <1>2 DEF Flight
  <2> SUFFICES ASSUME NEW l \in 0 .. Flight - 1, NEW r \in Slots, NEW c \in Seq(Command), InFlight(l, r, c)'
               PROVE  \E d \in 0 .. Len(c) : RanTo(r, c, d)'
    BY <2>1 DEF GpuFlight, Slots
  <2>2. InFlight(l, r, c)
    BY <1>2 DEF InFlight, Commands
  <2>3. CASE r = s
    <3>1. k \in 0 .. kDepth - 1 /\ l \in 0 .. kDepth - 1 /\ next_end \in Slots
      <4>1. next_end \in Slots
        BY DEF GpuInv, OpenclInv, TypeOK
      <4>2. Flight \in 0 .. kDepth
        BY <1>6
      <4> QED BY ONLY <4>1, <4>2 DEF kDepth
    <3>2. l = k
      BY <1>5, <2>3, <2>2, <3>1, SlotsApart DEF InFlight
    <3>3. c = cs
      BY <1>9, <2>2, <3>2 DEF InFlight
    <3> QED BY <1>10, <2>3, <3>3
  <2>4. CASE r # s
    <3>1. PICK d \in 0 .. Len(c) : RanTo(r, c, d)
      BY <2>2 DEF GpuInv, GpuFlight
    <3>2. queue'[r] = queue[r] /\ count'[r] = count[r] /\ found'[r] = found[r]
      BY <1>3, <1>4, <2>4
    <3>3. RanTo(r, c, d)'
      BY <1>2, <3>1, <3>2, RanStays
    <3> QED BY <3>3
  <2> QED BY <2>3, <2>4
<1>13. GpuJob' /\ GpuAnswers'
  <2>1. GpuJob'
    BY <1>2, <1>7, GpuFacts DEF GpuInv, GpuJob, PlanOf, TileCap
  <2>2. GpuAnswers'
    BY <1>2 DEF GpuInv, GpuAnswers, Found
  <2> QED BY <2>1, <2>2
<1> QED BY <1>1, <1>2, <1>11, <1>12, <1>13 DEF GpuInv, worker

\* What the contract calls the matches of a tile is the same for this worker.
LEMMA GpuMatches ==
  ASSUME NEW j, NEW t, NEW n
  PROVE  /\ Contract!MatchesIn(j, t) = MatchesIn(j, t)
         /\ Contract!MatchesUpTo(j, n) = MatchesUpTo(j, n)
<1>1. \A u : Contract!MatchesIn(j, u) = MatchesIn(j, u)
  BY DEF Contract!MatchesIn, MatchesIn, Contract!Anchor, Anchor, Contract!Nearer, Nearer,
         Contract!Dist2, Dist2, Contract!SumOf, SumOf, Contract!TrueMask, TrueMask,
         Contract!Orientations, Orientations, Contract!kOrientations, kOrientations,
         Contract!Turn, Turn, Contract!Bed, Bed, Contract!BeCoord, BeCoord,
         Contract!Nearest, Nearest, Contract!FloatStep, FloatStep, Contract!Magnitude, Magnitude,
         Contract!Candidates, Candidates
<1>2. Contract!MatchesUpTo(j, n) = MatchesUpTo(j, n)
  BY <1>1 DEF Contract!MatchesUpTo, MatchesUpTo
<1> QED BY <1>1, <1>2

\* The invariant and the contract start true.
LEMMA GpuInitOK == Init => GpuInv /\ Contract!Init
<1> SUFFICES ASSUME Init PROVE GpuInv /\ Contract!Init
  OBVIOUS
<1>1. /\ job = NoJob /\ begun = 0 /\ answers = <<>> /\ truncated = FALSE
      /\ count = [s \in Slots |-> 1] /\ found = [s \in Slots |-> <<NoMatch>>]
  BY DEF Init
<1>2. OpenclInv
  BY InitOK
<1>3. GpuBuffers
  <2>1. <<NoMatch>> \in Seq({NoMatch})
    OBVIOUS
  <2>2. IsSeq(<<NoMatch>>)
    BY <2>1 DEF IsSeq
  <2>3. \A s \in Slots : IsSeq(found[s]) /\ count[s] \in Nat
    BY <1>1, <2>2
  <2> QED BY <1>1, <2>3 DEF GpuBuffers
<1>4. GpuFlight /\ GpuAnswers
  <2>1. Len(answers) = 0
    BY <1>1
  <2>2. Flight = 0
    <3>1. begun = 0
      BY <1>1
    <3> QED BY ONLY <2>1, <3>1 DEF Flight
  <2>3. 1 .. Len(answers) = {} /\ 0 .. Flight - 1 = {}
    BY <2>1, <2>2
  <2> QED BY <1>1, <2>3 DEF GpuFlight, GpuAnswers
<1>5. GpuJob /\ Contract!Init
  BY <1>1 DEF GpuJob, Contract!Init, Contract!NoJob, NoJob
<1> QED BY <1>2, <1>3, <1>4, <1>5 DEF GpuInv

\* Every step of OpenclWorker keeps the invariant, and is a step of the contract or none.
LEMMA GpuSteps ==
  ASSUME GpuInv, [Next]_vars
  PROVE  GpuInv' /\ [Contract!Next]_(Contract!worker)
<1>1. ASSUME NEW j \in Jobs, NEW compiles \in BOOLEAN, Configure(j, compiles) PROVE GpuInv' /\ Contract!Next
  <2>1. GpuInv'
    BY <1>1, GpuConfigureKeeps
  <2>2. /\ begun = Len(answers) /\ begun = Len(job.tiles)
        /\ job' = j /\ begun' = 0 /\ answers' = <<>> /\ truncated' = FALSE
    BY <1>1 DEF Configure
  <2>3. j # NoJob
    <3>1. IsPattern(j.knowns)
      BY JobAssumption DEF IsJob
    <3> QED BY <3>1 DEF NoJob, IsPattern
  <2>4. Contract!Configure
    BY <2>2, <2>3 DEF Contract!Configure, Contract!NoJob, NoJob
  <2> QED BY <2>1, <2>4 DEF Contract!Next
<1>2. ASSUME BeginTile PROVE GpuInv' /\ Contract!Next
  <2>1. GpuInv'
    BY <1>2, GpuBeginKeeps
  <2>2. Contract!BeginTile
    BY <1>2 DEF BeginTile, Contract!BeginTile, kDepth, Contract!kDepth
  <2> QED BY <2>1, <2>2 DEF Contract!Next
<1>3. ASSUME EndTile PROVE GpuInv' /\ Contract!Next
  <2> DEFINE n == Len(answers) + 1
             F == Found(n)
             M == MatchesUpTo(job, begun)
  <2>1. /\ GpuInv' /\ Len(answers) < begun /\ truncated' \in {truncated, TRUE}
        /\ truncated' /\ ~truncated => Cardinality(F) > cap
        /\ \E ms \in SUBSET F : answers' = Append(answers, ms) /\ (ms # F => truncated')
    BY <1>3, GpuEndKeeps
  <2>2. job' = job /\ begun' = begun
    BY <1>3 DEF EndTile
  <2>3. /\ Len(job.tiles) \in Nat /\ begun \in 0 .. Len(job.tiles) /\ Len(answers) \in 0 .. begun
    BY GpuFacts DEF GpuInv
  <2>4. n \in 1 .. Len(job.tiles) /\ n \in 1 .. begun
    BY <2>1, <2>3
  <2>5. IsJob(job) /\ IsFiniteSet(F) /\ cap = TileCap(job) /\ cap \in Nat
    BY <2>4, GpuFacts DEF GpuInv
  <2>6. F \subseteq M /\ IsFiniteSet(M)
    <3>1. F \subseteq M
      BY <2>4 DEF MatchesUpTo, Found
    <3>2. IsFiniteSet(M)
      BY <2>3, <2>5, MatchesGrow
    <3> QED BY <3>1, <3>2
  <2>7. Cardinality(F) \in Nat /\ Cardinality(M) \in Nat /\ Cardinality(F) <= Cardinality(M)
    BY <2>5, <2>6, FS_Subset, FS_CardinalityType
  <2>8. truncated' /\ ~truncated => Cardinality(Contract!MatchesUpTo(job, begun)) > Contract!TileCap(job)
    <3>1. Contract!TileCap(job) = cap
      BY <2>5 DEF Contract!TileCap, TileCap
    <3>2. Contract!MatchesUpTo(job, begun) = M
      BY GpuMatches
    <3> HIDE DEF F, M
    <3> QED BY <2>1, <2>5, <2>7, <3>1, <3>2
  <2>9. Contract!Truncation
    BY <2>1, <2>8 DEF Contract!Truncation, Contract!Cardinality, Cardinality
  <2>10. Contract!MatchesIn(job, job.tiles[n]) = F
    BY GpuMatches DEF Found
  <2>11. Contract!EndTile
    <3> HIDE DEF F
    <3> QED BY <2>1, <2>2, <2>9, <2>10 DEF Contract!EndTile
  <2> QED BY <2>1, <2>11 DEF Contract!Next
<1>4. ASSUME NEW s \in Slots, Run(s) PROVE GpuInv' /\ UNCHANGED Contract!worker
  BY <1>4, GpuRunKeeps DEF worker, Contract!worker
<1>5. ASSUME UNCHANGED vars PROVE GpuInv' /\ UNCHANGED Contract!worker
  <2>1. UNCHANGED <<job, begun, answers, truncated, plan, cap, next_begin, next_end, specialized, k_match,
                    queue, count, found, raw, plane>>
    BY <1>5 DEF vars, worker, device
  <2>2. OpenclInv' = OpenclInv
    BY <2>1 DEF OpenclInv, TypeOK, InTurn, QueueOK, Flight, Chained, AllFit, Fits, Across, Down, Slots, Planes, Command
  <2>3. GpuJob' /\ GpuBuffers' /\ GpuAnswers'
    BY <2>1 DEF GpuInv, GpuJob, PlanOf, TileCap, GpuBuffers, Slots, IsSeq, GpuAnswers, Found
  <2>4. GpuFlight' = GpuFlight
    BY <2>1 DEF GpuFlight, Flight, InFlight, Commands, RanTo, Held, Tested, Slots
  <2> QED BY <2>1, <2>2, <2>3, <2>4 DEF GpuInv, Contract!worker
<1> QED BY <1>1, <1>2, <1>3, <1>4, <1>5 DEF Next, Work


-----------------------------------------------------------------------------
(* What CpuWorker tests                                                    *)

\* CpuWorker's chunks are computed as ChunkOf computes them.
LEMMA CpuChunkBed ==
  ASSUME NEW t, NEW rx, NEW rz, NEW x, NEW z
  PROVE  Cpu!ChunkBed(t, rx, rz, x, z) =
           IF /\ ChunkOf(x) \in ChunkOf(t.x0 + rx[1]) .. ChunkOf(t.x0 + t.w - 1 + rx[2])
              /\ ChunkOf(z) \in ChunkOf(t.z0 + rz[1]) .. ChunkOf(t.z0 + t.h - 1 + rz[2])
           THEN Drawn(BeCoord(x), BeCoord(z)) ELSE Junk
BY DEF Cpu!ChunkBed, Cpu!ChunkOf, ChunkOf, Cpu!BeCoord, BeCoord, Cpu!Nearest, Nearest,
       Cpu!FloatStep, FloatStep, Cpu!Magnitude, Magnitude, Cpu!Junk, Junk

\* The chunks that CpuWorker draws for a tile show, wherever a candidate of it
\* looks, the block of the game.
THEOREM ChunksShow ==
  ASSUME NEW j, IsJob(j), j.edition = "bedrock", NEW t \in TileSet, (\E k \in DOMAIN j.tiles : t = j.tiles[k]),
         NEW p, p = PlanOf(j), NEW v \in DOMAIN p.offsets, NEW c \in DOMAIN p.want,
         NEW x, NEW z, <<x, z>> \in Candidates(t)
  PROVE  Cpu!ChunkBed(t, Reach(p, 1), Reach(p, 2), x + p.offsets[v][c][1], z + p.offsets[v][c][2]) =
           Bed(j.edition, x + p.offsets[v][c][1], z + p.offsets[v][c][2])
<1> DEFINE a == x + p.offsets[v][c][1]
           b == z + p.offsets[v][c][2]
<1>1. PlanOK(p) /\ a \in Int /\ b \in Int
  BY LooksNear
<1>2. \A axis \in {1, 2} :
        /\ Reach(p, axis)[1] \in Int /\ Reach(p, axis)[2] \in Int
        /\ Reach(p, axis)[1] <= p.offsets[v][c][axis] /\ p.offsets[v][c][axis] <= Reach(p, axis)[2]
        /\ p.offsets[v][c][axis] \in Int
  BY <1>1, ReachIs
<1>3. t.x0 \in Int /\ t.w \in Int /\ t.z0 \in Int /\ t.h \in Int
  BY DEF TileSet
<1>4. ChunkOf(a) \in ChunkOf(t.x0 + Reach(p, 1)[1]) .. ChunkOf(t.x0 + t.w - 1 + Reach(p, 1)[2])
  <2>1. PICK v1 \in DOMAIN p.offsets, c1 \in DOMAIN p.want : Reach(p, 1)[1] = p.offsets[v1][c1][1]
    BY <1>1, ReachIs
  <2>2. PICK v2 \in DOMAIN p.offsets, c2 \in DOMAIN p.want : Reach(p, 1)[2] = p.offsets[v2][c2][1]
    BY <1>1, ReachIs
  <2>3. -(2 * FloatLimit) < t.x0 + Reach(p, 1)[1]
    BY <2>1, LooksNear
  <2>4. t.x0 + t.w - 1 + Reach(p, 1)[2] < 2 * FloatLimit
    BY <2>2, LooksNear
  <2>5. t.x0 + p.offsets[v][c][1] <= a /\ a <= t.x0 + t.w - 1 + p.offsets[v][c][1]
    BY LooksNear
  <2>6. t.x0 + Reach(p, 1)[1] <= a /\ a <= t.x0 + t.w - 1 + Reach(p, 1)[2]
    <3> HIDE DEF a
    <3> QED BY <1>1, <1>2, <1>3, <2>5
  <2> HIDE DEF a
  <2>7. t.x0 + Reach(p, 1)[1] \in Int /\ t.x0 + t.w - 1 + Reach(p, 1)[2] \in Int
    BY <1>2, <1>3
  <2> QED BY <1>1, <2>3, <2>4, <2>6, <2>7, ChunksReach
<1>5. ChunkOf(b) \in ChunkOf(t.z0 + Reach(p, 2)[1]) .. ChunkOf(t.z0 + t.h - 1 + Reach(p, 2)[2])
  <2>1. PICK v1 \in DOMAIN p.offsets, c1 \in DOMAIN p.want : Reach(p, 2)[1] = p.offsets[v1][c1][2]
    BY <1>1, ReachIs
  <2>2. PICK v2 \in DOMAIN p.offsets, c2 \in DOMAIN p.want : Reach(p, 2)[2] = p.offsets[v2][c2][2]
    BY <1>1, ReachIs
  <2>3. -(2 * FloatLimit) < t.z0 + Reach(p, 2)[1]
    BY <2>1, LooksNear
  <2>4. t.z0 + t.h - 1 + Reach(p, 2)[2] < 2 * FloatLimit
    BY <2>2, LooksNear
  <2>5. t.z0 + p.offsets[v][c][2] <= b /\ b <= t.z0 + t.h - 1 + p.offsets[v][c][2]
    BY LooksNear
  <2>6. t.z0 + Reach(p, 2)[1] <= b /\ b <= t.z0 + t.h - 1 + Reach(p, 2)[2]
    <3> HIDE DEF b
    <3> QED BY <1>1, <1>2, <1>3, <2>5
  <2> HIDE DEF b
  <2>7. t.z0 + Reach(p, 2)[1] \in Int /\ t.z0 + t.h - 1 + Reach(p, 2)[2] \in Int
    BY <1>2, <1>3
  <2> QED BY <1>1, <2>3, <2>4, <2>6, <2>7, ChunksReach
<1>6. Bed(j.edition, a, b) = Drawn(BeCoord(a), BeCoord(b))
  BY DEF Bed
<1> HIDE DEF a, b
<1>7. Cpu!ChunkBed(t, Reach(p, 1), Reach(p, 2), a, b) = Bed(j.edition, a, b)
  BY <1>4, <1>5, <1>6, CpuChunkBed
<1> QED BY <1>7 DEF a, b

\* CpuWorker's plans are those that the facts about plans are about: its sequences,
LEMMA CpuFlatten == ASSUME NEW seqs PROVE Cpu!FlattenSeq(seqs) = FlattenSeq(seqs)
BY DEF Cpu!FlattenSeq, FlattenSeq

\* Its picks from a sequence.
LEMMA CpuPicked == ASSUME NEW s, NEW at PROVE Cpu!Picked(s, at) = Picked(s, at)
BY CpuFlatten DEF Cpu!Picked, Picked

\* Its anchor.
LEMMA CpuAnchor == ASSUME NEW knowns, NEW rare PROVE Cpu!Anchor(knowns, rare) = Anchor(knowns, rare)
BY DEF Cpu!Anchor, Anchor, Cpu!Nearer, Nearer, Cpu!Dist2, Dist2, Cpu!SumOf, SumOf

\* Its order of the cells.
LEMMA CpuRareFirst == ASSUME NEW knowns, NEW rare PROVE Cpu!RareFirst(knowns, rare) = RareFirst(knowns, rare)
BY CpuPicked DEF Cpu!RareFirst, RareFirst

\* The cells of its plan.
LEMMA CpuPlanCells == ASSUME NEW knowns, NEW rare PROVE Cpu!PlanCells(knowns, rare) = PlanCells(knowns, rare)
BY CpuPicked, CpuAnchor, CpuRareFirst DEF Cpu!PlanCells, PlanCells

\* The offsets of an orientation.
LEMMA CpuAround == ASSUME NEW cells, NEW g PROVE Cpu!Around(cells, g) = Around(cells, g)
BY DEF Cpu!Around, Around, Cpu!Turn, Turn, Cpu!kOrientations, kOrientations

\* What tells two orientations apart.
LEMMA CpuKey == ASSUME NEW cells, NEW g PROVE Cpu!Key(cells, g) = Key(cells, g)
BY CpuAround DEF Cpu!Key, Key

\* The orientations it tries.
LEMMA CpuOrientations == ASSUME NEW all PROVE Cpu!Orientations(all) = Orientations(all)
BY DEF Cpu!Orientations, Orientations, Cpu!kOrientations, kOrientations

\* The plan it searches with.
LEMMA CpuPlan ==
  ASSUME NEW knowns, NEW rare, NEW all
  PROVE  Cpu!BuildSearchPlan(knowns, rare, all) = BuildSearchPlan(knowns, rare, all)
<1> DEFINE cells == PlanCells(knowns, rare)
           cpuCells == Cpu!PlanCells(knowns, rare)
           Alike(g) == {h \in Orientations(all) : Key(cells, h) = Key(cells, g)}
           CpuAlike(g) == {h \in Cpu!Orientations(all) : Cpu!Key(cpuCells, h) = Cpu!Key(cpuCells, g)}
           turns == [g \in 1 .. (IF all THEN Len(kOrientations) ELSE 1) |-> g]
           cpuTurns == [g \in 1 .. (IF all THEN Len(Cpu!kOrientations) ELSE 1) |-> g]
           firsts == Picked(turns, {g \in DOMAIN turns : \A h \in Alike(g) : g <= h})
           cpuFirsts == Cpu!Picked(cpuTurns, {g \in DOMAIN cpuTurns : \A h \in CpuAlike(g) : g <= h})
<1>0. cpuCells = cells /\ cpuTurns = turns
  BY CpuPlanCells DEF Cpu!kOrientations, kOrientations
<1>1. \A g : CpuAlike(g) = Alike(g)
  <2> HIDE DEF cells, cpuCells
  <2> QED BY <1>0, CpuOrientations, CpuKey
<1>2. cpuFirsts = firsts
  <2> HIDE DEF Alike, CpuAlike, turns, cpuTurns
  <2> QED BY <1>0, <1>1, CpuPicked
<1>3. BuildSearchPlan(knowns, rare, all) =
        [want    |-> [c \in DOMAIN cells |-> cells[c].want],
         offsets |-> [v \in DOMAIN firsts |-> Around(cells, firsts[v])],
         masks   |-> [v \in DOMAIN firsts |-> Alike(firsts[v])]]
  BY DEF BuildSearchPlan
<1>4. Cpu!BuildSearchPlan(knowns, rare, all) =
        [want    |-> [c \in DOMAIN cpuCells |-> cpuCells[c].want],
         offsets |-> [v \in DOMAIN cpuFirsts |-> Cpu!Around(cpuCells, cpuFirsts[v])],
         masks   |-> [v \in DOMAIN cpuFirsts |-> CpuAlike(cpuFirsts[v])]]
  BY DEF Cpu!BuildSearchPlan
<1> HIDE DEF Alike, CpuAlike, firsts, cpuFirsts, cells, cpuCells
<1> QED BY <1>0, <1>1, <1>2, <1>3, <1>4, CpuAround

\* How far that plan reaches.
LEMMA CpuReach == ASSUME NEW p, NEW axis PROVE Cpu!Reach(p, axis) = Reach(p, axis)
BY DEF Cpu!Reach, Reach

\* What the plan finds at a place.
LEMMA CpuPlanMask == ASSUME NEW p, NEW b, NEW x, NEW z PROVE Cpu!PlanMask(p, b, x, z) = PlanMask(p, b, x, z)
BY DEF Cpu!PlanMask, PlanMask

\* What CpuWorker finds at a candidate is the match by the definition.
LEMMA CpuMatchAt ==
  ASSUME IsJob(job), cpuPlan = PlanOf(job), NEW t \in TileSet, (\E k \in DOMAIN job.tiles : t = job.tiles[k]),
         NEW x, NEW z, <<x, z>> \in Candidates(t)
  PROVE  Cpu!MatchAt(t, x, z) = IF MaskOf(job, x, z) = {} THEN <<>> ELSE <<MatchOf(job, x, z)>>
<1> DEFINE p == cpuPlan
           block == [q \in Int \X Int |-> IF job.edition = "bedrock"
                                          THEN Cpu!ChunkBed(t, Reach(p, 1), Reach(p, 2), q[1], q[2])
                                          ELSE Drawn(q[1], q[2])]
           mask == PlanMask(p, block, x, z)
<1>1. Cpu!MatchAt(t, x, z) = IF mask = {} THEN <<>> ELSE <<[x |-> x, z |-> z, mask |-> mask]>>
  BY CpuReach, CpuPlanMask DEF Cpu!MatchAt
<1>2. IsPattern(job.knowns) /\ job.all \in BOOLEAN /\ PlanOK(p)
  <2>1. IsPattern(job.knowns) /\ job.all \in BOOLEAN
    BY DEF IsJob, JobSet
  <2> QED BY <2>1, PlanBuilt DEF PlanOf
<1>3. /\ DOMAIN p.want = 1 .. Len(p.want) /\ Len(p.want) \in Nat \ {0} /\ 1 \in DOMAIN p.offsets
      /\ p.offsets[1][1] = <<0, 0>>
  BY <1>2 DEF PlanOK
<1>4. x \in Int /\ z \in Int
  BY DEF TileSet, Candidates
<1>5. ASSUME NEW v \in DOMAIN p.offsets, NEW c \in DOMAIN p.want
      PROVE  block[<<x + p.offsets[v][c][1], z + p.offsets[v][c][2]>>] =
             World(job)[<<x + p.offsets[v][c][1], z + p.offsets[v][c][2]>>]
  <2> DEFINE a == x + p.offsets[v][c][1]
             b == z + p.offsets[v][c][2]
  <2>1. a \in Int /\ b \in Int
    BY LooksNear
  <2>2. job.edition = "bedrock" =>
          Cpu!ChunkBed(t, Reach(p, 1), Reach(p, 2), a, b) = Bed(job.edition, a, b)
    BY ChunksShow
  <2>3. job.edition # "bedrock" => Bed(job.edition, a, b) = Drawn(a, b)
    BY DEF Bed
  <2> HIDE DEF a, b
  <2>4. <<a, b>> \in Int \X Int /\ <<a, b>>[1] = a /\ <<a, b>>[2] = b
    BY <2>1
  <2>5. World(job)[<<a, b>>] = Bed(job.edition, a, b)
    BY <2>4 DEF World
  <2>6. block[<<a, b>>] = IF job.edition = "bedrock"
                          THEN Cpu!ChunkBed(t, Reach(p, 1), Reach(p, 2), a, b) ELSE Drawn(a, b)
    BY <2>4
  <2> HIDE DEF block
  <2>7. block[<<a, b>>] = World(job)[<<a, b>>]
    BY <2>2, <2>3, <2>5, <2>6
  <2> QED BY <2>7 DEF a, b
<1> HIDE DEF block
<1>6. block[<<x, z>>] = World(job)[<<x, z>>]
  <2>1. /\ x + p.offsets[1][1][1] = x /\ z + p.offsets[1][1][2] = z
        /\ 1 \in DOMAIN p.offsets /\ 1 \in DOMAIN p.want
    BY <1>3, <1>4
  <2> QED BY <1>5, <2>1
<1>7. mask = PlanMask(p, World(job), x, z)
  <2>1. \A v \in DOMAIN p.offsets, c \in 2 .. Len(p.want) : c \in DOMAIN p.want
    BY <1>3
  <2>2. \A v \in DOMAIN p.offsets, c \in 2 .. Len(p.want) :
          block[<<x + p.offsets[v][c][1], z + p.offsets[v][c][2]>>] =
          World(job)[<<x + p.offsets[v][c][1], z + p.offsets[v][c][2]>>]
    BY <1>5, <2>1
  <2> DEFINE w == World(job)
  <2>3. SeesAlike(p, block, x, z, w, x, z)
    BY <1>6, <2>2 DEF SeesAlike
  <2> HIDE DEF p, w
  <2>4. PlanMask(p, block, x, z) = PlanMask(p, w, x, z)
    BY <2>3, SameMask
  <2> QED BY <2>4 DEF w
<1>8. PlanMask(p, World(job), x, z) = MaskOf(job, x, z)
  BY <1>2, <1>4, PlanAgrees DEF PlanOf, MaskOf
<1> HIDE DEF mask
<1> QED BY <1>1, <1>7, <1>8 DEF MatchOf

\* A row has its matches, each once.
LEMMA CpuRow ==
  ASSUME IsJob(job), cpuPlan = PlanOf(job), NEW t \in TileSet, (\E k \in DOMAIN job.tiles : t = job.tiles[k]),
         NEW z \in t.z0 .. t.z0 + t.h - 1
  PROVE  /\ Cpu!RowMatches(t, z) \in Seq(MatchesIn(job, t)) /\ IsInjective(Cpu!RowMatches(t, z))
         /\ Range(Cpu!RowMatches(t, z)) = {m \in MatchesIn(job, t) : m.z = z}
<1> DEFINE M == MatchesIn(job, t)
           At(n) == IF MaskOf(job, t.x0 + n - 1, z) = {} THEN <<>> ELSE <<MatchOf(job, t.x0 + n - 1, z)>>
           seqs == [n \in 1 .. t.w |-> At(n)]
<1>1. t.x0 \in Int /\ t.w \in Nat /\ t.z0 \in Int /\ t.h \in Nat
  BY DEF TileSet
<1>2. \A n \in 1 .. t.w : <<t.x0 + n - 1, z>> \in Candidates(t)
  BY <1>1 DEF Candidates
<1>3. Cpu!RowMatches(t, z) = FlattenSeq(seqs)
  <2>1. \A n \in 1 .. t.w : Cpu!MatchAt(t, t.x0 + n - 1, z) = At(n)
    BY <1>2, CpuMatchAt
  <2>2. [n \in 1 .. t.w |-> Cpu!MatchAt(t, t.x0 + n - 1, z)] = seqs
    <3> HIDE DEF At
    <3> QED BY <2>1
  <2>3. Cpu!RowMatches(t, z) = Cpu!FlattenSeq([n \in 1 .. t.w |-> Cpu!MatchAt(t, t.x0 + n - 1, z)])
    BY DEF Cpu!RowMatches
  <2> HIDE DEF seqs
  <2> QED BY <2>2, <2>3, CpuFlatten
<1>4. ASSUME NEW n \in 1 .. t.w
      PROVE  At(n) \in Seq(M) /\ IsInjective(At(n)) /\ Range(At(n)) = {m \in M : m.x = t.x0 + n - 1 /\ m.z = z}
  <2> DEFINE x == t.x0 + n - 1
             here == {m \in M : m.x = x /\ m.z = z}
  <2>1. <<x, z>> \in Candidates(t)
    BY <1>2
  <2>2. /\ \A m \in M : m = MatchOf(job, m.x, m.z) /\ MaskOf(job, m.x, m.z) # {}
        /\ MaskOf(job, x, z) # {} => MatchOf(job, x, z) \in M
    BY <2>1, MatchFacts
  <2>3. MatchOf(job, x, z).x = x /\ MatchOf(job, x, z).z = z
    BY DEF MatchOf
  <2> HIDE DEF x, M
  <2>4. here = IF MaskOf(job, x, z) = {} THEN {} ELSE {MatchOf(job, x, z)}
    BY <2>2, <2>3
  <2>5. /\ Range(<<>>) = {} /\ IsInjective(<<>>) /\ <<>> \in Seq(M)
        /\ \A e : Range(<<e>>) = {e} /\ IsInjective(<<e>>)
        /\ \A e \in M : <<e>> \in Seq(M)
    BY DEF Range, IsInjective
  <2>6. CASE MaskOf(job, x, z) = {}
    BY <2>4, <2>5, <2>6 DEF x
  <2>7. CASE MaskOf(job, x, z) # {}
    <3>1. At(n) = <<MatchOf(job, x, z)>> /\ MatchOf(job, x, z) \in M /\ here = {MatchOf(job, x, z)}
      BY <2>2, <2>4, <2>7 DEF x
    <3> HIDE DEF At
    <3>2. At(n) \in Seq(M) /\ IsInjective(At(n)) /\ Range(At(n)) = here
      <4> HIDE DEF here
      <4> QED BY <2>5, <3>1
    <3> QED BY <3>2 DEF x
  <2> QED BY <2>6, <2>7
<1> HIDE DEF At
<1>5. seqs \in Seq(Seq(M)) /\ DOMAIN seqs = 1 .. t.w /\ \A n \in 1 .. t.w : seqs[n] = At(n)
  <2>1. DOMAIN seqs = 1 .. t.w /\ \A n \in 1 .. t.w : seqs[n] = At(n)
    OBVIOUS
  <2>2. \A n \in 1 .. t.w : At(n) \in Seq(M)
    BY <1>4
  <2> HIDE DEF M, At
  <2>3. seqs \in [1 .. t.w -> Seq(M)]
    BY <2>2
  <2> HIDE DEF seqs
  <2>4. seqs \in Seq(Seq(M))
    BY <1>1, <2>3, AsSeq
  <2> QED BY <2>1, <2>4
<1> HIDE DEF seqs
<1>6. FlattenSeq(seqs) \in Seq(M)
  <2> HIDE DEF M
  <2>1. (\A p, q \in Seq(M) : p \o q \in Seq(M)) /\ <<>> \in Seq(M)
    OBVIOUS
  <2> QED BY <1>5, <2>1, FlattenIn
<1>7. IsInjective(FlattenSeq(seqs))
  <2>1. \A m, n \in 1 .. t.w : m # n => Range(At(m)) \cap Range(At(n)) = {}
    <3>1. ASSUME NEW m \in 1 .. t.w, NEW n \in 1 .. t.w, m # n PROVE Range(At(m)) \cap Range(At(n)) = {}
      <4>1. t.x0 + m - 1 # t.x0 + n - 1
        BY <1>1, <3>1
      <4> HIDE DEF M
      <4> QED BY <1>4, <4>1
    <3> QED BY <3>1
  <2>2. \A n \in DOMAIN seqs : IsInjective(seqs[n])
    BY <1>4, <1>5
  <2>3. \A m, n \in DOMAIN seqs : m # n => Range(seqs[m]) \cap Range(seqs[n]) = {}
    BY <1>5, <2>1
  <2> HIDE DEF M
  <2> QED BY <1>5, <2>2, <2>3, FlattenOnce
<1>8. Range(FlattenSeq(seqs)) = {m \in M : m.z = z}
  <2>1. Range(FlattenSeq(seqs)) = UNION {Range(At(n)) : n \in 1 .. t.w}
    <3>1. Range(FlattenSeq(seqs)) = UNION {Range(seqs[n]) : n \in DOMAIN seqs}
      <4> HIDE DEF M
      <4> QED BY <1>5, FlattenRange
    <3> QED BY <1>5, <3>1
  <2>2. \A m \in M : \E n \in 1 .. t.w : m.x = t.x0 + n - 1
    <3>1. ASSUME NEW m \in M PROVE m.x - t.x0 + 1 \in 1 .. t.w /\ m.x = t.x0 + (m.x - t.x0 + 1) - 1
      <4>1. m.x \in Int /\ <<m.x, m.z>> \in Candidates(t)
        BY MatchFacts
      <4>2. t.x0 <= m.x /\ m.x <= t.x0 + t.w - 1
        BY <1>1, <4>1 DEF Candidates
      <4> QED BY <1>1, <4>1, <4>2
    <3> QED BY <3>1
  <2> HIDE DEF M
  <2> QED BY <1>4, <2>1, <2>2
<1> QED BY <1>3, <1>6, <1>7, <1>8

\* The matches of a tile in the rows of a thread.
Rows(t, n) == {m \in MatchesIn(job, t) : (m.z - t.z0) % threads = n}

\* A thread finds the matches of all its rows, each once.
LEMMA CpuThread ==
  ASSUME IsJob(job), cpuPlan = PlanOf(job), NEW t \in TileSet, (\E k \in DOMAIN job.tiles : t = job.tiles[k]),
         NEW n \in Cpu!Threads
  PROVE  /\ Cpu!ThreadMatches(t, n) \in Seq(MatchesIn(job, t)) /\ IsInjective(Cpu!ThreadMatches(t, n))
         /\ Range(Cpu!ThreadMatches(t, n)) = Rows(t, n)
<1> DEFINE M == MatchesIn(job, t)
           Row(dz) == Cpu!RowMatches(t, t.z0 + dz - 1)
           Of(dz) == IF (dz - 1) % threads = n THEN Row(dz) ELSE <<>>
           seqs == [dz \in 1 .. t.h |-> Of(dz)]
<1>1. t.z0 \in Int /\ t.h \in Nat /\ threads \in Nat \ {0}
  BY ThreadsAssumption DEF TileSet
<1>2. Cpu!ThreadMatches(t, n) = FlattenSeq(seqs)
  BY CpuFlatten DEF Cpu!ThreadMatches
<1>3. ASSUME NEW dz \in 1 .. t.h
      PROVE  /\ Of(dz) \in Seq(M) /\ IsInjective(Of(dz))
             /\ Range(Of(dz)) = {m \in M : m.z = t.z0 + dz - 1 /\ (m.z - t.z0) % threads = n}
  <2>1. t.z0 + dz - 1 \in t.z0 .. t.z0 + t.h - 1 /\ t.z0 + dz - 1 - t.z0 = dz - 1
    BY <1>1
  <2>2. Row(dz) \in Seq(M) /\ IsInjective(Row(dz)) /\ Range(Row(dz)) = {m \in M : m.z = t.z0 + dz - 1}
    BY <2>1, CpuRow
  <2>3. Range(<<>>) = {} /\ IsInjective(<<>>) /\ <<>> \in Seq(M)
    BY DEF Range, IsInjective
  <2> HIDE DEF M, Row
  <2>4. CASE (dz - 1) % threads = n
    <3>1. Of(dz) = Row(dz)
      BY <2>4
    <3>2. ASSUME NEW m, m.z = t.z0 + dz - 1 PROVE (m.z - t.z0) % threads = n
      <4>1. m.z - t.z0 = dz - 1
        BY <1>1, <2>1, <3>2
      <4> QED BY <2>4, <4>1
    <3> HIDE DEF Of
    <3> QED BY <2>2, <3>1, <3>2
  <2>5. CASE (dz - 1) % threads # n
    <3>1. Of(dz) = <<>>
      BY <2>5
    <3>2. ASSUME NEW m, m.z = t.z0 + dz - 1 PROVE (m.z - t.z0) % threads # n
      <4>1. m.z - t.z0 = dz - 1
        BY <1>1, <2>1, <3>2
      <4> QED BY <2>5, <4>1
    <3> HIDE DEF Of
    <3> QED BY <2>3, <3>1, <3>2
  <2> QED BY <2>4, <2>5
<1> HIDE DEF Of
<1>4. seqs \in Seq(Seq(M)) /\ DOMAIN seqs = 1 .. t.h /\ \A dz \in 1 .. t.h : seqs[dz] = Of(dz)
  <2>1. DOMAIN seqs = 1 .. t.h /\ \A dz \in 1 .. t.h : seqs[dz] = Of(dz)
    OBVIOUS
  <2>2. \A dz \in 1 .. t.h : Of(dz) \in Seq(M)
    BY <1>3
  <2> HIDE DEF M, Of
  <2>3. seqs \in [1 .. t.h -> Seq(M)]
    BY <2>2
  <2> HIDE DEF seqs
  <2>4. seqs \in Seq(Seq(M))
    BY <1>1, <2>3, AsSeq
  <2> QED BY <2>1, <2>4
<1> HIDE DEF seqs
<1>5. FlattenSeq(seqs) \in Seq(M)
  <2> HIDE DEF M
  <2>1. (\A p, q \in Seq(M) : p \o q \in Seq(M)) /\ <<>> \in Seq(M)
    OBVIOUS
  <2> QED BY <1>4, <2>1, FlattenIn
<1>6. IsInjective(FlattenSeq(seqs))
  <2>1. ASSUME NEW c \in 1 .. t.h, NEW d \in 1 .. t.h, c # d PROVE Range(Of(c)) \cap Range(Of(d)) = {}
    <3>1. t.z0 + c - 1 # t.z0 + d - 1
      BY <1>1, <2>1
    <3> HIDE DEF M
    <3> QED BY <1>3, <3>1
  <2>2. \A c \in DOMAIN seqs : IsInjective(seqs[c])
    BY <1>3, <1>4
  <2>3. \A c, d \in DOMAIN seqs : c # d => Range(seqs[c]) \cap Range(seqs[d]) = {}
    BY <1>4, <2>1
  <2> HIDE DEF M
  <2> QED BY <1>4, <2>2, <2>3, FlattenOnce
<1>7. Range(FlattenSeq(seqs)) = Rows(t, n)
  <2>1. Range(FlattenSeq(seqs)) = UNION {Range(Of(dz)) : dz \in 1 .. t.h}
    <3>1. Range(FlattenSeq(seqs)) = UNION {Range(seqs[dz]) : dz \in DOMAIN seqs}
      <4> HIDE DEF M
      <4> QED BY <1>4, FlattenRange
    <3> QED BY <1>4, <3>1
  <2>2. \A m \in M : \E dz \in 1 .. t.h : m.z = t.z0 + dz - 1
    <3>1. ASSUME NEW m \in M PROVE m.z - t.z0 + 1 \in 1 .. t.h /\ m.z = t.z0 + (m.z - t.z0 + 1) - 1
      <4>1. m.z \in Int /\ <<m.x, m.z>> \in Candidates(t)
        BY MatchFacts
      <4>2. t.z0 <= m.z /\ m.z <= t.z0 + t.h - 1
        BY <1>1, <4>1 DEF Candidates
      <4> QED BY <1>1, <4>1, <4>2
    <3> QED BY <3>1
  <2>3. Rows(t, n) = {m \in M : (m.z - t.z0) % threads = n}
    BY DEF Rows
  <2> HIDE DEF M
  <2> QED BY <1>3, <2>1, <2>2, <2>3
<1> QED BY <1>2, <1>5, <1>6, <1>7

\* Every match of a tile is in the rows of exactly one thread.
LEMMA RowsPart ==
  ASSUME NEW t \in TileSet
  PROVE  /\ UNION {Rows(t, n) : n \in Cpu!Threads} = MatchesIn(job, t)
         /\ \A m, n \in Cpu!Threads : m # n => Rows(t, m) \cap Rows(t, n) = {}
<1>1. ASSUME NEW m \in MatchesIn(job, t) PROVE (m.z - t.z0) % threads \in Cpu!Threads
  <2> DEFINE v == m.z - t.z0
  <2>1. m.z \in Int /\ t.z0 \in Int
    BY MatchFacts DEF TileSet
  <2>2. v \in Int
    BY <2>1
  <2> HIDE DEF v
  <2>3. v % threads \in 0 .. threads - 1
    BY <2>2, ThreadsAssumption
  <2> QED BY <2>3 DEF Cpu!Threads, v
<1> QED BY <1>1 DEF Rows

-----------------------------------------------------------------------------
(* CpuWorker keeps the contract                                            *)

Given(as) == UNION {as[k] : k \in DOMAIN as}

\* the matches of the tile in scan that no thread has come to, and those of the job that one has
Unseen == UNION {Range(todo[n]) : n \in Cpu!Threads}
Seen == IF scanning THEN MatchesUpTo(job, cpuBegun) \cup (Found(cpuBegun + 1) \ Unseen)
        ELSE MatchesUpTo(job, cpuBegun)

\* the matches that CpuWorker kept
Kept == Given(cpuAnswers) \cup Given(done) \cup UNION {bucket[n] : n \in Cpu!Threads}

\* an answer for a tile: matches of it, and all of them unless truncated() says so
Answer(ms, k) == ms \subseteq Found(k) /\ (~cpuTruncated => ms = Found(k))

\* a thread inside run_tile() comes to each match of its rows once, and keeps those it came to
ThreadOK(n) ==
  IF scanning
  THEN LET rows == Rows(job.tiles[cpuBegun + 1], n)
       IN /\ todo[n] \in Seq(Found(cpuBegun + 1)) /\ IsInjective(todo[n]) /\ Range(todo[n]) \subseteq rows
          /\ bucket[n] \subseteq rows \ Range(todo[n])
          /\ ~cpuTruncated => bucket[n] = rows \ Range(todo[n])
  ELSE todo[n] = <<>> /\ bucket[n] = {}

CpuShape ==
  /\ (job = NoJob /\ cpuBegun = 0) \/ (job \in Jobs /\ cpuPlan = PlanOf(job))
  /\ cpuBegun \in 0 .. Len(job.tiles) /\ scanning \in BOOLEAN /\ (scanning => cpuBegun < Len(job.tiles))
  /\ cpuTruncated \in BOOLEAN
  /\ cpuAnswers \in Seq(SUBSET MatchesUpTo(job, Len(job.tiles)))
  /\ done \in Seq(SUBSET MatchesUpTo(job, Len(job.tiles)))
  /\ Len(cpuAnswers) + Len(done) = cpuBegun
  /\ DOMAIN todo = Cpu!Threads /\ DOMAIN bucket = Cpu!Threads

CpuAnswers ==
  /\ \A k \in 1 .. Len(cpuAnswers) : Answer(cpuAnswers[k], k)
  /\ \A k \in 1 .. Len(done) : Answer(done[k], Len(cpuAnswers) + k)

CpuThreads == \A n \in Cpu!Threads : ThreadOK(n)

\* the counter holds how many matches were come to; as many are kept as fit the cap
CpuCounts ==
  /\ emitted = Cardinality(Seen)
  /\ cpuTruncated <=> emitted > job.cap
  /\ Cardinality(Kept) = Least(emitted, job.cap)

CpuInv == CpuShape /\ CpuAnswers /\ CpuThreads /\ CpuCounts

\* What holds of every job, also of the one before the first configure().
LEMMA JobFacts ==
  ASSUME CpuShape
  PROVE  /\ Len(job.tiles) \in Nat /\ cpuBegun \in Nat /\ job.cap \in Nat
         /\ IsFiniteSet(MatchesUpTo(job, cpuBegun))
         /\ \A k \in 1 .. cpuBegun : Found(k) \subseteq MatchesUpTo(job, cpuBegun)
         /\ \A k \in 1 .. Len(job.tiles) : Found(k) \subseteq MatchesUpTo(job, Len(job.tiles))
         /\ cpuBegun < Len(job.tiles) =>
              /\ IsJob(job) /\ cpuPlan = PlanOf(job) /\ job.tiles[cpuBegun + 1] \in TileSet
              /\ cpuBegun + 1 \in DOMAIN job.tiles /\ IsFiniteSet(Found(cpuBegun + 1))
              /\ MatchesUpTo(job, cpuBegun + 1) = MatchesUpTo(job, cpuBegun) \cup Found(cpuBegun + 1)
              /\ MatchesUpTo(job, cpuBegun) \cap Found(cpuBegun + 1) = {}
<1>1. CASE job = NoJob /\ cpuBegun = 0
  <2>1. Len(job.tiles) = 0 /\ job.cap = 0
    BY <1>1 DEF NoJob
  <2>2. MatchesUpTo(job, 0) = {}
    BY DEF MatchesUpTo
  <2> QED BY <1>1, <2>1, <2>2, FS_EmptySet
<1>2. CASE job \in Jobs /\ cpuPlan = PlanOf(job)
  <2>1. IsJob(job)
    BY <1>2, JobAssumption
  <2>2. job.cap \in Nat /\ job.tiles \in Seq(TileSet)
    BY <2>1 DEF IsJob, JobSet
  <2>3. Len(job.tiles) \in Nat /\ DOMAIN job.tiles = 1 .. Len(job.tiles)
        /\ \A k \in 1 .. Len(job.tiles) : job.tiles[k] \in TileSet
    BY <2>2
  <2>4. cpuBegun \in 0 .. Len(job.tiles) /\ Len(job.tiles) \in 0 .. Len(job.tiles)
    BY <2>3 DEF CpuShape
  <2>5. /\ IsFiniteSet(MatchesUpTo(job, cpuBegun))
        /\ \A k \in 1 .. cpuBegun : Found(k) \subseteq MatchesUpTo(job, cpuBegun)
        /\ cpuBegun < Len(job.tiles) =>
             /\ MatchesUpTo(job, cpuBegun + 1) = MatchesUpTo(job, cpuBegun) \cup Found(cpuBegun + 1)
             /\ MatchesUpTo(job, cpuBegun) \cap Found(cpuBegun + 1) = {}
    BY <2>1, <2>4, MatchesGrow DEF Found
  <2>6. \A k \in 1 .. Len(job.tiles) : Found(k) \subseteq MatchesUpTo(job, Len(job.tiles))
    BY <2>1, <2>4, MatchesGrow DEF Found
  <2>7. ASSUME cpuBegun < Len(job.tiles)
        PROVE  /\ job.tiles[cpuBegun + 1] \in TileSet /\ cpuBegun + 1 \in DOMAIN job.tiles
               /\ IsFiniteSet(Found(cpuBegun + 1))
    <3>1. job.tiles[cpuBegun + 1] \in TileSet /\ cpuBegun + 1 \in DOMAIN job.tiles
      BY <2>3, <2>4, <2>7
    <3> QED BY <3>1, MatchFacts DEF Found
  <2> QED BY <1>2, <2>1, <2>2, <2>3, <2>4, <2>5, <2>6, <2>7
<1> QED BY <1>1, <1>2 DEF CpuShape

\* What is kept was seen, and both are finite.
LEMMA KeptIsSeen ==
  ASSUME CpuShape, CpuAnswers, CpuThreads
  PROVE  Kept \subseteq Seen /\ IsFiniteSet(Seen) /\ IsFiniteSet(Kept)
<1>1. /\ Len(cpuAnswers) \in Nat /\ DOMAIN cpuAnswers = 1 .. Len(cpuAnswers)
      /\ Len(done) \in Nat /\ DOMAIN done = 1 .. Len(done) /\ Len(cpuAnswers) + Len(done) = cpuBegun
  BY DEF CpuShape
<1>2. \A k \in 1 .. cpuBegun : Found(k) \subseteq MatchesUpTo(job, cpuBegun)
  BY JobFacts
<1>3. Given(cpuAnswers) \subseteq MatchesUpTo(job, cpuBegun)
  <2>1. \A k \in 1 .. Len(cpuAnswers) : k \in 1 .. cpuBegun /\ cpuAnswers[k] \subseteq Found(k)
    BY <1>1 DEF CpuAnswers, Answer
  <2>2. \A k \in DOMAIN cpuAnswers : cpuAnswers[k] \subseteq MatchesUpTo(job, cpuBegun)
    BY <1>1, <1>2, <2>1
  <2> QED BY <2>2 DEF Given
<1>4. Given(done) \subseteq MatchesUpTo(job, cpuBegun)
  <2>1. \A k \in 1 .. Len(done) : Len(cpuAnswers) + k \in 1 .. cpuBegun /\ done[k] \subseteq Found(Len(cpuAnswers) + k)
    BY <1>1 DEF CpuAnswers, Answer
  <2>2. \A k \in DOMAIN done : done[k] \subseteq MatchesUpTo(job, cpuBegun)
    BY <1>1, <1>2, <2>1
  <2> QED BY <2>2 DEF Given
<1>5. ASSUME NEW n \in Cpu!Threads PROVE bucket[n] \subseteq Seen
  <2>1. CASE scanning
    <3> DEFINE t == job.tiles[cpuBegun + 1]
    <3>1. /\ bucket[n] \subseteq Rows(t, n) \ Range(todo[n])
          /\ \A m \in Cpu!Threads : Range(todo[m]) \subseteq Rows(t, m)
      BY <2>1 DEF CpuThreads, ThreadOK
    <3>2. t \in TileSet
      BY <2>1, JobFacts DEF CpuShape
    <3>3. /\ Rows(t, n) \subseteq MatchesIn(job, t)
          /\ \A m \in Cpu!Threads : m # n => Rows(t, m) \cap Rows(t, n) = {}
      BY <3>2, RowsPart DEF Rows
    <3> HIDE DEF t
    <3>4. bucket[n] \subseteq MatchesIn(job, t) \ Unseen
      BY <3>1, <3>3 DEF Unseen
    <3> QED BY <2>1, <3>4 DEF Seen, Found, t
  <2>2. CASE ~scanning
    BY <2>2 DEF CpuThreads, ThreadOK
  <2> QED BY <2>1, <2>2
<1>6. MatchesUpTo(job, cpuBegun) \subseteq Seen
  BY DEF Seen
<1>7. Kept \subseteq Seen
  BY <1>3, <1>4, <1>5, <1>6 DEF Kept
<1>8. IsFiniteSet(Seen)
  <2>1. IsFiniteSet(MatchesUpTo(job, cpuBegun))
    BY JobFacts
  <2>2. CASE scanning
    <3>1. IsFiniteSet(Found(cpuBegun + 1))
      BY <2>2, JobFacts DEF CpuShape
    <3>2. IsFiniteSet(Found(cpuBegun + 1) \ Unseen)
      BY <3>1, FS_Subset
    <3> QED BY <2>1, <2>2, <3>2, FS_Union DEF Seen
  <2>3. CASE ~scanning
    BY <2>1, <2>3 DEF Seen
  <2> QED BY <2>2, <2>3
<1> QED BY <1>7, <1>8, FS_Subset

\* A list of distinct elements loses its head.
LEMMA TailOnce ==
  ASSUME NEW S, NEW s \in Seq(S), s # <<>>, IsInjective(s)
  PROVE  /\ Tail(s) \in Seq(S) /\ IsInjective(Tail(s)) /\ Head(s) \in S
         /\ Range(s) = Range(Tail(s)) \cup {Head(s)} /\ Head(s) \notin Range(Tail(s))
<1>1. /\ Len(s) \in Nat \ {0} /\ Tail(s) \in Seq(S) /\ Head(s) = s[1] /\ s[1] \in S
      /\ DOMAIN s = 1 .. Len(s) /\ DOMAIN Tail(s) = 1 .. Len(s) - 1
      /\ \A i \in 1 .. Len(s) - 1 : Tail(s)[i] = s[i + 1]
  OBVIOUS
<1>2. \A i, k \in DOMAIN s : s[i] = s[k] => i = k
  BY DEF IsInjective
<1>3. IsInjective(Tail(s))
  <2>1. ASSUME NEW i \in DOMAIN Tail(s), NEW k \in DOMAIN Tail(s), Tail(s)[i] = Tail(s)[k] PROVE i = k
    <3>1. i + 1 \in DOMAIN s /\ k + 1 \in DOMAIN s /\ s[i + 1] = s[k + 1]
      BY <1>1, <2>1
    <3>2. i + 1 = k + 1
      BY <1>2, <3>1
    <3> QED BY <1>1, <3>2
  <2> QED BY <2>1 DEF IsInjective
<1>4. Range(s) = Range(Tail(s)) \cup {Head(s)}
  <2>1. ASSUME NEW e \in Range(s) PROVE e \in Range(Tail(s)) \cup {Head(s)}
    <3>1. PICK i \in DOMAIN s : s[i] = e
      BY DEF Range
    <3>2. CASE i = 1
      BY <1>1, <3>1, <3>2
    <3>3. CASE i # 1
      <4>1. i - 1 \in DOMAIN Tail(s) /\ Tail(s)[i - 1] = e
        BY <1>1, <3>1, <3>3
      <4> QED BY <4>1 DEF Range
    <3> QED BY <3>2, <3>3
  <2>2. ASSUME NEW e \in Range(Tail(s)) PROVE e \in Range(s)
    <3>1. PICK i \in DOMAIN Tail(s) : Tail(s)[i] = e
      BY DEF Range
    <3>2. i + 1 \in DOMAIN s /\ s[i + 1] = e
      BY <1>1, <3>1
    <3> QED BY <3>2 DEF Range
  <2>3. Head(s) \in Range(s)
    BY <1>1 DEF Range
  <2> QED BY <2>1, <2>2, <2>3
<1>5. Head(s) \notin Range(Tail(s))
  <2>1. ASSUME NEW i \in DOMAIN Tail(s), Tail(s)[i] = Head(s) PROVE FALSE
    <3>1. i + 1 \in DOMAIN s /\ 1 \in DOMAIN s /\ s[i + 1] = s[1] /\ i + 1 # 1
      BY <1>1, <2>1
    <3> QED BY <1>2, <3>1
  <2> QED BY <2>1 DEF Range
<1> QED BY <1>1, <1>3, <1>4, <1>5

\* A thread comes to a match.
LEMMA EmitKeeps ==
  ASSUME CpuInv, NEW n \in Cpu!Threads, Cpu!Emit(n)
  PROVE  /\ CpuInv'
         /\ cpuTruncated' /\ ~cpuTruncated => Cardinality(MatchesUpTo(job, cpuBegun + 1)) > job.cap
<1> DEFINE t == job.tiles[cpuBegun + 1]
           h == Head(todo[n])
           fits == emitted < job.cap
<1>1. /\ todo[n] # <<>> /\ emitted' = emitted + 1
      /\ todo' = [todo EXCEPT ![n] = Tail(@)]
      /\ fits => bucket' = [bucket EXCEPT ![n] = @ \cup {h}] /\ cpuTruncated' = cpuTruncated
      /\ ~fits => bucket' = bucket /\ cpuTruncated' = TRUE
      /\ job' = job /\ cpuBegun' = cpuBegun /\ cpuAnswers' = cpuAnswers /\ cpuPlan' = cpuPlan
      /\ done' = done /\ scanning' = scanning
  BY DEF Cpu!Emit
<1>2. scanning
  BY <1>1 DEF CpuInv, CpuThreads, ThreadOK
<1>3. /\ IsJob(job) /\ t \in TileSet /\ Found(cpuBegun + 1) = MatchesIn(job, t) /\ IsFiniteSet(Found(cpuBegun + 1))
      /\ MatchesUpTo(job, cpuBegun + 1) = MatchesUpTo(job, cpuBegun) \cup MatchesIn(job, t)
      /\ MatchesUpTo(job, cpuBegun) \cap MatchesIn(job, t) = {} /\ IsFiniteSet(MatchesUpTo(job, cpuBegun))
      /\ job.cap \in Nat /\ cpuBegun \in Nat
  BY <1>2, JobFacts DEF CpuInv, CpuShape, Found
<1>4. \A m \in Cpu!Threads :
        /\ todo[m] \in Seq(MatchesIn(job, t)) /\ IsInjective(todo[m]) /\ Range(todo[m]) \subseteq Rows(t, m)
        /\ bucket[m] \subseteq Rows(t, m) \ Range(todo[m])
        /\ ~cpuTruncated => bucket[m] = Rows(t, m) \ Range(todo[m])
  BY <1>2, <1>3 DEF CpuInv, CpuThreads, ThreadOK
<1>5. /\ \A m \in Cpu!Threads : Rows(t, m) \subseteq MatchesIn(job, t)
      /\ \A k, m \in Cpu!Threads : k # m => Rows(t, k) \cap Rows(t, m) = {}
  BY <1>3, RowsPart DEF Rows
<1>6. /\ Tail(todo[n]) \in Seq(MatchesIn(job, t)) /\ IsInjective(Tail(todo[n])) /\ h \in MatchesIn(job, t)
      /\ Range(todo[n]) = Range(Tail(todo[n])) \cup {h} /\ h \notin Range(Tail(todo[n]))
  <2> DEFINE s == todo[n]
             M == MatchesIn(job, t)
  <2>1. s \in Seq(M) /\ IsInjective(s) /\ s # <<>>
    BY <1>1, <1>4
  <2> HIDE DEF s, M
  <2>2. /\ Tail(s) \in Seq(M) /\ IsInjective(Tail(s)) /\ Head(s) \in M
        /\ Range(s) = Range(Tail(s)) \cup {Head(s)} /\ Head(s) \notin Range(Tail(s))
    BY <2>1, TailOnce
  <2> QED BY <2>2 DEF s, M
<1>7. /\ DOMAIN todo = Cpu!Threads /\ DOMAIN bucket = Cpu!Threads /\ cpuTruncated \in BOOLEAN
      /\ emitted = Cardinality(Seen) /\ (cpuTruncated <=> emitted > job.cap)
      /\ Cardinality(Kept) = Least(emitted, job.cap)
  BY DEF CpuInv, CpuShape, CpuCounts
<1>8. IsFiniteSet(Seen) /\ IsFiniteSet(Kept) /\ Kept \subseteq Seen
  BY KeptIsSeen DEF CpuInv
<1>9. /\ todo'[n] = Tail(todo[n]) /\ \A m \in Cpu!Threads : m # n => todo'[m] = todo[m]
      /\ DOMAIN todo' = Cpu!Threads /\ DOMAIN bucket' = Cpu!Threads
      /\ bucket'[n] = (IF fits THEN bucket[n] \cup {h} ELSE bucket[n])
      /\ \A m \in Cpu!Threads : m # n => bucket'[m] = bucket[m]
  BY <1>1, <1>7
<1> HIDE DEF t, h
<1>10. h \in Unseen /\ Unseen' = Unseen \ {h}
  <2>1. \A m \in Cpu!Threads : m # n => h \notin Range(todo[m])
    BY <1>4, <1>5, <1>6
  <2>2. Unseen' = UNION {Range(todo'[m]) : m \in Cpu!Threads}
    BY DEF Unseen, Cpu!Threads
  <2> QED BY <1>6, <1>9, <2>1, <2>2 DEF Unseen
<1>11. Seen = MatchesUpTo(job, cpuBegun) \cup (MatchesIn(job, t) \ Unseen)
  BY <1>2, <1>3 DEF Seen
<1>12. Seen' = MatchesUpTo(job, cpuBegun) \cup (MatchesIn(job, t) \ Unseen')
  BY <1>1, <1>2, <1>3 DEF Seen, Found
<1>13. h \notin Seen /\ Seen' = Seen \cup {h}
  BY <1>3, <1>6, <1>10, <1>11, <1>12
<1>14. emitted \in Nat /\ Cardinality(Seen') = emitted + 1
  BY <1>7, <1>8, <1>13, FS_AddElement, FS_CardinalityType
<1>15. Kept' = IF fits THEN Kept \cup {h} ELSE Kept
  <2>1. Kept' = Given(cpuAnswers) \cup Given(done) \cup UNION {bucket'[m] : m \in Cpu!Threads}
    BY <1>1 DEF Kept, Given, Cpu!Threads
  <2>2. UNION {bucket'[m] : m \in Cpu!Threads} =
          (UNION {bucket[m] : m \in Cpu!Threads}) \cup (IF fits THEN {h} ELSE {})
    BY <1>9
  <2> QED BY <2>1, <2>2 DEF Kept
<1>16. CpuCounts'
  <2>1. emitted' = Cardinality(Seen') /\ (cpuTruncated' <=> emitted' > job'.cap)
    <3>1. emitted' = Cardinality(Seen') /\ emitted' = emitted + 1 /\ job'.cap = job.cap /\ job.cap \in Nat
      BY <1>1, <1>3, <1>14
    <3>2. CASE fits
      <4>1. cpuTruncated' <=> cpuTruncated
        BY <1>1, <3>2
      <4> QED BY <1>7, <1>14, <3>1, <3>2, <4>1
    <3>3. CASE ~fits
      <4>1. cpuTruncated'
        BY <1>1, <3>3
      <4> QED BY <1>14, <3>1, <3>3, <4>1
    <3> QED BY <3>2, <3>3
  <2>2. CASE fits
    <3>1. Cardinality(Kept') = Cardinality(Kept) + 1
      BY <1>8, <1>13, <1>15, <2>2, FS_AddElement
    <3> QED BY <1>1, <1>3, <1>7, <1>14, <2>1, <2>2, <3>1 DEF CpuCounts, Least
  <2>3. CASE ~fits
    BY <1>1, <1>3, <1>7, <1>14, <1>15, <2>1, <2>3 DEF CpuCounts, Least
  <2> QED BY <2>2, <2>3
<1>17. CpuThreads'
  <2>1. ASSUME NEW m \in Cpu!Threads
        PROVE  /\ todo'[m] \in Seq(MatchesIn(job, t)) /\ IsInjective(todo'[m]) /\ Range(todo'[m]) \subseteq Rows(t, m)
               /\ bucket'[m] \subseteq Rows(t, m) \ Range(todo'[m])
               /\ ~cpuTruncated' => bucket'[m] = Rows(t, m) \ Range(todo'[m])
    <3>1. ~cpuTruncated' => ~cpuTruncated
      BY <1>1
    <3>2. CASE m = n
      BY <1>1, <1>4, <1>6, <1>9, <3>1, <3>2
    <3>3. CASE m # n
      BY <1>4, <1>9, <3>1, <3>3
    <3> QED BY <3>2, <3>3
  <2>2. t = job'.tiles[cpuBegun' + 1] /\ \A m : Rows(t, m)' = Rows(t, m)
    BY <1>1 DEF t, Rows
  <2>3. \A m \in Cpu!Threads : ThreadOK(m)'
    BY <1>1, <1>2, <1>3, <2>1, <2>2 DEF ThreadOK, Found, Rows, t
  <2> QED BY <2>3 DEF CpuThreads, Cpu!Threads
<1>18. CpuShape' /\ CpuAnswers'
  <2>1. CpuShape'
    BY <1>1, <1>9 DEF CpuInv, CpuShape, Cpu!Threads
  <2>2. CpuAnswers'
    BY <1>1 DEF CpuInv, CpuAnswers, Answer, Found
  <2> QED BY <2>1, <2>2
<1>19. ASSUME cpuTruncated', ~cpuTruncated PROVE Cardinality(MatchesUpTo(job, cpuBegun + 1)) > job.cap
  <2>1. emitted + 1 > job.cap
    <3>1. ~fits
      BY <1>1, <1>19
    <3> QED BY <1>3, <1>14, <3>1
  <2>2. Seen' \subseteq MatchesUpTo(job, cpuBegun + 1) /\ IsFiniteSet(MatchesUpTo(job, cpuBegun + 1))
    <3>1. IsFiniteSet(MatchesUpTo(job, cpuBegun) \cup MatchesIn(job, t))
      BY <1>3, FS_Union
    <3> QED BY <1>3, <1>12, <3>1
  <2>3. Cardinality(Seen') <= Cardinality(MatchesUpTo(job, cpuBegun + 1))
    BY <2>2, FS_Subset
  <2>4. Cardinality(MatchesUpTo(job, cpuBegun + 1)) \in Nat
    BY <2>2, FS_CardinalityType
  <2> QED BY <1>3, <1>14, <2>1, <2>3, <2>4
<1> QED BY <1>16, <1>17, <1>18, <1>19 DEF CpuInv

\* run_tile() starts: the threads have the whole tile ahead of them.
LEMMA CpuBeginKeeps ==
  ASSUME CpuInv, Cpu!BeginTile
  PROVE  CpuInv'
<1> DEFINE t == job.tiles[cpuBegun + 1]
<1>1. /\ ~scanning /\ cpuBegun < Len(job.tiles) /\ scanning' = TRUE
      /\ todo' = [n \in Cpu!Threads |-> Cpu!ThreadMatches(t, n)]
      /\ bucket' = [n \in Cpu!Threads |-> {}]
      /\ job' = job /\ cpuBegun' = cpuBegun /\ cpuAnswers' = cpuAnswers /\ cpuPlan' = cpuPlan
      /\ done' = done /\ cpuTruncated' = cpuTruncated /\ emitted' = emitted
  BY DEF Cpu!BeginTile
<1>2. /\ IsJob(job) /\ cpuPlan = PlanOf(job) /\ t \in TileSet /\ cpuBegun + 1 \in DOMAIN job.tiles
      /\ Found(cpuBegun + 1) = MatchesIn(job, t) /\ cpuBegun \in Nat
  BY <1>1, JobFacts DEF CpuInv, CpuShape, Found
<1>3. \A n \in Cpu!Threads :
        /\ todo'[n] \in Seq(MatchesIn(job, t)) /\ IsInjective(todo'[n]) /\ Range(todo'[n]) = Rows(t, n)
        /\ bucket'[n] = {} /\ bucket[n] = {}
  <2>1. \A n \in Cpu!Threads : todo'[n] = Cpu!ThreadMatches(t, n) /\ bucket'[n] = {} /\ bucket[n] = {}
    BY <1>1 DEF CpuInv, CpuThreads, ThreadOK
  <2>2. \E k \in DOMAIN job.tiles : t = job.tiles[k]
    BY <1>2
  <2> HIDE DEF t
  <2>3. \A n \in Cpu!Threads :
          /\ Cpu!ThreadMatches(t, n) \in Seq(MatchesIn(job, t)) /\ IsInjective(Cpu!ThreadMatches(t, n))
          /\ Range(Cpu!ThreadMatches(t, n)) = Rows(t, n)
    BY <1>2, <2>2, CpuThread
  <2> QED BY <2>1, <2>3
<1>4. DOMAIN todo' = Cpu!Threads /\ DOMAIN bucket' = Cpu!Threads
  BY <1>1
<1> HIDE DEF t
<1>5. Unseen' = MatchesIn(job, t)
  <2>1. Unseen' = UNION {Range(todo'[n]) : n \in Cpu!Threads}
    BY DEF Unseen, Cpu!Threads
  <2>2. UNION {Rows(t, n) : n \in Cpu!Threads} = MatchesIn(job, t)
    BY <1>2, RowsPart
  <2> QED BY <1>3, <2>1, <2>2
<1>6. Seen' = Seen
  <2>1. Seen' = MatchesUpTo(job, cpuBegun) \cup (MatchesIn(job, t) \ Unseen')
    BY <1>1, <1>2 DEF Seen, Found, t
  <2>2. Seen = MatchesUpTo(job, cpuBegun)
    BY <1>1 DEF Seen
  <2> QED BY <1>5, <2>1, <2>2
<1>7. Kept' = Kept
  <2>1. Kept' = Given(cpuAnswers) \cup Given(done) \cup UNION {bucket'[n] : n \in Cpu!Threads}
    BY <1>1 DEF Kept, Given, Cpu!Threads
  <2> QED BY <1>3, <2>1 DEF Kept
<1>8. CpuCounts'
  BY <1>1, <1>6, <1>7 DEF CpuInv, CpuCounts
<1>9. CpuThreads'
  <2>1. ASSUME NEW n \in Cpu!Threads
        PROVE  /\ todo'[n] \in Seq(MatchesIn(job, t)) /\ IsInjective(todo'[n]) /\ Range(todo'[n]) \subseteq Rows(t, n)
               /\ bucket'[n] \subseteq Rows(t, n) \ Range(todo'[n])
               /\ bucket'[n] = Rows(t, n) \ Range(todo'[n])
    BY <1>3
  <2>2. t = job'.tiles[cpuBegun' + 1] /\ \A m : Rows(t, m)' = Rows(t, m)
    BY <1>1 DEF t, Rows
  <2>3. \A n \in Cpu!Threads : ThreadOK(n)'
    BY <1>1, <1>2, <2>1, <2>2 DEF ThreadOK, Found, Rows, t
  <2> QED BY <2>3 DEF CpuThreads, Cpu!Threads
<1>10. CpuShape' /\ CpuAnswers'
  <2>1. CpuShape'
    BY <1>1, <1>4 DEF CpuInv, CpuShape, Cpu!Threads
  <2>2. CpuAnswers'
    BY <1>1 DEF CpuInv, CpuAnswers, Answer, Found
  <2> QED BY <2>1, <2>2
<1> QED BY <1>8, <1>9, <1>10 DEF CpuInv

\* The threads are joined: what they kept of the tile is its answer.
LEMMA JoinKeeps ==
  ASSUME CpuInv, Cpu!Join
  PROVE  CpuInv'
<1> DEFINE t == job.tiles[cpuBegun + 1]
           ms == UNION {bucket[n] : n \in Cpu!Threads}
<1>1. /\ scanning /\ (\A n \in Cpu!Threads : todo[n] = <<>>) /\ scanning' = FALSE
      /\ done' = Append(done, ms) /\ bucket' = [n \in Cpu!Threads |-> {}] /\ cpuBegun' = cpuBegun + 1
      /\ job' = job /\ cpuAnswers' = cpuAnswers /\ cpuPlan' = cpuPlan /\ todo' = todo
      /\ cpuTruncated' = cpuTruncated /\ emitted' = emitted
  BY DEF Cpu!Join
<1>2. /\ t \in TileSet /\ Found(cpuBegun + 1) = MatchesIn(job, t) /\ cpuBegun \in Nat /\ Len(job.tiles) \in Nat
      /\ MatchesUpTo(job, cpuBegun + 1) = MatchesUpTo(job, cpuBegun) \cup MatchesIn(job, t)
      /\ cpuBegun + 1 \in 1 .. Len(job.tiles) /\ MatchesIn(job, t) \subseteq MatchesUpTo(job, Len(job.tiles))
  <2>1. cpuBegun < Len(job.tiles)
    BY <1>1 DEF CpuInv, CpuShape
  <2>2. cpuBegun \in Nat /\ Len(job.tiles) \in Nat
    BY JobFacts DEF CpuInv
  <2>3. cpuBegun + 1 \in 1 .. Len(job.tiles)
    BY <2>1, <2>2
  <2> QED BY <2>1, <2>2, <2>3, JobFacts DEF CpuInv, Found
<1>3. \A n \in Cpu!Threads : bucket[n] \subseteq Rows(t, n) /\ (~cpuTruncated => bucket[n] = Rows(t, n))
  <2>1. Range(<<>>) = {}
    BY DEF Range
  <2> QED BY <1>1, <2>1 DEF CpuInv, CpuThreads, ThreadOK
<1> HIDE DEF t
<1>4. ms \subseteq MatchesIn(job, t) /\ (~cpuTruncated => ms = MatchesIn(job, t))
  <2>1. UNION {Rows(t, n) : n \in Cpu!Threads} = MatchesIn(job, t)
    BY <1>2, RowsPart
  <2> QED BY <1>3, <2>1
<1> HIDE DEF ms
<1>5. Seen' = Seen
  <2>1. Unseen = {}
    <3>1. Range(<<>>) = {}
      BY DEF Range
    <3> QED BY <1>1, <3>1 DEF Unseen
  <2>2. Seen = MatchesUpTo(job, cpuBegun) \cup MatchesIn(job, t)
    BY <1>1, <1>2, <2>1 DEF Seen
  <2>3. Seen' = MatchesUpTo(job, cpuBegun + 1)
    BY <1>1 DEF Seen
  <2> QED BY <1>2, <2>2, <2>3
<1>6. /\ done \in Seq(SUBSET MatchesUpTo(job, Len(job.tiles))) /\ ms \in SUBSET MatchesUpTo(job, Len(job.tiles))
      /\ Len(cpuAnswers) \in Nat /\ Len(cpuAnswers) + Len(done) = cpuBegun
  BY <1>2, <1>4 DEF CpuInv, CpuShape
<1>7. /\ done' \in Seq(SUBSET MatchesUpTo(job, Len(job.tiles))) /\ Len(done') = Len(done) + 1 /\ Len(done) \in Nat
      /\ DOMAIN done = 1 .. Len(done) /\ DOMAIN done' = 1 .. Len(done) + 1
      /\ (\A k \in 1 .. Len(done) : done'[k] = done[k]) /\ done'[Len(done) + 1] = ms
  <2> DEFINE U == SUBSET MatchesUpTo(job, Len(job.tiles))
  <2>1. done \in Seq(U) /\ ms \in U
    BY <1>6
  <2> HIDE DEF U
  <2>2. /\ Append(done, ms) \in Seq(U) /\ Len(Append(done, ms)) = Len(done) + 1 /\ Len(done) \in Nat
        /\ DOMAIN done = 1 .. Len(done) /\ DOMAIN Append(done, ms) = 1 .. Len(done) + 1
        /\ (\A k \in 1 .. Len(done) : Append(done, ms)[k] = done[k]) /\ Append(done, ms)[Len(done) + 1] = ms
    BY <2>1
  <2> QED BY <1>1, <2>2 DEF U
<1>8. Kept' = Kept
  <2>1. Kept' = Given(cpuAnswers) \cup Given(done') \cup UNION {bucket'[n] : n \in Cpu!Threads}
    BY <1>1 DEF Kept, Given, Cpu!Threads
  <2>2. UNION {bucket'[n] : n \in Cpu!Threads} = {}
    BY <1>1
  <2>3. Given(done') = Given(done) \cup ms
    <3>1. DOMAIN done' = DOMAIN done \cup {Len(done) + 1} /\ \A k \in DOMAIN done : done'[k] = done[k]
      BY <1>7
    <3> QED BY <1>7, <3>1 DEF Given
  <2>4. Kept = Given(cpuAnswers) \cup Given(done) \cup ms
    BY DEF Kept, ms
  <2> QED BY <2>1, <2>2, <2>3, <2>4
<1>9. CpuCounts'
  BY <1>1, <1>5, <1>8 DEF CpuInv, CpuCounts
<1>10. CpuThreads'
  BY <1>1 DEF CpuThreads, ThreadOK, Cpu!Threads
<1>11. CpuAnswers'
  <2>1. \A k \in 1 .. Len(cpuAnswers) : Answer(cpuAnswers[k], k)'
    BY <1>1 DEF CpuInv, CpuAnswers, Answer, Found
  <2>2. ASSUME NEW k \in 1 .. Len(done) + 1 PROVE Answer(done[k], Len(cpuAnswers) + k)'
    <3>1. CASE k \in 1 .. Len(done)
      <4>1. Answer(done[k], Len(cpuAnswers) + k) /\ done'[k] = done[k]
        BY <1>7, <3>1 DEF CpuInv, CpuAnswers
      <4> QED BY <1>1, <4>1 DEF Answer, Found
    <3>2. CASE k = Len(done) + 1
      <4>1. Len(cpuAnswers) + k = cpuBegun + 1 /\ done'[k] = ms
        BY <1>6, <1>7, <3>2
      <4>2. ms \subseteq Found(cpuBegun + 1) /\ (~cpuTruncated => ms = Found(cpuBegun + 1))
        BY <1>2, <1>4
      <4> QED BY <1>1, <4>1, <4>2 DEF Answer, Found
    <3> QED BY <1>7, <3>1, <3>2
  <2> QED BY <1>1, <1>7, <2>1, <2>2 DEF CpuAnswers
<1>12. CpuShape'
  <2>1. Len(cpuAnswers) + Len(done') = cpuBegun + 1 /\ cpuBegun + 1 \in 0 .. Len(job.tiles)
    BY <1>2, <1>6, <1>7
  <2>2. job \in Jobs /\ cpuPlan = PlanOf(job)
    <3>1. job # NoJob
      BY <1>2 DEF NoJob
    <3> QED BY <3>1 DEF CpuInv, CpuShape
  <2>3. DOMAIN bucket' = Cpu!Threads
    BY <1>1
  <2> QED BY <1>1, <1>7, <2>1, <2>2, <2>3 DEF CpuInv, CpuShape, Cpu!Threads
<1> QED BY <1>9, <1>10, <1>11, <1>12 DEF CpuInv

\* end_tile() hands out the oldest answer.
LEMMA CpuEndKeeps ==
  ASSUME CpuInv, Cpu!EndTile
  PROVE  /\ CpuInv' /\ Len(cpuAnswers) < cpuBegun
         /\ Answer(Head(done), Len(cpuAnswers) + 1)
<1> DEFINE U == SUBSET MatchesUpTo(job, Len(job.tiles))
           ms == Head(done)
<1>1. /\ ~scanning /\ done # <<>> /\ cpuAnswers' = Append(cpuAnswers, ms) /\ done' = Tail(done)
      /\ job' = job /\ cpuBegun' = cpuBegun /\ cpuTruncated' = cpuTruncated /\ cpuPlan' = cpuPlan
      /\ emitted' = emitted /\ scanning' = scanning /\ todo' = todo /\ bucket' = bucket
  BY DEF Cpu!EndTile
<1>2. done \in Seq(U) /\ cpuAnswers \in Seq(U) /\ Len(cpuAnswers) + Len(done) = cpuBegun
  BY DEF CpuInv, CpuShape
<1> HIDE DEF U
<1>3. /\ Len(done) \in Nat \ {0} /\ DOMAIN done = 1 .. Len(done) /\ done[1] = ms /\ ms \in U
      /\ done' \in Seq(U) /\ Len(done') = Len(done) - 1 /\ DOMAIN done' = 1 .. Len(done) - 1
      /\ \A k \in 1 .. Len(done) - 1 : done'[k] = done[k + 1]
  BY <1>1, <1>2
<1>4. /\ Len(cpuAnswers) \in Nat /\ DOMAIN cpuAnswers = 1 .. Len(cpuAnswers)
      /\ cpuAnswers' \in Seq(U) /\ Len(cpuAnswers') = Len(cpuAnswers) + 1
      /\ DOMAIN cpuAnswers' = 1 .. Len(cpuAnswers) + 1
      /\ (\A k \in 1 .. Len(cpuAnswers) : cpuAnswers'[k] = cpuAnswers[k])
      /\ cpuAnswers'[Len(cpuAnswers) + 1] = ms
  BY <1>1, <1>2, <1>3
<1> HIDE DEF ms
<1>5. /\ \A k \in 1 .. Len(cpuAnswers) : Answer(cpuAnswers[k], k)
      /\ \A k \in 1 .. Len(done) : Answer(done[k], Len(cpuAnswers) + k)
  BY DEF CpuInv, CpuAnswers
<1>6. Answer(ms, Len(cpuAnswers) + 1)
  BY <1>3, <1>5
<1>7. \A m, k : Answer(m, k) => m \subseteq Found(k) /\ (~cpuTruncated' => m = Found(k))
  BY <1>1 DEF Answer, Found
<1>8. CpuAnswers'
  <2>1. ASSUME NEW k \in 1 .. Len(cpuAnswers')
        PROVE  cpuAnswers'[k] \subseteq Found(k) /\ (~cpuTruncated' => cpuAnswers'[k] = Found(k))
    <3>1. CASE k \in 1 .. Len(cpuAnswers)
      BY <1>4, <1>5, <1>7, <3>1
    <3>2. CASE k = Len(cpuAnswers) + 1
      BY <1>4, <1>6, <1>7, <3>2
    <3> QED BY <1>4, <3>1, <3>2
  <2>2. ASSUME NEW k \in 1 .. Len(done) - 1
        PROVE  /\ done'[k] \subseteq Found(Len(cpuAnswers) + (k + 1))
               /\ ~cpuTruncated' => done'[k] = Found(Len(cpuAnswers) + (k + 1))
    <3>1. done'[k] = done[k + 1] /\ k + 1 \in 1 .. Len(done)
      BY <1>3
    <3>2. Answer(done'[k], Len(cpuAnswers) + (k + 1))
      BY <1>5, <3>1
    <3> QED BY <1>7, <3>2
  <2>3. \A k \in 1 .. Len(cpuAnswers') : Answer(cpuAnswers[k], k)'
    BY <1>1, <2>1 DEF Answer, Found
  <2>4. ASSUME NEW k \in 1 .. Len(done') PROVE Answer(done[k], Len(cpuAnswers) + k)'
    <3> DEFINE n == Len(cpuAnswers) + (k + 1)
    <3>1. k \in 1 .. Len(done) - 1 /\ Len(cpuAnswers') + k = n
      BY <1>3, <1>4
    <3>2. done'[k] \subseteq Found(n) /\ (~cpuTruncated' => done'[k] = Found(n))
      BY <2>2, <3>1
    <3> HIDE DEF n
    <3>3. /\ done'[k] \subseteq MatchesIn(job', job'.tiles[n])
          /\ ~cpuTruncated' => done'[k] = MatchesIn(job', job'.tiles[n])
      BY <1>1, <3>2 DEF Found
    <3> QED BY <3>1, <3>3 DEF Answer, Found
  <2> QED BY <2>3, <2>4 DEF CpuAnswers
<1>9. Kept' = Kept
  <2>1. Kept' = Given(cpuAnswers') \cup Given(done') \cup UNION {bucket[n] : n \in Cpu!Threads}
    BY <1>1 DEF Kept, Given, Cpu!Threads
  <2>2. Given(cpuAnswers') = Given(cpuAnswers) \cup ms
    <3>1. /\ DOMAIN cpuAnswers' = DOMAIN cpuAnswers \cup {Len(cpuAnswers) + 1}
          /\ \A k \in DOMAIN cpuAnswers : cpuAnswers'[k] = cpuAnswers[k]
      BY <1>4
    <3> QED BY <1>4, <3>1 DEF Given
  <2>3. Given(done) = Given(done') \cup ms
    <3>1. \A e \in Given(done) : e \in Given(done') \cup ms
      <4>1. ASSUME NEW e, NEW k \in DOMAIN done, e \in done[k] PROVE e \in Given(done') \cup ms
        <5>1. CASE k = 1
          BY <1>3, <4>1, <5>1
        <5>2. CASE k # 1
          <6>1. k - 1 \in DOMAIN done' /\ done'[k - 1] = done[k]
            BY <1>3, <5>2
          <6> QED BY <4>1, <6>1 DEF Given
        <5> QED BY <5>1, <5>2
      <4> QED BY <4>1 DEF Given
    <3>2. \A e \in Given(done') : e \in Given(done)
      <4>1. \A k \in DOMAIN done' : k + 1 \in DOMAIN done /\ done'[k] = done[k + 1]
        BY <1>3
      <4> QED BY <4>1 DEF Given
    <3>3. \A e \in ms : e \in Given(done)
      <4>1. 1 \in DOMAIN done
        BY <1>3
      <4> QED BY <1>3, <4>1 DEF Given
    <3> QED BY <3>1, <3>2, <3>3
  <2> QED BY <2>1, <2>2, <2>3 DEF Kept
<1>10. CpuCounts'
  <2>1. Seen' = Seen
    BY <1>1 DEF Seen, Found, Unseen, Cpu!Threads
  <2> QED BY <1>1, <1>9, <2>1 DEF CpuInv, CpuCounts
<1>11. CpuThreads'
  <2>1. todo' = todo /\ bucket' = bucket /\ ~scanning' /\ \A n \in Cpu!Threads : todo[n] = <<>> /\ bucket[n] = {}
    BY <1>1 DEF CpuInv, CpuThreads, ThreadOK
  <2> QED BY <2>1 DEF CpuThreads, ThreadOK, Cpu!Threads
<1>12. CpuShape'
  <2>1. Len(cpuAnswers') + Len(done') = cpuBegun
    BY <1>2, <1>3, <1>4
  <2>2. /\ (job = NoJob /\ cpuBegun = 0) \/ (job \in Jobs /\ cpuPlan = PlanOf(job))
        /\ cpuBegun \in 0 .. Len(job.tiles) /\ scanning \in BOOLEAN /\ (scanning => cpuBegun < Len(job.tiles))
        /\ cpuTruncated \in BOOLEAN /\ DOMAIN todo = Cpu!Threads /\ DOMAIN bucket = Cpu!Threads
    BY DEF CpuInv, CpuShape
  <2>3. cpuAnswers' \in Seq(SUBSET MatchesUpTo(job, Len(job.tiles)))
        /\ done' \in Seq(SUBSET MatchesUpTo(job, Len(job.tiles)))
    BY <1>3, <1>4 DEF U
  <2> QED BY <1>1, <2>1, <2>2, <2>3 DEF CpuShape, Cpu!Threads
<1>13. Len(cpuAnswers) < cpuBegun
  BY <1>2, <1>3, <1>4
<1> QED BY <1>6, <1>8, <1>10, <1>11, <1>12, <1>13 DEF CpuInv, ms

\* Before a job nothing is begun, answered or counted.
LEMMA CpuFresh ==
  ASSUME cpuBegun = 0, cpuAnswers = <<>>, done = <<>>, ~scanning, scanning \in BOOLEAN, cpuTruncated = FALSE,
         emitted = 0, DOMAIN todo = Cpu!Threads, DOMAIN bucket = Cpu!Threads,
         \A n \in Cpu!Threads : todo[n] = <<>> /\ bucket[n] = {},
         job = NoJob \/ (job \in Jobs /\ cpuPlan = PlanOf(job))
  PROVE  CpuInv
<1>1. Len(job.tiles) \in Nat /\ job.cap \in Nat
  <2>1. CASE job = NoJob
    BY <2>1 DEF NoJob
  <2>2. CASE job \in Jobs
    <3>1. job \in JobSet
      BY <2>2, JobAssumption DEF IsJob
    <3> QED BY <3>1 DEF JobSet
  <2> QED BY <2>1, <2>2
<1>2. \A S : <<>> \in Seq(S)
  OBVIOUS
<1>3. CpuShape
  <2>1. cpuBegun \in 0 .. Len(job.tiles) /\ Len(cpuAnswers) + Len(done) = cpuBegun
    BY <1>1
  <2>2. /\ cpuAnswers \in Seq(SUBSET MatchesUpTo(job, Len(job.tiles)))
        /\ done \in Seq(SUBSET MatchesUpTo(job, Len(job.tiles)))
    BY <1>2
  <2> QED BY <2>1, <2>2 DEF CpuShape
<1>4. CpuAnswers /\ CpuThreads
  BY DEF CpuAnswers, CpuThreads, ThreadOK
<1>5. Seen = {} /\ Kept = {}
  <2>1. Seen = {}
    BY DEF Seen, MatchesUpTo
  <2>2. Given(<<>>) = {}
    BY DEF Given
  <2> QED BY <2>1, <2>2 DEF Kept
<1>6. CpuCounts
  BY <1>1, <1>5, FS_EmptySet DEF CpuCounts, Least
<1> QED BY <1>3, <1>4, <1>6 DEF CpuInv

\* configure() starts a job with nothing begun.
LEMMA CpuConfigureKeeps ==
  ASSUME CpuInv, NEW j \in Jobs, Cpu!Configure(j)
  PROVE  CpuInv'
<1>1. /\ ~scanning /\ cpuBegun = Len(cpuAnswers)
      /\ job' = j /\ cpuBegun' = 0 /\ cpuAnswers' = <<>> /\ cpuPlan' = PlanOf(j)
      /\ cpuTruncated' = FALSE /\ emitted' = 0
      /\ done' = done /\ scanning' = scanning /\ todo' = todo /\ bucket' = bucket
  BY CpuPlan DEF Cpu!Configure, PlanOf
<1>2. done = <<>>
  <2>1. /\ done \in Seq(SUBSET MatchesUpTo(job, Len(job.tiles))) /\ Len(cpuAnswers) + Len(done) = cpuBegun
        /\ cpuAnswers \in Seq(SUBSET MatchesUpTo(job, Len(job.tiles)))
    BY DEF CpuInv, CpuShape
  <2>2. Len(cpuAnswers) \in Nat /\ Len(done) \in Nat
    BY <2>1
  <2>3. Len(done) = 0
    BY <1>1, <2>1, <2>2
  <2> QED BY <2>1, <2>3
<1>3. /\ scanning \in BOOLEAN /\ DOMAIN todo = Cpu!Threads /\ DOMAIN bucket = Cpu!Threads
      /\ \A n \in Cpu!Threads : todo[n] = <<>> /\ bucket[n] = {}
  BY <1>1 DEF CpuInv, CpuShape, CpuThreads, ThreadOK
<1>4. job' \in Jobs /\ cpuPlan' = PlanOf(job')
  BY <1>1
<1>5. /\ cpuBegun' = 0 /\ cpuAnswers' = <<>> /\ done' = <<>> /\ ~scanning' /\ scanning' \in BOOLEAN
      /\ cpuTruncated' = FALSE /\ emitted' = 0
      /\ DOMAIN todo' = Cpu!Threads /\ DOMAIN bucket' = Cpu!Threads
      /\ \A n \in Cpu!Threads : todo'[n] = <<>> /\ bucket'[n] = {}
  BY <1>1, <1>2, <1>3
<1>6. /\ Len(job'.tiles) \in Nat /\ job'.cap \in Nat
  <2>1. job' \in JobSet
    BY <1>4, JobAssumption DEF IsJob
  <2> QED BY <2>1 DEF JobSet
<1>7. CpuShape'
  <2>1. \A S : <<>> \in Seq(S)
    OBVIOUS
  <2>2. cpuBegun' \in 0 .. Len(job'.tiles) /\ Len(cpuAnswers') + Len(done') = cpuBegun'
    BY <1>5, <1>6
  <2>3. /\ cpuAnswers' \in Seq(SUBSET MatchesUpTo(job', Len(job'.tiles)))
        /\ done' \in Seq(SUBSET MatchesUpTo(job', Len(job'.tiles)))
    BY <1>5, <2>1
  <2> QED BY <1>4, <1>5, <2>2, <2>3 DEF CpuShape, Cpu!Threads
<1>8. CpuAnswers' /\ CpuThreads'
  BY <1>5 DEF CpuAnswers, CpuThreads, ThreadOK, Cpu!Threads
<1>9. Seen' = {} /\ Kept' = {}
  <2>1. Seen' = {}
    BY <1>5 DEF Seen, MatchesUpTo
  <2>2. Given(<<>>) = {}
    BY DEF Given
  <2>3. Kept' = Given(cpuAnswers') \cup Given(done') \cup UNION {bucket'[n] : n \in Cpu!Threads}
    BY DEF Kept, Given, Cpu!Threads
  <2> QED BY <1>5, <2>1, <2>2, <2>3
<1>10. CpuCounts'
  BY <1>5, <1>6, <1>9, FS_EmptySet DEF CpuCounts, Least
<1> QED BY <1>7, <1>8, <1>10 DEF CpuInv

\* What the contract calls the matches of a tile is the same.
LEMMA ContractMatches ==
  ASSUME NEW j, NEW t, NEW n
  PROVE  /\ Cpu!Contract!MatchesIn(j, t) = MatchesIn(j, t)
         /\ Cpu!Contract!MatchesUpTo(j, n) = MatchesUpTo(j, n)
<1>1. \A u : Cpu!Contract!MatchesIn(j, u) = MatchesIn(j, u)
  BY DEF Cpu!Contract!MatchesIn, MatchesIn, Cpu!Contract!Anchor, Anchor, Cpu!Contract!Nearer, Nearer,
         Cpu!Contract!Dist2, Dist2, Cpu!Contract!SumOf, SumOf, Cpu!Contract!TrueMask, TrueMask,
         Cpu!Contract!Orientations, Orientations, Cpu!Contract!kOrientations, kOrientations,
         Cpu!Contract!Turn, Turn, Cpu!Contract!Bed, Bed, Cpu!Contract!BeCoord, BeCoord,
         Cpu!Contract!Nearest, Nearest, Cpu!Contract!FloatStep, FloatStep, Cpu!Contract!Magnitude, Magnitude,
         Cpu!Contract!Candidates, Candidates
<1>2. Cpu!Contract!MatchesUpTo(j, n) = MatchesUpTo(j, n)
  BY <1>1 DEF Cpu!Contract!MatchesUpTo, MatchesUpTo
<1> QED BY <1>1, <1>2

\* The invariant and the contract start true.
LEMMA CpuInitOK == Cpu!Init => CpuInv /\ Cpu!Contract!Init
<1> SUFFICES ASSUME Cpu!Init PROVE CpuInv /\ Cpu!Contract!Init
  OBVIOUS
<1>1. /\ job = NoJob /\ cpuBegun = 0 /\ cpuAnswers = <<>> /\ done = <<>> /\ scanning = FALSE
      /\ cpuTruncated = FALSE /\ emitted = 0
      /\ todo = [n \in Cpu!Threads |-> <<>>] /\ bucket = [n \in Cpu!Threads |-> {}]
  BY DEF Cpu!Init, Cpu!NoJob, NoJob
<1>2. /\ DOMAIN todo = Cpu!Threads /\ DOMAIN bucket = Cpu!Threads
      /\ \A n \in Cpu!Threads : todo[n] = <<>> /\ bucket[n] = {}
  BY <1>1
<1>3. CpuInv
  <2>1. ~scanning /\ scanning \in BOOLEAN
    BY <1>1
  <2>2. job = NoJob \/ (job \in Jobs /\ cpuPlan = PlanOf(job))
    BY <1>1
  <2> QED BY <1>1, <1>2, <2>1, <2>2, CpuFresh
<1>4. Cpu!Contract!Init
  BY <1>1 DEF Cpu!Contract!Init, Cpu!Contract!NoJob, NoJob
<1> QED BY <1>3, <1>4

\* Every step of CpuWorker keeps the invariant, and is a step of the contract or none.
LEMMA CpuSteps ==
  ASSUME CpuInv, [Cpu!Next]_(Cpu!vars)
  PROVE  CpuInv' /\ [Cpu!Contract!Next]_(Cpu!Contract!worker)
<1> DEFINE cbegun == IF scanning THEN cpuBegun + 1 ELSE cpuBegun
<1>0. /\ Cpu!Contract!worker = <<job, cbegun, cpuAnswers, cpuTruncated>>
      /\ scanning \in BOOLEAN /\ cpuTruncated \in BOOLEAN
      /\ cpuBegun \in Nat /\ job.cap \in Nat /\ Cpu!Contract!TileCap(job) <= job.cap
  <2>1. job.cap \in Nat /\ cpuBegun \in Nat
    BY JobFacts DEF CpuInv
  <2>2. Cpu!Contract!TileCap(job) = IF job.cap < CapLimit THEN job.cap ELSE CapLimit
    BY DEF Cpu!Contract!TileCap
  <2> QED BY <2>1, <2>2, LimitAssumption DEF CpuInv, CpuShape, Cpu!Contract!worker
<1>1. ASSUME NEW j \in Jobs, Cpu!Configure(j) PROVE CpuInv' /\ Cpu!Contract!Next
  <2>1. CpuInv'
    BY <1>1, CpuConfigureKeeps
  <2>2. /\ ~scanning /\ cpuBegun = Len(cpuAnswers) /\ cpuBegun = Len(job.tiles) /\ scanning' = scanning
        /\ job' = j /\ cpuBegun' = 0 /\ cpuAnswers' = <<>> /\ cpuTruncated' = FALSE
    BY <1>1 DEF Cpu!Configure
  <2>3. j # NoJob
    <3>1. IsPattern(j.knowns)
      BY JobAssumption DEF IsJob
    <3> QED BY <3>1 DEF NoJob, IsPattern
  <2>4. Cpu!Contract!Configure
    BY <2>2, <2>3 DEF Cpu!Contract!Configure, Cpu!Contract!NoJob, NoJob
  <2> QED BY <2>1, <2>4 DEF Cpu!Contract!Next
<1>2. ASSUME Cpu!BeginTile PROVE CpuInv' /\ Cpu!Contract!Next
  <2>1. CpuInv'
    BY <1>2, CpuBeginKeeps
  <2>2. /\ ~scanning /\ cpuBegun < Len(job.tiles) /\ cpuBegun - Len(cpuAnswers) < Cpu!kDepth /\ scanning' = TRUE
        /\ job' = job /\ cpuBegun' = cpuBegun /\ cpuAnswers' = cpuAnswers /\ cpuTruncated' = cpuTruncated
    BY <1>2 DEF Cpu!BeginTile
  <2>3. Cpu!Contract!BeginTile
    BY <2>2 DEF Cpu!Contract!BeginTile, Cpu!kDepth, Cpu!Contract!kDepth
  <2> QED BY <2>1, <2>3 DEF Cpu!Contract!Next
<1>3. ASSUME Cpu!Join PROVE CpuInv' /\ UNCHANGED Cpu!Contract!worker
  <2>1. CpuInv'
    BY <1>3, JoinKeeps
  <2>2. /\ scanning /\ scanning' = FALSE /\ cpuBegun' = cpuBegun + 1
        /\ job' = job /\ cpuAnswers' = cpuAnswers /\ cpuTruncated' = cpuTruncated
    BY <1>3 DEF Cpu!Join
  <2> QED BY <2>1, <2>2 DEF Cpu!Contract!worker
<1>4. ASSUME Cpu!EndTile PROVE CpuInv' /\ Cpu!Contract!Next
  <2>1. CpuInv' /\ Len(cpuAnswers) < cpuBegun /\ Answer(Head(done), Len(cpuAnswers) + 1)
    BY <1>4, CpuEndKeeps
  <2>2. /\ ~scanning /\ cpuAnswers' = Append(cpuAnswers, Head(done)) /\ scanning' = scanning
        /\ job' = job /\ cpuBegun' = cpuBegun /\ cpuTruncated' = cpuTruncated
    BY <1>4 DEF Cpu!EndTile
  <2> DEFINE t == job.tiles[Len(cpuAnswers) + 1]
             ms == Head(done)
  <2>3. ms \in SUBSET MatchesIn(job, t) /\ (ms # MatchesIn(job, t) => cpuTruncated)
    BY <2>1 DEF Answer, Found
  <2>4. ms \in SUBSET Cpu!Contract!MatchesIn(job, t) /\ (ms # Cpu!Contract!MatchesIn(job, t) => cpuTruncated)
    BY <2>3, ContractMatches
  <2>5. Cpu!Contract!Truncation
    BY <2>2 DEF Cpu!Contract!Truncation
  <2>6. Cpu!Contract!EndTile
    BY <2>1, <2>2, <2>4, <2>5 DEF Cpu!Contract!EndTile
  <2> QED BY <2>1, <2>6 DEF Cpu!Contract!Next
<1>5. ASSUME NEW n \in Cpu!Threads, Cpu!Emit(n) PROVE CpuInv' /\ [Cpu!Contract!Next]_(Cpu!Contract!worker)
  <2>1. /\ CpuInv'
        /\ cpuTruncated' /\ ~cpuTruncated => Cardinality(MatchesUpTo(job, cpuBegun + 1)) > job.cap
    BY <1>5, EmitKeeps
  <2>2. /\ todo[n] # <<>> /\ cpuTruncated' \in {cpuTruncated, TRUE} /\ scanning' = scanning
        /\ job' = job /\ cpuBegun' = cpuBegun /\ cpuAnswers' = cpuAnswers
    BY <1>5 DEF Cpu!Emit
  <2>3. scanning
    BY <2>2 DEF CpuInv, CpuThreads, ThreadOK
  <2>4. IsFiniteSet(MatchesUpTo(job, cpuBegun + 1))
    <3>1. cpuBegun < Len(job.tiles)
      BY <2>3 DEF CpuInv, CpuShape
    <3>2. /\ IsFiniteSet(MatchesUpTo(job, cpuBegun)) /\ IsFiniteSet(Found(cpuBegun + 1))
          /\ MatchesUpTo(job, cpuBegun + 1) = MatchesUpTo(job, cpuBegun) \cup Found(cpuBegun + 1)
      BY <3>1, JobFacts DEF CpuInv
    <3>3. IsFiniteSet(MatchesUpTo(job, cpuBegun) \cup Found(cpuBegun + 1))
      BY <3>2, FS_Union
    <3> QED BY <3>2, <3>3
  <2>5. cpuTruncated' /\ ~cpuTruncated =>
          Cardinality(Cpu!Contract!MatchesUpTo(job, cpuBegun + 1)) > Cpu!Contract!TileCap(job)
    <3>1. Cardinality(MatchesUpTo(job, cpuBegun + 1)) \in Nat
      BY <2>4, FS_CardinalityType
    <3>2. Cpu!Contract!TileCap(job) \in Nat
      BY <1>0, LimitAssumption DEF Cpu!Contract!TileCap
    <3> QED BY <1>0, <2>1, <3>1, <3>2, ContractMatches
  <2>6. Cpu!Contract!Truncation
    <3>1. cbegun = cpuBegun + 1
      BY <2>3
    <3>2. cpuTruncated' /\ ~cpuTruncated =>
            Cardinality(Cpu!Contract!MatchesUpTo(job, cbegun)) > Cpu!Contract!TileCap(job)
      BY <2>5, <3>1
    <3> HIDE DEF cbegun
    <3>3. Cpu!Contract!Truncation <=>
            /\ cpuTruncated' \in {cpuTruncated, TRUE}
            /\ cpuTruncated' /\ ~cpuTruncated =>
                 Cardinality(Cpu!Contract!MatchesUpTo(job, cbegun)) > Cpu!Contract!TileCap(job)
      BY DEF Cpu!Contract!Truncation, cbegun, Cpu!Contract!Cardinality, Cardinality
    <3> QED BY <2>2, <3>2, <3>3
  <2>7. Cpu!Contract!Overflow
    BY <2>2, <2>6 DEF Cpu!Contract!Overflow
  <2> QED BY <2>1, <2>7 DEF Cpu!Contract!Next
<1>6. ASSUME UNCHANGED Cpu!vars PROVE CpuInv' /\ UNCHANGED Cpu!Contract!worker
  <2>1. /\ job' = job /\ cpuBegun' = cpuBegun /\ cpuAnswers' = cpuAnswers /\ cpuTruncated' = cpuTruncated
        /\ cpuPlan' = cpuPlan /\ emitted' = emitted /\ done' = done /\ scanning' = scanning
        /\ todo' = todo /\ bucket' = bucket
    BY <1>6 DEF Cpu!vars
  <2>2. CpuInv'
    BY <2>1 DEF CpuInv, CpuShape, CpuAnswers, Answer, CpuThreads, ThreadOK, CpuCounts, Seen, Unseen, Kept,
                Given, Found, Rows, Cpu!Threads
  <2> QED BY <2>1, <2>2 DEF Cpu!Contract!worker
<1> QED BY <1>1, <1>2, <1>3, <1>4, <1>5, <1>6 DEF Cpu!Next, Cpu!Work

\* What a pair of workers does, CpuWorker does on its own.
LEMMA PairHasCpu == PairSpec => Cpu!Spec
<1>1. PairInit => Cpu!Init
  BY DEF PairInit
<1>2. [PairNext]_<<vars, cpu>> => [Cpu!Next]_(Cpu!vars)
  <2> SUFFICES ASSUME [PairNext]_<<vars, cpu>> PROVE [Cpu!Next]_(Cpu!vars)
    OBVIOUS
  <2>1. ASSUME NEW j \in Jobs, Cpu!Configure(j) PROVE Cpu!Next
    BY <2>1 DEF Cpu!Next
  <2>2. ASSUME Work, UNCHANGED cpu PROVE UNCHANGED Cpu!vars
    <3>1. job' = job
      BY <2>2 DEF Work, BeginTile, EndTile, Run, Zero, Fill, Draw, Remap, Match, Takes, worker
    <3> QED BY <2>2, <3>1 DEF cpu, Cpu!vars
  <2>3. ASSUME Cpu!Work PROVE Cpu!Next
    BY <2>3 DEF Cpu!Next
  <2>4. ASSUME UNCHANGED <<vars, cpu>> PROVE UNCHANGED Cpu!vars
    BY <2>4 DEF vars, worker, cpu, Cpu!vars
  <2> QED BY <2>1, <2>2, <2>3, <2>4 DEF PairNext
<1> QED BY <1>1, <1>2, PTL DEF PairSpec, Cpu!Spec

\* The invariant of CpuWorker.
LEMMA CpuInvariant == PairSpec => []CpuInv
<1>1. Cpu!Spec => []CpuInv
  BY CpuInitOK, CpuSteps, PTL DEF Cpu!Spec
<1> QED BY <1>1, PairHasCpu, PTL

\* CpuWorker keeps the contract of Worker: tiles are answered oldest first, with matches
\* of the tile by the definition, with all of them unless truncated() says so, and it
\* says so only of a job with more matches than its cap - whatever the threads' order.
THEOREM CpuKeepsContract == PairSpec => CpuContract
<1>1. Cpu!Spec => Cpu!Contract!Spec
  BY CpuInitOK, CpuSteps, PTL DEF Cpu!Spec, Cpu!Contract!Spec
<1> QED BY <1>1, PairHasCpu, PTL DEF CpuContract

\* The smaller of two numbers.
LEMMA MinIs ==
  ASSUME NEW a \in Nat, NEW b \in Nat
  PROVE  Min({a, b}) = Least(a, b)
<1>1. Least(a, b) \in {a, b} /\ \A y \in {a, b} : Least(a, b) <= y
  BY DEF Least
<1>2. \A x \in {a, b} : (\A y \in {a, b} : x <= y) => x = Least(a, b)
  BY DEF Least
<1> QED BY <1>1, <1>2 DEF Min

\* Once a sweep is over, CpuWorker has counted every match of the job.
LEMMA CpuCounted == CpuInv => CapIsExact
<1> SUFFICES ASSUME CpuInv, Swept
             PROVE  LET all == Cardinality(MatchesUpTo(job, Len(job.tiles)))
                    IN /\ Total(cpuAnswers) = Min({all, job.cap})
                       /\ cpuTruncated = (all > job.cap)
  BY DEF CapIsExact
<1> DEFINE all == Cardinality(MatchesUpTo(job, Len(job.tiles)))
<1>1. /\ Len(cpuAnswers) = Len(job.tiles) /\ Len(job.tiles) \in Nat /\ cpuBegun \in 0 .. Len(job.tiles)
      /\ scanning \in BOOLEAN /\ (scanning => cpuBegun < Len(job.tiles))
      /\ Len(cpuAnswers) + Len(done) = cpuBegun /\ Len(done) \in Nat /\ (Len(done) = 0 => done = <<>>)
      /\ job.cap \in Nat
  BY JobFacts DEF Swept, CpuInv, CpuShape
<1>2. cpuBegun = Len(job.tiles) /\ done = <<>> /\ ~scanning
  BY <1>1
<1>3. Seen = MatchesUpTo(job, Len(job.tiles))
  BY <1>2 DEF Seen
<1>4. Kept = Given(cpuAnswers)
  BY <1>2 DEF Kept, Given, CpuInv, CpuThreads, ThreadOK
<1>5. emitted = all /\ all \in Nat
  BY <1>3, KeptIsSeen, FS_CardinalityType DEF CpuInv, CpuCounts
<1>6. Total(cpuAnswers) = Least(all, job.cap)
  BY <1>4, <1>5 DEF Total, Given, CpuInv, CpuCounts
<1>7. cpuTruncated = (all > job.cap)
  BY <1>5 DEF CpuInv, CpuCounts, CpuShape
<1> QED BY <1>1, <1>5, <1>6, <1>7, MinIs

\* The threads, racing for the counter, keep exactly as many matches as fit the cap, and
\* truncated() is raised exactly when one did not.
THEOREM CpuCapIsExact == PairSpec => []CapIsExact
BY CpuCounted, CpuInvariant, PTL

-----------------------------------------------------------------------------
(* The two workers agree                                                   *)

\* What a pair of workers does, OpenclWorker does on its own.
LEMMA PairHasGpu == PairSpec => Spec
<1>1. PairInit => Init
  BY DEF PairInit
<1>2. [PairNext]_<<vars, cpu>> => [Next]_vars
  BY DEF PairNext, Next, vars, worker, device
<1> QED BY <1>1, <1>2, PTL DEF PairSpec, Spec

\* The invariant of OpenclWorker, with what its buffers hold.
LEMMA GpuInvariant == PairSpec => []GpuInv
<1>1. Spec => []GpuInv
  BY GpuInitOK, GpuSteps, PTL DEF Spec
<1> QED BY <1>1, PairHasGpu, PTL

\* OpenclWorker keeps the contract of Worker: tiles are answered oldest first, with
\* matches of the tile by the definition, with all of them unless truncated() says so, and
\* it says so only of a job with more matches than its cap - in whatever order the device
\* goes on with its queues, and whatever the buffers held before.
THEOREM GpuKeepsContract == PairSpec => GpuContract
<1>1. Spec => Contract!Spec
  BY GpuInitOK, GpuSteps, PTL DEF Spec, Contract!Spec
<1> QED BY <1>1, PairHasGpu, PTL DEF GpuContract

\* A job that fits the cap gets the same matches for each tile from both workers, and one
\* that does not gets as many from both once the GPU's, capped by tile, are capped by job.
LEMMA SweptAlike ==
  ASSUME GpuInv, CpuInv, Swept, job.cap <= CapLimit
  PROVE  /\ ~cpuTruncated => ~truncated /\ answers = cpuAnswers
         /\ Min({job.cap, Total(answers)}) = Total(cpuAnswers)
<1> DEFINE L == Len(job.tiles)
           M == MatchesUpTo(job, L)
           all == Cardinality(M)
<1>1. /\ L \in Nat /\ Len(answers) = L /\ Len(cpuAnswers) = L /\ job.cap \in Nat
      /\ DOMAIN answers = 1 .. L /\ (\E S : answers \in Seq(S)) /\ (\E S : cpuAnswers \in Seq(S))
  <2>1. DOMAIN answers = 1 .. Len(answers) /\ (\E S : answers \in Seq(S))
    BY GpuFacts DEF GpuInv, OpenclInv, TypeOK
  <2>2. (\E S : cpuAnswers \in Seq(S)) /\ L \in Nat /\ job.cap \in Nat
    BY JobFacts DEF CpuInv, CpuShape
  <2> QED BY <2>1, <2>2 DEF Swept, GpuSwept
<1>2. ASSUME NEW k \in 1 .. L
      PROVE  /\ Found(k) \subseteq M /\ IsFiniteSet(Found(k)) /\ IsJob(job) /\ cap = job.cap
             /\ cpuAnswers[k] \subseteq Found(k) /\ (~cpuTruncated => cpuAnswers[k] = Found(k))
             /\ answers[k] \subseteq Found(k) /\ Cardinality(answers[k]) = Least(Cardinality(Found(k)), cap)
  <2>1. IsFiniteSet(Found(k)) /\ IsJob(job) /\ cap = TileCap(job)
    BY GpuFacts DEF GpuInv
  <2>2. cap = job.cap
    BY <1>1, <2>1, LimitAssumption DEF TileCap
  <2>3. Found(k) \subseteq M
    BY DEF MatchesUpTo, Found
  <2>4. cpuAnswers[k] \subseteq Found(k) /\ (~cpuTruncated => cpuAnswers[k] = Found(k))
    BY <1>1 DEF CpuInv, CpuAnswers, Answer
  <2>5. answers[k] \subseteq Found(k) /\ Cardinality(answers[k]) = Least(Cardinality(Found(k)), cap)
    BY <1>1 DEF GpuInv, GpuAnswers
  <2> QED BY <2>1, <2>2, <2>3, <2>4, <2>5
<1>3. M = UNION {Found(k) : k \in 1 .. L}
  BY DEF MatchesUpTo, Found
<1>4. IsFiniteSet(M)
  <2>1. CASE L = 0
    <3>1. 1 .. L = {}
      BY <2>1
    <3> HIDE DEF L, M
    <3>2. M = {}
      BY <1>3, <3>1
    <3> QED BY <3>2, FS_EmptySet
  <2>2. CASE L > 0
    <3>1. 1 \in 1 .. L /\ L \in 0 .. L
      BY <1>1, <2>2
    <3> QED BY <1>2, <3>1, MatchesGrow
  <2> QED BY <1>1, <2>1, <2>2
<1>5. Total(cpuAnswers) = Least(all, job.cap) /\ cpuTruncated = (all > job.cap) /\ all \in Nat
  <2>1. all \in Nat
    BY <1>4, FS_CardinalityType
  <2>2. Total(cpuAnswers) = Min({all, job.cap}) /\ cpuTruncated = (all > job.cap)
    BY CpuCounted DEF CapIsExact
  <2> QED BY <1>1, <2>1, <2>2, MinIs
<1> HIDE DEF M, all, L
<1>6. \A k \in 1 .. L : Cardinality(Found(k)) \in Nat /\ Cardinality(Found(k)) <= all
  BY <1>2, <1>4, FS_Subset, FS_CardinalityType DEF all
<1>7. ASSUME NEW k \in 1 .. L, Cardinality(Found(k)) <= cap PROVE answers[k] = Found(k)
  <2>1. Cardinality(answers[k]) = Cardinality(Found(k))
    BY <1>2, <1>6, <1>7, <1>1 DEF Least
  <2> QED BY <1>2, <2>1, FS_Subset
<1>8. truncated <=> \E k \in 1 .. L : Cardinality(Found(k)) > cap
  BY <1>1 DEF GpuInv, GpuAnswers
<1>9. ASSUME ~truncated PROVE \A k \in 1 .. L : answers[k] = Found(k)
  <2> SUFFICES ASSUME NEW k \in 1 .. L PROVE answers[k] = Found(k)
    OBVIOUS
  <2>1. Cardinality(Found(k)) <= cap
    BY <1>1, <1>2, <1>6, <1>8, <1>9
  <2> QED BY <1>7, <2>1
<1>10. ASSUME ~cpuTruncated PROVE ~truncated /\ answers = cpuAnswers
  <2>1. ~truncated
    <3> SUFFICES ASSUME NEW k \in 1 .. L, Cardinality(Found(k)) > cap PROVE FALSE
      BY <1>8
    <3>1. ~ (all > job.cap)
      BY <1>5, <1>10, Zenon
    <3>2. cap = job.cap /\ Cardinality(Found(k)) \in Nat /\ Cardinality(Found(k)) <= all
      BY <1>2, <1>6
    <3> QED BY <1>1, <1>5, <3>1, <3>2
  <2>2. \A k \in 1 .. L : answers[k] = cpuAnswers[k]
    BY <1>2, <1>9, <1>10, <2>1
  <2> QED BY <1>1, <2>1, <2>2
<1> DEFINE given == Given(answers)
<1>11. Total(answers) = Cardinality(given) /\ given = UNION {answers[k] : k \in 1 .. L}
  BY <1>1 DEF Total, Given
<1>12. given \subseteq M
  BY <1>2, <1>11
<1> HIDE DEF given
<1>13. IsFiniteSet(given) /\ Cardinality(given) \in Nat
  BY <1>4, <1>12, FS_Subset, FS_CardinalityType
<1>14. Least(job.cap, Total(answers)) = Total(cpuAnswers)
  <2>1. CASE truncated
    <3>1. PICK k \in 1 .. L : Cardinality(Found(k)) > cap
      BY <1>8, <2>1
    <3>2. cap = job.cap /\ Cardinality(answers[k]) = job.cap
      BY <1>1, <1>2, <1>6, <3>1 DEF Least
    <3>3. answers[k] \subseteq given
      BY <1>11
    <3>4. job.cap <= Cardinality(given)
      BY <1>13, <3>2, <3>3, FS_Subset
    <3>5. all > job.cap
      BY <1>1, <1>5, <1>6, <3>1, <3>2
    <3> QED BY <1>1, <1>5, <1>11, <1>13, <3>4, <3>5 DEF Least
  <2>2. CASE ~truncated
    <3>1. given = M
      BY <1>3, <1>9, <1>11, <2>2
    <3>2. Total(answers) = all
      BY <1>11, <3>1 DEF all
    <3> QED BY <1>1, <1>5, <3>2 DEF Least
  <2> QED BY <2>1, <2>2
<1> QED BY <1>1, <1>10, <1>11, <1>13, <1>14, MinIs

\* The two workers cannot disagree (service_types.hpp:296): neither the order in which the
\* threads count their matches nor the one in which the device runs its queues shows.
THEOREM WorkersAgree == PairSpec => []BackendsAgree
<1>1. GpuInv /\ CpuInv => BackendsAgree
  BY SweptAlike DEF BackendsAgree
<1> QED BY <1>1, GpuInvariant, CpuInvariant, PTL
=============================================================================
