----------------------------- MODULE MCWorkers -----------------------------
(* Small instances of WorkerPair: planes of four-block words, two-block     *)
(* chunks, pieces of three blocks and floats exact below 8, so that a tile   *)
(* of a few blocks has several pieces and reaches the rounded band.          *)
EXTENDS WorkerPair

MCDrawn(x, z) == IF (x * x + 2 * z * z + x * z + z) % 5 < 2 THEN 1 ELSE 0

Known(i, j, want) == [i |-> i, j |-> j, want |-> want]
Block == <<Known(0, 0, 1)>>
Air == <<Known(0, 0, 0)>>
Row == <<Known(0, 0, 1), Known(1, 0, 0)>>
Column == <<Known(0, 0, 0), Known(0, 1, 1)>>
Bend == <<Known(0, 0, 1), Known(1, 0, 1), Known(0, 1, 0)>>
Corner == <<Known(0, 0, 1), Known(1, 0, 0), Known(0, 2, 1)>>
Square == <<Known(0, 0, 1), Known(1, 0, 0), Known(0, 1, 0), Known(1, 1, 1)>>

TileOf(x, z, w, h) == [x0 |-> x, z0 |-> z, w |-> w, h |-> h]
Near == <<TileOf(-1, 0, 4, 2), TileOf(3, 0, 2, 1), TileOf(0, 2, 1, 2)>>
Far == <<TileOf(9, -11, 4, 2), TileOf(-12, 8, 2, 2)>>
Border == <<TileOf(6, 6, 2, 2), TileOf(-9, -2, 2, 2), TileOf(0, 0, 1, 1)>>

JobOf(edition, knowns, rare, all, most, tiles) ==
  [edition |-> edition, knowns |-> knowns, rare |-> rare, all |-> all, cap |-> most, tiles |-> tiles]

SmallJobs == {JobOf("java", Block, 1, TRUE, 2, Near),
              JobOf("java", Corner, 0, TRUE, 9, Near),
              JobOf("java", Air, 1, FALSE, 3, Near),
              JobOf("bedrock", Row, 1, TRUE, 3, Far),
              JobOf("bedrock", Bend, 1, FALSE, 3, Far),
              JobOf("bedrock", Column, 0, TRUE, 3, Border),
              JobOf("bedrock", Square, 1, TRUE, 1, Border)}
=============================================================================
