---------------------------- MODULE MCCheckpoint ----------------------------
(* Two requests on grids of 12 and of 4 tiles, whose numbers have one and    *)
(* two digits: 1 and 12 as fingerprints, so that one is the other cut off.  *)
EXTENDS Checkpoint

CONSTANTS wide, narrow, a, b, nothing

TwoRequests == {wide, narrow}
Tiles  == [q \in TwoRequests |-> IF q = wide THEN 12 ELSE 4]
Fingerprints == [q \in TwoRequests |-> IF q = wide THEN 12 ELSE 1]

TwoPlaces == {a, b}
SmallMasks == {1, 3, 16, 128}

Found(at, mask) == [at |-> at, mask |-> mask]
SmallBatches ==
  {[tiles |-> {0}, matches |-> <<>>],
   [tiles |-> {1, 3}, matches |-> <<Found(a, 1)>>],
   [tiles |-> {2}, matches |-> <<Found(b, 128)>>],
   [tiles |-> 5 .. 10, matches |-> <<>>],
   [tiles |-> {11}, matches |-> <<Found(a, 16), Found(b, 3)>>]}
=============================================================================
