--------------------------- MODULE MCTileScheduler ---------------------------
(* Small instances of TileScheduler: a 3 x 2 grid with clipped edges and a   *)
(* 2 x 2 map, a strip, a single tile and one whose map is larger than the   *)
(* grid.  The geometry is that of many more regions, up to the tile cap.     *)
EXTENDS TileScheduler

Requested(x, w, z, h, s, mw, mh) ==
  [x0 |-> x, x1 |-> x + w - 1, z0 |-> z, z1 |-> z + h - 1, side |-> s, mapW |-> mw, mapH |-> mh]

SmallRegions == {Requested(-3, 5, 0, 3, 2, 2, 2), Requested(0, 4, -1, 1, 1, 3, 1),
                 Requested(2, 1, 2, 1, 4, 2, 2), Requested(-2, 3, 0, 2, 1, 9, 9)}

\* single tiles, a run, a run past both ends, one that is empty
SmallRuns == {<<0, 0>>, <<1, 2>>, <<-1, 0>>, <<3, 9>>, <<2, 1>>}

AllRegions ==
  SmallRegions \cup
  {Requested(x, w, z, h, s, mw, mh) :
     x \in {-7, -2, 1}, w \in {1, 4, 7, 14}, z \in {-3, 0}, h \in {1, 5, 11}, s \in {0, 1, 2, 3},
     mw \in {0, 2, 9}, mh \in {1, 3}}
=============================================================================
