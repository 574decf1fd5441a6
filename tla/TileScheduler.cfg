SPECIFICATION FairSpec
INVARIANTS GeometrySound HandedOutInOrder MapTruthful
PROPERTIES MapKept Covered
CONSTANTS
  MaxTiles = 24
  MaxSide = 4
  Stride = 1000
  Regions <- AllRegions
  Runs <- SmallRuns
  Driven <- SmallRegions
CHECK_DEADLOCK FALSE
