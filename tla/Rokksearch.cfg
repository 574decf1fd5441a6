SPECIFICATION FairSpec
INVARIANTS PrintedIsTruth SessionGoesOn FileRoundTrip DemoFindable VerdictTruthful
PROPERTIES Ends
CONSTANTS
  Patterns <- MCPatterns
  Backends = {"cpu", "gpu"}
  Tiles = 2
  Hits <- MCHits
  Paths = {"rokkdoxx-autosave.ckpt", "n.ckpt"}
  AutosavePath = "rokkdoxx-autosave.ckpt"
  Depth = 1
  Texts <- MCTexts
  Number <- MCNumber
  MaxDim = 64
  Workload <- TwoTiles
  MatchCap = 3
  Junk = "junk"
  MaxSweeps = 3
  Commands <- AllCommands
  Names = {"n"}
  Saved <- TwoSaved
  Hosts <- TwoHosts
  World <- AllWorlds
  Rare <- RareBlocks
  TileIn <- TwoRings
  Border = 4
  BedrockReach = 6
  Margin = 2
  Radii = {3, 4}
  Seeds = {7}
  Sizes = {2, 4}
  Budget = 3
CHECK_DEADLOCK FALSE
