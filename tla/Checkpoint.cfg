SPECIFICATION Spec
INVARIANTS CutRejected WholeRestored
PROPERTIES StoreSpec
CONSTANTS
  wide = wide  narrow = narrow  a = a  b = b
  nothing = nothing
  Requests <- TwoRequests
  TileCount <- Tiles
  Fingerprint <- Fingerprints
  Batches <- SmallBatches
  Places <- TwoPlaces
  Masks <- SmallMasks
  Nothing = nothing
