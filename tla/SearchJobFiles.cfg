SPECIFICATION Spec
INVARIANTS TypeOK CheckpointsSound JobSound ScannedOnce NoneSkipped NearestFirst SavesAreExact FileNotAhead
PROPERTIES ProgressGrows LifecycleSpec
CONSTANTS
  a = a  b = b  c = c
  cpu = cpu  gpu = gpu
  auto = auto  named = named  nopath = nopath
  Origins <- AllOrigins
  Searches <- TwoGrids
  Hits <- GridHits
  Gpu <- GpuGrids
  Paths <- Files
  AutosavePath = auto
  NoPath = nopath
  Depth = 2
  DeviceCap = 1
  Requests <- JobRequests
  Events <- HealthyDisk
  MaxRuns = 3
CHECK_DEADLOCK FALSE
