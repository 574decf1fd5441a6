SPECIFICATION FairSpec
PROPERTIES JobsEnd PausesHeeded
CONSTANTS
  a = a  b = b  c = c
  cpu = cpu  gpu = gpu
  auto = auto  named = named  nopath = nopath
  Origins <- AllOrigins
  Searches <- TwoGrids
  Hits <- GridHits
  Gpu <- GpuGrids
  Paths <- Files
  AutosavePath = auto
  NoPath = nopath
  Depth = 2
  DeviceCap = 1
  Requests <- SessionRequests
  Events <- SoundDisk
  MaxRuns = 1
CHECK_DEADLOCK FALSE
