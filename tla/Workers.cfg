SPECIFICATION PairSpec
INVARIANTS PlanesFit SlotsInTurn CapIsExact BackendsAgree
PROPERTIES GpuContract CpuContract
CONSTANTS
  Word = 4
  ChunkSide = 2
  KChunk = 3
  FloatLimit = 8
  Drawn <- MCDrawn
  kSlots = 2
  kInlineCells = 2
  CapLimit = 3
  kMaxDim = 3
  threads = 2
  Jobs <- SmallJobs
