SPECIFICATION Spec
INVARIANTS SessionKeepsProgress
CONSTANTS
  P = P
  Q = Q
  N = N
  Patterns = {P, Q}
  Backends = {"cpu"}
  Tiles = 2
  Hits <- MCHits
  Paths = {"autosave", "ckpt"}
  AutosavePath = "autosave"
  Depth = 1
  Names = {N}
  CkptOf <- MCCkptOf
  Blank = Blank
  NoPath = NoPath
  Typed = {}
  Budget = 3
CHECK_DEADLOCK FALSE
