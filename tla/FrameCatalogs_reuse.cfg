SPECIFICATION Spec
CONSTANTS
  MaxFrames = 3
  MaxWork = 2
  FrameOps = {"delete", "deleteAll", "number"}
  BandOps = {}
INVARIANT ShownIsLatest
CHECK_DEADLOCK FALSE
