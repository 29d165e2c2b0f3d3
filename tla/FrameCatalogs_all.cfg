SPECIFICATION Spec
CONSTANTS
  MaxFrames = 3
  MaxWork = 2
  FrameOps = {"delete", "deleteAll", "number"}
  BandOps = {"register", "remove"}
INVARIANT PlainShownIsLatest
PROPERTY NothingLostOnTheWay
CHECK_DEADLOCK FALSE
