SPECIFICATION FairSpec
CONSTANTS
  Frames = {f1, f2}
  Empty = Empty
  NotSaved = NotSaved
  NoFrame = NoFrame
  Pending = Pending
  Detectors = {d1}
  Columns = {c1}
  WhileIdle = {"step", "frame"}
  WhileBusy = {"step", "clear", "frame", "export"}
  StartMayFail = TRUE
  MaxSteps = 3
INVARIANT RecordTellsOutcome
PROPERTIES CancelledIsDiscarded CancelFrees
CHECK_DEADLOCK FALSE
