SPECIFICATION Spec
CONSTANTS
  Frames = {f1, f2}
  Empty = Empty
  NotSaved = NotSaved
  NoFrame = NoFrame
  Pending = Pending
  Detectors = {d1, d2}
  Columns = {c1}
  WhileIdle = {"step", "clear", "frame", "reset", "export"}
  WhileBusy = {}
  StartMayFail = FALSE
  MaxSteps = 2
INVARIANTS AccountsForCatalog CatAfterFaithful ColumnsFit FrameOwnsCatalog
CHECK_DEADLOCK FALSE
SYMMETRY Interchangeable
