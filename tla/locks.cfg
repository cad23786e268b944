CONSTANTS
  Thread = {t1, t2}
  Tracing = {t1, t2}
  AppThread = app
  SignalMask = {"noop", "int", "segv"}
  MaxSignals = 1
  Function = {f, g}
  Unnamed = unnamed
  MaxFrames = 2
  MaxBlocks = 2
  MaxTracers = 2
SPECIFICATION MCSpec
SYMMETRY MCSymmetry
INVARIANTS DeadlocksHaveCulprits PlacesNameFunctions
CHECK_DEADLOCK FALSE
