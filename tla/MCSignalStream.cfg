SPECIFICATION Spec
CONSTANTS
  Keys = {a, b, c}
  CatchupMax = 2
  MaxSignals = 2
  MaxPublished = 3
  MaxPending = 1
INVARIANTS
  NothingMissed
  SameScreen
PROPERTIES
  EverySignalArrives
CHECK_DEADLOCK FALSE
