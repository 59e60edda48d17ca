SPECIFICATION Spec
CONSTANTS
  Symbols = {a}
  Runs = {r1, r2}
  NoTs = NoTs
  BarsPerDay = 2
  WindowDays = 2
  SkipBars = 1
  Rate = 1
  ChunkSize = 2
  Budget = 3
  Safety = 1
  MaxClock = 4
  ResetIsolated = FALSE
SYMMETRY Symmetry
INVARIANTS
  HistoryComplete
CHECK_DEADLOCK FALSE
