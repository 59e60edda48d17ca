SPECIFICATION Spec
CONSTANTS
  Symbols = {a, b}
  Runs = {r1}
  NoTs = NoTs
  Holidays = {2}
  HistoryDays = 2
  BatchSize = 1
  MaxClock = 6
SYMMETRY Symmetry
INVARIANTS
  SkipMeansCurrent
CHECK_DEADLOCK FALSE
