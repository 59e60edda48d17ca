SPECIFICATION Spec
CONSTANTS
  Symbols = {a}
  Runs = {r1, r2}
  NoTs = NoTs
  Holidays = {2}
  HistoryDays = 2
  BatchSize = 1
  MaxClock = 6
SYMMETRY Symmetry
INVARIANTS
  HistoryComplete
  SkipAgreesWithReport
PROPERTIES
  OnlyGapsStoreOpenSession
CHECK_DEADLOCK FALSE
