SPECIFICATION Spec
CONSTANTS
  Equities = {e}
  Futures = {f}
  OneShot = {h4}
  Repeated = {h3}
  DayLen = 4
  Open = 1
  Close = 4
  CandleMin = 2
  HistoryMax = 2
  QueueMax = 1
  MaxClock = 7
INVARIANTS
  CandleComplete
  HistoryOfTheSession
  CamOncePerDay
CHECK_DEADLOCK FALSE
