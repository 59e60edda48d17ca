SPECIFICATION Spec
CONSTANTS
  Callers = {c1, c2, c3}
  Interval = 2
PROPERTIES
  ImplementsRateLimit
  EveryHandlerReturns
