SPECIFICATION Spec
CONSTANTS
  NumClients = 1
  Updates = {u1, u2}
  MaxTasks = 3
  MaxToken = 2
  Serialized = FALSE
PROPERTIES
  EveryPostReturns
CHECK_DEADLOCK FALSE
