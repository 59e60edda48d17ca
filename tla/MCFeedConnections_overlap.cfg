SPECIFICATION Spec
CONSTANTS
  NumClients = 1
  Updates = {u1, u2}
  MaxTasks = 4
  MaxToken = 2
  Serialized = FALSE
INVARIANTS
  OneConnectionPerClient
CHECK_DEADLOCK FALSE
