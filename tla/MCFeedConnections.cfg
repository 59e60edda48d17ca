SPECIFICATION Spec
CONSTANTS
  NumClients = 2
  Updates = {u1, u2}
  MaxTasks = 3
  MaxToken = 2
  Serialized = TRUE
INVARIANTS
  OneConnectionPerClient
  EventMeansUp
  StoppedMeansClosed
PROPERTIES
  NoStaleConnection
  NoSilentEnd
  EveryClientConnects
CHECK_DEADLOCK FALSE
