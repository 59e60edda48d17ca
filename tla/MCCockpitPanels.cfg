SPECIFICATION Spec
CONSTANTS
  None = None
  Types <- TwoCategories
  PerSide = 1
  MinAdv = 20
  Symbols = {1, 2}
  Views = {"feed", "heat"}
  Prices = {99, 205}
  PrevClose <- TwoCloses
  Metrics <- FourMetrics
  Signals <- FourSignals
  MaxRetries = 2
  Pages = {"p", "q"}
  NoteSymbols = {"s"}
  SignalIds = {"i"}
  LegacyNames = {"s", "i"}
  MaxNotes = 2
  Fields = {"view", "minAdvCr", "theme"}
  Values <- Choices
  Default <- DefaultChoice
  Valid <- Offered
INVARIANTS
  LiveInEveryView
  TopMovers
  NotesKept
  SettingsKept
PROPERTIES
  PipelineEnds
CHECK_DEADLOCK FALSE
