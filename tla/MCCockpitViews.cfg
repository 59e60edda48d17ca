SPECIFICATION Spec
CONSTANTS
  None = None
  Snapshots <- ThreeSnapshots
  PageSize = 2
  Queries <- TwoSymbols
  PresetKeys = {"nearpdh", "stage2"}
  Columns = {"display_price"}
  MaxListSent = 4
  MaxClicks = 1
  Symbols = {"a", "b"}
  Served <- FewBars
  MonthStart <- MonthEndsAtTen
  Offered = {"1d", "1w", "1mo"}
  Buckets = 3
  MaxAsked = 2
  Expiries <- NearAndFar
  Chain <- TwoChains
  AtmCount = 1
  MaxAsks = 5
  Regimes = {"UP", "CHOPPY"}
  RegimeKinds <- ThreeKinds
  Types <- TwoCategories
  PerSide = 1
  MinAdv = 20
  MetricKinds <- PricedKinds
  MetricsOf <- ThreeMetrics
  Filters <- ThreeFilters
  SortKeys = {"adv"}
  MaxLoads = 3
  MaxOps = 1
  ConfigKeys = {"a", "b"}
  Values = {1, 2}
  Default <- BothOne
  MaxSent = 2
  MaxServed = 1
INVARIANTS
  TypeOK
  EverythingMatchingShown
  ChartAgrees
  DrawnDataSound
  WrongChainOnlyWhenLate
  IlliquidNeverFavourable
  RegimeCurrent
  IlliquidListedOnlyUnanswered
  AccountsSettled
  SavedIsApplied
PROPERTIES
  SavesOnlyEdits
  ImplementsLatestAnswer
CHECK_DEADLOCK FALSE
