SPECIFICATION Spec
CONSTANTS
  Paths = {"p"}
  Kinds <- AllKinds
  Captures <- SmallCaptures
  Dispositions = {"tcp", "bad"}
  Inventoried <- Single
  ReadLists <- Twice
  Filters <- SmallFilters
  Foreign <- ForeignRows
  MaxStamp = 2
  MaxRows = 2
  Binds <- SomeBinds
  MaxRunning = 1
INVARIANTS SummariesTrue
PROPERTIES ReportsCurrent PruneSound
