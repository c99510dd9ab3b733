SPECIFICATION SourceSpec
CONSTANTS
  p1 = p1
  p2 = p2
  b1 = b1
  b2 = b2
  b3 = b3
  Process <- TwoProcesses
  Build <- BuildSet
  Existing <- ExistingBuilds
  Missing = Missing
  Nameless = Nameless
  Empty = Empty
  Garbage = Garbage
  MaxWrites = 2
  MaxFetches = 2
SYMMETRY Symmetry
CHECK_DEADLOCK FALSE
INVARIANTS
  RowsAreGenuine
  RecordedStays
  CacheIsTrue
