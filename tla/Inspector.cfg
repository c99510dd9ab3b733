SPECIFICATION FairSpec
CONSTANTS
  None = None
  Error = Error
  Result <- Results
  GraphOf <- Graphs
  FilesOf <- Files
  Queryable <- QueryableCommits
  SwitchedLayers <- Switched
  PoolSize = 2
  MaxSteps = 3
  MaxFetches = 2
  MaxResults = 2
CHECK_DEADLOCK FALSE
INVARIANTS
  SelectionIsDrawn
  DetailsAreOfSelection
PROPERTIES
  SessionRestores
  RequestsAreAnswered
