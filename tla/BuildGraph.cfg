SPECIFICATION Spec
CONSTANTS
  None = None
  Documents <- Builds
  RepoName <- RepoNames
  DefaultRepo <- DefaultRepos
  Unknown = 0
  MaxSteps = 2
CHECK_DEADLOCK FALSE
INVARIANTS
  ReportsAgree
  OriginIsOwn
  MarksAreEarned
