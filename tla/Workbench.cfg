SPECIFICATION FairSpec
CONSTANTS
  b1 = b1
  b2 = b2
  s1 = s1
  s2 = s2
  s0 = s0
  f1 = f1
  f2 = f2
  f0 = f0
  None = None
  Unknown = Unknown
  Text = Text
  Build <- BuildSet
  Source <- AllSources
  Sbom <- AllSboms
  BuildOfName <- NameTells
  Place <- Places
  SourceFiles <- OnDisk
  FirstSboms <- SbomsAtFirst
  HasCas = TRUE
  SessionOf <- SavedSessions
  PoolSize = 2
  MaxJobs = 2
  MaxChanges = 1
CHECK_DEADLOCK FALSE
INVARIANTS
  OneShotsAreSpent
  LastFinishedIsShown
PROPERTIES
  AnalysesEnd
  ClosedWindowIsLeftAlone
  SbomFollowsBuild
