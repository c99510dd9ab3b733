SPECIFICATION Spec
CONSTANTS
  p1 = p1
  p2 = p2
  Process <- TwoProcesses
  Universes <- UniverseSet
  OldStores <- Releases
  NodeId <- Ids
  Needle <- Needles
  Label <- Labels
  Containing <- PartOf
  Exact <- Named
  Like <- LikeFinds
  Absent = Absent
  MaxOps = 3
SYMMETRY Symmetry
CHECK_DEADLOCK FALSE
INVARIANTS
  SchemaIsThere
  UniversesAreKept
  QueriesAgree
PROPERTY
  LoadIsSound
