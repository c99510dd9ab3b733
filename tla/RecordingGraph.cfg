SPECIFICATION SessionSpec
CONSTANTS
  a = a
  b = b
  rpm = rpm
  corroborates = corroborates
  key = key
  v1 = v1
  NodeId <- NodeIdSet
  NodeType <- NodeTypeSet
  Relation <- RelationSet
  MetaKey <- MetaKeySet
  MetaValue <- MetaValueSet
  NoNode = NoNode
  NoValue = NoValue
  MaxNodes = 4
  MaxEdges = 2
  MaxWrites = 2
SYMMETRY Symmetry
CHECK_DEADLOCK FALSE
INVARIANTS
  RecorderIsSound
  ReplayIsFaithful
PROPERTY
  DryRunIsolated
