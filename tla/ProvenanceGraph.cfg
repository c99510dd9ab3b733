SPECIFICATION Spec
CONSTANTS
  a = a
  b = b
  claim = claim
  resolution = resolution
  declares = declares
  corroborates = corroborates
  key = key
  v1 = v1
  v2 = v2
  NodeId <- NodeIdSet
  NodeType <- NodeTypeSet
  Relation <- RelationSet
  MetaKey <- MetaKeySet
  MetaValue <- MetaValueSet
  NoNode = NoNode
  NoValue = NoValue
  MaxNodes = 3
  MaxEdges = 3
SYMMETRY Symmetry
INVARIANTS
  TypeOK
  IndexesAreScans
  NoDanglingEdge
