SPECIFICATION Spec
CONSTANTS
  NoNode = NoNode
  None = None
  NodeId <- Ids
  NodeType <- Types
  Relation <- Relations
  Claim <- ClaimSet
  ClaimInfo <- ClaimTable
  ClaimOrder <- ClaimsSorted
  DistroOf <- Distros
  Group <- GroupSet
  MaxRuns = 2
CHECK_DEADLOCK FALSE
INVARIANT
  RerunIsReconciled
