SPECIFICATION ErrataSpec
CONSTANTS
  r1 = r1
  r2 = r2
  a1 = a1
  a2 = a2
  Rpm <- RpmSet
  Advisory <- AdvisorySet
  Unset = Unset
  MaxSteps = 3
  MaxFixes = 2
SYMMETRY Symmetry
CHECK_DEADLOCK FALSE
INVARIANTS
  CellTellsHistory
  LinkedOnce
