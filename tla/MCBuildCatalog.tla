--------------------------- MODULE MCBuildCatalog ---------------------------
EXTENDS BuildSources, TLC

CONSTANTS p1, p2, b1, b2, b3

TwoProcesses == {p1, p2}
BuildSet == {b1, b2, b3}
ExistingBuilds == {b1, b2}
Symmetry == Permutations(TwoProcesses) \cup Permutations(ExistingBuilds)
=============================================================================
