-------------------------- MODULE MCErrataEvidence --------------------------
EXTENDS ErrataEvidence, TLC

CONSTANTS r1, r2, a1, a2

RpmSet == {r1, r2}
AdvisorySet == {a1, a2}
Symmetry == Permutations(RpmSet) \cup Permutations(AdvisorySet)
=============================================================================
