------------------------- MODULE MCProvenanceGraph -------------------------
EXTENDS ProvenanceGraph, TLC

CONSTANTS a, b, claim, resolution, declares, corroborates, key, v1, v2

NodeIdSet == {a, b}
NodeTypeSet == {claim, resolution}
RelationSet == {declares, corroborates}
MetaKeySet == {key}
MetaValueSet == {v1, v2}
Symmetry == Permutations(NodeIdSet) \cup Permutations(MetaValueSet)
=============================================================================
