-------------------------- MODULE MCRecordingGraph --------------------------
EXTENDS RecordingGraph, TLC

CONSTANTS a, b, rpm, corroborates, key, v1

NodeIdSet == {a, b}
NodeTypeSet == {rpm}
RelationSet == {corroborates}
MetaKeySet == {key}
MetaValueSet == {v1}
Symmetry == Permutations(NodeIdSet)
=============================================================================
