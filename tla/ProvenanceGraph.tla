-------------------------- MODULE ProvenanceGraph --------------------------
(***************************************************************************)
(* One in-memory provenance graph and the callers that mutate it: adapters *)
(* that add nodes, edges and metadata, and re-runnable enrichers that      *)
(* remove what they wrote before (albs_graph/model/graph.py).  A call that *)
(* raises changes nothing, so only the calls that return are steps.        *)
(***************************************************************************)
EXTENDS GraphOps

CONSTANTS MetaKey, MetaValue, NoValue, \* a metadata dict is a function, NoValue = key absent
          MaxNodes, MaxEdges           \* bounds: objects ever created

ASSUME BoundsAssumption == MaxNodes \in Nat /\ MaxEdges \in Nat

VARIABLES graph,     \* the ProvenanceGraph object
          meta,      \* metadata of every Node object ever created, by ref
          nodeCount, \* Node objects created so far
          edgeCount  \* Edge objects created so far

vars == <<graph, meta, nodeCount, edgeCount>>

Metadata == [MetaKey -> MetaValue \cup {NoValue}]

NoMetadata == [k \in MetaKey |-> NoValue]

TypeOK ==
  /\ graph \in Graph
  /\ meta \in [1 .. MaxNodes -> Metadata]
  /\ nodeCount \in 0 .. MaxNodes
  /\ edgeCount \in 0 .. MaxEdges

Init ==
  /\ graph = EmptyGraph
  /\ meta = [r \in 1 .. MaxNodes |-> NoMetadata]
  /\ nodeCount = 0
  /\ edgeCount = 0

\* add_node with a freshly built Node object.
AddNode(n, type, m) ==
  /\ nodeCount < MaxNodes
  /\ ~ConflictsWith(graph, meta, n, type, m)
  /\ nodeCount' = nodeCount + 1
  /\ meta' = [meta EXCEPT ![nodeCount'] = m]
  /\ graph' = PutNode(graph, [ref |-> nodeCount', id |-> n, type |-> type])
  /\ UNCHANGED edgeCount

AddEdge(source, target, relation) ==
  /\ edgeCount < MaxEdges
  /\ CanAddEdge(graph, source, target)
  /\ edgeCount' = edgeCount + 1
  /\ graph' = PutEdge(graph, [no |-> edgeCount', source |-> source,
                              target |-> target, relation |-> relation])
  /\ UNCHANGED <<meta, nodeCount>>

\* Mutant of update_metadata: the value assigned to the metadata itself.
UpdateMetadata_Overwrite(n, k, v) ==
  /\ HasNode(graph, n)
  /\ meta' = [meta EXCEPT ![graph.nodes[n].ref] = v]
  /\ UNCHANGED <<graph, nodeCount, edgeCount>>

\* update_metadata: in place, on the object the node dict holds.
UpdateMetadata(n, k, v) ==
  /\ HasNode(graph, n)
  /\ meta' = [meta EXCEPT ![graph.nodes[n].ref][k] = v]
  /\ UNCHANGED <<graph, nodeCount, edgeCount>>

RemoveNode(n) ==
  /\ graph' = DropNode(graph, n)
  /\ UNCHANGED <<meta, nodeCount, edgeCount>>

\* remove_edges_where with the predicate its caller uses: a set of relations.
RemoveEdgesWhere(relations) ==
  /\ graph' = DropEdges(graph, {e \in graph.edges : e.relation \in relations})
  /\ UNCHANGED <<meta, nodeCount, edgeCount>>

Next ==
  \/ \E n \in NodeId, type \in NodeType, m \in Metadata : AddNode(n, type, m)
  \/ \E source, target \in NodeId, relation \in Relation : AddEdge(source, target, relation)
  \/ \E n \in NodeId, k \in MetaKey, v \in MetaValue : UpdateMetadata(n, k, v)
  \/ \E n \in NodeId : RemoveNode(n)
  \/ \E relations \in SUBSET Relation : RemoveEdgesWhere(relations)

Spec == Init /\ [][Next]_vars

----------------------------------------------------------------------------
(* Properties *)

\* The comment at model/graph.py:53-58: whatever sequence of insertions and
\* removals led here, outgoing() and incoming() answer what a scan of the edge
\* list would answer.
AdjacencyIsScan == AdjacencyMatches(graph)

\* add_edge refuses an unknown end and remove_node takes the incident edges
\* with it, so no edge ever points at a node that is gone.
NoDanglingEdge == NoDangling(graph)

\* find_by_type sees every live node exactly once and no removed one, also
\* after a node was added twice, or removed and added again.
TypeIndexHasEveryNode == TypeIndexComplete(graph)

\* What every reader relies on: the two above that are about the indexes.
IndexesAreScans == AdjacencyIsScan /\ TypeIndexHasEveryNode
=============================================================================
