------------------------------ MODULE GraphOps ------------------------------
(***************************************************************************)
(* The mutating operations of class ProvenanceGraph                        *)
(* (albs_graph/model/graph.py) as operators on a graph value.  A graph     *)
(* holds the node dict, the edge list and the three indexes the class      *)
(* keeps beside them; every module that owns a graph (ProvenanceGraph,     *)
(* RecordingGraph, AnalysisPipeline) changes it through these operators    *)
(* only.                                                                   *)
(*                                                                         *)
(* Python objects.  A Node is a frozen dataclass whose metadata dict is    *)
(* mutable, so its identity matters: a node object is a record [ref, id,   *)
(* type] whose metadata lives in a heap indexed by ref.  An Edge is never  *)
(* changed once built; it is a record whose "no" is the order in which it  *)
(* was created.  The code only appends to an edge list or filters it, so   *)
(* list order is creation order and a list is represented by the set of    *)
(* its members.                                                            *)
(***************************************************************************)
EXTENDS Naturals

CONSTANTS NodeId, NodeType, Relation, NoNode

NodeObject == [ref : Nat, id : NodeId, type : NodeType]
EdgeObject == [no : Nat, source : NodeId, target : NodeId, relation : Relation]

ASSUME NoNodeAssumption == NoNode \notin NodeObject

Graph == [ nodes       : [NodeId -> NodeObject \cup {NoNode}],
           nodesByType : [NodeType -> SUBSET NodeObject],
           edges       : SUBSET EdgeObject,
           outgoing    : [NodeId -> SUBSET EdgeObject],
           incoming    : [NodeId -> SUBSET EdgeObject] ]

EmptyGraph == [ nodes       |-> [n \in NodeId |-> NoNode],
                nodesByType |-> [t \in NodeType |-> {}],
                edges       |-> {},
                outgoing    |-> [n \in NodeId |-> {}],
                incoming    |-> [n \in NodeId |-> {}] ]

HasNode(g, n) == g.nodes[n] # NoNode

NodeIds(g) == {n \in NodeId : HasNode(g, n)}

(***************************************************************************)
(* add_node: the type index is extended only for a new id, the dict entry  *)
(* is overwritten in every case -- also when an equal but distinct Node    *)
(* object is added again.                                                  *)
(***************************************************************************)
PutNode(g, o) ==
  [g EXCEPT !.nodes[o.id] = o,
            !.nodesByType[o.type] = IF HasNode(g, o.id) THEN @ ELSE @ \cup {o}]

\* The equality test of add_node: dataclass equality compares id, type and the
\* current metadata of the two objects, given as (type, m) for the new one.
ConflictsWith(g, meta, n, type, m) ==
  HasNode(g, n) /\ ~(g.nodes[n].type = type /\ meta[g.nodes[n].ref] = m)

CanAddEdge(g, source, target) == HasNode(g, source) /\ HasNode(g, target)

PutEdge_NoIncoming(g, e) ==
  [g EXCEPT !.edges = @ \cup {e}, !.outgoing[e.source] = @ \cup {e}]

PutEdge(g, e) ==
  [g EXCEPT !.edges = @ \cup {e},
            !.outgoing[e.source] = @ \cup {e},
            !.incoming[e.target] = @ \cup {e}]

\* The two mutants of remove_node: the edge list left alone, and the incident
\* edges dropped from one direction of the adjacency only.
DropNode_KeepEdges(g, n) ==
  IF ~HasNode(g, n) THEN g
  ELSE [ nodes       |-> [g.nodes EXCEPT ![n] = NoNode],
         nodesByType |-> [g.nodesByType EXCEPT
                            ![g.nodes[n].type] = {o \in @ : o.id # n}],
         edges       |-> g.edges,
         outgoing    |-> [m \in NodeId |-> IF m = n THEN {} ELSE g.outgoing[m] \ g.incoming[n]],
         incoming    |-> [m \in NodeId |-> IF m = n THEN {} ELSE g.incoming[m] \ g.outgoing[n]] ]

DropNode_StaleType(g, n) ==
  IF ~HasNode(g, n) THEN g
  ELSE [ nodes       |-> [g.nodes EXCEPT ![n] = NoNode],
         nodesByType |-> g.nodesByType,
         edges       |-> {e \in g.edges : e.source # n /\ e.target # n},
         outgoing    |-> [m \in NodeId |-> IF m = n THEN {} ELSE g.outgoing[m] \ g.incoming[n]],
         incoming    |-> [m \in NodeId |-> IF m = n THEN {} ELSE g.incoming[m] \ g.outgoing[n]] ]

(***************************************************************************)
(* remove_node: a no-op for an unknown id.  The adjacency indexes are      *)
(* cleaned from the entries the indexes hold for n, the edge list from the *)
(* ends of its edges.                                                      *)
(***************************************************************************)
DropNode(g, n) ==
  IF ~HasNode(g, n) THEN g
  ELSE [ nodes       |-> [g.nodes EXCEPT ![n] = NoNode],
         nodesByType |-> [g.nodesByType EXCEPT
                            ![g.nodes[n].type] = {o \in @ : o.id # n}],
         edges       |-> {e \in g.edges : e.source # n /\ e.target # n},
         outgoing    |-> [m \in NodeId |-> IF m = n THEN {} ELSE g.outgoing[m] \ g.incoming[n]],
         incoming    |-> [m \in NodeId |-> IF m = n THEN {} ELSE g.incoming[m] \ g.outgoing[n]] ]

OutgoingScan(edges) == [n \in NodeId |-> {e \in edges : e.source = n}]
IncomingScan(edges) == [n \in NodeId |-> {e \in edges : e.target = n}]

\* remove_edges_where, the predicate given as the set of edges it selects: the
\* indexes are rebuilt from the kept list, and only if something was dropped.
DropEdges(g, selected) ==
  IF g.edges \cap selected = {} THEN g
  ELSE LET keep == g.edges \ selected
       IN  [g EXCEPT !.edges = keep,
                     !.outgoing = OutgoingScan(keep),
                     !.incoming = IncomingScan(keep)]

(***************************************************************************)
(* What the two adjacency indexes promise: the answer of outgoing(n) and   *)
(* incoming(n) is the answer of a scan of the edge list.                   *)
(***************************************************************************)
AdjacencyMatches(g) ==
  /\ g.outgoing = OutgoingScan(g.edges)
  /\ g.incoming = IncomingScan(g.edges)

NoDangling(g) == \A e \in g.edges : HasNode(g, e.source) /\ HasNode(g, e.target)

\* The type index holds one entry for each node of the type and no other.
TypeIndexComplete(g) ==
  \A t \in NodeType :
    /\ \A n \in NodeId :
         (HasNode(g, n) /\ g.nodes[n].type = t) <=> \E o \in g.nodesByType[t] : o.id = n
    /\ \A o1, o2 \in g.nodesByType[t] : o1.id = o2.id => o1 = o2
=============================================================================
