------------------------ MODULE RecordingGraph_proofs ------------------------
(***************************************************************************)
(* What holds of the graph for every set of node ids, every relation       *)
(* vocabulary and every number of calls; and of a recorded session for     *)
(* every graph it starts from and for any number of writes, removals and   *)
(* replayed entries.                                                       *)
(***************************************************************************)
EXTENDS RecordingGraph, FiniteSetTheorems, TLAPS

\* The two facts the indexes rest on: the node dict is keyed by the id of its
\* objects, and the type index files an object under its own type.
Keyed(g) ==
  /\ \A n \in NodeId : HasNode(g, n) => g.nodes[n].id = n
  /\ \A t \in NodeType : \A o \in g.nodesByType[t] : o.type = t

GraphInv(g) ==
  /\ g \in Graph
  /\ AdjacencyMatches(g)
  /\ NoDangling(g)
  /\ Keyed(g)
  /\ TypeIndexComplete(g)

IInv == TypeOK /\ GraphInv(graph)

USE NoNodeAssumption, BoundsAssumption
-----------------------------------------------------------------------------
\* The empty graph of __init__ satisfies the invariant.
LEMMA EmptyGraphInv == GraphInv(EmptyGraph)
  BY DEF GraphInv, Graph, EmptyGraph, AdjacencyMatches, OutgoingScan, IncomingScan,
         NoDangling, Keyed, TypeIndexComplete, HasNode

\* add_edge between two present nodes keeps the indexes and adds no dangling end.
LEMMA PutEdgeInv ==
  ASSUME NEW g, GraphInv(g), NEW e \in EdgeObject, CanAddEdge(g, e.source, e.target)
  PROVE  GraphInv(PutEdge(g, e))
<1> DEFINE h == PutEdge(g, e)
<1>0. e.source \in NodeId /\ e.target \in NodeId
  BY DEF EdgeObject
<1>1. h \in Graph
  BY <1>0 DEF PutEdge, GraphInv, Graph
<1>2. /\ h.nodes = g.nodes
      /\ h.nodesByType = g.nodesByType
      /\ h.edges = g.edges \cup {e}
  BY DEF PutEdge, GraphInv, Graph
<1>3. AdjacencyMatches(h)
  <2>1. /\ h.outgoing = [g.outgoing EXCEPT ![e.source] = @ \cup {e}]
        /\ h.incoming = [g.incoming EXCEPT ![e.target] = @ \cup {e}]
    BY DEF PutEdge, GraphInv, Graph
  <2>2. \A n \in NodeId : /\ h.outgoing[n] = {f \in h.edges : f.source = n}
                          /\ h.incoming[n] = {f \in h.edges : f.target = n}
    <3> SUFFICES ASSUME NEW n \in NodeId
                 PROVE  /\ h.outgoing[n] = {f \in h.edges : f.source = n}
                        /\ h.incoming[n] = {f \in h.edges : f.target = n}
      OBVIOUS
    <3>1. /\ g.outgoing[n] = {f \in g.edges : f.source = n}
          /\ g.incoming[n] = {f \in g.edges : f.target = n}
      BY DEF GraphInv, AdjacencyMatches, OutgoingScan, IncomingScan
    <3>2. h.outgoing[n] = IF n = e.source THEN g.outgoing[n] \cup {e} ELSE g.outgoing[n]
      BY <1>0, <2>1 DEF GraphInv, Graph
    <3>3. h.incoming[n] = IF n = e.target THEN g.incoming[n] \cup {e} ELSE g.incoming[n]
      BY <1>0, <2>1 DEF GraphInv, Graph
    <3> HIDE DEF h
    <3>4. h.outgoing[n] = {f \in h.edges : f.source = n}
      BY <1>2, <3>1, <3>2
    <3>5. h.incoming[n] = {f \in h.edges : f.target = n}
      BY <1>2, <3>1, <3>3
    <3> QED BY <3>4, <3>5
  <2> QED
    BY <1>1, <2>2 DEF Graph, AdjacencyMatches, OutgoingScan, IncomingScan
<1>4. NoDangling(h)
  BY <1>2 DEF GraphInv, NoDangling, HasNode, CanAddEdge
<1>5. Keyed(h) /\ TypeIndexComplete(h)
  BY <1>2 DEF GraphInv, Keyed, TypeIndexComplete, HasNode
<1> QED
  BY <1>1, <1>3, <1>4, <1>5 DEF GraphInv

\* add_node of an object that does not conflict with the one already there.
LEMMA PutNodeInv ==
  ASSUME NEW g, GraphInv(g), NEW o \in NodeObject,
         HasNode(g, o.id) => g.nodes[o.id].type = o.type
  PROVE  GraphInv(PutNode(g, o))
<1> DEFINE h == PutNode(g, o)
<1>0. o.id \in NodeId /\ o.type \in NodeType
  BY DEF NodeObject
<1>1. h \in Graph
  BY <1>0 DEF PutNode, GraphInv, Graph
<1>2. /\ h.edges = g.edges
      /\ h.outgoing = g.outgoing
      /\ h.incoming = g.incoming
      /\ h.nodes = [g.nodes EXCEPT ![o.id] = o]
      /\ h.nodesByType = [g.nodesByType EXCEPT ![o.type] =
                            IF HasNode(g, o.id) THEN @ ELSE @ \cup {o}]
  BY DEF PutNode, GraphInv, Graph
<1>3. \A n \in NodeId : HasNode(h, n) <=> HasNode(g, n) \/ n = o.id
  BY <1>0, <1>2 DEF GraphInv, Graph, HasNode
<1>4. AdjacencyMatches(h) /\ NoDangling(h)
  <2>1. AdjacencyMatches(h)
    BY <1>2 DEF GraphInv, AdjacencyMatches
  <2>2. NoDangling(h)
    BY <1>2, <1>3 DEF GraphInv, Graph, NoDangling, EdgeObject
  <2> QED BY <2>1, <2>2
<1>5. Keyed(h)
  BY <1>0, <1>2, <1>3 DEF GraphInv, Graph, Keyed
<1>6. TypeIndexComplete(h)
  <2> SUFFICES ASSUME NEW t \in NodeType
               PROVE  /\ \A n \in NodeId :
                           (HasNode(h, n) /\ h.nodes[n].type = t)
                             <=> \E p \in h.nodesByType[t] : p.id = n
                      /\ \A p1, p2 \in h.nodesByType[t] : p1.id = p2.id => p1 = p2
    BY DEF TypeIndexComplete
  <2>1. /\ \A n \in NodeId : (HasNode(g, n) /\ g.nodes[n].type = t)
                               <=> \E p \in g.nodesByType[t] : p.id = n
        /\ \A p1, p2 \in g.nodesByType[t] : p1.id = p2.id => p1 = p2
    BY DEF GraphInv, TypeIndexComplete
  <2>2. CASE HasNode(g, o.id)
    BY <1>0, <1>2, <1>3, <2>1, <2>2 DEF GraphInv, Graph
  <2>3. CASE ~HasNode(g, o.id)
    <3>1. h.nodesByType[t] = IF t = o.type THEN g.nodesByType[t] \cup {o} ELSE g.nodesByType[t]
      BY <1>0, <1>2, <2>3 DEF GraphInv, Graph
    <3>2. ~ \E p \in g.nodesByType[t] : p.id = o.id
      BY <1>0, <2>1, <2>3
    <3> QED BY <1>0, <1>2, <1>3, <2>1, <2>3, <3>1, <3>2 DEF GraphInv, Graph
  <2> QED BY <2>2, <2>3
<1> QED
  BY <1>1, <1>4, <1>5, <1>6 DEF GraphInv

\* remove_node: incident edges leave the list and both indexes together.
LEMMA DropNodeInv ==
  ASSUME NEW g, GraphInv(g), NEW n \in NodeId
  PROVE  GraphInv(DropNode(g, n))
<1> DEFINE h == DropNode(g, n)
<1>1. CASE ~HasNode(g, n)
  BY <1>1 DEF DropNode
<1>2. CASE HasNode(g, n)
  <2>0. g.nodes[n] \in NodeObject /\ g.nodes[n].type \in NodeType
    BY <1>2 DEF GraphInv, Graph, HasNode, NodeObject
  <2>1. /\ h.nodes = [g.nodes EXCEPT ![n] = NoNode]
        /\ h.nodesByType = [g.nodesByType EXCEPT ![g.nodes[n].type] = {o \in @ : o.id # n}]
        /\ h.edges = {e \in g.edges : e.source # n /\ e.target # n}
        /\ h.outgoing = [m \in NodeId |-> IF m = n THEN {} ELSE g.outgoing[m] \ g.incoming[n]]
        /\ h.incoming = [m \in NodeId |-> IF m = n THEN {} ELSE g.incoming[m] \ g.outgoing[n]]
    BY <1>2 DEF DropNode
  <2>2. h \in Graph
    <3>1. h.nodes \in [NodeId -> NodeObject \cup {NoNode}]
      BY <2>1 DEF GraphInv, Graph
    <3>2. h.nodesByType \in [NodeType -> SUBSET NodeObject]
      BY <2>0, <2>1 DEF GraphInv, Graph
    <3>3. h.edges \in SUBSET EdgeObject
      BY <2>1 DEF GraphInv, Graph
    <3>4. /\ h.outgoing \in [NodeId -> SUBSET EdgeObject]
          /\ h.incoming \in [NodeId -> SUBSET EdgeObject]
      BY <2>1 DEF GraphInv, Graph
    <3> QED BY <1>2, <3>1, <3>2, <3>3, <3>4 DEF Graph, DropNode
  <2>3. \A m \in NodeId : HasNode(h, m) <=> HasNode(g, m) /\ m # n
    BY <2>1, <1>2 DEF GraphInv, Graph, HasNode
  <2>4. AdjacencyMatches(h)
    <3>1. \A m \in NodeId : /\ g.outgoing[m] = {e \in g.edges : e.source = m}
                            /\ g.incoming[m] = {e \in g.edges : e.target = m}
      BY DEF GraphInv, AdjacencyMatches, OutgoingScan, IncomingScan
    <3>2. \A m \in NodeId : /\ h.outgoing[m] = {e \in h.edges : e.source = m}
                            /\ h.incoming[m] = {e \in h.edges : e.target = m}
      <4> SUFFICES ASSUME NEW m \in NodeId
                   PROVE  /\ h.outgoing[m] = {e \in h.edges : e.source = m}
                          /\ h.incoming[m] = {e \in h.edges : e.target = m}
        OBVIOUS
      <4>1. /\ h.outgoing[m] = IF m = n THEN {} ELSE g.outgoing[m] \ g.incoming[n]
            /\ h.incoming[m] = IF m = n THEN {} ELSE g.incoming[m] \ g.outgoing[n]
        BY <2>1
      <4>2. /\ g.outgoing[m] = {e \in g.edges : e.source = m}
            /\ g.incoming[m] = {e \in g.edges : e.target = m}
            /\ g.outgoing[n] = {e \in g.edges : e.source = n}
            /\ g.incoming[n] = {e \in g.edges : e.target = n}
        BY <3>1
      <4>3. h.edges = {e \in g.edges : e.source # n /\ e.target # n}
        BY <2>1
      <4> HIDE DEF h
      <4>4. h.outgoing[m] = {e \in h.edges : e.source = m}
        BY <4>1, <4>2, <4>3
      <4>5. h.incoming[m] = {e \in h.edges : e.target = m}
        BY <4>1, <4>2, <4>3
      <4> QED BY <4>4, <4>5
    <3> QED BY <2>2, <3>2 DEF Graph, AdjacencyMatches, OutgoingScan, IncomingScan
  <2>5. NoDangling(h)
    BY <2>1, <2>3 DEF GraphInv, Graph, NoDangling, EdgeObject
  <2>6. Keyed(h)
    BY <2>0, <2>1, <2>3 DEF GraphInv, Graph, Keyed
  <2>7. TypeIndexComplete(h)
    <3> SUFFICES ASSUME NEW t \in NodeType
                 PROVE  /\ \A m \in NodeId :
                             (HasNode(h, m) /\ h.nodes[m].type = t)
                               <=> \E p \in h.nodesByType[t] : p.id = m
                        /\ \A p1, p2 \in h.nodesByType[t] : p1.id = p2.id => p1 = p2
      BY DEF TypeIndexComplete
    <3>1. /\ \A m \in NodeId : (HasNode(g, m) /\ g.nodes[m].type = t)
                                 <=> \E p \in g.nodesByType[t] : p.id = m
          /\ \A p1, p2 \in g.nodesByType[t] : p1.id = p2.id => p1 = p2
      BY DEF GraphInv, TypeIndexComplete
    <3>2. h.nodesByType[t] = {p \in g.nodesByType[t] : p.id # n}
      <4>1. CASE t = g.nodes[n].type
        BY <2>0, <2>1, <4>1 DEF GraphInv, Graph
      <4>2. CASE t # g.nodes[n].type
        BY <2>0, <2>1, <3>1, <4>2, <1>2 DEF GraphInv, Graph
      <4> QED BY <4>1, <4>2
    <3>3. \A m \in NodeId : m # n => h.nodes[m] = g.nodes[m]
      BY <2>1 DEF GraphInv, Graph
    <3> QED BY <2>3, <3>1, <3>2, <3>3
  <2> QED
    BY <2>2, <2>4, <2>5, <2>6, <2>7 DEF GraphInv
<1> QED
  BY <1>1, <1>2

\* remove_edges_where, whichever edges the predicate selects.
LEMMA DropEdgesInv ==
  ASSUME NEW g, GraphInv(g), NEW selected
  PROVE  GraphInv(DropEdges(g, selected))
<1> DEFINE keep == g.edges \ selected
           h == DropEdges(g, selected)
<1>1. CASE g.edges \cap selected = {}
  BY <1>1 DEF DropEdges
<1>2. CASE g.edges \cap selected # {}
  <2>1. h = [g EXCEPT !.edges = keep, !.outgoing = OutgoingScan(keep),
                      !.incoming = IncomingScan(keep)]
    BY <1>2 DEF DropEdges
  <2>2. /\ h.edges = keep
        /\ h.nodes = g.nodes
        /\ h.nodesByType = g.nodesByType
        /\ h.outgoing = OutgoingScan(keep)
        /\ h.incoming = IncomingScan(keep)
    BY <2>1 DEF GraphInv, Graph
  <2>3. h \in Graph
    <3>1. keep \in SUBSET EdgeObject
      BY DEF GraphInv, Graph
    <3>2. /\ OutgoingScan(keep) \in [NodeId -> SUBSET EdgeObject]
          /\ IncomingScan(keep) \in [NodeId -> SUBSET EdgeObject]
      BY <3>1 DEF OutgoingScan, IncomingScan
    <3> QED BY <2>1, <3>1, <3>2 DEF GraphInv, Graph
  <2>4. AdjacencyMatches(h)
    BY <2>2 DEF AdjacencyMatches
  <2>5. NoDangling(h) /\ Keyed(h) /\ TypeIndexComplete(h)
    BY <2>2 DEF GraphInv, NoDangling, Keyed, TypeIndexComplete, HasNode
  <2> QED
    BY <2>3, <2>4, <2>5 DEF GraphInv
<1> QED
  BY <1>1, <1>2
-----------------------------------------------------------------------------
\* Every call of the class preserves the invariant.
LEMMA StepInv == IInv /\ [Next]_vars => IInv'
<1> SUFFICES ASSUME IInv, [Next]_vars
             PROVE  IInv'
  OBVIOUS
<1>0. TypeOK /\ GraphInv(graph)
  BY DEF IInv
<1>1. CASE UNCHANGED vars
  BY <1>0, <1>1 DEF IInv, TypeOK, vars, GraphInv, Graph, AdjacencyMatches, NoDangling, Keyed,
     TypeIndexComplete, HasNode
<1>2. ASSUME NEW n \in NodeId, NEW type \in NodeType, NEW m \in Metadata, AddNode(n, type, m)
      PROVE  IInv'
  <2> DEFINE o == [ref |-> nodeCount', id |-> n, type |-> type]
  <2>1. nodeCount' \in 1 .. MaxNodes
    BY <1>0, <1>2 DEF TypeOK, AddNode
  <2>2. o \in NodeObject /\ o.id = n /\ o.type = type
    BY <2>1 DEF NodeObject
  <2>3. HasNode(graph, o.id) => graph.nodes[o.id].type = o.type
    BY <1>2, <2>2 DEF AddNode, ConflictsWith
  <2>4. GraphInv(graph')
    BY <1>0, <1>2, <2>2, <2>3, PutNodeInv DEF AddNode
  <2>5. TypeOK'
    BY <1>0, <1>2, <2>1, <2>4 DEF TypeOK, AddNode, GraphInv
  <2> QED BY <2>4, <2>5 DEF IInv
<1>3. ASSUME NEW from \in NodeId, NEW to \in NodeId, NEW relation \in Relation,
             AddEdge(from, to, relation)
      PROVE  IInv'
  <2> DEFINE e == [no |-> edgeCount', source |-> from, target |-> to, relation |-> relation]
  <2>1. edgeCount' \in 0 .. MaxEdges
    BY <1>0, <1>3 DEF TypeOK, AddEdge
  <2>2. e \in EdgeObject /\ e.source = from /\ e.target = to
    BY <2>1 DEF EdgeObject
  <2>3. GraphInv(graph')
    BY <1>0, <1>3, <2>2, PutEdgeInv DEF AddEdge
  <2>4. TypeOK'
    BY <1>0, <1>3, <2>1, <2>3 DEF TypeOK, AddEdge, GraphInv
  <2> QED BY <2>3, <2>4 DEF IInv
<1>4. ASSUME NEW n \in NodeId, NEW k \in MetaKey, NEW v \in MetaValue, UpdateMetadata(n, k, v)
      PROVE  IInv'
  <2>1. graph' = graph
    BY <1>4 DEF UpdateMetadata
  <2>2. meta' \in [1 .. MaxNodes -> Metadata]
    BY <1>0, <1>4 DEF TypeOK, UpdateMetadata, Metadata
  <2>3. TypeOK'
    BY <1>0, <1>4, <2>1, <2>2 DEF TypeOK, UpdateMetadata
  <2> QED BY <1>0, <2>1, <2>3 DEF IInv
<1>5. ASSUME NEW n \in NodeId, RemoveNode(n)
      PROVE  IInv'
  <2>1. GraphInv(graph')
    BY <1>0, <1>5, DropNodeInv DEF RemoveNode
  <2> QED BY <1>0, <1>5, <2>1 DEF IInv, TypeOK, RemoveNode, GraphInv
<1>6. ASSUME NEW relations \in SUBSET Relation, RemoveEdgesWhere(relations)
      PROVE  IInv'
  <2>1. GraphInv(graph')
    BY <1>0, <1>6, DropEdgesInv DEF RemoveEdgesWhere
  <2> QED BY <1>0, <1>6, <2>1 DEF IInv, TypeOK, RemoveEdgesWhere, GraphInv
<1> QED
  BY <1>1, <1>2, <1>3, <1>4, <1>5, <1>6 DEF Next

\* A new graph satisfies the invariant.
LEMMA InitInv == Init => IInv
  BY EmptyGraphInv DEF Init, IInv, TypeOK, GraphInv, Metadata, NoMetadata

\* The inductive invariant holds in every reachable state.
THEOREM Invariance == Spec => []IInv
  BY InitInv, StepInv, PTL DEF Spec

\* Every reachable state is well typed.
THEOREM TypeCorrect == Spec => []TypeOK
<1>1. IInv => TypeOK
  BY DEF IInv
<1> QED BY <1>1, Invariance, PTL

\* The indexes answer what a scan of the edge list answers.
THEOREM AdjacencyCorrect == Spec => []AdjacencyIsScan
<1>1. IInv => AdjacencyIsScan
  BY DEF IInv, GraphInv, AdjacencyIsScan
<1> QED BY <1>1, Invariance, PTL

\* No edge outlives one of its ends.
THEOREM NoDanglingCorrect == Spec => []NoDanglingEdge
<1>1. IInv => NoDanglingEdge
  BY DEF IInv, GraphInv, NoDanglingEdge
<1> QED BY <1>1, Invariance, PTL

\* find_by_type sees each live node once and no removed one.
THEOREM TypeIndexCorrect == Spec => []TypeIndexHasEveryNode
<1>1. IInv => TypeIndexHasEveryNode
  BY DEF IInv, GraphInv, TypeIndexHasEveryNode
<1> QED BY <1>1, Invariance, PTL

\* The three indexes answer what a scan of the graph's contents answers.
THEOREM IndexesCorrect == Spec => []IndexesAreScans
  BY AdjacencyCorrect, TypeIndexCorrect, PTL DEF IndexesAreScans
----------------------------------------------------------------------------
(* Recorded sessions *)

\* The Node objects of a graph exist, so a write to one of them is a write to its metadata.
RefsExist(g) == \A n \in NodeId : HasNode(g, n) => g.nodes[n].ref \in 1 .. nodeCount

\* Two graphs hold no Node object in common.
Apart(g, h) ==
  \A m, n \in NodeId : HasNode(g, m) /\ HasNode(h, n) => g.nodes[m].ref # h.nodes[n].ref

\* The recorder reads a sound graph.  The wrapped graph keeps stale edges after a removal
\* (rebound); it is sound while it is loaded, and in a dry run, which does not touch it.
SessionInv ==
  /\ SessionTypeOK
  /\ GraphInv(recorder) /\ RefsExist(recorder)
  /\ RefsExist(graph)
  /\ phase = "loading" => GraphInv(graph) /\ IsFiniteSet(NodeIds(graph)) /\ ~dryRun
  /\ phase = "replaying" => dryRun /\ edgeCount + (Len(patch.edges) - done.edges) <= MaxEdges
  /\ dryRun => GraphInv(graph)
  /\ dryRun /\ phase \in {"recording", "recorded"} => Apart(graph, recorder)
  /\ \A i \in 1 .. Len(patch.nodes) : patch.nodes[i].ref \in 1 .. nodeCount

\* What a patch may be, and how it changes while the session is recorded.
Patches == [nodes : Seq(NodeObject), edges : Seq(NodeId \X NodeId \X Relation),
            updates : Seq(NodeId \X MetaKey \X MetaValue)]

PatchGrows(p, q) == q \in Patches /\ \A list \in PatchLists : Len(p[list]) \in Nat /\ Len(p[list]) <= Len(q[list])

USE WritesAssumption
-----------------------------------------------------------------------------
\* A copy has the indexes of its contents, whatever Node objects it is made of.
LEMMA CopyInv ==
  ASSUME NEW g, GraphInv(g), NEW refs \in [NodeIds(g) -> Nat]
  PROVE  /\ GraphInv(CopyWith(g, refs))
         /\ \A n \in NodeId : HasNode(CopyWith(g, refs), n) <=> HasNode(g, n)
         /\ \A n \in NodeIds(g) : CopyWith(g, refs).nodes[n] = [g.nodes[n] EXCEPT !.ref = refs[n]]
<1> DEFINE h == CopyWith(g, refs)
           clone(n) == [g.nodes[n] EXCEPT !.ref = refs[n]]
<1>1. ASSUME NEW n \in NodeIds(g)
      PROVE  /\ n \in NodeId /\ HasNode(g, n) /\ g.nodes[n] \in NodeObject /\ clone(n) \in NodeObject
             /\ clone(n).id = n /\ clone(n).type = g.nodes[n].type /\ clone(n) # NoNode
  <2>1. n \in NodeId /\ HasNode(g, n) /\ g.nodes[n] \in NodeObject /\ g.nodes[n].id = n
    BY DEF NodeIds, HasNode, GraphInv, Graph, Keyed
  <2>2. clone(n) \in NodeObject /\ clone(n).id = n /\ clone(n).type = g.nodes[n].type
    BY <2>1 DEF NodeObject
  <2> QED BY <2>1, <2>2
<1>2. /\ h.nodes = [n \in NodeId |-> IF HasNode(g, n) THEN clone(n) ELSE NoNode]
      /\ h.nodesByType = [t \in NodeType |-> {clone(n) : n \in {m \in NodeIds(g) : g.nodes[m].type = t}}]
      /\ h.edges = g.edges /\ h.outgoing = OutgoingScan(g.edges) /\ h.incoming = IncomingScan(g.edges)
      /\ h = [nodes |-> h.nodes, nodesByType |-> h.nodesByType, edges |-> h.edges,
              outgoing |-> h.outgoing, incoming |-> h.incoming]
  BY DEF CopyWith
<1>3. \A n \in NodeId : HasNode(g, n) <=> n \in NodeIds(g)
  BY DEF NodeIds
<1> HIDE DEF h, clone
<1>4. \A n \in NodeId : /\ HasNode(g, n) => h.nodes[n] = clone(n)
                        /\ HasNode(h, n) <=> HasNode(g, n)
  <2>1. \A n \in NodeId : h.nodes[n] = IF HasNode(g, n) THEN clone(n) ELSE NoNode
    BY <1>2
  <2>2. \A n \in NodeId : HasNode(g, n) => clone(n) # NoNode
    BY <1>1, <1>3
  <2>3. \A n \in NodeId : HasNode(h, n) <=> HasNode(g, n)
    BY <2>1, <2>2 DEF HasNode
  <2> QED BY <2>1, <2>3
<1>5. ASSUME NEW t \in NodeType
      PROVE  /\ h.nodesByType[t] \in SUBSET NodeObject
             /\ \A o : o \in h.nodesByType[t] <=>
                         \E n \in NodeIds(g) : g.nodes[n].type = t /\ o = clone(n)
  <2>1. h.nodesByType[t] = {clone(n) : n \in {m \in NodeIds(g) : g.nodes[m].type = t}}
    BY <1>2
  <2> QED BY <1>1, <2>1
<1>6. h \in Graph
  <2>1. h.nodes \in [NodeId -> NodeObject \cup {NoNode}]
    BY <1>1, <1>2, <1>3
  <2>2. h.nodesByType \in [NodeType -> SUBSET NodeObject]
    BY <1>2, <1>5
  <2>3. /\ h.edges \in SUBSET EdgeObject
        /\ h.outgoing \in [NodeId -> SUBSET EdgeObject]
        /\ h.incoming \in [NodeId -> SUBSET EdgeObject]
    BY <1>2 DEF GraphInv, Graph, OutgoingScan, IncomingScan
  <2> QED BY <1>2, <2>1, <2>2, <2>3 DEF Graph
<1>7. AdjacencyMatches(h) /\ NoDangling(h)
  <2>1. AdjacencyMatches(h)
    BY <1>2 DEF AdjacencyMatches
  <2>2. \A e \in g.edges : e.source \in NodeId /\ e.target \in NodeId
    BY DEF GraphInv, Graph, EdgeObject
  <2> QED BY <1>2, <1>4, <2>1, <2>2 DEF GraphInv, NoDangling
<1>8. Keyed(h)
  BY <1>1, <1>3, <1>4, <1>5 DEF Keyed
<1>9. TypeIndexComplete(h)
  <2> SUFFICES ASSUME NEW t \in NodeType
               PROVE  /\ \A n \in NodeId : (HasNode(h, n) /\ h.nodes[n].type = t)
                                             <=> \E o \in h.nodesByType[t] : o.id = n
                      /\ \A o1, o2 \in h.nodesByType[t] : o1.id = o2.id => o1 = o2
    BY DEF TypeIndexComplete
  <2>1. \A o \in h.nodesByType[t] : o.id \in NodeIds(g) /\ o = clone(o.id) /\ g.nodes[o.id].type = t
    BY <1>1, <1>5
  <2>2. \A n \in NodeIds(g) : g.nodes[n].type = t => clone(n) \in h.nodesByType[t]
    BY <1>5
  <2> QED BY <1>1, <1>3, <1>4, <2>1, <2>2
<1> QED BY <1>1, <1>3, <1>4, <1>6, <1>7, <1>8, <1>9 DEF GraphInv, h, clone

\* What the wrapped graph holds after a write through the recorder: the nodes of the
\* recorder, and edges and indexes of one of the two.
LEMMA ThroughType ==
  ASSUME NEW old \in Graph, NEW r \in Graph, NEW parted
  PROVE  Through(old, r, parted) \in Graph /\ Through(old, r, parted).nodes = r.nodes
  BY DEF Through, Graph

\* How the nodes of a graph change with an operation.
LEMMA PutNodeNodes ==
  ASSUME NEW g \in Graph, NEW o \in NodeObject
  PROVE  /\ PutNode(g, o).nodes = [g.nodes EXCEPT ![o.id] = o]
         /\ PutNode(g, o).edges = g.edges
         /\ NodeIds(PutNode(g, o)) = NodeIds(g) \cup {o.id}
<1>1. PutNode(g, o).nodes = [g.nodes EXCEPT ![o.id] = o] /\ PutNode(g, o).edges = g.edges
  BY DEF PutNode, Graph
<1>2. o.id \in NodeId /\ o # NoNode
  BY DEF NodeObject
<1> QED BY <1>1, <1>2 DEF NodeIds, HasNode, Graph

\* add_edge leaves the nodes alone and appends one edge.
LEMMA PutEdgeNodes ==
  ASSUME NEW g \in Graph, NEW e
  PROVE  PutEdge(g, e).nodes = g.nodes /\ PutEdge(g, e).edges = g.edges \cup {e}
  BY DEF PutEdge, Graph

\* remove_node leaves the other nodes as they are.
LEMMA DropNodes ==
  ASSUME NEW g \in Graph, NEW n \in NodeId
  PROVE  \A m \in NodeId : HasNode(DropNode(g, n), m) => HasNode(g, m) /\ DropNode(g, n).nodes[m] = g.nodes[m]
  BY DEF DropNode, HasNode, Graph

\* What the invariant says of the sizes and of the nodes of each graph, in the terms the
\* steps need.
LEMMA SessionFacts ==
  ASSUME SessionInv
  PROVE  /\ SessionTypeOK /\ TypeOK /\ GraphInv(recorder) /\ recorder \in Graph /\ graph \in Graph /\ scratch \in Graph
         /\ nodeCount \in Nat /\ nodeCount <= MaxNodes /\ edgeCount \in Nat /\ edgeCount <= MaxEdges
  BY DEF SessionInv, SessionTypeOK, TypeOK, GraphInv

\* A graph with a new Node object, or with one from the patch.
LEMMA NodeArrives ==
  ASSUME SessionInv, NEW g \in Graph, NEW o \in NodeObject, nodeCount' \in Nat, nodeCount' >= nodeCount,
         o.ref \in 1 .. nodeCount', RefsExist(g)
  PROVE  /\ \A n \in NodeId : HasNode(PutNode(g, o), n) => PutNode(g, o).nodes[n].ref \in 1 .. nodeCount'
         /\ IsFiniteSet(NodeIds(g)) => IsFiniteSet(NodeIds(PutNode(g, o)))
<1>1. /\ PutNode(g, o).nodes = [g.nodes EXCEPT ![o.id] = o]
      /\ NodeIds(PutNode(g, o)) = NodeIds(g) \cup {o.id}
  BY PutNodeNodes
<1>2. nodeCount \in Nat
  BY SessionFacts
<1>3. ASSUME NEW n \in NodeId, HasNode(PutNode(g, o), n)
      PROVE  PutNode(g, o).nodes[n].ref \in 1 .. nodeCount'
  <2>1. CASE n = o.id
    BY <1>1, <2>1 DEF Graph
  <2>2. CASE n # o.id
    <3>1. PutNode(g, o).nodes[n] = g.nodes[n]
      BY <1>1, <2>2 DEF Graph
    <3>2. g.nodes[n].ref \in 1 .. nodeCount
      BY <1>3, <3>1 DEF RefsExist, HasNode
    <3> QED BY <1>2, <3>1, <3>2
  <2> QED BY <2>1, <2>2
<1>4. IsFiniteSet(NodeIds(g)) => IsFiniteSet(NodeIds(PutNode(g, o)))
  BY <1>1, FS_AddElement
<1> QED BY <1>3, <1>4

\* Steps of the loading phase.
LEMMA LoadInv ==
  ASSUME SessionInv, Load
  PROVE  SessionInv'
<1>0. /\ SessionTypeOK /\ TypeOK /\ GraphInv(recorder) /\ GraphInv(graph) /\ graph \in Graph /\ recorder \in Graph
      /\ nodeCount \in Nat /\ edgeCount \in Nat /\ phase = "loading" /\ ~dryRun /\ RefsExist(graph)
      /\ IsFiniteSet(NodeIds(graph)) /\ RefsExist(recorder)
  BY SessionFacts DEF SessionInv, Load
<1>1. UNCHANGED <<phase, dryRun, scratch, recorder, rebound, patch, removed, done, replayOk>>
  BY DEF Load, sessionVars
<1>2. ASSUME TypeOK', GraphInv(graph'), nodeCount' \in Nat, nodeCount' >= nodeCount,
             \A n \in NodeId : HasNode(graph', n) => graph'.nodes[n].ref \in 1 .. nodeCount',
             IsFiniteSet(NodeIds(graph'))
      PROVE  SessionInv'
  <2>1. SessionTypeOK'
    BY <1>0, <1>1, <1>2 DEF SessionTypeOK
  <2>2. /\ \A n \in NodeId : HasNode(recorder, n) => recorder.nodes[n].ref \in 1 .. nodeCount'
        /\ \A i \in 1 .. Len(patch.nodes) : patch.nodes[i].ref \in 1 .. nodeCount'
    BY <1>0, <1>2 DEF SessionInv, RefsExist
  <2> QED BY <1>0, <1>1, <1>2, <2>1, <2>2 DEF SessionInv, RefsExist, HasNode, NodeIds
<1>3. ASSUME NEW n \in NodeId, NEW type \in NodeType, NEW m \in Metadata, AddNode(n, type, m)
      PROVE  SessionInv'
  <2> DEFINE o == [ref |-> nodeCount', id |-> n, type |-> type]
  <2>1. nodeCount' = nodeCount + 1 /\ nodeCount' \in 1 .. MaxNodes /\ edgeCount' = edgeCount
    BY <1>0, <1>3 DEF TypeOK, AddNode
  <2>2. o \in NodeObject /\ o.id = n /\ o.type = type /\ o.ref = nodeCount'
    BY <2>1 DEF NodeObject
  <2>3. graph' = PutNode(graph, o) /\ meta' = [meta EXCEPT ![nodeCount'] = m]
    BY <1>3 DEF AddNode
  <2>4. HasNode(graph, o.id) => graph.nodes[o.id].type = o.type
    BY <1>3, <2>2 DEF AddNode, ConflictsWith
  <2> HIDE DEF o
  <2>5. GraphInv(graph')
    BY <1>0, <2>2, <2>3, <2>4, PutNodeInv
  <2>6. TypeOK'
    BY <1>0, <2>1, <2>3, <2>5 DEF TypeOK, GraphInv
  <2>7. /\ \A x \in NodeId : HasNode(graph', x) => graph'.nodes[x].ref \in 1 .. nodeCount'
        /\ IsFiniteSet(NodeIds(graph'))
    BY <1>0, <2>1, <2>2, <2>3, NodeArrives
  <2> QED BY <1>0, <1>2, <2>1, <2>5, <2>6, <2>7
<1>4. ASSUME NEW source \in NodeId, NEW t \in NodeId, NEW relation \in Relation, AddEdge(source, t, relation)
      PROVE  SessionInv'
  <2> DEFINE e == [no |-> edgeCount', source |-> source, target |-> t, relation |-> relation]
  <2>1. edgeCount' \in 0 .. MaxEdges /\ nodeCount' = nodeCount /\ meta' = meta
    BY <1>0, <1>4 DEF TypeOK, AddEdge
  <2>2. e \in EdgeObject /\ e.source = source /\ e.target = t
    BY <2>1 DEF EdgeObject
  <2>3. graph' = PutEdge(graph, e) /\ CanAddEdge(graph, e.source, e.target)
    BY <1>4, <2>2 DEF AddEdge
  <2> HIDE DEF e
  <2>4. GraphInv(graph')
    BY <1>0, <2>2, <2>3, PutEdgeInv
  <2>5. TypeOK'
    BY <1>0, <2>1, <2>4 DEF TypeOK, GraphInv
  <2>6. graph'.nodes = graph.nodes
    BY <1>0, <2>3, PutEdgeNodes
  <2> QED BY <1>0, <1>2, <2>1, <2>4, <2>5, <2>6 DEF RefsExist, HasNode, NodeIds
<1> QED BY <1>3, <1>4 DEF Load

\* The recorder wraps the graph itself.
LEMMA WrapInv ==
  ASSUME SessionInv, Wrap
  PROVE  SessionInv'
<1>0. /\ phase = "loading" /\ phase' = "recording" /\ recorder' = graph /\ ~dryRun
      /\ UNCHANGED <<graph, meta, nodeCount, edgeCount, dryRun, scratch, rebound, patch, removed, done, replayOk>>
  BY DEF Wrap, vars, SessionInv
<1>1. SessionTypeOK'
  BY <1>0, SessionFacts DEF SessionTypeOK, TypeOK
<1> QED BY <1>0, <1>1 DEF SessionInv, RefsExist, HasNode, NodeIds

\* The recorder wraps a copy, whose Node objects are new.
LEMMA WrapCopyInv ==
  ASSUME SessionInv, WrapCopy
  PROVE  SessionInv'
<1> DEFINE ids == NodeIds(graph)
           k == Cardinality(ids)
<1>0. /\ SessionTypeOK /\ TypeOK /\ GraphInv(graph) /\ graph \in Graph /\ RefsExist(graph)
      /\ nodeCount \in Nat /\ edgeCount \in Nat /\ phase = "loading" /\ k \in Nat
  BY SessionFacts, FS_CardinalityType DEF SessionInv, WrapCopy
<1>1. PICK refs \in [ids -> nodeCount + 1 .. nodeCount + k] :
        /\ scratch' = CopyWith(graph, refs)
        /\ meta' = [r \in 1 .. MaxNodes |->
                      IF \E n \in ids : refs[n] = r
                      THEN meta[graph.nodes[CHOOSE n \in ids : refs[n] = r].ref]
                      ELSE meta[r]]
  BY DEF WrapCopy
<1>2. /\ nodeCount' = nodeCount + k /\ nodeCount' <= MaxNodes /\ recorder' = scratch' /\ dryRun' = TRUE
      /\ phase' = "recording" /\ UNCHANGED <<graph, edgeCount, rebound, patch, removed, done, replayOk>>
  BY DEF WrapCopy
<1>3. \A n \in ids : refs[n] \in Nat /\ refs[n] > nodeCount /\ refs[n] \in 1 .. nodeCount'
  BY <1>0, <1>2
<1>4. /\ GraphInv(recorder')
      /\ \A n \in NodeId : HasNode(recorder', n) <=> HasNode(graph, n)
      /\ \A n \in ids : recorder'.nodes[n] = [graph.nodes[n] EXCEPT !.ref = refs[n]]
  <2>1. refs \in [NodeIds(graph) -> Nat]
    BY <1>3
  <2> QED BY <1>0, <1>1, <1>2, <2>1, CopyInv
<1>5. \A n \in NodeId : HasNode(recorder', n) => recorder'.nodes[n].ref > nodeCount /\ recorder'.nodes[n].ref \in 1 .. nodeCount'
  <2> SUFFICES ASSUME NEW n \in NodeId, HasNode(recorder', n)
               PROVE  recorder'.nodes[n].ref > nodeCount /\ recorder'.nodes[n].ref \in 1 .. nodeCount'
    OBVIOUS
  <2>1. n \in ids
    BY <1>4 DEF NodeIds
  <2>2. graph.nodes[n] \in NodeObject
    BY <1>0, <2>1 DEF Graph, NodeIds, HasNode
  <2>3. recorder'.nodes[n].ref = refs[n]
    BY <1>4, <2>1, <2>2 DEF NodeObject
  <2> QED BY <1>3, <2>1, <2>3
<1>6. meta' \in [1 .. MaxNodes -> Metadata]
  <2>1. \A n \in ids : graph.nodes[n].ref \in 1 .. MaxNodes
    BY <1>0, <1>2 DEF RefsExist, NodeIds
  <2>2. \A n \in ids : meta[graph.nodes[n].ref] \in Metadata
    BY <1>0, <2>1 DEF TypeOK
  <2>3. \A r \in 1 .. MaxNodes : meta[r] \in Metadata
    BY <1>0 DEF TypeOK
  <2> HIDE DEF ids
  <2>4. \A r \in 1 .. MaxNodes : (\E n \in ids : refs[n] = r) => (CHOOSE n \in ids : refs[n] = r) \in ids
    OBVIOUS
  <2> QED BY <1>1, <2>2, <2>3, <2>4
<1>7. SessionTypeOK'
  BY <1>0, <1>2, <1>4, <1>6 DEF SessionTypeOK, TypeOK, GraphInv
<1>8. Apart(graph', recorder')
  <2>1. \A m \in NodeId : HasNode(graph, m) => graph.nodes[m].ref \in Nat /\ graph.nodes[m].ref <= nodeCount
    BY <1>0 DEF RefsExist
  <2>2. \A m \in NodeId : HasNode(recorder', m) => recorder'.nodes[m].ref \in Nat
    BY <1>5
  <2> QED BY <1>0, <1>2, <1>5, <2>1, <2>2 DEF Apart
<1>9. /\ \A n \in NodeId : HasNode(graph, n) => graph.nodes[n].ref \in 1 .. nodeCount'
      /\ \A i \in 1 .. Len(patch.nodes) : patch.nodes[i].ref \in 1 .. nodeCount'
  BY <1>0, <1>2 DEF SessionInv, RefsExist
<1>10. RefsExist(recorder)' /\ RefsExist(graph)'
  BY <1>0, <1>2, <1>5, <1>9 DEF SessionInv, RefsExist, HasNode, NodeIds
<1> QED BY <1>0, <1>2, <1>4, <1>7, <1>8, <1>9, <1>10 DEF SessionInv

\* A write through the recorder, seen at the two graphs.
LEMMA WriteKeeps ==
  ASSUME SessionInv, phase = "recording", NEW r, NEW parted \in SUBSET {"edges", "adjacency"}, Write(r, parted),
         GraphInv(r), dryRun => Apart(graph, r),
         nodeCount' \in Nat, nodeCount' >= nodeCount, nodeCount' <= MaxNodes, edgeCount' \in 0 .. MaxEdges,
         \A n \in NodeId : HasNode(r, n) => r.nodes[n].ref \in 1 .. nodeCount',
         meta' \in [1 .. MaxNodes -> Metadata], removed' \in BOOLEAN,
         PatchGrows(patch, patch'),
         \A i \in 1 .. Len(patch'.nodes) : patch'.nodes[i].ref \in 1 .. nodeCount'
  PROVE  SessionInv'
<1>0. /\ SessionTypeOK /\ TypeOK /\ graph \in Graph /\ scratch \in Graph /\ r \in Graph /\ RefsExist(graph)
      /\ nodeCount \in Nat
  BY SessionFacts DEF SessionInv, GraphInv
<1>1. /\ recorder' = r /\ rebound' = parted /\ phase' = phase /\ dryRun' = dryRun /\ done' = done /\ replayOk' = replayOk
      /\ IF dryRun THEN scratch' = Through(scratch, r, parted) /\ graph' = graph
                   ELSE graph' = Through(graph, r, parted) /\ scratch' = scratch
  BY DEF Write
<1>2. graph' \in Graph /\ scratch' \in Graph
  BY <1>0, <1>1, ThroughType
<1>3. \A n \in NodeId : HasNode(graph', n) => graph'.nodes[n].ref \in 1 .. nodeCount'
  <2>1. CASE dryRun
    BY <1>0, <1>1, <2>1 DEF RefsExist
  <2>2. CASE ~dryRun
    <3>1. graph'.nodes = r.nodes
      BY <1>0, <1>1, <2>2, ThroughType
    <3> QED BY <3>1 DEF HasNode
  <2> QED BY <2>1, <2>2
<1>4. SessionTypeOK'
  <2>1. TypeOK'
    BY <1>0, <1>2 DEF TypeOK
  <2>2. done' \in [PatchLists -> Nat] /\ \A list \in PatchLists : done'[list] <= Len(patch'[list])
    <3>1. \A list \in PatchLists : done[list] \in Nat /\ done[list] <= Len(patch[list])
      BY <1>0 DEF SessionTypeOK
    <3>2. \A list \in PatchLists : Len(patch[list]) \in Nat /\ Len(patch[list]) <= Len(patch'[list])
      BY DEF PatchGrows
    <3>3. \A list \in PatchLists : Len(patch'[list]) \in Nat
      <4>1. Len(patch'.nodes) \in Nat /\ Len(patch'.edges) \in Nat /\ Len(patch'.updates) \in Nat
        BY DEF PatchGrows, Patches
      <4> QED BY <4>1 DEF PatchLists
    <3> QED BY <1>0, <1>1, <3>1, <3>2, <3>3 DEF SessionTypeOK
  <2>3. patch' \in Patches
    BY DEF PatchGrows
  <2> QED BY <1>0, <1>1, <1>2, <2>1, <2>2, <2>3 DEF SessionTypeOK, Patches
<1>5. dryRun' => GraphInv(graph')
  BY <1>1 DEF SessionInv
<1>6. dryRun' => Apart(graph', recorder')
  BY <1>1
<1>7. /\ GraphInv(recorder)' /\ RefsExist(recorder)' /\ RefsExist(graph)'
      /\ phase' = "recording"
  BY <1>1, <1>3 DEF RefsExist
<1> QED BY <1>4, <1>5, <1>6, <1>7 DEF SessionInv

\* A recorder that writes appends to one list of its patch.
LEMMA AppendGrows ==
  ASSUME NEW p \in Patches
  PROVE  /\ PatchGrows(p, p)
         /\ \A o \in NodeObject : PatchGrows(p, [p EXCEPT !.nodes = Append(@, o)])
         /\ \A e \in NodeId \X NodeId \X Relation : PatchGrows(p, [p EXCEPT !.edges = Append(@, e)])
         /\ \A u \in NodeId \X MetaKey \X MetaValue : PatchGrows(p, [p EXCEPT !.updates = Append(@, u)])
<1>1. /\ p.nodes \in Seq(NodeObject) /\ p.edges \in Seq(NodeId \X NodeId \X Relation)
      /\ p.updates \in Seq(NodeId \X MetaKey \X MetaValue)
      /\ p = [nodes |-> p.nodes, edges |-> p.edges, updates |-> p.updates]
  BY DEF Patches
<1>2. ASSUME NEW q \in Patches, Len(p.nodes) <= Len(q.nodes), Len(p.edges) <= Len(q.edges),
             Len(p.updates) <= Len(q.updates)
      PROVE  PatchGrows(p, q)
  BY <1>2 DEF PatchGrows, PatchLists
<1>3. Len(p.nodes) \in Nat /\ Len(p.edges) \in Nat /\ Len(p.updates) \in Nat
  BY <1>1
<1>4. ASSUME NEW o \in NodeObject
      PROVE  PatchGrows(p, [p EXCEPT !.nodes = Append(@, o)])
  <2>1. Append(p.nodes, o) \in Seq(NodeObject) /\ Len(Append(p.nodes, o)) = Len(p.nodes) + 1
    BY <1>1
  <2> DEFINE q == [p EXCEPT !.nodes = Append(@, o)]
  <2>2. q \in Patches
    BY <2>1 DEF Patches
  <2>3. q.nodes = Append(p.nodes, o) /\ q.edges = p.edges /\ q.updates = p.updates
    BY DEF Patches
  <2> HIDE DEF q
  <2>4. PatchGrows(p, q)
    BY <1>2, <1>3, <2>1, <2>2, <2>3
  <2> QED BY <2>4 DEF q
<1>5. ASSUME NEW e \in NodeId \X NodeId \X Relation
      PROVE  PatchGrows(p, [p EXCEPT !.edges = Append(@, e)])
  <2>1. Append(p.edges, e) \in Seq(NodeId \X NodeId \X Relation) /\ Len(Append(p.edges, e)) = Len(p.edges) + 1
    BY <1>1
  <2> DEFINE q == [p EXCEPT !.edges = Append(@, e)]
  <2>2. q \in Patches
    BY <2>1 DEF Patches
  <2>3. q.edges = Append(p.edges, e) /\ q.nodes = p.nodes /\ q.updates = p.updates
    BY DEF Patches
  <2> HIDE DEF q
  <2>4. PatchGrows(p, q)
    BY <1>2, <1>3, <2>1, <2>2, <2>3
  <2> QED BY <2>4 DEF q
<1>6. ASSUME NEW u \in NodeId \X MetaKey \X MetaValue
      PROVE  PatchGrows(p, [p EXCEPT !.updates = Append(@, u)])
  <2>1. /\ Append(p.updates, u) \in Seq(NodeId \X MetaKey \X MetaValue)
        /\ Len(Append(p.updates, u)) = Len(p.updates) + 1
    BY <1>1
  <2> DEFINE q == [p EXCEPT !.updates = Append(@, u)]
  <2>2. q \in Patches
    BY <2>1 DEF Patches
  <2>3. q.updates = Append(p.updates, u) /\ q.nodes = p.nodes /\ q.edges = p.edges
    BY DEF Patches
  <2> HIDE DEF q
  <2>4. PatchGrows(p, q)
    BY <1>2, <1>3, <2>1, <2>2, <2>3
  <2> QED BY <2>4 DEF q
<1>7. PatchGrows(p, p)
  BY <1>2, <1>3
<1> QED BY <1>4, <1>5, <1>6, <1>7

\* The writes through the recorder.
LEMMA RecordInv ==
  ASSUME SessionInv, SessionNext, phase = "recording"
  PROVE  SessionInv'
<1>0. /\ SessionTypeOK /\ TypeOK /\ graph \in Graph /\ recorder \in Graph /\ GraphInv(recorder) /\ RefsExist(recorder)
      /\ nodeCount \in Nat /\ nodeCount <= MaxNodes /\ RefsExist(graph) /\ rebound \in SUBSET {"edges", "adjacency"}
      /\ dryRun => Apart(graph, recorder)
      /\ patch \in Patches /\ patch.nodes \in Seq(NodeObject)
      /\ patch = [nodes |-> patch.nodes, edges |-> patch.edges, updates |-> patch.updates]
      /\ \A i \in 1 .. Len(patch.nodes) : patch.nodes[i].ref \in 1 .. nodeCount
      /\ edgeCount \in 0 .. MaxEdges /\ removed \in BOOLEAN /\ meta \in [1 .. MaxNodes -> Metadata]
  BY SessionFacts DEF SessionInv, SessionTypeOK, TypeOK, Patches
<1>1. ASSUME NEW n \in NodeId, NEW type \in NodeType, NEW m \in Metadata, RecordNode(n, type, m)
      PROVE  SessionInv'
  <2> DEFINE o == [ref |-> nodeCount', id |-> n, type |-> type]
  <2>1. nodeCount' = nodeCount + 1 /\ nodeCount' \in 1 .. MaxNodes /\ edgeCount' = edgeCount /\ removed' = removed
    BY <1>0, <1>1 DEF RecordNode
  <2>2. o \in NodeObject /\ o.id = n /\ o.type = type /\ o.ref = nodeCount'
    BY <2>1 DEF NodeObject
  <2>3. /\ Write(PutNode(recorder, o), rebound) /\ patch' = [patch EXCEPT !.nodes = Append(@, o)]
        /\ meta' = [meta EXCEPT ![nodeCount'] = m]
    BY <1>1 DEF RecordNode
  <2>4. HasNode(recorder, o.id) => recorder.nodes[o.id].type = o.type
    BY <1>1, <2>2 DEF RecordNode, ConflictsWith
  <2> HIDE DEF o
  <2>5. GraphInv(PutNode(recorder, o))
    BY <1>0, <2>2, <2>4, PutNodeInv
  <2>6. \A x \in NodeId : HasNode(PutNode(recorder, o), x) => PutNode(recorder, o).nodes[x].ref \in 1 .. nodeCount'
    BY <1>0, <2>1, <2>2, NodeArrives
  <2>7. dryRun => Apart(graph, PutNode(recorder, o))
    <3> SUFFICES ASSUME dryRun, NEW x \in NodeId, NEW y \in NodeId, HasNode(graph, x), HasNode(PutNode(recorder, o), y)
                 PROVE  graph.nodes[x].ref # PutNode(recorder, o).nodes[y].ref
      BY DEF Apart
    <3>1. PutNode(recorder, o).nodes = [recorder.nodes EXCEPT ![o.id] = o]
      BY <1>0, <2>2, PutNodeNodes
    <3>2. CASE y = o.id
      <4>1. PutNode(recorder, o).nodes[y] = o
        BY <1>0, <3>1, <3>2 DEF Graph
      <4>2. graph.nodes[x].ref \in 1 .. nodeCount
        BY <1>0 DEF RefsExist
      <4> QED BY <1>0, <2>1, <2>2, <4>1, <4>2
    <3>3. CASE y # o.id
      <4>1. PutNode(recorder, o).nodes[y] = recorder.nodes[y]
        BY <1>0, <3>1, <3>3 DEF Graph
      <4> QED BY <1>0, <4>1 DEF Apart, HasNode
    <3> QED BY <3>2, <3>3
  <2>8. patch'.nodes = Append(patch.nodes, o)
    BY <1>0, <2>3
  <2>9. PatchGrows(patch, patch')
    BY <1>0, <2>2, <2>3, AppendGrows
  <2>10. \A i \in 1 .. Len(patch'.nodes) : patch'.nodes[i].ref \in 1 .. nodeCount'
    <3>1. \A i \in 1 .. Len(patch.nodes) : patch.nodes[i].ref \in 1 .. nodeCount'
      BY <1>0, <2>1
    <3> SUFFICES ASSUME NEW i \in 1 .. Len(patch'.nodes)
                 PROVE  patch'.nodes[i].ref \in 1 .. nodeCount'
      OBVIOUS
    <3>2. Len(patch'.nodes) = Len(patch.nodes) + 1 /\ Len(patch.nodes) \in Nat
      BY <1>0, <2>2, <2>8
    <3>3. CASE i <= Len(patch.nodes)
      BY <1>0, <2>2, <2>8, <3>1, <3>2, <3>3
    <3>4. CASE i = Len(patch.nodes) + 1
      <4>1. patch'.nodes[i] = o
        BY <1>0, <2>2, <2>8, <3>2, <3>4
      <4> QED BY <1>0, <2>1, <2>2, <4>1
    <3> QED BY <3>2, <3>3, <3>4
  <2>11. meta' \in [1 .. MaxNodes -> Metadata]
    BY <1>0, <2>1, <2>3
  <2>12. nodeCount' \in Nat /\ nodeCount' >= nodeCount /\ nodeCount' <= MaxNodes
    BY <1>0, <2>1
  <2> QED BY <1>0, <2>1, <2>3, <2>5, <2>6, <2>7, <2>8, <2>9, <2>10, <2>11, <2>12, WriteKeeps
<1>2. ASSUME NEW source \in NodeId, NEW t \in NodeId, NEW relation \in Relation, RecordEdge(source, t, relation)
      PROVE  SessionInv'
  <2> DEFINE e == [no |-> edgeCount', source |-> source, target |-> t, relation |-> relation]
  <2>1. /\ edgeCount' = edgeCount + 1 /\ edgeCount' \in 0 .. MaxEdges
        /\ nodeCount' = nodeCount /\ meta' = meta /\ removed' = removed
    BY <1>0, <1>2 DEF RecordEdge
  <2>2. e \in EdgeObject /\ e.source = source /\ e.target = t
    BY <2>1 DEF EdgeObject
  <2>3. /\ Write(PutEdge(recorder, e), rebound) /\ CanAddEdge(recorder, e.source, e.target)
        /\ patch' = [patch EXCEPT !.edges = Append(@, <<source, t, relation>>)]
    BY <1>2, <2>2 DEF RecordEdge
  <2> HIDE DEF e
  <2>4. GraphInv(PutEdge(recorder, e)) /\ PutEdge(recorder, e).nodes = recorder.nodes
    BY <1>0, <2>2, <2>3, PutEdgeInv, PutEdgeNodes
  <2>5. /\ dryRun => Apart(graph, PutEdge(recorder, e))
        /\ \A n \in NodeId : HasNode(PutEdge(recorder, e), n) => PutEdge(recorder, e).nodes[n].ref \in 1 .. nodeCount'
    BY <1>0, <2>1, <2>4 DEF Apart, HasNode, RefsExist
  <2>6. patch'.nodes = patch.nodes
    BY <1>0, <2>3
  <2>7. PatchGrows(patch, patch')
    BY <1>0, <2>3, AppendGrows
  <2>8. \A i \in 1 .. Len(patch'.nodes) : patch'.nodes[i].ref \in 1 .. nodeCount'
    BY <1>0, <2>1, <2>6
  <2>9. nodeCount' \in Nat /\ nodeCount' >= nodeCount /\ nodeCount' <= MaxNodes
    BY <1>0, <2>1
  <2> QED BY <1>0, <2>1, <2>3, <2>4, <2>5, <2>7, <2>8, <2>9, WriteKeeps
<1>3. ASSUME NEW n \in NodeId, NEW k \in MetaKey, NEW v \in MetaValue, RecordUpdate(n, k, v)
      PROVE  SessionInv'
  <2>1. /\ meta' = [meta EXCEPT ![recorder.nodes[n].ref][k] = v]
        /\ patch' = [patch EXCEPT !.updates = Append(@, <<n, k, v>>)]
        /\ UNCHANGED <<graph, nodeCount, edgeCount, phase, dryRun, scratch, recorder, rebound, removed, done, replayOk>>
    BY <1>3 DEF RecordUpdate
  <2>2. meta' \in [1 .. MaxNodes -> Metadata]
    BY <1>0, <2>1 DEF Metadata
  <2>3. patch'.nodes = patch.nodes
    BY <1>0, <2>1
  <2>4. PatchGrows(patch, patch')
    BY <1>0, <2>1, AppendGrows
  <2>5. \A list \in PatchLists : done[list] <= Len(patch'[list])
    <3>1. \A list \in PatchLists : done[list] \in Nat /\ done[list] <= Len(patch[list])
      BY <1>0 DEF SessionTypeOK
    <3>2. patch'.nodes \in Seq(NodeObject) /\ patch'.edges \in Seq(NodeId \X NodeId \X Relation)
          /\ patch'.updates \in Seq(NodeId \X MetaKey \X MetaValue)
      BY <2>4 DEF PatchGrows, Patches
    <3>3. Len(patch'.nodes) \in Nat /\ Len(patch'.edges) \in Nat /\ Len(patch'.updates) \in Nat
      BY <3>2
    <3>4. \A list \in PatchLists : Len(patch'[list]) \in Nat
      BY <3>3 DEF PatchLists
    <3> QED BY <2>4, <3>1, <3>4 DEF PatchGrows
  <2>6. SessionTypeOK'
    BY <1>0, <2>1, <2>2, <2>4, <2>5 DEF SessionTypeOK, TypeOK, PatchGrows, Patches
  <2>7. \A i \in 1 .. Len(patch'.nodes) : patch'.nodes[i].ref \in 1 .. nodeCount'
    BY <1>0, <2>1, <2>3
  <2> QED BY <1>0, <1>3, <2>1, <2>6, <2>7 DEF SessionInv, RefsExist, Apart, HasNode, RecordUpdate
<1>4. ASSUME NEW h, GraphInv(h), NEW parted \in SUBSET {"edges", "adjacency"}, Write(h, parted),
             removed' = TRUE, UNCHANGED <<meta, nodeCount, edgeCount, patch>>,
             \A m \in NodeId : HasNode(h, m) => HasNode(recorder, m) /\ h.nodes[m] = recorder.nodes[m]
      PROVE  SessionInv'
  <2>1. /\ dryRun => Apart(graph, h)
        /\ \A n \in NodeId : HasNode(h, n) => h.nodes[n].ref \in 1 .. nodeCount'
    BY <1>0, <1>4 DEF Apart, RefsExist
  <2>2. /\ PatchGrows(patch, patch')
        /\ \A i \in 1 .. Len(patch'.nodes) : patch'.nodes[i].ref \in 1 .. nodeCount'
    BY <1>0, <1>4, AppendGrows
  <2> QED BY <1>0, <1>4, <2>1, <2>2, WriteKeeps
<1>5. ASSUME NEW n \in NodeId, RecordedRemoveNode(n)
      PROVE  SessionInv'
  <2>1. GraphInv(DropNode(recorder, n))
    BY <1>0, DropNodeInv
  <2>2. \A m \in NodeId : HasNode(DropNode(recorder, n), m) =>
                             HasNode(recorder, m) /\ DropNode(recorder, n).nodes[m] = recorder.nodes[m]
    BY <1>0, DropNodes
  <2>3. /\ Write(DropNode(recorder, n), rebound \cup {"edges"}) /\ removed' = TRUE
        /\ UNCHANGED <<meta, nodeCount, edgeCount, patch>>
    BY <1>5 DEF RecordedRemoveNode
  <2>4. rebound \cup {"edges"} \in SUBSET {"edges", "adjacency"}
    BY <1>0
  <2> QED BY <1>4, <2>1, <2>2, <2>3, <2>4
<1>6. ASSUME NEW relations \in SUBSET Relation, RecordedRemoveEdges(relations)
      PROVE  SessionInv'
  <2> DEFINE selected == {e \in recorder.edges : e.relation \in relations}
  <2>1. /\ Write(DropEdges(recorder, selected), {"edges", "adjacency"}) /\ removed' = TRUE
        /\ UNCHANGED <<meta, nodeCount, edgeCount, patch>>
    BY <1>6 DEF RecordedRemoveEdges
  <2> HIDE DEF selected
  <2>2. GraphInv(DropEdges(recorder, selected))
    BY <1>0, DropEdgesInv
  <2>3. DropEdges(recorder, selected).nodes = recorder.nodes
    BY <1>0 DEF DropEdges, Graph
  <2> QED BY <1>4, <2>1, <2>2, <2>3 DEF HasNode
<1>7. CASE Finish
  <2>1. /\ phase' = "recorded"
        /\ UNCHANGED <<graph, meta, nodeCount, edgeCount, dryRun, scratch, recorder, rebound, patch, removed, done, replayOk>>
    BY <1>7 DEF Finish, vars
  <2>2. SessionTypeOK'
    BY <1>0, <2>1 DEF SessionTypeOK, TypeOK
  <2> QED BY <2>1, <2>2 DEF SessionInv, RefsExist, Apart, HasNode
<1> QED BY <1>1, <1>2, <1>3, <1>5, <1>6, <1>7
        DEF SessionNext, Load, Wrap, WrapCopy, StartReplay, ReplayNode, ReplayEdge, ReplayUpdate, Turn, EndReplay

\* Replaying an entry: what every turn does, whether its call raises or not.
LEMMA TurnFrame ==
  ASSUME SessionInv, NEW list \in PatchLists, NEW raises, Turn(list, raises)
  PROVE  /\ phase = "replaying" /\ dryRun /\ GraphInv(graph) /\ RefsExist(graph) /\ graph \in Graph
         /\ done[list] + 1 \in 1 .. Len(patch[list])
         /\ done' \in [PatchLists -> Nat] /\ \A l \in PatchLists : done'[l] <= Len(patch[l])
         /\ raises => phase' = "replayed" /\ done' = done
         /\ ~raises => phase' = "replaying" /\ done' = [done EXCEPT ![list] = @ + 1]
         /\ replayOk' \in BOOLEAN
         /\ UNCHANGED <<nodeCount, dryRun, scratch, recorder, rebound, patch, removed>>
<1>0. /\ SessionTypeOK /\ phase = "replaying" /\ dryRun /\ done[list] < Len(patch[list])
      /\ done \in [PatchLists -> Nat] /\ \A l \in PatchLists : done[l] <= Len(patch[l])
      /\ replayOk \in BOOLEAN
  BY DEF SessionInv, SessionTypeOK, Turn
<1>1. \A l \in PatchLists : Len(patch[l]) \in Nat
  <2>1. Len(patch.nodes) \in Nat /\ Len(patch.edges) \in Nat /\ Len(patch.updates) \in Nat
    BY <1>0 DEF SessionTypeOK
  <2> QED BY <2>1 DEF PatchLists
<1>2. /\ GraphInv(graph) /\ RefsExist(graph) /\ graph \in Graph
  BY <1>0, SessionFacts DEF SessionInv
<1>3. done[list] + 1 \in 1 .. Len(patch[list])
  BY <1>0, <1>1
<1>4. UNCHANGED <<nodeCount, dryRun, scratch, recorder, rebound, patch, removed>>
  BY DEF Turn
<1>5. CASE raises
  BY <1>0, <1>2, <1>3, <1>4, <1>5 DEF Turn
<1>6. CASE ~raises
  <2>1. done' = [done EXCEPT ![list] = @ + 1] /\ phase' = phase /\ replayOk' = replayOk
    BY <1>6 DEF Turn
  <2>2. \A l \in PatchLists : done'[l] \in Nat /\ done'[l] <= Len(patch[l])
    BY <1>0, <1>1, <2>1
  <2>3. done' \in [PatchLists -> Nat]
    BY <1>0, <2>1
  <2> QED BY <1>0, <1>2, <1>3, <1>4, <1>6, <2>1, <2>2, <2>3
<1> QED BY <1>5, <1>6

\* What a turn must leave right for the invariant: the graph, its metadata, its edge budget.
LEMMA TurnKeeps ==
  ASSUME SessionInv, NEW list \in PatchLists, NEW raises, Turn(list, raises),
         GraphInv(graph'), \A n \in NodeId : HasNode(graph', n) => graph'.nodes[n].ref \in 1 .. nodeCount,
         meta' \in [1 .. MaxNodes -> Metadata], edgeCount' \in 0 .. MaxEdges,
         ~raises => edgeCount' + (Len(patch.edges) - done'.edges) <= MaxEdges
  PROVE  SessionInv'
<1>0. /\ phase = "replaying" /\ dryRun /\ dryRun' = dryRun
      /\ done' \in [PatchLists -> Nat] /\ \A l \in PatchLists : done'[l] <= Len(patch[l])
      /\ raises => phase' = "replayed"
      /\ ~raises => phase' = "replaying"
      /\ replayOk' \in BOOLEAN
      /\ UNCHANGED <<nodeCount, scratch, recorder, rebound, patch, removed>>
  BY TurnFrame
<1>1. SessionTypeOK /\ SessionTypeOK'
  BY <1>0 DEF SessionInv, SessionTypeOK, TypeOK, GraphInv
<1>2. phase' \in {"replaying", "replayed"}
  BY <1>0
<1>3. RefsExist(graph)' /\ RefsExist(recorder)' /\ GraphInv(recorder)'
  BY <1>0 DEF SessionInv, RefsExist, HasNode
<1>4. \A i \in 1 .. Len(patch'.nodes) : patch'.nodes[i].ref \in 1 .. nodeCount'
  BY <1>0 DEF SessionInv
<1>5. phase' = "replaying" => dryRun' /\ edgeCount' + (Len(patch'.edges) - done'.edges) <= MaxEdges
  BY <1>0
<1> QED BY <1>0, <1>1, <1>2, <1>3, <1>4, <1>5 DEF SessionInv

\* The replay: the calls of EvidencePatch.apply on the original graph.
LEMMA ReplayInv ==
  ASSUME SessionInv, SessionNext, phase \in {"recorded", "replaying", "replayed"}
  PROVE  SessionInv'
<1>0. /\ SessionTypeOK /\ TypeOK /\ graph \in Graph /\ nodeCount \in Nat /\ nodeCount <= MaxNodes
      /\ edgeCount \in Nat /\ edgeCount <= MaxEdges /\ meta \in [1 .. MaxNodes -> Metadata]
      /\ patch.nodes \in Seq(NodeObject) /\ patch.edges \in Seq(NodeId \X NodeId \X Relation)
      /\ patch.updates \in Seq(NodeId \X MetaKey \X MetaValue)
      /\ done \in [PatchLists -> Nat] /\ done.edges \in Nat
  BY SessionFacts DEF SessionInv, SessionTypeOK, TypeOK, PatchLists
<1>1. CASE StartReplay
  <2>1. /\ phase = "recorded" /\ dryRun /\ edgeCount + Len(patch.edges) <= MaxEdges /\ phase' = "replaying"
        /\ UNCHANGED <<graph, meta, nodeCount, edgeCount, dryRun, scratch, recorder, rebound, patch, removed, done, replayOk>>
    BY <1>1 DEF StartReplay, vars
  <2>2. SessionTypeOK'
    BY <1>0, <2>1 DEF SessionTypeOK, TypeOK
  <2>3. edgeCount + (Len(patch.edges) - done.edges) <= MaxEdges
    BY <1>0, <2>1
  <2> QED BY <2>1, <2>2, <2>3 DEF SessionInv, RefsExist, Apart, HasNode
<1>2. CASE ReplayNode
  <2> DEFINE o == Entry("nodes")
             raises == ConflictsWith(graph, meta, o.id, o.type, meta[o.ref])
  <2>1. Turn("nodes", raises) /\ graph' = (IF raises THEN graph ELSE PutNode(graph, o)) /\ meta' = meta /\ edgeCount' = edgeCount
    BY <1>2 DEF ReplayNode
  <2>2. ~raises /\ HasNode(graph, o.id) => graph.nodes[o.id].type = o.type
    BY DEF ConflictsWith
  <2>3. o = patch.nodes[done.nodes + 1]
    BY DEF Entry
  <2> HIDE DEF o, raises
  <2>4. /\ GraphInv(graph) /\ RefsExist(graph) /\ done.nodes + 1 \in 1 .. Len(patch.nodes)
        /\ ~raises => done' = [done EXCEPT !["nodes"] = @ + 1]
        /\ phase = "replaying"
    BY <2>1, TurnFrame DEF PatchLists
  <2>5. o \in NodeObject /\ o.ref \in 1 .. nodeCount
    BY <1>0, <2>3, <2>4 DEF SessionInv
  <2>6. GraphInv(graph')
    BY <2>1, <2>2, <2>4, <2>5, PutNodeInv
  <2>7. \A n \in NodeId : HasNode(graph', n) => graph'.nodes[n].ref \in 1 .. nodeCount
    <3>1. CASE raises
      BY <2>1, <2>4, <3>1 DEF RefsExist
    <3>2. CASE ~raises
      <4>1. graph' = PutNode(graph, o) /\ graph'.nodes = [graph.nodes EXCEPT ![o.id] = o]
        BY <1>0, <2>1, <2>5, <3>2, PutNodeNodes
      <4> QED BY <1>0, <2>4, <2>5, <4>1 DEF RefsExist, HasNode, Graph
    <3> QED BY <3>1, <3>2
  <2>8. ~raises => edgeCount' + (Len(patch.edges) - done'.edges) <= MaxEdges
    <3>1. ~raises => done'.edges = done.edges
      BY <1>0, <2>4 DEF PatchLists
    <3> QED BY <2>1, <2>4, <3>1 DEF SessionInv
  <2>9. "nodes" \in PatchLists /\ edgeCount' \in 0 .. MaxEdges
    BY <1>0, <2>1 DEF PatchLists
  <2> QED BY <1>0, <2>1, <2>6, <2>7, <2>8, <2>9, TurnKeeps
<1>3. CASE ReplayEdge
  <2> DEFINE x == Entry("edges")
             raises == ~CanAddEdge(graph, x[1], x[2])
             e == [no |-> edgeCount', source |-> x[1], target |-> x[2], relation |-> x[3]]
  <2>1. /\ Turn("edges", raises) /\ meta' = meta
        /\ raises => graph' = graph /\ edgeCount' = edgeCount
        /\ ~raises => edgeCount' = edgeCount + 1 /\ graph' = PutEdge(graph, e)
    BY <1>3 DEF ReplayEdge
  <2>2. x = patch.edges[done.edges + 1]
    BY DEF Entry
  <2> HIDE DEF x
  <2>3. /\ GraphInv(graph) /\ RefsExist(graph) /\ done.edges + 1 \in 1 .. Len(patch.edges)
        /\ ~raises => done' = [done EXCEPT !["edges"] = @ + 1]
        /\ phase = "replaying"
    BY <2>1, TurnFrame DEF PatchLists
  <2>4. x \in NodeId \X NodeId \X Relation
    BY <1>0, <2>2, <2>3
  <2>5. edgeCount + (Len(patch.edges) - done.edges) <= MaxEdges /\ Len(patch.edges) \in Nat
    BY <1>0, <2>3 DEF SessionInv
  <2>6. edgeCount' \in 0 .. MaxEdges
    BY <1>0, <2>1, <2>3, <2>5
  <2>7. e \in EdgeObject /\ e.source = x[1] /\ e.target = x[2]
    BY <2>4, <2>6 DEF EdgeObject
  <2>8. ~raises => CanAddEdge(graph, e.source, e.target)
    BY <2>7
  <2> HIDE DEF e, raises
  <2>9. GraphInv(graph')
    BY <2>1, <2>3, <2>7, <2>8, PutEdgeInv
  <2>10. graph'.nodes = graph.nodes
    BY <1>0, <2>1, PutEdgeNodes
  <2>11. \A n \in NodeId : HasNode(graph', n) => graph'.nodes[n].ref \in 1 .. nodeCount
    BY <2>3, <2>10 DEF RefsExist, HasNode
  <2>12. ~raises => edgeCount' + (Len(patch.edges) - done'.edges) <= MaxEdges
    <3>1. ~raises => done'.edges = done.edges + 1
      BY <1>0, <2>3 DEF PatchLists
    <3> QED BY <1>0, <2>1, <2>5, <3>1
  <2>13. "edges" \in PatchLists
    BY DEF PatchLists
  <2> QED BY <1>0, <2>1, <2>6, <2>9, <2>11, <2>12, <2>13, TurnKeeps
<1>4. CASE ReplayUpdate
  <2> DEFINE u == Entry("updates")
             raises == ~HasNode(graph, u[1])
  <2>1. /\ Turn("updates", raises) /\ graph' = graph /\ edgeCount' = edgeCount
        /\ meta' = IF raises THEN meta ELSE [meta EXCEPT ![graph.nodes[u[1]].ref][u[2]] = u[3]]
    BY <1>4 DEF ReplayUpdate
  <2>2. u = patch.updates[done.updates + 1]
    BY DEF Entry
  <2> HIDE DEF u, raises
  <2>3. /\ GraphInv(graph) /\ RefsExist(graph) /\ done.updates + 1 \in 1 .. Len(patch.updates)
        /\ ~raises => done' = [done EXCEPT !["updates"] = @ + 1]
        /\ phase = "replaying"
    BY <2>1, TurnFrame DEF PatchLists
  <2>4. u \in NodeId \X MetaKey \X MetaValue
    BY <1>0, <2>2, <2>3
  <2>5. u[2] \in MetaKey /\ u[3] \in MetaValue
    BY <2>4
  <2>6. meta' \in [1 .. MaxNodes -> Metadata]
    BY <1>0, <2>1, <2>5 DEF Metadata
  <2>7. ~raises => edgeCount' + (Len(patch.edges) - done'.edges) <= MaxEdges
    <3>1. ~raises => done'.edges = done.edges
      BY <1>0, <2>3 DEF PatchLists
    <3> QED BY <2>1, <2>3, <3>1 DEF SessionInv
  <2>8. \A n \in NodeId : HasNode(graph', n) => graph'.nodes[n].ref \in 1 .. nodeCount
    BY <2>1, <2>3 DEF RefsExist
  <2>9. "updates" \in PatchLists /\ edgeCount' \in 0 .. MaxEdges /\ GraphInv(graph')
    BY <1>0, <2>1, <2>3 DEF PatchLists
  <2> QED BY <1>0, <2>1, <2>6, <2>7, <2>8, <2>9, TurnKeeps
<1>5. CASE EndReplay
  <2>1. /\ phase' = "replayed"
        /\ UNCHANGED <<graph, meta, nodeCount, edgeCount, dryRun, scratch, recorder, rebound, patch, removed, done, replayOk>>
    BY <1>5 DEF EndReplay, vars
  <2>2. SessionTypeOK'
    BY <1>0, <2>1 DEF SessionTypeOK, TypeOK
  <2> QED BY <2>1, <2>2 DEF SessionInv, RefsExist, Apart, HasNode
<1> QED BY <1>1, <1>2, <1>3, <1>4, <1>5
        DEF SessionNext, Load, Wrap, WrapCopy, RecordNode, RecordEdge, RecordUpdate, RecordedRemoveNode,
            RecordedRemoveEdges, Finish

\* The empty graph, nothing recorded.
LEMMA SessionInitInv == SessionInit => SessionInv
<1> SUFFICES ASSUME SessionInit
             PROVE  SessionInv
  OBVIOUS
<1>1. IInv
  BY InitInv DEF SessionInit
<1>2. GraphInv(EmptyGraph) /\ EmptyGraph \in Graph /\ \A n \in NodeId : ~HasNode(EmptyGraph, n)
  BY EmptyGraphInv DEF GraphInv, EmptyGraph, HasNode
<1>3. NodeIds(EmptyGraph) = {}
  BY <1>2 DEF NodeIds
<1>4. patch = NoPatch /\ Len(patch.nodes) = 0 /\ NoPatch \in Patches
  BY DEF SessionInit, NoPatch, Patches
<1>5. \A list \in PatchLists : done[list] <= Len(patch[list])
  BY DEF SessionInit, PatchLists, NoPatch
<1>6. SessionTypeOK
  BY <1>1, <1>2, <1>4, <1>5 DEF SessionInit, SessionTypeOK, IInv, Patches
<1>7. \A i \in 1 .. Len(patch.nodes) : patch.nodes[i].ref \in 1 .. nodeCount
  BY <1>4
<1> QED BY <1>2, <1>3, <1>6, <1>7, FS_EmptySet DEF SessionInit, Init, SessionInv, RefsExist

\* Every step keeps the invariant.
LEMMA SessionStep == SessionInv /\ [SessionNext]_allVars => SessionInv'
<1> SUFFICES ASSUME SessionInv, [SessionNext]_allVars
             PROVE  SessionInv'
  OBVIOUS
<1>1. CASE UNCHANGED allVars
  <2>1. UNCHANGED <<graph, meta, nodeCount, edgeCount, phase, dryRun, scratch, recorder, rebound, patch, removed, done, replayOk>>
    BY <1>1 DEF allVars, vars, sessionVars
  <2>2. SessionTypeOK'
    BY <2>1 DEF SessionInv, SessionTypeOK, TypeOK
  <2> QED BY <2>1, <2>2 DEF SessionInv, RefsExist, Apart, HasNode
<1>2. CASE SessionNext /\ phase = "loading"
  <2>1. Load \/ Wrap \/ WrapCopy
    BY <1>2 DEF SessionNext, RecordNode, RecordEdge, RecordUpdate, RecordedRemoveNode, RecordedRemoveEdges, Finish,
                StartReplay, ReplayNode, ReplayEdge, ReplayUpdate, Turn, EndReplay
  <2> QED BY <2>1, LoadInv, WrapInv, WrapCopyInv
<1>3. CASE SessionNext /\ phase = "recording"
  BY <1>3, RecordInv
<1>4. CASE SessionNext /\ phase \in {"recorded", "replaying", "replayed"}
  BY <1>4, ReplayInv
<1> QED BY <1>1, <1>2, <1>3, <1>4 DEF SessionInv, SessionTypeOK

\* The inductive invariant holds in every reachable state of a session.
THEOREM SessionInvariance == SessionSpec => []SessionInv
  BY SessionInitInv, SessionStep, PTL DEF SessionSpec

\* Whatever was written and removed through it, the recorder reads a sound graph.
THEOREM RecorderCorrect == SessionSpec => []RecorderIsSound
<1>1. SessionInv => RecorderIsSound
  BY DEF SessionInv, RecorderIsSound, GraphInv
<1> QED BY <1>1, SessionInvariance, PTL

\* A dry run writes to Node objects the original does not hold, so until the replay the
\* original keeps its content.
LEMMA DryRunStep ==
  ASSUME SessionInv, [SessionNext]_allVars, dryRun, phase = "recording"
  PROVE  Content(graph)' = Content(graph)
<1>0. /\ Apart(graph, recorder) /\ RefsExist(graph) /\ nodeCount \in Nat /\ recorder \in Graph /\ graph \in Graph
      /\ meta \in [1 .. MaxNodes -> Metadata]
  BY SessionFacts DEF SessionInv, TypeOK
<1>1. ASSUME graph' = graph, \A n \in NodeIds(graph) : meta'[graph.nodes[n].ref] = meta[graph.nodes[n].ref]
      PROVE  Content(graph)' = Content(graph)
  <2>1. NodeIds(graph') = NodeIds(graph)
    BY <1>1
  <2> QED BY <1>1, <2>1 DEF Content
<1>2. \A n \in NodeIds(graph) : n \in NodeId /\ HasNode(graph, n) /\ graph.nodes[n].ref \in 1 .. nodeCount
  BY <1>0 DEF NodeIds, RefsExist
<1>3. ASSUME NEW n \in NodeId, NEW type \in NodeType, NEW m \in Metadata, RecordNode(n, type, m)
      PROVE  Content(graph)' = Content(graph)
  <2>1. graph' = graph /\ nodeCount' = nodeCount + 1 /\ meta' = [meta EXCEPT ![nodeCount'] = m]
    BY <1>3 DEF RecordNode, Write
  <2> QED BY <1>0, <1>1, <1>2, <2>1
<1>4. ASSUME NEW n \in NodeId, NEW k \in MetaKey, NEW v \in MetaValue, RecordUpdate(n, k, v)
      PROVE  Content(graph)' = Content(graph)
  <2>1. graph' = graph /\ HasNode(recorder, n) /\ meta' = [meta EXCEPT ![recorder.nodes[n].ref][k] = v]
    BY <1>4 DEF RecordUpdate
  <2>2. \A x \in NodeIds(graph) : graph.nodes[x].ref # recorder.nodes[n].ref
    BY <1>0, <1>2, <2>1 DEF Apart
  <2> QED BY <1>0, <1>1, <2>1, <2>2
<1>5. ASSUME graph' = graph, meta' = meta
      PROVE  Content(graph)' = Content(graph)
  BY <1>1, <1>5
<1>6. CASE UNCHANGED allVars
  BY <1>5, <1>6 DEF allVars, vars
<1>7. ASSUME NEW source \in NodeId, NEW t \in NodeId, NEW relation \in Relation, RecordEdge(source, t, relation)
      PROVE  Content(graph)' = Content(graph)
  BY <1>5, <1>7 DEF RecordEdge, Write
<1>8. ASSUME NEW n \in NodeId, RecordedRemoveNode(n)
      PROVE  Content(graph)' = Content(graph)
  BY <1>5, <1>8 DEF RecordedRemoveNode, Write
<1>9. ASSUME NEW relations \in SUBSET Relation, RecordedRemoveEdges(relations)
      PROVE  Content(graph)' = Content(graph)
  BY <1>5, <1>9 DEF RecordedRemoveEdges, Write
<1>10. CASE Finish
  BY <1>5, <1>10 DEF Finish, vars
<1> QED BY <1>3, <1>4, <1>6, <1>7, <1>8, <1>9, <1>10
        DEF SessionNext, Load, Wrap, WrapCopy, StartReplay, ReplayNode, ReplayEdge, ReplayUpdate, Turn, EndReplay

\* A dry run leaves the original as it was until the patch is replayed.
THEOREM DryRunCorrect == SessionSpec => DryRunIsolated
<1>1. SessionInv /\ [SessionNext]_allVars => (dryRun /\ phase = "recording" => Content(graph)' = Content(graph))
  BY DryRunStep
<1> QED BY <1>1, SessionInvariance, PTL DEF SessionSpec, DryRunIsolated

-----------------------------------------------------------------------------
(* ReplayIsFaithful: what the copy, the original and the recorded patch    *)
(* have to do with one another, from the copy to the end of the replay.    *)

\* The Node objects the original, the copy and the patch hold.
Objects ==
  {graph.nodes[n] : n \in NodeIds(graph)} \cup {scratch.nodes[n] : n \in NodeIds(scratch)}
  \cup {patch.nodes[i] : i \in 1 .. Len(patch.nodes)}

OneObjectPerRef == \A o1, o2 \in Objects : o1.ref = o2.ref => o1 = o2

\* The copy holds the nodes of the original and of the patch, the original those replayed.
NodesFollow ==
  /\ \A n \in NodeId : HasNode(scratch, n) <=>
                        HasNode(graph, n) \/ \E i \in 1 .. Len(patch.nodes) : patch.nodes[i].id = n
  /\ \A i \in 1 .. done.nodes : HasNode(graph, patch.nodes[i].id)

\* The edges between the same ends with the same relation, and the recorded ones that are
\* still to be replayed.
Alike(g, s) == {e \in g.edges : <<e.source, e.target, e.relation>> = s}

PendingEdges(s) == {i \in done.edges + 1 .. Len(patch.edges) : patch.edges[i] = s}

OldEdges(g) == IsFiniteSet(g.edges) /\ \A e \in g.edges : e.no <= edgeCount

EdgesFollow ==
  /\ OldEdges(graph) /\ OldEdges(scratch)
  /\ \A s \in NodeId \X NodeId \X Relation :
        Cardinality(Alike(scratch, s)) = Cardinality(Alike(graph, s)) + Cardinality(PendingEdges(s))

\* What the patch names is in the copy.
EndsExist ==
  /\ \A i \in 1 .. Len(patch.edges) : HasNode(scratch, patch.edges[i][1]) /\ HasNode(scratch, patch.edges[i][2])
  /\ \A j \in 1 .. Len(patch.updates) : HasNode(scratch, patch.updates[j][1])

\* The updates of one metadata key that are still to be replayed, and the last of them.
Pending(n, k) == {j \in done.updates + 1 .. Len(patch.updates) : patch.updates[j][1] = n /\ patch.updates[j][2] = k}

HasLast(n, k) ==
  \E j \in Pending(n, k) : /\ \A i \in Pending(n, k) : i <= j
                           /\ meta[scratch.nodes[n].ref][k] = patch.updates[j][3]

\* Before the first update is replayed: the objects of one node differ in the keys the
\* session updated only, and there the copy has the last value.
TypesAgree == \A o1, o2 \in Objects : o1.id = o2.id => o1.type = o2.type

Untouched ==
  /\ \A o1, o2 \in Objects : o1.id = o2.id =>
        \A k \in MetaKey : Pending(o1.id, k) = {} => meta[o1.ref][k] = meta[o2.ref][k]
  /\ \A n \in NodeId : HasNode(scratch, n) =>
        \A k \in MetaKey : Pending(n, k) # {} => HasLast(n, k)

\* From then on: the same of the original and the copy, where they hold different objects.
CatchingUp ==
  \A n \in NodeId : HasNode(scratch, n) /\ HasNode(graph, n) /\ graph.nodes[n] # scratch.nodes[n] =>
    \A k \in MetaKey :
      /\ Pending(n, k) = {} => meta[graph.nodes[n].ref][k] = meta[scratch.nodes[n].ref][k]
      /\ Pending(n, k) # {} => HasLast(n, k)

MetaFollows ==
  /\ TypesAgree
  /\ done.updates = 0 => Untouched
  /\ done.updates > 0 => done.nodes = Len(patch.nodes) /\ CatchingUp

Following ==
  /\ recorder = scratch /\ rebound = {}
  /\ phase # "replaying" => \A list \in PatchLists : done[list] = 0
  /\ OneObjectPerRef /\ NodesFollow /\ EdgesFollow /\ EndsExist /\ MetaFollows

Fresh ==
  /\ scratch = EmptyGraph /\ patch = NoPatch /\ rebound = {} /\ ~removed
  /\ \A list \in PatchLists : done[list] = 0
  /\ OldEdges(graph)
  /\ \A m, n \in NodeId : HasNode(graph, m) /\ HasNode(graph, n) /\ graph.nodes[m].ref = graph.nodes[n].ref => m = n

FaithInv ==
  /\ SessionInv
  /\ phase = "loading" => Fresh
  /\ phase # "replayed" => replayOk
  /\ dryRun /\ ~removed /\ phase # "replayed" => Following
  /\ phase = "replayed" => ReplayIsFaithful

\* The types behind the sequences and the graphs, in the terms the steps need.
LEMMA PatchFacts ==
  ASSUME SessionInv
  PROVE  /\ patch \in Patches /\ patch.nodes \in Seq(NodeObject) /\ Len(patch.nodes) \in Nat
         /\ \A i \in 1 .. Len(patch.nodes) : patch.nodes[i] \in NodeObject /\ patch.nodes[i].ref \in 1 .. nodeCount
         /\ patch.edges \in Seq(NodeId \X NodeId \X Relation) /\ Len(patch.edges) \in Nat
         /\ patch.updates \in Seq(NodeId \X MetaKey \X MetaValue) /\ Len(patch.updates) \in Nat
         /\ done \in [PatchLists -> Nat] /\ done.nodes \in Nat /\ done.edges \in Nat /\ done.updates \in Nat
         /\ done.nodes <= Len(patch.nodes) /\ done.edges <= Len(patch.edges) /\ done.updates <= Len(patch.updates)
         /\ graph \in Graph /\ scratch \in Graph /\ nodeCount \in Nat /\ edgeCount \in Nat
         /\ nodeCount <= MaxNodes /\ meta \in [1 .. MaxNodes -> Metadata]
<1>1. /\ patch \in Patches /\ patch.nodes \in Seq(NodeObject)
      /\ patch.edges \in Seq(NodeId \X NodeId \X Relation)
      /\ patch.updates \in Seq(NodeId \X MetaKey \X MetaValue)
      /\ done \in [PatchLists -> Nat] /\ \A list \in PatchLists : done[list] <= Len(patch[list])
      /\ \A i \in 1 .. Len(patch.nodes) : patch.nodes[i].ref \in 1 .. nodeCount
      /\ graph \in Graph /\ scratch \in Graph /\ nodeCount \in Nat /\ edgeCount \in Nat
      /\ nodeCount <= MaxNodes /\ meta \in [1 .. MaxNodes -> Metadata]
  BY DEF SessionInv, SessionTypeOK, TypeOK, Patches
<1>2. /\ done.nodes <= Len(patch.nodes) /\ done.edges <= Len(patch.edges) /\ done.updates <= Len(patch.updates)
      /\ done.nodes \in Nat /\ done.edges \in Nat /\ done.updates \in Nat
  BY <1>1 DEF PatchLists
<1> QED BY <1>1, <1>2

\* In a session that follows its copy, every object is typed, exists, and is kept under its id.
LEMMA ObjectFacts ==
  ASSUME SessionInv, dryRun, Following
  PROVE  /\ \A o : o \in Objects <=> \/ \E n \in NodeId : HasNode(graph, n) /\ o = graph.nodes[n]
                                     \/ \E n \in NodeId : HasNode(scratch, n) /\ o = scratch.nodes[n]
                                     \/ \E i \in 1 .. Len(patch.nodes) : o = patch.nodes[i]
         /\ \A o \in Objects : o \in NodeObject /\ o.ref \in 1 .. nodeCount /\ HasNode(scratch, o.id)
         /\ \A n \in NodeId : HasNode(graph, n) => graph.nodes[n] \in Objects /\ graph.nodes[n].id = n /\ HasNode(scratch, n)
         /\ \A n \in NodeId : HasNode(scratch, n) => scratch.nodes[n] \in Objects /\ scratch.nodes[n].id = n
         /\ \A i \in 1 .. Len(patch.nodes) : patch.nodes[i] \in Objects
         /\ GraphInv(graph) /\ GraphInv(scratch) /\ graph \in Graph /\ scratch \in Graph
<1>1. /\ GraphInv(graph) /\ GraphInv(scratch) /\ RefsExist(graph) /\ RefsExist(scratch)
      /\ graph \in Graph /\ scratch \in Graph
  BY DEF SessionInv, Following, GraphInv
<1>2. \A o : o \in Objects <=> \/ \E n \in NodeId : HasNode(graph, n) /\ o = graph.nodes[n]
                               \/ \E n \in NodeId : HasNode(scratch, n) /\ o = scratch.nodes[n]
                               \/ \E i \in 1 .. Len(patch.nodes) : o = patch.nodes[i]
  BY DEF Objects, NodeIds
<1>3. ASSUME NEW g, GraphInv(g), RefsExist(g), NEW n \in NodeId, HasNode(g, n)
      PROVE  g.nodes[n] \in NodeObject /\ g.nodes[n].id = n /\ g.nodes[n].ref \in 1 .. nodeCount
  BY <1>3 DEF GraphInv, Graph, Keyed, RefsExist, HasNode
<1>4. \A n \in NodeId : HasNode(graph, n) \/ (\E i \in 1 .. Len(patch.nodes) : patch.nodes[i].id = n) => HasNode(scratch, n)
  BY DEF Following, NodesFollow
<1>5. \A i \in 1 .. Len(patch.nodes) : patch.nodes[i].id \in NodeId
  BY PatchFacts DEF NodeObject
<1>6. ASSUME NEW o \in Objects
      PROVE  o \in NodeObject /\ o.ref \in 1 .. nodeCount /\ HasNode(scratch, o.id)
  <2>1. CASE \E n \in NodeId : HasNode(graph, n) /\ o = graph.nodes[n]
    BY <1>1, <1>3, <1>4, <2>1
  <2>2. CASE \E n \in NodeId : HasNode(scratch, n) /\ o = scratch.nodes[n]
    BY <1>1, <1>3, <2>2
  <2>3. CASE \E i \in 1 .. Len(patch.nodes) : o = patch.nodes[i]
    BY <1>4, <1>5, <2>3, PatchFacts
  <2> QED BY <1>2, <2>1, <2>2, <2>3
<1>7. \A n \in NodeId : HasNode(graph, n) => graph.nodes[n] \in Objects /\ graph.nodes[n].id = n /\ HasNode(scratch, n)
  BY <1>1, <1>2, <1>3, <1>4
<1>8. \A n \in NodeId : HasNode(scratch, n) => scratch.nodes[n] \in Objects /\ scratch.nodes[n].id = n
  BY <1>1, <1>2, <1>3
<1>9. \A i \in 1 .. Len(patch.nodes) : patch.nodes[i] \in Objects
  BY DEF Objects
<1>10. \A o \in Objects : o \in NodeObject /\ o.ref \in 1 .. nodeCount /\ HasNode(scratch, o.id)
  BY <1>6
<1> QED BY <1>1, <1>2, <1>7, <1>8, <1>9, <1>10

\* As long as nothing was removed the recorder shares all its attributes with the copy.
LEMMA SharedWrite ==
  ASSUME NEW r \in Graph, rebound = {}, dryRun, Write(r, rebound)
  PROVE  /\ recorder' = r /\ scratch' = r /\ graph' = graph /\ rebound' = {}
         /\ UNCHANGED <<phase, dryRun, done, replayOk>>
<1>1. Through(scratch, r, {}) = r
  BY DEF Through, Graph
<1> QED BY <1>1 DEF Write

\* A node recorded: its object is new, and equal to the one it replaces.
LEMMA RecordNodeFollows ==
  ASSUME FaithInv, SessionInv', NEW n \in NodeId, NEW type \in NodeType, NEW m \in Metadata, RecordNode(n, type, m),
         Following, dryRun
  PROVE  Following'
<1> DEFINE o == [ref |-> nodeCount + 1, id |-> n, type |-> type]
           L == Len(patch.nodes)
<1>0. /\ SessionInv /\ phase = "recording" /\ nodeCount' = nodeCount + 1 /\ nodeCount \in Nat /\ nodeCount + 1 \in 1 .. MaxNodes
      /\ L \in Nat /\ patch.nodes \in Seq(NodeObject) /\ edgeCount' = edgeCount
      /\ meta \in [1 .. MaxNodes -> Metadata] /\ meta' = [meta EXCEPT ![nodeCount + 1] = m]
      /\ ~ConflictsWith(scratch, meta, n, type, m)
      /\ \A list \in PatchLists : done[list] = 0
  BY PatchFacts DEF FaithInv, RecordNode, Following
<1>1. o \in NodeObject /\ o.ref = nodeCount + 1 /\ o.id = n /\ o.type = type
  BY <1>0 DEF NodeObject
<1>2. /\ Write(PutNode(scratch, o), rebound) /\ patch' = [patch EXCEPT !.nodes = Append(@, o)]
  BY DEF RecordNode, Following
<1> HIDE DEF o
<1>3. /\ GraphInv(scratch) /\ scratch \in Graph /\ GraphInv(graph) /\ graph \in Graph /\ rebound = {}
  BY <1>0, ObjectFacts DEF Following
<1>4. /\ scratch' = PutNode(scratch, o) /\ recorder' = scratch' /\ graph' = graph /\ rebound' = {}
      /\ phase' = phase /\ dryRun' = dryRun /\ done' = done
  <2>1. HasNode(scratch, o.id) => scratch.nodes[o.id].type = o.type
    BY <1>0, <1>1 DEF ConflictsWith
  <2>2. PutNode(scratch, o) \in Graph
    BY <1>1, <1>3, <2>1, PutNodeInv DEF GraphInv
  <2> QED BY <1>2, <1>3, <2>2, SharedWrite
<1>5. /\ scratch'.nodes = [scratch.nodes EXCEPT ![n] = o] /\ scratch'.edges = scratch.edges
      /\ scratch'.nodes[n] = o /\ \A x \in NodeId : x # n => scratch'.nodes[x] = scratch.nodes[x]
      /\ \A x \in NodeId : HasNode(scratch', x) <=> x = n \/ HasNode(scratch, x)
  <2>1. scratch'.nodes = [scratch.nodes EXCEPT ![n] = o] /\ scratch'.edges = scratch.edges
    BY <1>1, <1>3, <1>4, PutNodeNodes
  <2>2. o # NoNode
    BY <1>1
  <2> QED BY <1>3, <2>1, <2>2 DEF Graph, HasNode
<1>6. /\ patch'.nodes = Append(patch.nodes, o) /\ patch'.edges = patch.edges /\ patch'.updates = patch.updates
      /\ Len(patch'.nodes) = L + 1 /\ patch'.nodes[L + 1] = o
      /\ \A i \in 1 .. L : patch'.nodes[i] = patch.nodes[i]
  <2>1. patch'.nodes = Append(patch.nodes, o) /\ patch'.edges = patch.edges /\ patch'.updates = patch.updates
    BY <1>0, <1>2, PatchFacts DEF Patches
  <2> QED BY <1>0, <1>1, <2>1
<1>7. ASSUME NEW q \in Objects'
      PROVE  q \in Objects \/ q = o
  <2>1. CASE \E x \in NodeId : HasNode(graph, x) /\ q = graph.nodes[x]
    BY <1>0, <2>1, ObjectFacts
  <2>2. CASE \E x \in NodeId : HasNode(scratch', x) /\ q = scratch'.nodes[x]
    BY <1>0, <1>5, <2>2, ObjectFacts
  <2>3. CASE \E i \in 1 .. L + 1 : q = patch'.nodes[i]
    <3>1. PICK i \in 1 .. L + 1 : q = patch'.nodes[i]
      BY <2>3
    <3>2. CASE i = L + 1
      BY <1>6, <3>1, <3>2
    <3>3. CASE i \in 1 .. L
      <4>1. q = patch.nodes[i]
        BY <1>6, <3>1, <3>3
      <4> QED BY <1>0, <3>3, <4>1, ObjectFacts
    <3> QED BY <1>0, <3>2, <3>3
  <2> QED BY <1>4, <1>6, <2>1, <2>2, <2>3 DEF Objects, NodeIds
<1>8. \A q \in Objects : q \in NodeObject /\ q.ref \in 1 .. nodeCount /\ HasNode(scratch, q.id)
                         /\ q.ref # o.ref /\ q.ref # nodeCount + 1 /\ q.ref \in 1 .. MaxNodes
  BY <1>0, <1>1, ObjectFacts
<1>9. OneObjectPerRef'
  BY <1>7, <1>8 DEF Following, OneObjectPerRef
<1>10. NodesFollow'
  <2>0. /\ done.nodes = 0 /\ done'.nodes = 0 /\ NodesFollow
    BY <1>0, <1>4 DEF PatchLists, Following
  <2>1. ASSUME NEW x \in NodeId
        PROVE  (\E i \in 1 .. L + 1 : patch'.nodes[i].id = x) <=> x = n \/ \E i \in 1 .. L : patch.nodes[i].id = x
    BY <1>0, <1>1, <1>6
  <2>2. \A x \in NodeId : HasNode(scratch', x) <=>
                         HasNode(graph', x) \/ \E i \in 1 .. Len(patch'.nodes) : patch'.nodes[i].id = x
    BY <1>4, <1>5, <1>6, <2>0, <2>1 DEF NodesFollow
  <2>3. \A i \in 1 .. done'.nodes : HasNode(graph', patch'.nodes[i].id)
    BY <2>0
  <2> QED BY <2>2, <2>3 DEF NodesFollow
<1>11. EdgesFollow'
  BY <1>0, <1>4, <1>5, <1>6 DEF Following, EdgesFollow, OldEdges, Alike, PendingEdges
<1>12. EndsExist'
  <2>1. \A i \in 1 .. Len(patch.edges) : patch.edges[i] \in NodeId \X NodeId \X Relation
    BY <1>0, PatchFacts
  <2>2. \A j \in 1 .. Len(patch.updates) : patch.updates[j] \in NodeId \X MetaKey \X MetaValue
    BY <1>0, PatchFacts
  <2>3. /\ \A i \in 1 .. Len(patch.edges) : patch.edges[i][1] \in NodeId /\ patch.edges[i][2] \in NodeId
        /\ \A j \in 1 .. Len(patch.updates) : patch.updates[j][1] \in NodeId
    BY <2>1, <2>2
  <2> QED BY <1>5, <1>6, <2>3 DEF Following, EndsExist
<1>13. MetaFollows'
  <2>0. done'.updates = 0 /\ done.updates = 0 /\ MetaFollows
    BY <1>0, <1>4 DEF PatchLists, Following
  <2>1. /\ \A x, k : Pending(x, k)' = Pending(x, k)
        /\ \A q \in Objects : meta'[q.ref] = meta[q.ref]
        /\ meta'[o.ref] = m
    BY <1>0, <1>1, <1>4, <1>6, <1>8 DEF Pending
  <2>2. ASSUME NEW q \in Objects, q.id = n
        PROVE  q.type = o.type /\ \A k \in MetaKey : Pending(n, k) = {} => meta[q.ref][k] = m[k]
    <3>1. HasNode(scratch, n) /\ scratch.nodes[n] \in Objects /\ scratch.nodes[n].id = n
      BY <1>0, <1>8, <2>2, ObjectFacts
    <3>2. scratch.nodes[n].type = type /\ meta[scratch.nodes[n].ref] = m
      BY <1>0, <3>1 DEF ConflictsWith
    <3> QED BY <1>1, <2>0, <2>2, <3>1, <3>2 DEF MetaFollows, TypesAgree, Untouched
  <2>3. TypesAgree'
    BY <1>1, <1>7, <2>0, <2>2 DEF MetaFollows, TypesAgree
  <2>4. ASSUME NEW q1 \in Objects', NEW q2 \in Objects', q1.id = q2.id, NEW k \in MetaKey, Pending(q1.id, k) = {}
        PROVE  meta'[q1.ref][k] = meta'[q2.ref][k]
    <3>1. CASE q1 \in Objects /\ q2 \in Objects
      BY <2>0, <2>1, <2>4, <3>1 DEF MetaFollows, Untouched
    <3>2. CASE q1 = o /\ q2 \in Objects
      BY <1>1, <2>1, <2>2, <2>4, <3>2
    <3>3. CASE q2 = o /\ q1 \in Objects
      BY <1>1, <2>1, <2>2, <2>4, <3>3
    <3> QED BY <1>7, <3>1, <3>2, <3>3
  <2>5. ASSUME NEW x \in NodeId, HasNode(scratch', x), NEW k \in MetaKey, Pending(x, k) # {}
        PROVE  HasLast(x, k)'
    <3>1. HasNode(scratch, x)
      <4>1. PICK j \in Pending(x, k) : TRUE
        BY <2>5
      <4>2. j \in 1 .. Len(patch.updates) /\ patch.updates[j][1] = x
        BY <2>0, <4>1 DEF Pending
      <4> QED BY <4>2 DEF Following, EndsExist
    <3>2. HasLast(x, k)
      BY <2>0, <2>5, <3>1 DEF MetaFollows, Untouched
    <3>3. scratch.nodes[x] \in Objects
      BY <1>0, <3>1, ObjectFacts
    <3>4. meta'[scratch'.nodes[x].ref] = meta[scratch.nodes[x].ref]
      <4>1. CASE x = n
        <5>1. meta[scratch.nodes[n].ref] = m
          BY <1>0, <3>1, <4>1 DEF ConflictsWith
        <5> QED BY <1>1, <1>5, <2>1, <4>1, <5>1
      <4>2. CASE x # n
        BY <1>5, <2>1, <3>3, <4>2
      <4> QED BY <4>1, <4>2
    <3> QED BY <1>6, <2>1, <3>2, <3>4 DEF HasLast
  <2>6. Untouched'
    BY <2>1, <2>4, <2>5 DEF Untouched
  <2> QED BY <2>0, <2>3, <2>6 DEF MetaFollows
<1> QED BY <1>0, <1>4, <1>9, <1>10, <1>11, <1>12, <1>13 DEF Following

\* A new edge adds one to the edges of its kind and none to the others.
LEMMA AlikeGrows ==
  ASSUME NEW g, NEW h, NEW e, IsFiniteSet(g.edges), e \notin g.edges, h.edges = g.edges \cup {e}, NEW s
  PROVE  /\ IsFiniteSet(h.edges) /\ Cardinality(Alike(g, s)) \in Nat
         /\ <<e.source, e.target, e.relation>> = s => Cardinality(Alike(h, s)) = Cardinality(Alike(g, s)) + 1
         /\ <<e.source, e.target, e.relation>> # s => Alike(h, s) = Alike(g, s)
<1>1. Alike(g, s) \in SUBSET g.edges /\ e \notin Alike(g, s)
  BY DEF Alike
<1>2. IsFiniteSet(Alike(g, s)) /\ Cardinality(Alike(g, s)) \in Nat
  BY <1>1, FS_Subset, FS_CardinalityType
<1>3. CASE <<e.source, e.target, e.relation>> = s
  <2>1. Alike(h, s) = Alike(g, s) \cup {e}
    BY <1>3 DEF Alike
  <2>2. Cardinality(Alike(h, s)) = Cardinality(Alike(g, s)) + 1
    BY <1>1, <1>2, <2>1, FS_AddElement
  <2>3. IsFiniteSet(h.edges)
    BY FS_AddElement
  <2> QED BY <1>2, <1>3, <2>2, <2>3
<1>4. CASE <<e.source, e.target, e.relation>> # s
  BY <1>2, <1>4, FS_AddElement DEF Alike
<1> QED BY <1>3, <1>4, FS_AddElement

\* The pending edges of a kind are finitely many.
LEMMA PendingFinite ==
  ASSUME SessionInv, NEW s
  PROVE  IsFiniteSet(PendingEdges(s)) /\ Cardinality(PendingEdges(s)) \in Nat
<1>1. IsFiniteSet(done.edges + 1 .. Len(patch.edges))
  <2>1. done.edges + 1 \in Int /\ Len(patch.edges) \in Int
    BY PatchFacts
  <2> QED BY <2>1, FS_Interval
<1>2. PendingEdges(s) \in SUBSET (done.edges + 1 .. Len(patch.edges))
  BY DEF PendingEdges
<1> QED BY <1>1, <1>2, FS_Subset, FS_CardinalityType

\* An edge recorded: one more of its kind in the copy, and one more to be replayed.
LEMMA RecordEdgeFollows ==
  ASSUME FaithInv, SessionInv', NEW source \in NodeId, NEW t \in NodeId, NEW relation \in Relation,
         RecordEdge(source, t, relation), Following, dryRun
  PROVE  Following'
<1> DEFINE e == [no |-> edgeCount + 1, source |-> source, target |-> t, relation |-> relation]
           x == <<source, t, relation>>
           L == Len(patch.edges)
<1>0. /\ SessionInv /\ phase = "recording" /\ edgeCount' = edgeCount + 1 /\ edgeCount \in Nat
      /\ L \in Nat /\ patch.edges \in Seq(NodeId \X NodeId \X Relation) /\ meta' = meta /\ nodeCount' = nodeCount
      /\ HasNode(scratch, source) /\ HasNode(scratch, t)
      /\ \A list \in PatchLists : done[list] = 0
  BY PatchFacts DEF FaithInv, RecordEdge, Following, CanAddEdge
<1>1. e \in EdgeObject /\ e.no = edgeCount + 1 /\ <<e.source, e.target, e.relation>> = x
      /\ e.source = source /\ e.target = t
  BY <1>0 DEF EdgeObject
<1>2. /\ Write(PutEdge(scratch, e), rebound) /\ patch' = [patch EXCEPT !.edges = Append(@, x)]
  BY <1>0 DEF RecordEdge, Following
<1> HIDE DEF e
<1>3. /\ GraphInv(scratch) /\ scratch \in Graph /\ graph \in Graph /\ rebound = {}
  BY <1>0, ObjectFacts DEF Following
<1>4. /\ scratch' = PutEdge(scratch, e) /\ recorder' = scratch' /\ graph' = graph /\ rebound' = {}
      /\ phase' = phase /\ dryRun' = dryRun /\ done' = done
  <2>1. PutEdge(scratch, e) \in Graph
    BY <1>0, <1>1, <1>3, PutEdgeInv DEF GraphInv, CanAddEdge
  <2> QED BY <1>2, <1>3, <2>1, SharedWrite
<1>5. scratch'.nodes = scratch.nodes /\ scratch'.edges = scratch.edges \cup {e}
  BY <1>3, <1>4, PutEdgeNodes
<1>6. /\ patch'.nodes = patch.nodes /\ patch'.edges = Append(patch.edges, x) /\ patch'.updates = patch.updates
  BY <1>0, <1>2, PatchFacts DEF Patches
<1>7. /\ Len(patch'.edges) = L + 1 /\ patch'.edges[L + 1] = x
      /\ \A i \in 1 .. L : patch'.edges[i] = patch.edges[i]
  BY <1>0, <1>6
<1>8. OneObjectPerRef' /\ NodesFollow'
  BY <1>4, <1>5, <1>6 DEF Following, OneObjectPerRef, Objects, NodeIds, HasNode, NodesFollow
<1>9. MetaFollows'
  <2>1. /\ Objects' = Objects
        /\ \A m, k : Pending(m, k)' = Pending(m, k) /\ HasLast(m, k)' = HasLast(m, k)
        /\ \A m : HasNode(scratch', m) = HasNode(scratch, m)
    BY <1>0, <1>4, <1>5, <1>6 DEF Objects, NodeIds, HasNode, Pending, HasLast
  <2>2. done.updates = 0 /\ MetaFollows /\ done'.updates = 0
    BY <1>0, <1>4 DEF Following, PatchLists
  <2>3. TypesAgree' /\ Untouched'
    BY <1>0, <2>1, <2>2 DEF MetaFollows, TypesAgree, Untouched
  <2> QED BY <2>2, <2>3 DEF MetaFollows
<1>10. EdgesFollow'
  <2>0. OldEdges(graph) /\ OldEdges(scratch) /\ \A f \in graph.edges \cup scratch.edges : f.no \in Nat
    BY <1>3 DEF Following, EdgesFollow, Graph, EdgeObject
  <2>1. e \notin scratch.edges /\ e.no <= edgeCount + 1
    BY <1>0, <1>1, <2>0 DEF OldEdges
  <2>2. OldEdges(graph)' /\ OldEdges(scratch)'
    <3>1. IsFiniteSet(scratch'.edges)
      BY <1>5, <2>0, FS_AddElement DEF OldEdges
    <3> QED BY <1>0, <1>4, <1>5, <2>0, <2>1, <3>1 DEF OldEdges
  <2>3. \A s : /\ <<e.source, e.target, e.relation>> = s => Cardinality(Alike(scratch', s)) = Cardinality(Alike(scratch, s)) + 1
               /\ <<e.source, e.target, e.relation>> # s => Alike(scratch', s) = Alike(scratch, s)
    <3>1. IsFiniteSet(scratch.edges)
      BY <2>0 DEF OldEdges
    <3> QED BY <1>5, <2>1, <3>1, AlikeGrows
  <2>4. ASSUME NEW s \in NodeId \X NodeId \X Relation
        PROVE  Cardinality(Alike(scratch', s)) = Cardinality(Alike(graph, s)) + Cardinality(PendingEdges(s)')
    <3>1. Cardinality(Alike(scratch, s)) = Cardinality(Alike(graph, s)) + Cardinality(PendingEdges(s))
      BY DEF Following, EdgesFollow
    <3>2. done.edges = 0 /\ done'.edges = 0
      BY <1>0, <1>4 DEF PatchLists
    <3>3. IsFiniteSet(PendingEdges(s)) /\ Cardinality(PendingEdges(s)) \in Nat
      BY <1>0, PendingFinite
    <3>4. /\ PendingEdges(s) = {i \in 1 .. L : patch.edges[i] = s}
          /\ PendingEdges(s)' = {i \in 1 .. L + 1 : patch'.edges[i] = s}
          /\ \A i : i \in 1 .. L + 1 <=> i \in 1 .. L \/ i = L + 1
          /\ L + 1 \notin PendingEdges(s)
      BY <1>0, <1>7, <3>2 DEF PendingEdges
    <3>5. Cardinality(Alike(graph, s)) \in Nat
      <4>1. Alike(graph, s) \in SUBSET graph.edges
        BY DEF Alike
      <4> QED BY <2>0, <4>1, FS_Subset, FS_CardinalityType DEF OldEdges
    <3>6. CASE x = s
      <4>1. PendingEdges(s)' = PendingEdges(s) \cup {L + 1}
        BY <1>7, <3>4, <3>6
      <4>2. Cardinality(PendingEdges(s)') = Cardinality(PendingEdges(s)) + 1
        BY <3>3, <3>4, <4>1, FS_AddElement
      <4>3. Cardinality(Alike(scratch', s)) = Cardinality(Alike(scratch, s)) + 1
        BY <1>1, <2>3, <3>6
      <4> QED BY <3>1, <3>3, <3>5, <4>2, <4>3
    <3>7. CASE x # s
      <4>1. PendingEdges(s)' = PendingEdges(s)
        BY <1>7, <3>4, <3>7
      <4>2. Alike(scratch', s) = Alike(scratch, s)
        BY <1>1, <2>3, <3>7
      <4> QED BY <3>1, <4>1, <4>2
    <3> QED BY <3>6, <3>7
  <2> QED BY <1>4, <2>2, <2>4 DEF EdgesFollow, Alike
<1>11. EndsExist'
  <2>1. ASSUME NEW i \in 1 .. L + 1
        PROVE  HasNode(scratch', patch'.edges[i][1]) /\ HasNode(scratch', patch'.edges[i][2])
    <3>1. CASE i = L + 1
      BY <1>0, <1>5, <1>7, <3>1 DEF HasNode
    <3>2. CASE i \in 1 .. L
      <4> DEFINE y == patch.edges[i]
      <4>1. patch'.edges[i] = y
        BY <1>7, <3>2
      <4>2. HasNode(scratch, y[1]) /\ HasNode(scratch, y[2])
        BY <3>2 DEF Following, EndsExist
      <4> HIDE DEF y
      <4>3. HasNode(scratch', y[1]) /\ HasNode(scratch', y[2])
        BY <1>5, <4>2 DEF HasNode
      <4> QED BY <4>1, <4>3
    <3>3. L \in Nat
      BY <1>0
    <3> HIDE DEF L
    <3>4. i = L + 1 \/ i \in 1 .. L
      BY <3>3
    <3> QED BY <3>1, <3>2, <3>4
  <2> QED BY <1>5, <1>6, <1>7, <2>1 DEF Following, EndsExist, HasNode
<1> QED BY <1>0, <1>4, <1>8, <1>9, <1>10, <1>11 DEF Following

\* Metadata recorded: only the copy's object changes, and the update is the last of its key.
LEMMA RecordUpdateFollows ==
  ASSUME FaithInv, SessionInv', NEW n \in NodeId, NEW k \in MetaKey, NEW v \in MetaValue, RecordUpdate(n, k, v),
         Following, dryRun
  PROVE  Following'
<1> DEFINE x == <<n, k, v>>
           L == Len(patch.updates)
           r == scratch.nodes[n].ref
<1>0. /\ SessionInv /\ phase = "recording" /\ L \in Nat /\ patch.updates \in Seq(NodeId \X MetaKey \X MetaValue)
      /\ HasNode(scratch, n) /\ meta' = [meta EXCEPT ![r][k] = v]
      /\ patch' = [patch EXCEPT !.updates = Append(@, x)]
      /\ UNCHANGED <<graph, nodeCount, edgeCount, phase, dryRun, scratch, recorder, rebound, removed, done, replayOk>>
      /\ meta \in [1 .. MaxNodes -> Metadata] /\ nodeCount <= MaxNodes /\ nodeCount \in Nat
      /\ \A list \in PatchLists : done[list] = 0
  BY PatchFacts DEF FaithInv, RecordUpdate, Following
<1>1. /\ patch'.nodes = patch.nodes /\ patch'.edges = patch.edges /\ patch'.updates = Append(patch.updates, x)
  BY <1>0, PatchFacts DEF Patches
<1>2. /\ Len(patch'.updates) = L + 1 /\ patch'.updates[L + 1] = x
      /\ \A i \in 1 .. L : patch'.updates[i] = patch.updates[i]
  BY <1>0, <1>1
<1>3. OneObjectPerRef' /\ NodesFollow' /\ EdgesFollow' /\ TypesAgree' /\ Objects' = Objects
  <2>1. Objects' = Objects
    BY <1>0, <1>1 DEF Objects, NodeIds
  <2>2. NodesFollow'
    BY <1>0, <1>1 DEF Following, NodesFollow
  <2>3. EdgesFollow'
    BY <1>0, <1>1 DEF Following, EdgesFollow, PendingEdges, OldEdges
  <2> QED BY <2>1, <2>2, <2>3 DEF Following, OneObjectPerRef, MetaFollows, TypesAgree
<1>4. EndsExist'
  <2>1. ASSUME NEW i \in 1 .. L + 1
        PROVE  HasNode(scratch, patch'.updates[i][1])
    <3>1. CASE i = L + 1
      BY <1>0, <1>2, <3>1
    <3>2. CASE i \in 1 .. L
      BY <1>2, <3>2 DEF Following, EndsExist
    <3> QED BY <1>0, <3>1, <3>2
  <2> QED BY <1>0, <1>1, <1>2, <2>1 DEF Following, EndsExist
<1>5. done.updates = 0 /\ done'.updates = 0 /\ MetaFollows
  BY <1>0 DEF PatchLists, Following
<1>6. ASSUME NEW m \in NodeId, NEW q \in MetaKey
      PROVE  /\ (m = n /\ q = k) => Pending(m, q)' = Pending(m, q) \cup {L + 1} /\ \A i \in Pending(m, q) : i <= L + 1
             /\ ~(m = n /\ q = k) => Pending(m, q)' = Pending(m, q)
             /\ \A i \in Pending(m, q) : patch'.updates[i] = patch.updates[i]
  <2>1. x[1] = n /\ x[2] = k
    OBVIOUS
  <2> HIDE DEF x
  <2>2. /\ Pending(m, q) = {j \in 1 .. L : patch.updates[j][1] = m /\ patch.updates[j][2] = q}
        /\ Pending(m, q)' = {j \in 1 .. L + 1 : patch'.updates[j][1] = m /\ patch'.updates[j][2] = q}
    BY <1>2, <1>5 DEF Pending
  <2>3. \A j : j \in 1 .. L + 1 <=> j \in 1 .. L \/ j = L + 1
    BY <1>0
  <2>4. CASE m = n /\ q = k
    <3>1. Pending(m, q)' = Pending(m, q) \cup {L + 1}
      BY <1>2, <2>1, <2>2, <2>3, <2>4
    <3> QED BY <1>0, <1>2, <2>2, <2>4, <3>1
  <2>5. CASE ~(m = n /\ q = k)
    <3>1. Pending(m, q)' = Pending(m, q)
      BY <1>2, <2>1, <2>2, <2>3, <2>5
    <3> QED BY <1>2, <2>2, <2>5, <3>1
  <2> QED BY <2>4, <2>5
<1>7. ASSUME NEW o \in Objects, NEW q \in MetaKey, ~(o.id = n /\ q = k)
      PROVE  meta'[o.ref][q] = meta[o.ref][q]
  <2>1. /\ scratch.nodes[n] \in Objects /\ scratch.nodes[n].id = n /\ o.ref \in 1 .. nodeCount /\ r \in 1 .. nodeCount
    BY <1>0, ObjectFacts
  <2>2. o.ref = r => o.id = n
    BY <2>1 DEF Following, OneObjectPerRef
  <2>3. meta[r] \in Metadata /\ o.ref \in 1 .. MaxNodes
    BY <1>0, <2>1
  <2> QED BY <1>0, <1>7, <2>2, <2>3 DEF Metadata
<1>8. Untouched'
  <2>1. ASSUME NEW o1 \in Objects, NEW o2 \in Objects, o1.id = o2.id, NEW q \in MetaKey, Pending(o1.id, q)' = {}
        PROVE  meta'[o1.ref][q] = meta'[o2.ref][q]
    <3>1. o1.id \in NodeId
      BY <1>0, ObjectFacts DEF NodeObject
    <3>2. ~(o1.id = n /\ q = k) /\ Pending(o1.id, q) = {}
      BY <1>6, <2>1, <3>1
    <3>3. meta[o1.ref][q] = meta[o2.ref][q]
      BY <1>5, <2>1, <3>2 DEF MetaFollows, Untouched
    <3> QED BY <1>7, <2>1, <3>2, <3>3
  <2>2. ASSUME NEW m \in NodeId, HasNode(scratch, m), NEW q \in MetaKey, Pending(m, q)' # {}
        PROVE  HasLast(m, q)'
    <3>1. CASE m = n /\ q = k
      <4>1. L + 1 \in Pending(m, q)' /\ \A i \in Pending(m, q)' : i <= L + 1
        BY <1>0, <1>6, <3>1
      <4>2. r \in 1 .. MaxNodes
        BY <1>0, ObjectFacts
      <4>3. meta'[r][k] = v
        BY <1>0, <4>2 DEF Metadata
      <4>4. patch'.updates[L + 1][3] = v
        BY <1>2
      <4> QED BY <1>0, <3>1, <4>1, <4>3, <4>4 DEF HasLast
    <3>2. CASE ~(m = n /\ q = k)
      <4>1. Pending(m, q)' = Pending(m, q) /\ \A i \in Pending(m, q) : patch'.updates[i] = patch.updates[i]
        BY <1>6, <3>2
      <4>2. HasLast(m, q)
        BY <1>5, <2>2, <4>1 DEF MetaFollows, Untouched
      <4>3. meta'[scratch.nodes[m].ref][q] = meta[scratch.nodes[m].ref][q]
        BY <1>0, <1>7, <2>2, <3>2, ObjectFacts
      <4> QED BY <1>0, <4>1, <4>2, <4>3 DEF HasLast
    <3> QED BY <3>1, <3>2
  <2> QED BY <1>0, <1>3, <2>1, <2>2 DEF Untouched
<1> QED BY <1>0, <1>3, <1>4, <1>5, <1>8 DEF Following, MetaFollows

\* Once the nodes are replayed, the original has all the nodes of the copy.
LEMMA NodesThrough ==
  ASSUME SessionInv, dryRun, Following, done.nodes = Len(patch.nodes)
  PROVE  \A n \in NodeId : HasNode(graph, n) <=> HasNode(scratch, n)
  BY DEF Following, NodesFollow

\* Before an update is replayed, the copy is ahead of the original by the updates only.
LEMMA AheadByUpdates ==
  ASSUME SessionInv, dryRun, Following
  PROVE  CatchingUp
<1>1. done.updates \in Nat
  BY PatchFacts
<1>2. CASE done.updates > 0
  BY <1>2 DEF Following, MetaFollows
<1>3. CASE done.updates = 0
  BY <1>3, ObjectFacts DEF Following, MetaFollows, Untouched, CatchingUp
<1> QED BY <1>1, <1>2, <1>3

\* A node replayed, or the replay given up because the node was updated in the session.
LEMMA ReplayNodeFollows ==
  ASSUME FaithInv, SessionInv', ReplayNode, Following, dryRun
  PROVE  /\ phase' = "replaying" => Following' /\ replayOk' = replayOk
         /\ phase' = "replayed" => ReplayIsFaithful'
         /\ phase' \in {"replaying", "replayed"}
<1> DEFINE d == done.nodes
           o == patch.nodes[d + 1]
           raises == ConflictsWith(graph, meta, o.id, o.type, meta[o.ref])
<1>0. /\ SessionInv /\ phase = "replaying" /\ d \in Nat /\ d + 1 \in 1 .. Len(patch.nodes) /\ Len(patch.nodes) \in Nat
      /\ patch.updates \in Seq(NodeId \X MetaKey \X MetaValue) /\ meta \in [1 .. MaxNodes -> Metadata]
      /\ UNCHANGED <<meta, edgeCount, nodeCount, dryRun, scratch, recorder, rebound, patch, removed>>
      /\ nodeCount \in Nat /\ nodeCount <= MaxNodes
  BY PatchFacts DEF FaithInv, ReplayNode, Turn
<1>1. o \in Objects /\ o \in NodeObject /\ o.ref \in 1 .. nodeCount /\ graph \in Graph /\ GraphInv(graph)
  BY <1>0, ObjectFacts
<1>2. done.updates = 0 /\ MetaFollows
  BY <1>0, PatchFacts DEF Following, MetaFollows
<1>3. /\ raises => phase' = "replayed" /\ replayOk' = FALSE /\ graph' = graph
      /\ ~raises => phase' = "replaying" /\ replayOk' = replayOk /\ done' = [done EXCEPT !["nodes"] = d + 1] /\ graph' = PutNode(graph, o)
  BY <1>0 DEF ReplayNode, Turn, Entry
<1>4. CASE raises
  <2> HIDE DEF o
  <2>1. HasNode(graph, o.id) /\ ~(graph.nodes[o.id].type = o.type /\ meta[graph.nodes[o.id].ref] = meta[o.ref])
    BY <1>4 DEF ConflictsWith
  <2>2. graph.nodes[o.id] \in Objects /\ graph.nodes[o.id].id = o.id /\ o.id \in NodeId /\ graph.nodes[o.id].ref \in 1 .. nodeCount
    BY <1>0, <1>1, <2>1, ObjectFacts DEF NodeObject
  <2>3. graph.nodes[o.id].type = o.type
    BY <1>1, <1>2, <2>2 DEF MetaFollows, TypesAgree
  <2>4. \E k \in MetaKey : meta[graph.nodes[o.id].ref][k] # meta[o.ref][k]
    <3> DEFINE a == meta[graph.nodes[o.id].ref]
               b == meta[o.ref]
    <3>1. a # b
      BY <2>1, <2>3
    <3>2. graph.nodes[o.id].ref \in 1 .. MaxNodes /\ o.ref \in 1 .. MaxNodes
      BY <1>0, <1>1, <2>2
    <3>3. a \in Metadata /\ b \in Metadata
      BY <1>0, <3>2
    <3> HIDE DEF a, b
    <3>4. \E k \in MetaKey : a[k] # b[k]
      BY <3>1, <3>3 DEF Metadata
    <3> QED BY <3>4 DEF a, b
  <2>5. PICK k \in MetaKey : Pending(o.id, k) # {}
    BY <1>1, <1>2, <2>2, <2>4 DEF MetaFollows, Untouched
  <2>6. \E j \in 1 .. Len(patch.updates) : patch.updates[j][1] = o.id
    BY <1>2, <2>5 DEF Pending
  <2>7. graph.nodes[o.id] # o
    BY <2>1
  <2>8. patch.nodes \in Seq(NodeObject) /\ DOMAIN patch.nodes = 1 .. Len(patch.nodes) /\ DOMAIN patch.updates = 1 .. Len(patch.updates)
    BY <1>0, PatchFacts
  <2>9. \E i \in DOMAIN patch.nodes, j \in DOMAIN patch.updates :
          /\ patch.nodes[i].id = patch.updates[j][1]
          /\ HasNode(graph, patch.nodes[i].id) /\ graph.nodes[patch.nodes[i].id] # patch.nodes[i]
    BY <1>0, <2>1, <2>6, <2>7, <2>8 DEF o
  <2> QED BY <1>0, <1>3, <1>4, <2>9 DEF ReplayIsFaithful, ReplayReproduces, ReplayRaisesOnlyOnReAdd
<1>5. CASE ~raises
  <2>1. /\ graph'.nodes = [graph.nodes EXCEPT ![o.id] = o] /\ graph'.edges = graph.edges /\ o # NoNode /\ o.id \in NodeId
        /\ done'.nodes = d + 1 /\ done'.updates = done.updates /\ done'.edges = done.edges
    <3>1. done \in [PatchLists -> Nat]
      BY <1>0, PatchFacts
    <3>2. done'.nodes = d + 1 /\ done'.updates = done.updates /\ done'.edges = done.edges
      BY <1>3, <1>5, <3>1 DEF PatchLists
    <3> HIDE DEF o, raises
    <3>3. graph'.nodes = [graph.nodes EXCEPT ![o.id] = o] /\ graph'.edges = graph.edges
      BY <1>1, <1>3, <1>5, PutNodeNodes
    <3>4. o # NoNode /\ o.id \in NodeId
      BY <1>1 DEF NodeObject
    <3> QED BY <3>2, <3>3, <3>4
  <2> HIDE DEF o
  <2>2. /\ graph'.nodes[o.id] = o
        /\ \A x \in NodeId : x # o.id => graph'.nodes[x] = graph.nodes[x]
        /\ \A x \in NodeId : HasNode(graph', x) <=> x = o.id \/ HasNode(graph, x)
    BY <1>1, <2>1 DEF Graph, HasNode
  <2>3. ASSUME NEW q \in Objects'
        PROVE  q \in Objects
    <3>1. CASE \E x \in NodeId : HasNode(graph', x) /\ q = graph'.nodes[x]
      <4>1. PICK x \in NodeId : HasNode(graph', x) /\ q = graph'.nodes[x]
        BY <3>1
      <4>2. CASE x = o.id
        BY <1>1, <2>2, <4>1, <4>2
      <4>3. CASE x # o.id
        BY <1>0, <2>2, <4>1, <4>3, ObjectFacts
      <4> QED BY <4>2, <4>3
    <3>2. CASE \E x \in NodeId : HasNode(scratch, x) /\ q = scratch.nodes[x]
      BY <1>0, <3>2, ObjectFacts
    <3>3. CASE \E i \in 1 .. Len(patch.nodes) : q = patch.nodes[i]
      BY <1>0, <3>3, ObjectFacts
    <3> QED BY <1>0, <3>1, <3>2, <3>3 DEF Objects, NodeIds
  <2>4. OneObjectPerRef' /\ TypesAgree'
    BY <1>2, <2>3 DEF Following, OneObjectPerRef, MetaFollows, TypesAgree
  <2>5. NodesFollow'
    <3>1. \A x \in NodeId : HasNode(scratch, x) <=> HasNode(graph', x) \/ \E i \in 1 .. Len(patch.nodes) : patch.nodes[i].id = x
      BY <1>0, <2>1, <2>2 DEF Following, NodesFollow, o
    <3>2. ASSUME NEW i \in 1 .. d + 1
          PROVE  HasNode(graph', patch.nodes[i].id)
      <4>1. CASE i = d + 1
        <5>1. patch.nodes[i] = o
          BY <4>1 DEF o
        <5> QED BY <2>1, <2>2, <5>1
      <4>2. CASE i \in 1 .. d
        <5>1. HasNode(graph, patch.nodes[i].id)
          BY <4>2 DEF Following, NodesFollow
        <5>2. i \in 1 .. Len(patch.nodes)
          BY <1>0, <4>2
        <5>3. patch.nodes[i].id \in NodeId
          BY <1>0, <5>2, PatchFacts DEF NodeObject
        <5> QED BY <2>2, <5>1, <5>3
      <4> QED BY <1>0, <4>1, <4>2
    <3> QED BY <1>0, <2>1, <3>1, <3>2 DEF NodesFollow
  <2>6. EdgesFollow' /\ EndsExist'
    BY <1>0, <2>1 DEF Following, EdgesFollow, OldEdges, Alike, PendingEdges, EndsExist
  <2>7. Untouched'
    <3>1. \A n, k : Pending(n, k)' = Pending(n, k) /\ HasLast(n, k)' = HasLast(n, k)
      BY <1>0, <2>1 DEF Pending, HasLast
    <3> QED BY <1>0, <1>2, <2>3, <3>1 DEF MetaFollows, Untouched
  <2>8. MetaFollows'
    BY <1>2, <2>1, <2>4, <2>7 DEF MetaFollows
  <2> QED BY <1>0, <1>3, <1>5, <2>4, <2>5, <2>6, <2>8 DEF Following
<1> QED BY <1>4, <1>5, <1>3

\* An edge replayed: its ends are there, and one less of its kind is pending.
LEMMA ReplayEdgeFollows ==
  ASSUME FaithInv, SessionInv', ReplayEdge, Following, dryRun
  PROVE  phase' = "replaying" /\ replayOk' = replayOk /\ Following'
<1> DEFINE d == done.edges
           x == patch.edges[d + 1]
           e == [no |-> edgeCount + 1, source |-> x[1], target |-> x[2], relation |-> x[3]]
           L == Len(patch.edges)
<1>0. /\ SessionInv /\ phase = "replaying" /\ d \in Nat /\ d + 1 \in 1 .. L /\ L \in Nat /\ edgeCount \in Nat
      /\ patch.edges \in Seq(NodeId \X NodeId \X Relation) /\ done.nodes = Len(patch.nodes)
      /\ UNCHANGED <<meta, nodeCount, dryRun, scratch, recorder, rebound, patch, removed>>
      /\ graph \in Graph /\ done \in [PatchLists -> Nat]
  BY PatchFacts DEF FaithInv, ReplayEdge, Turn, IsThrough, Before
<1>1. x \in NodeId \X NodeId \X Relation /\ x[1] \in NodeId /\ x[2] \in NodeId /\ x[3] \in Relation /\ x = <<x[1], x[2], x[3]>>
  <2>1. x \in NodeId \X NodeId \X Relation
    BY <1>0
  <2> QED BY <2>1
<1>2. CanAddEdge(graph, x[1], x[2])
  BY <1>0, <1>1, NodesThrough DEF CanAddEdge, Following, EndsExist
<1>3. /\ phase' = "replaying" /\ replayOk' = replayOk /\ done' = [done EXCEPT !["edges"] = d + 1]
      /\ edgeCount' = edgeCount + 1 /\ graph' = PutEdge(graph, e)
  BY <1>0, <1>2 DEF ReplayEdge, Turn, Entry
<1>4. /\ graph'.nodes = graph.nodes /\ graph'.edges = graph.edges \cup {e} /\ e.no = edgeCount + 1
      /\ <<e.source, e.target, e.relation>> = x
      /\ done'.nodes = done.nodes /\ done'.updates = done.updates /\ done'.edges = d + 1
  BY <1>0, <1>1, <1>3, PutEdgeNodes DEF PatchLists
<1> HIDE DEF e
<1>5. OneObjectPerRef' /\ NodesFollow' /\ EndsExist'
  BY <1>0, <1>4 DEF Following, OneObjectPerRef, Objects, NodeIds, HasNode, NodesFollow, EndsExist
<1>6. MetaFollows'
  <2>1. /\ Objects' = Objects
        /\ \A m, k : Pending(m, k)' = Pending(m, k) /\ HasLast(m, k)' = HasLast(m, k)
        /\ \A m : HasNode(graph', m) = HasNode(graph, m)
    BY <1>0, <1>4 DEF Objects, NodeIds, HasNode, Pending, HasLast
  <2>2. TypesAgree' /\ (done'.updates = 0 => Untouched') /\ MetaFollows
    BY <1>0, <1>4, <2>1 DEF Following, MetaFollows, TypesAgree, Untouched
  <2>3. done'.updates > 0 => done'.nodes = Len(patch'.nodes) /\ CatchingUp'
    BY <1>0, <1>4, <2>1, <2>2 DEF MetaFollows, CatchingUp
  <2> QED BY <2>2, <2>3 DEF MetaFollows
<1>7. EdgesFollow'
  <2>0. OldEdges(graph) /\ OldEdges(scratch) /\ (\A f \in graph.edges \cup scratch.edges : f.no \in Nat)
        /\ IsFiniteSet(graph.edges) /\ scratch \in Graph
    BY <1>0, PatchFacts DEF Following, EdgesFollow, Graph, EdgeObject, OldEdges
  <2>1. e \notin graph.edges /\ e.no <= edgeCount + 1
    BY <1>0, <1>4, <2>0 DEF OldEdges
  <2>2. OldEdges(graph)' /\ OldEdges(scratch)'
    <3>1. IsFiniteSet(graph'.edges)
      BY <1>4, <2>0, FS_AddElement
    <3> QED BY <1>0, <1>3, <1>4, <2>0, <2>1, <3>1 DEF OldEdges
  <2>3. \A s : /\ <<e.source, e.target, e.relation>> = s => Cardinality(Alike(graph', s)) = Cardinality(Alike(graph, s)) + 1
               /\ <<e.source, e.target, e.relation>> # s => Alike(graph', s) = Alike(graph, s)
               /\ Cardinality(Alike(graph, s)) \in Nat
    BY <1>4, <2>0, <2>1, AlikeGrows
  <2>4. ASSUME NEW s \in NodeId \X NodeId \X Relation
        PROVE  Cardinality(Alike(scratch, s)) = Cardinality(Alike(graph', s)) + Cardinality(PendingEdges(s)')
    <3>1. Cardinality(Alike(scratch, s)) = Cardinality(Alike(graph, s)) + Cardinality(PendingEdges(s))
      BY DEF Following, EdgesFollow
    <3>2. IsFiniteSet(PendingEdges(s)) /\ Cardinality(PendingEdges(s)) \in Nat
      BY <1>0, PendingFinite
    <3>3. /\ PendingEdges(s) = {i \in d + 1 .. L : patch.edges[i] = s}
          /\ PendingEdges(s)' = {i \in (d + 1) + 1 .. L : patch.edges[i] = s}
          /\ \A i : i \in d + 1 .. L <=> i \in (d + 1) + 1 .. L \/ i = d + 1
          /\ d + 1 \notin (d + 1) + 1 .. L
      BY <1>0, <1>4 DEF PendingEdges
    <3>4. CASE x = s
      <4>1. PendingEdges(s) = PendingEdges(s)' \cup {d + 1} /\ d + 1 \notin PendingEdges(s)'
        BY <3>3, <3>4
      <4>2. IsFiniteSet(PendingEdges(s)') /\ Cardinality(PendingEdges(s)') \in Nat
        <5>1. PendingEdges(s)' \in SUBSET PendingEdges(s)
          BY <4>1
        <5> QED BY <3>2, <5>1, FS_Subset, FS_CardinalityType
      <4>3. Cardinality(PendingEdges(s)) = Cardinality(PendingEdges(s)') + 1
        BY <4>1, <4>2, FS_AddElement
      <4>4. Cardinality(Alike(graph', s)) = Cardinality(Alike(graph, s)) + 1 /\ Cardinality(Alike(graph, s)) \in Nat
        BY <1>4, <2>3, <3>4
      <4> QED BY <3>1, <3>2, <4>2, <4>3, <4>4
    <3>5. CASE x # s
      <4>1. PendingEdges(s)' = PendingEdges(s)
        BY <3>3, <3>5
      <4>2. Alike(graph', s) = Alike(graph, s)
        BY <1>4, <2>3, <3>5
      <4> QED BY <3>1, <4>1, <4>2
    <3> QED BY <3>4, <3>5
  <2> QED BY <1>0, <2>2, <2>4 DEF EdgesFollow
<1> QED BY <1>0, <1>3, <1>5, <1>6, <1>7 DEF Following

\* An update replayed: it reaches an object of the original only, and is the last of its
\* key or is followed by the last.
LEMMA ReplayUpdateFollows ==
  ASSUME FaithInv, SessionInv', ReplayUpdate, Following, dryRun
  PROVE  phase' = "replaying" /\ replayOk' = replayOk /\ Following'
<1> DEFINE d == done.updates
           u == patch.updates[d + 1]
           L == Len(patch.updates)
<1>0. /\ SessionInv /\ phase = "replaying" /\ d \in Nat /\ d + 1 \in 1 .. L /\ L \in Nat
      /\ patch.updates \in Seq(NodeId \X MetaKey \X MetaValue) /\ done.nodes = Len(patch.nodes)
      /\ UNCHANGED <<graph, edgeCount, nodeCount, dryRun, scratch, recorder, rebound, patch, removed>>
      /\ meta \in [1 .. MaxNodes -> Metadata] /\ done \in [PatchLists -> Nat]
      /\ nodeCount \in Nat /\ nodeCount <= MaxNodes
  BY PatchFacts DEF FaithInv, ReplayUpdate, Turn, IsThrough, Before
<1>1. u[1] \in NodeId /\ u[2] \in MetaKey
  <2>1. u \in NodeId \X MetaKey \X MetaValue
    BY <1>0
  <2> QED BY <2>1
<1>2. HasNode(graph, u[1])
  BY <1>0, <1>1, NodesThrough DEF Following, EndsExist
<1>3. /\ phase' = "replaying" /\ replayOk' = replayOk /\ done' = [done EXCEPT !["updates"] = d + 1]
      /\ meta' = [meta EXCEPT ![graph.nodes[u[1]].ref][u[2]] = u[3]]
  BY <1>0, <1>2 DEF ReplayUpdate, Turn, Entry
<1>4. done'.nodes = done.nodes /\ done'.edges = done.edges /\ done'.updates = d + 1
  BY <1>0, <1>3 DEF PatchLists
<1> DEFINE n0 == u[1]
           k0 == u[2]
           g0 == graph.nodes[n0]
<1>5. /\ OneObjectPerRef' /\ NodesFollow' /\ EdgesFollow' /\ EndsExist' /\ TypesAgree'
  <2>1. Objects' = Objects
    BY <1>0 DEF Objects, NodeIds
  <2>2. NodesFollow' /\ EdgesFollow' /\ EndsExist'
    BY <1>0, <1>4 DEF Following, NodesFollow, EdgesFollow, OldEdges, Alike, PendingEdges, EndsExist
  <2> QED BY <2>1, <2>2 DEF Following, OneObjectPerRef, MetaFollows, TypesAgree
<1>6. g0 \in Objects /\ g0.id = n0 /\ g0.ref \in 1 .. MaxNodes
  BY <1>0, <1>1, <1>2, ObjectFacts
<1>7. ASSUME NEW n \in NodeId, NEW k \in MetaKey
      PROVE  /\ n = n0 /\ k = k0 => Pending(n, k) = Pending(n, k)' \cup {d + 1}
             /\ ~(n = n0 /\ k = k0) => Pending(n, k)' = Pending(n, k)
             /\ \A j \in Pending(n, k)' : j > d + 1
  <2>1. /\ Pending(n, k) = {j \in d + 1 .. L : patch.updates[j][1] = n /\ patch.updates[j][2] = k}
        /\ Pending(n, k)' = {j \in (d + 1) + 1 .. L : patch.updates[j][1] = n /\ patch.updates[j][2] = k}
    BY <1>0, <1>4 DEF Pending
  <2>2. /\ \A j : j \in d + 1 .. L <=> j \in (d + 1) + 1 .. L \/ j = d + 1
        /\ \A j \in (d + 1) + 1 .. L : j > d + 1
    BY <1>0
  <2> QED BY <2>1, <2>2
<1>8. ASSUME NEW o \in Objects, NEW k \in MetaKey, ~(o = g0 /\ k = k0)
      PROVE  meta'[o.ref][k] = meta[o.ref][k]
  <2>1. o.ref = g0.ref => o = g0
    BY <1>6 DEF Following, OneObjectPerRef
  <2>2. meta[g0.ref] \in Metadata /\ o.ref \in 1 .. MaxNodes
    BY <1>0, <1>6, ObjectFacts
  <2> QED BY <1>0, <1>3, <1>8, <2>1, <2>2 DEF Metadata
<1>9. meta'[g0.ref][k0] = u[3]
  <2>1. meta[g0.ref] \in Metadata
    BY <1>0, <1>6
  <2> QED BY <1>0, <1>1, <1>3, <1>6, <2>1 DEF Metadata
<1>10. CatchingUp'
  <2>0. CatchingUp
    BY <1>0, AheadByUpdates
  <2>1. ASSUME NEW n \in NodeId, HasNode(scratch, n), HasNode(graph, n), graph.nodes[n] # scratch.nodes[n], NEW k \in MetaKey
        PROVE  /\ Pending(n, k)' = {} => meta'[graph.nodes[n].ref][k] = meta'[scratch.nodes[n].ref][k]
               /\ Pending(n, k)' # {} => HasLast(n, k)'
    <3> DEFINE g == graph.nodes[n]
               c == scratch.nodes[n]
    <3>1. g \in Objects /\ c \in Objects /\ g.id = n /\ c.id = n
      BY <1>0, <2>1, ObjectFacts
    <3>2. /\ Pending(n, k) = {} => meta[g.ref][k] = meta[c.ref][k]
          /\ Pending(n, k) # {} => HasLast(n, k)
      BY <2>0, <2>1 DEF CatchingUp
    <3>3. c # g0
      BY <1>6, <2>1, <3>1
    <3>4. meta'[c.ref][k] = meta[c.ref][k]
      BY <1>8, <3>1, <3>3
    <3>5. CASE n = n0 /\ k = k0
      <4>1. Pending(n, k) = Pending(n, k)' \cup {d + 1} /\ (\A j \in Pending(n, k)' : j > d + 1) /\ HasLast(n, k)
        BY <1>7, <3>2, <3>5
      <4>2. PICK j \in Pending(n, k) : (\A i \in Pending(n, k) : i <= j) /\ meta[c.ref][k] = patch.updates[j][3]
        BY <4>1 DEF HasLast
      <4>3. j \in Nat
        BY <1>0, <4>2 DEF Pending
      <4>4. CASE Pending(n, k)' = {}
        <5>1. j = d + 1
          BY <4>1, <4>2, <4>4
        <5> QED BY <1>9, <3>4, <3>5, <4>2, <4>4, <5>1
      <4>5. CASE Pending(n, k)' # {}
        <5>1. j # d + 1
          <6>1. PICK i \in Pending(n, k)' : i > d + 1
            BY <4>1, <4>5
          <6>2. i \in Nat /\ i <= j
            BY <1>0, <4>1, <4>2, <6>1 DEF Pending
          <6> QED BY <1>0, <4>3, <6>1, <6>2
        <5>2. j \in Pending(n, k)' /\ \A i \in Pending(n, k)' : i <= j
          BY <4>1, <4>2, <5>1
        <5>3. HasLast(n, k)'
          BY <1>0, <3>4, <4>2, <5>2 DEF HasLast
        <5> QED BY <4>5, <5>3
      <4> QED BY <4>4, <4>5
    <3>6. CASE ~(n = n0 /\ k = k0)
      <4>1. Pending(n, k)' = Pending(n, k)
        BY <1>7, <3>6
      <4>2. meta'[g.ref][k] = meta[g.ref][k]
        BY <1>6, <1>8, <3>1, <3>6
      <4>3. Pending(n, k)' # {} => HasLast(n, k)'
        BY <1>0, <3>2, <3>4, <4>1 DEF HasLast
      <4> QED BY <3>2, <3>4, <4>1, <4>2, <4>3
    <3> QED BY <3>5, <3>6
  <2> QED BY <1>0, <2>1 DEF CatchingUp
<1>11. MetaFollows'
  BY <1>0, <1>4, <1>5, <1>10 DEF MetaFollows
<1> QED BY <1>0, <1>3, <1>5, <1>11 DEF Following

\* The replay is through: the original has the content of the copy.
LEMMA EndReplayFaithful ==
  ASSUME FaithInv, EndReplay, dryRun, ~removed => Following
  PROVE  ReplayIsFaithful'
<1>0. /\ SessionInv /\ phase' = "replayed" /\ replayOk /\ \A list \in PatchLists : done[list] = Len(patch[list])
      /\ UNCHANGED <<graph, meta, nodeCount, edgeCount, scratch, patch, removed, replayOk>>
  BY DEF FaithInv, EndReplay, IsThrough, vars
<1>1. ASSUME ~removed
      PROVE  Content(graph) = Content(scratch)
  <2>0. Following /\ done.nodes = Len(patch.nodes) /\ done.edges = Len(patch.edges) /\ done.updates = Len(patch.updates)
    BY <1>0, <1>1 DEF PatchLists
  <2>1. NodeIds(graph) = NodeIds(scratch)
    BY <1>0, <2>0, NodesThrough DEF NodeIds
  <2>2. ASSUME NEW n \in NodeIds(scratch)
        PROVE  graph.nodes[n].type = scratch.nodes[n].type /\ meta[graph.nodes[n].ref] = meta[scratch.nodes[n].ref]
    <3>1. n \in NodeId /\ HasNode(graph, n) /\ HasNode(scratch, n)
      BY <2>1 DEF NodeIds
    <3>2. /\ graph.nodes[n] \in Objects /\ graph.nodes[n].id = n /\ graph.nodes[n].ref \in 1 .. nodeCount
          /\ scratch.nodes[n] \in Objects /\ scratch.nodes[n].id = n /\ scratch.nodes[n].ref \in 1 .. nodeCount
      BY <1>0, <2>0, <3>1, ObjectFacts
    <3>3. graph.nodes[n].type = scratch.nodes[n].type
      BY <2>0, <3>2 DEF Following, MetaFollows, TypesAgree
    <3> DEFINE a == meta[graph.nodes[n].ref]
               b == meta[scratch.nodes[n].ref]
    <3>4. ASSUME NEW k \in MetaKey
          PROVE  a[k] = b[k]
      <4>1. Pending(n, k) = {}
        BY <1>0, <2>0, PatchFacts DEF Pending
      <4> QED BY <1>0, <2>0, <3>1, <4>1, AheadByUpdates DEF CatchingUp
    <3>5. a \in Metadata /\ b \in Metadata
      <4>1. graph.nodes[n].ref \in 1 .. MaxNodes /\ scratch.nodes[n].ref \in 1 .. MaxNodes
        BY <1>0, <3>2, PatchFacts
      <4> QED BY <1>0, <4>1, PatchFacts
    <3> HIDE DEF a, b
    <3>6. a = b
      BY <3>4, <3>5 DEF Metadata
    <3> QED BY <3>3, <3>6 DEF a, b
  <2>3. ASSUME NEW s \in NodeId \X NodeId \X Relation
        PROVE  Cardinality(Alike(graph, s)) = Cardinality(Alike(scratch, s))
    <3>1. PendingEdges(s) = {}
      BY <1>0, <2>0, PatchFacts DEF PendingEdges
    <3>2. Cardinality(Alike(scratch, s)) = Cardinality(Alike(graph, s)) + 0
      BY <2>0, <3>1, FS_EmptySet DEF Following, EdgesFollow
    <3>3. Cardinality(Alike(graph, s)) \in Nat
      <4>1. Alike(graph, s) \in SUBSET graph.edges
        BY DEF Alike
      <4>2. IsFiniteSet(graph.edges)
        BY <2>0 DEF Following, EdgesFollow, OldEdges
      <4> QED BY <4>1, <4>2, FS_Subset, FS_CardinalityType
    <3> QED BY <3>2, <3>3
  <2>4. [n \in NodeIds(graph) |-> <<graph.nodes[n].type, meta[graph.nodes[n].ref]>>]
          = [n \in NodeIds(scratch) |-> <<scratch.nodes[n].type, meta[scratch.nodes[n].ref]>>]
    BY <2>1, <2>2
  <2>5. [s \in NodeId \X NodeId \X Relation |-> Cardinality(Alike(graph, s))]
          = [s \in NodeId \X NodeId \X Relation |-> Cardinality(Alike(scratch, s))]
    BY <2>3
  <2> QED BY <2>4, <2>5 DEF Content, Alike
<1>2. ReplayReproduces'
  BY <1>0, <1>1 DEF ReplayReproduces, Content, NodeIds
<1>3. ReplayRaisesOnlyOnReAdd'
  BY <1>0 DEF ReplayRaisesOnlyOnReAdd
<1> QED BY <1>2, <1>3 DEF ReplayIsFaithful

\* While the graph is loaded its objects and edges are numbered in the order they came.
LEMMA LoadFresh ==
  ASSUME SessionInv, phase = "loading", Fresh, Load
  PROVE  Fresh'
<1>0. /\ graph \in Graph /\ nodeCount \in Nat /\ edgeCount \in Nat /\ RefsExist(graph) /\ OldEdges(graph)
      /\ \A m, n \in NodeId : HasNode(graph, m) /\ HasNode(graph, n) /\ graph.nodes[m].ref = graph.nodes[n].ref => m = n
      /\ UNCHANGED <<phase, scratch, rebound, patch, removed, done>>
  BY PatchFacts DEF SessionInv, Fresh, Load, sessionVars
<1>1. ASSUME OldEdges(graph)',
             \A m, n \in NodeId : HasNode(graph', m) /\ HasNode(graph', n) /\ graph'.nodes[m].ref = graph'.nodes[n].ref => m = n
      PROVE  Fresh'
  BY <1>0, <1>1 DEF Fresh
<1>2. ASSUME NEW n \in NodeId, NEW type \in NodeType, NEW m \in Metadata, AddNode(n, type, m)
      PROVE  Fresh'
  <2> DEFINE o == [ref |-> nodeCount + 1, id |-> n, type |-> type]
  <2>1. graph' = PutNode(graph, o) /\ o \in NodeObject /\ o.id = n /\ o.ref = nodeCount + 1 /\ edgeCount' = edgeCount
    BY <1>0, <1>2 DEF AddNode, NodeObject
  <2> HIDE DEF o
  <2>2. graph'.nodes = [graph.nodes EXCEPT ![n] = o] /\ graph'.edges = graph.edges
    BY <1>0, <2>1, PutNodeNodes
  <2>3. OldEdges(graph)'
    BY <1>0, <2>1, <2>2 DEF OldEdges
  <2>4. /\ graph'.nodes[n] = o /\ \A x \in NodeId : x # n => graph'.nodes[x] = graph.nodes[x]
        /\ \A x \in NodeId : HasNode(graph, x) => graph.nodes[x].ref # nodeCount + 1
    BY <1>0, <2>2 DEF Graph, RefsExist
  <2>5. ASSUME NEW x \in NodeId, NEW y \in NodeId, HasNode(graph', x), HasNode(graph', y), graph'.nodes[x].ref = graph'.nodes[y].ref
        PROVE  x = y
    BY <1>0, <2>1, <2>4, <2>5 DEF HasNode
  <2> QED BY <1>1, <2>3, <2>5
<1>3. ASSUME NEW source \in NodeId, NEW t \in NodeId, NEW relation \in Relation, AddEdge(source, t, relation)
      PROVE  Fresh'
  <2> DEFINE e == [no |-> edgeCount + 1, source |-> source, target |-> t, relation |-> relation]
  <2>1. graph' = PutEdge(graph, e) /\ e.no = edgeCount + 1 /\ edgeCount' = edgeCount + 1
    BY <1>3 DEF AddEdge
  <2> HIDE DEF e
  <2>2. graph'.nodes = graph.nodes /\ graph'.edges = graph.edges \cup {e}
    BY <1>0, <2>1, PutEdgeNodes
  <2>3. OldEdges(graph)'
    <3>1. IsFiniteSet(graph'.edges)
      BY <1>0, <2>2, FS_AddElement DEF OldEdges
    <3>2. \A f \in graph.edges : f.no \in Nat
      BY <1>0 DEF Graph, EdgeObject
    <3> QED BY <1>0, <2>1, <2>2, <3>1, <3>2 DEF OldEdges
  <2> QED BY <1>0, <1>1, <2>2, <2>3 DEF HasNode
<1> QED BY <1>2, <1>3 DEF Load

\* The copy starts with the content of the original, in objects of its own.
LEMMA WrapCopyFollows ==
  ASSUME SessionInv, Fresh, WrapCopy
  PROVE  Following'
<1> DEFINE ids == NodeIds(graph)
           k == Cardinality(ids)
<1>0. /\ GraphInv(graph) /\ graph \in Graph /\ RefsExist(graph) /\ nodeCount \in Nat /\ k \in Nat
      /\ patch = NoPatch /\ rebound = {} /\ OldEdges(graph)
      /\ \A list \in PatchLists : done[list] = 0
      /\ \A m, n \in NodeId : HasNode(graph, m) /\ HasNode(graph, n) /\ graph.nodes[m].ref = graph.nodes[n].ref => m = n
  BY PatchFacts, FS_CardinalityType DEF SessionInv, WrapCopy, Fresh
<1>1. PICK refs \in [ids -> nodeCount + 1 .. nodeCount + k] :
        /\ \A m, n \in ids : refs[m] = refs[n] => m = n
        /\ scratch' = CopyWith(graph, refs)
        /\ meta' = [r \in 1 .. MaxNodes |->
                      IF \E n \in ids : refs[n] = r
                      THEN meta[graph.nodes[CHOOSE n \in ids : refs[n] = r].ref]
                      ELSE meta[r]]
  BY DEF WrapCopy
<1>2. /\ nodeCount' = nodeCount + k /\ nodeCount' <= MaxNodes /\ recorder' = scratch' /\ dryRun' = TRUE
      /\ phase' = "recording" /\ UNCHANGED <<graph, edgeCount, rebound, patch, removed, done, replayOk>>
  BY DEF WrapCopy
<1>3. \A n \in ids : refs[n] \in Nat /\ refs[n] > nodeCount /\ refs[n] \in 1 .. MaxNodes
  BY <1>0, <1>2
<1>4. /\ \A n \in NodeId : HasNode(scratch', n) <=> HasNode(graph, n)
      /\ \A n \in ids : scratch'.nodes[n] = [graph.nodes[n] EXCEPT !.ref = refs[n]]
      /\ scratch'.edges = graph.edges
  <2>1. refs \in [NodeIds(graph) -> Nat]
    BY <1>3
  <2>2. scratch'.edges = graph.edges
    BY <1>1 DEF CopyWith
  <2> QED BY <1>0, <1>1, <2>1, <2>2, CopyInv
<1>5. ASSUME NEW n \in ids
      PROVE  /\ n \in NodeId /\ HasNode(graph, n) /\ graph.nodes[n] \in NodeObject /\ graph.nodes[n].id = n
             /\ graph.nodes[n].ref \in 1 .. nodeCount /\ graph.nodes[n].ref \in 1 .. MaxNodes
             /\ scratch'.nodes[n].ref = refs[n] /\ scratch'.nodes[n].id = n /\ scratch'.nodes[n].type = graph.nodes[n].type
  <2>1. n \in NodeId /\ HasNode(graph, n) /\ graph.nodes[n] \in NodeObject /\ graph.nodes[n].id = n
    BY <1>0 DEF NodeIds, HasNode, Graph, GraphInv, Keyed
  <2>2. graph.nodes[n].ref \in 1 .. nodeCount /\ graph.nodes[n].ref \in 1 .. MaxNodes
    BY <1>0, <1>2, <2>1 DEF RefsExist
  <2>3. scratch'.nodes[n].ref = refs[n] /\ scratch'.nodes[n].id = n /\ scratch'.nodes[n].type = graph.nodes[n].type
    BY <1>4, <2>1 DEF NodeObject
  <2> QED BY <2>1, <2>2, <2>3
<1>6. Len(patch'.nodes) = 0 /\ Len(patch'.edges) = 0 /\ Len(patch'.updates) = 0
  BY <1>0, <1>2 DEF NoPatch
<1>7. done'.nodes = 0 /\ done'.edges = 0 /\ done'.updates = 0
  BY <1>0, <1>2 DEF PatchLists
<1>8. ASSUME NEW o \in Objects'
      PROVE  (\E n \in ids : o = graph.nodes[n]) \/ (\E n \in ids : o = scratch'.nodes[n])
  <2>1. NodeIds(scratch') = ids
    BY <1>4 DEF NodeIds
  <2>2. ~ \E i \in 1 .. Len(patch'.nodes) : TRUE
    BY <1>6
  <2> HIDE DEF ids
  <2>3. NodeIds(graph') = ids
    BY <1>2 DEF ids
  <2> QED BY <1>2, <2>1, <2>2, <2>3 DEF Objects
<1>9. ASSUME NEW n \in ids
      PROVE  meta'[refs[n]] = meta[graph.nodes[n].ref] /\ meta'[graph.nodes[n].ref] = meta[graph.nodes[n].ref]
  <2> HIDE DEF ids
  <2>1. (CHOOSE m \in ids : refs[m] = refs[n]) = n
    BY <1>1
  <2>2. ~ \E m \in ids : refs[m] = graph.nodes[n].ref
    BY <1>0, <1>3, <1>5
  <2>3. meta'[refs[n]] = meta[graph.nodes[CHOOSE m \in ids : refs[m] = refs[n]].ref]
    BY <1>1, <1>3
  <2>4. meta'[graph.nodes[n].ref] = meta[graph.nodes[n].ref]
    BY <1>1, <1>5, <2>2
  <2> QED BY <2>1, <2>3, <2>4
<1>10. OneObjectPerRef'
  <2> HIDE DEF ids
  <2> SUFFICES ASSUME NEW o1 \in Objects', NEW o2 \in Objects', o1.ref = o2.ref
               PROVE  o1 = o2
    BY DEF OneObjectPerRef
  <2>1. \A m, n \in ids : graph.nodes[m].ref = graph.nodes[n].ref => m = n
    BY <1>0, <1>5
  <2>2. \A m, n \in ids : scratch'.nodes[m].ref = scratch'.nodes[n].ref => m = n
    BY <1>1, <1>5
  <2>3. \A m, n \in ids : scratch'.nodes[m].ref # graph.nodes[n].ref
    BY <1>0, <1>3, <1>5
  <2> QED BY <1>8, <2>1, <2>2, <2>3
<1>11. NodesFollow' /\ EndsExist'
  BY <1>2, <1>4, <1>6, <1>7 DEF NodesFollow, EndsExist
<1>12. EdgesFollow'
  <2>1. OldEdges(graph)' /\ OldEdges(scratch)'
    BY <1>0, <1>2, <1>4 DEF OldEdges
  <2>2. ASSUME NEW s \in NodeId \X NodeId \X Relation
        PROVE  Cardinality(Alike(scratch', s)) = Cardinality(Alike(graph', s)) + Cardinality(PendingEdges(s)')
    <3>1. PendingEdges(s)' = {}
      BY <1>6, <1>7 DEF PendingEdges
    <3>2. Alike(scratch', s) = Alike(graph, s)
      BY <1>4 DEF Alike
    <3>3. Cardinality(Alike(graph, s)) \in Nat
      <4>1. Alike(graph, s) \in SUBSET graph.edges
        BY DEF Alike
      <4>2. IsFiniteSet(graph.edges)
        BY <1>0 DEF OldEdges
      <4> QED BY <4>1, <4>2, FS_Subset, FS_CardinalityType
    <3> QED BY <1>2, <3>1, <3>2, <3>3, FS_EmptySet
  <2> QED BY <2>1, <2>2 DEF EdgesFollow
<1>13. MetaFollows'
  <2> HIDE DEF ids
  <2>1. \A n, q : Pending(n, q)' = {}
    BY <1>6, <1>7 DEF Pending
  <2>2. ASSUME NEW o \in Objects'
        PROVE  o.id \in ids /\ o.type = graph.nodes[o.id].type /\ meta'[o.ref] = meta[graph.nodes[o.id].ref]
    <3>1. CASE \E n \in ids : o = graph.nodes[n]
      BY <1>5, <1>9, <3>1
    <3>2. CASE \E n \in ids : o = scratch'.nodes[n]
      BY <1>5, <1>9, <3>2
    <3> QED BY <1>8, <3>1, <3>2
  <2>3. TypesAgree' /\ Untouched'
    BY <2>1, <2>2 DEF TypesAgree, Untouched
  <2> QED BY <1>7, <2>3 DEF MetaFollows
<1> QED BY <1>0, <1>2, <1>10, <1>11, <1>12, <1>13 DEF Following

\* Nothing is loaded yet.
LEMMA FaithInit == SessionInit => FaithInv
<1> SUFFICES ASSUME SessionInit
             PROVE  FaithInv
  OBVIOUS
<1>1. SessionInv
  BY SessionInitInv
<1>2. /\ scratch = EmptyGraph /\ patch = NoPatch /\ rebound = {} /\ ~removed /\ ~dryRun /\ replayOk /\ phase = "loading"
      /\ graph = EmptyGraph /\ \A list \in PatchLists : done[list] = 0
  BY DEF SessionInit, Init
<1>3. OldEdges(graph) /\ \A n \in NodeId : ~HasNode(graph, n)
  BY <1>2, FS_EmptySet DEF OldEdges, EmptyGraph, HasNode
<1> QED BY <1>1, <1>2, <1>3 DEF FaithInv, Fresh

\* A step that leaves the graphs, the patch and the metadata alone changes nothing of the above.
LEMMA FollowingFrame ==
  ASSUME Following, UNCHANGED <<graph, meta, edgeCount, scratch, recorder, rebound, patch, done>>,
         phase' # "replaying" => phase # "replaying"
  PROVE  Following'
<1>1. /\ OneObjectPerRef' = OneObjectPerRef /\ NodesFollow' = NodesFollow /\ EdgesFollow' = EdgesFollow
      /\ EndsExist' = EndsExist
  BY DEF OneObjectPerRef, Objects, NodesFollow, EdgesFollow, OldEdges, PendingEdges, EndsExist
<1>2. Objects' = Objects /\ \A n, k : Pending(n, k)' = Pending(n, k) /\ HasLast(n, k)' = HasLast(n, k)
  BY DEF Objects, Pending, HasLast
<1>3. TypesAgree' = TypesAgree /\ Untouched' = Untouched /\ CatchingUp' = CatchingUp
  BY <1>2 DEF TypesAgree, Untouched, CatchingUp
<1> QED BY <1>1, <1>3 DEF Following, MetaFollows

\* Every step keeps the copy, the original and the patch in step.
LEMMA FaithStep == FaithInv /\ [SessionNext]_allVars => FaithInv'
<1> SUFFICES ASSUME FaithInv, [SessionNext]_allVars
             PROVE  FaithInv'
  OBVIOUS
<1>0. SessionInv /\ SessionInv'
  BY SessionStep DEF FaithInv
<1>1. CASE UNCHANGED allVars
  <2>1. UNCHANGED <<graph, meta, nodeCount, edgeCount, phase, dryRun, scratch, recorder, rebound, patch, removed, done, replayOk>>
    BY <1>1 DEF allVars, vars, sessionVars
  <2>2. dryRun' /\ ~removed' /\ phase' # "replayed" => Following'
    BY <2>1, FollowingFrame DEF FaithInv
  <2>3. phase' = "loading" => Fresh'
    BY <2>1 DEF FaithInv, Fresh, OldEdges
  <2>4. phase' = "replayed" => ReplayIsFaithful'
    BY <2>1 DEF FaithInv, ReplayIsFaithful, ReplayReproduces, Content, ReplayRaisesOnlyOnReAdd
  <2> QED BY <1>0, <2>1, <2>2, <2>3, <2>4 DEF FaithInv
<1>2. CASE Load
  <2>1. phase = "loading" /\ phase' = phase /\ dryRun' = dryRun /\ replayOk' = replayOk /\ ~dryRun
    BY <1>0, <1>2 DEF Load, sessionVars, SessionInv
  <2>2. Fresh'
    BY <1>0, <1>2, <2>1, LoadFresh DEF FaithInv
  <2> QED BY <1>0, <2>1, <2>2 DEF FaithInv
<1>3. CASE Wrap
  <2>1. phase = "loading" /\ phase' = "recording" /\ dryRun' = dryRun /\ replayOk' = replayOk /\ ~dryRun
    BY <1>0, <1>3 DEF Wrap, SessionInv
  <2> QED BY <1>0, <2>1 DEF FaithInv
<1>4. CASE WrapCopy
  <2>1. phase = "loading" /\ phase' = "recording" /\ replayOk' = replayOk
    BY <1>4 DEF WrapCopy
  <2>2. Following'
    BY <1>0, <1>4, <2>1, WrapCopyFollows DEF FaithInv
  <2> QED BY <1>0, <2>1, <2>2 DEF FaithInv
<1>5. ASSUME phase = "recording", phase' = "recording", dryRun' = dryRun, replayOk' = replayOk,
             dryRun /\ Following /\ ~removed' => Following', ~removed' => ~removed
      PROVE  FaithInv'
  BY <1>0, <1>5 DEF FaithInv
<1>6. ASSUME NEW n \in NodeId, NEW type \in NodeType, NEW m \in Metadata, RecordNode(n, type, m)
      PROVE  FaithInv'
  <2>1. phase = "recording" /\ phase' = phase /\ dryRun' = dryRun /\ replayOk' = replayOk /\ removed' = removed
    BY <1>6 DEF RecordNode, Write
  <2> QED BY <1>0, <1>5, <1>6, <2>1, RecordNodeFollows
<1>7. ASSUME NEW source \in NodeId, NEW t \in NodeId, NEW relation \in Relation, RecordEdge(source, t, relation)
      PROVE  FaithInv'
  <2>1. phase = "recording" /\ phase' = phase /\ dryRun' = dryRun /\ replayOk' = replayOk /\ removed' = removed
    BY <1>7 DEF RecordEdge, Write
  <2> QED BY <1>0, <1>5, <1>7, <2>1, RecordEdgeFollows
<1>8. ASSUME NEW n \in NodeId, NEW k \in MetaKey, NEW v \in MetaValue, RecordUpdate(n, k, v)
      PROVE  FaithInv'
  <2>1. phase = "recording" /\ phase' = phase /\ dryRun' = dryRun /\ replayOk' = replayOk /\ removed' = removed
    BY <1>8 DEF RecordUpdate
  <2> QED BY <1>0, <1>5, <1>8, <2>1, RecordUpdateFollows
<1>9. ASSUME NEW n \in NodeId, RecordedRemoveNode(n)
      PROVE  FaithInv'
  <2>1. phase = "recording" /\ phase' = phase /\ dryRun' = dryRun /\ replayOk' = replayOk /\ removed' = TRUE
    BY <1>9 DEF RecordedRemoveNode, Write
  <2> QED BY <1>5, <2>1
<1>10. ASSUME NEW relations \in SUBSET Relation, RecordedRemoveEdges(relations)
       PROVE  FaithInv'
  <2>1. phase = "recording" /\ phase' = phase /\ dryRun' = dryRun /\ replayOk' = replayOk /\ removed' = TRUE
    BY <1>10 DEF RecordedRemoveEdges, Write
  <2> QED BY <1>5, <2>1
<1>11. CASE Finish \/ StartReplay
  <2>1. /\ phase \in {"recording", "recorded"} /\ phase' \in {"recorded", "replaying"}
        /\ UNCHANGED <<graph, meta, nodeCount, edgeCount, dryRun, scratch, recorder, rebound, patch, removed, done, replayOk>>
    BY <1>11 DEF Finish, StartReplay, vars
  <2>2. dryRun' /\ ~removed' => Following'
    BY <2>1, FollowingFrame DEF FaithInv
  <2> QED BY <1>0, <2>1, <2>2 DEF FaithInv
<1>12. ASSUME phase = "replaying", phase' \in {"replaying", "replayed"}, dryRun' = dryRun, removed' = removed,
              phase' = "replaying" => replayOk' = replayOk,
              Following /\ phase' = "replaying" => Following',
              (~removed => Following) /\ phase' = "replayed" => ReplayIsFaithful'
       PROVE  FaithInv'
  <2>1. dryRun /\ (~removed => Following) /\ replayOk
    BY <1>0, <1>12 DEF FaithInv, SessionInv
  <2> QED BY <1>0, <1>12, <2>1 DEF FaithInv
<1>13. CASE ReplayNode \/ ReplayEdge \/ ReplayUpdate
  <2>1. /\ phase = "replaying" /\ phase' \in {"replaying", "replayed"} /\ dryRun' = dryRun /\ removed' = removed
        /\ phase' = "replaying" => replayOk' = replayOk
    BY <1>13 DEF ReplayNode, ReplayEdge, ReplayUpdate, Turn
  <2>2. dryRun
    BY <1>0, <2>1 DEF SessionInv
  <2>3. Following /\ phase' = "replaying" => Following'
    BY <1>0, <1>13, <2>2, ReplayNodeFollows, ReplayEdgeFollows, ReplayUpdateFollows
  <2>4. Following /\ phase' = "replayed" => ReplayIsFaithful'
    BY <1>0, <1>13, <2>2, ReplayNodeFollows, ReplayEdgeFollows, ReplayUpdateFollows
  <2>5. removed /\ phase' = "replayed" => ReplayIsFaithful'
    BY <2>1 DEF ReplayIsFaithful, ReplayReproduces, ReplayRaisesOnlyOnReAdd
  <2> QED BY <1>12, <2>1, <2>3, <2>4, <2>5
<1>14. CASE EndReplay
  <2>1. phase = "replaying" /\ phase' = "replayed" /\ dryRun' = dryRun /\ removed' = removed
    BY <1>14 DEF EndReplay
  <2>2. dryRun
    BY <1>0, <2>1 DEF SessionInv
  <2>3. (~removed => Following) => ReplayIsFaithful'
    BY <1>14, <2>2, EndReplayFaithful
  <2> QED BY <1>12, <2>1, <2>3
<1> QED BY <1>1, <1>2, <1>3, <1>4, <1>6, <1>7, <1>8, <1>9, <1>10, <1>11, <1>13, <1>14 DEF SessionNext

\* A replay does to the original what the session did to the copy, or raises because a node
\* that was there was added again and updated.
THEOREM ReplayCorrect == SessionSpec => []ReplayIsFaithful
<1>1. FaithInv => ReplayIsFaithful
  <2>1. phase # "replayed" => ReplayIsFaithful
    BY DEF ReplayIsFaithful, ReplayReproduces, ReplayRaisesOnlyOnReAdd
  <2> QED BY <2>1 DEF FaithInv
<1> QED BY <1>1, FaithInit, FaithStep, PTL DEF SessionSpec
=============================================================================
