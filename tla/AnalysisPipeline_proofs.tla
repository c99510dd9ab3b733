----------------------- MODULE AnalysisPipeline_proofs -----------------------
(***************************************************************************)
(* What holds of runs over one graph for any claims, any groups and        *)
(* subjects, any order of the steps and any number of runs; and of the     *)
(* errata steps of such runs, for any RPMs and advisories.                 *)
(***************************************************************************)
EXTENDS AnalysisPipeline, ErrataEvidence, FiniteSetTheorems, TLAPS

\* The edges the two indexes hold.  They are one set, but not always the edge list's: the
\* list of a graph a second run returns has parted from its indexes (TargetAfter).
Indexed(g) == UNION {g.outgoing[n] : n \in NodeId}

\* An edge is of one of the kinds the pipeline makes, and its ends are there.
Lawful(g, e) ==
  \/ e.relation = "declares_dependency" /\ e.source \in Subject /\ e.target \in Claims(g)
  \/ e.relation = "observed_as" /\ e.source \in Resolutions(g) /\ e.target \in Claims(g)
  \/ e.relation \in {"corroborates", "conflicts_with"} /\ e.source \in Claims(g) /\ e.target \in Claims(g)

\* What every graph is, also one whose list and indexes have parted.
GraphOK(g) ==
  /\ g \in Graph
  /\ \A s \in Subject : HasNode(g, s)
  /\ Resolutions(g) \subseteq GroupsOf(g)
  /\ g.outgoing = OutgoingScan(Indexed(g)) /\ g.incoming = IncomingScan(Indexed(g))
  /\ IsFiniteSet(g.edges) /\ IsFiniteSet(Indexed(g))
  /\ \A e \in g.edges \cup Indexed(g) : Lawful(g, e)

\* A graph without resolution nodes was never reconciled: its list and its indexes agree.
Untouched(g) == Resolutions(g) = {} => AdjacencyMatches(g) /\ VerdictEdges(g) = {}

\* A verdict is that of claims the graph still has.
GroupIn(claims, k) == {c \in claims : ClaimInfo[c].group = k}
VerdictTold(k) ==
  \E claims \in SUBSET Claims(graph) :
    /\ GroupIn(claims, k) # {}
    /\ verdict[k] = EvaluateGroup(GroupIn(claims, k), SubjectsWithDeclarations(claims))

PipelineInv ==
  /\ RunsReconcile /\ VerdictsAreEarned
  /\ GraphOK(graph) /\ Untouched(graph)
  /\ phase = "running" => recorder = graph /\ (~rerun => Resolutions(graph) = {})
  /\ \A k \in Group : verdict[k] # None => VerdictTold(k)

----------------------------------------------------------------------------
(* AddNodes, AddEdges and DropNodes are add_node, add_edge and remove_node again and again. *)

\* A graph is its five fields.
LEMMA SameGraph ==
  ASSUME NEW g \in Graph, NEW h \in Graph, g.edges = h.edges,
         \A n \in NodeId : g.nodes[n] = h.nodes[n],
         \A n \in NodeId : g.outgoing[n] = h.outgoing[n],
         \A n \in NodeId : g.incoming[n] = h.incoming[n],
         \A t \in NodeType : g.nodesByType[t] = h.nodesByType[t]
  PROVE  g = h
<1>1. g.nodes = h.nodes /\ g.outgoing = h.outgoing /\ g.incoming = h.incoming /\ g.nodesByType = h.nodesByType
  BY DEF Graph
<1> QED BY <1>1 DEF Graph

\* The Node objects of the pipeline.
LEMMA NodeFacts ==
  ASSUME NEW n \in NodeId, NEW type \in NodeType
  PROVE  Node(n, type) \in NodeObject /\ Node(n, type) # NoNode /\ Node(n, type).id = n /\ Node(n, type).type = type
  BY NoNodeAssumption DEF Node, NodeObject

\* A graph that was given nodes.
NewNodes(g, ids, type) == {Node(n, type) : n \in {id \in ids : ~HasNode(g, id)}}

WithNodes(g, ids, type, h) ==
  /\ h \in Graph
  /\ h.edges = g.edges /\ h.outgoing = g.outgoing /\ h.incoming = g.incoming
  /\ \A n \in NodeId : h.nodes[n] = (IF n \in ids THEN Node(n, type) ELSE g.nodes[n])
  /\ \A n \in NodeId : HasNode(h, n) <=> (n \in ids \/ HasNode(g, n))
  /\ \A t \in NodeType : h.nodesByType[t] = (IF t = type THEN g.nodesByType[t] \cup NewNodes(g, ids, type)
                                             ELSE g.nodesByType[t])

LEMMA AddNodesFields ==
  ASSUME NEW g \in Graph, NEW ids \in SUBSET NodeId, NEW type \in NodeType
  PROVE  WithNodes(g, ids, type, AddNodes(g, ids, type))
<1> DEFINE h == AddNodes(g, ids, type)
           nodes == [n \in NodeId |-> IF n \in ids THEN Node(n, type) ELSE g.nodes[n]]
           new(t) == {Node(n, t) : n \in {id \in ids : t = type /\ ~HasNode(g, id)}}
           types == [t \in NodeType |-> g.nodesByType[t] \cup new(t)]
<1>1. h = [g EXCEPT !.nodes = nodes, !.nodesByType = types]
  BY DEF AddNodes
<1>2. nodes \in [NodeId -> NodeObject \cup {NoNode}]
  BY NodeFacts DEF Graph
<1>3. \A t \in NodeType : new(t) = (IF t = type THEN NewNodes(g, ids, type) ELSE {}) /\ new(t) \in SUBSET NodeObject
  BY NodeFacts DEF NewNodes
<1>4. \A n \in NodeId : nodes[n] = IF n \in ids THEN Node(n, type) ELSE g.nodes[n]
  OBVIOUS
<1> HIDE DEF new, nodes
<1>5. types \in [NodeType -> SUBSET NodeObject]
  BY <1>3 DEF Graph
<1>6. \A t \in NodeType : types[t] = IF t = type THEN g.nodesByType[t] \cup NewNodes(g, ids, type) ELSE g.nodesByType[t]
  BY <1>3
<1> HIDE DEF types, h
<1>7. h \in Graph /\ h.nodes = nodes /\ h.nodesByType = types
      /\ h.edges = g.edges /\ h.outgoing = g.outgoing /\ h.incoming = g.incoming
  BY <1>1, <1>2, <1>5 DEF Graph
<1>8. \A n \in NodeId : HasNode(h, n) <=> (n \in ids \/ HasNode(g, n))
  <2> TAKE n \in NodeId
  <2>1. h.nodes[n] = (IF n \in ids THEN Node(n, type) ELSE g.nodes[n])
    BY <1>4, <1>7
  <2>2. Node(n, type) # NoNode
    BY NodeFacts
  <2> QED BY <2>1, <2>2 DEF HasNode
<1>9. WithNodes(g, ids, type, h)
  BY <1>4, <1>6, <1>7, <1>8 DEF WithNodes
<1> QED BY <1>9 DEF h

\* One more node is one more call of add_node.
LEMMA AddNodesOneByOne ==
  ASSUME NEW g \in Graph, NEW ids \in SUBSET NodeId, NEW n \in NodeId, NEW type \in NodeType
  PROVE  /\ AddNodes(g, {}, type) = g
         /\ AddNodes(g, ids \cup {n}, type) = PutNode(AddNodes(g, ids, type), Node(n, type))
<1>1. AddNodes(g, {}, type) = g
  <2> DEFINE h == AddNodes(g, {}, type)
  <2>1. NewNodes(g, {}, type) = {} /\ {} \in SUBSET NodeId
    BY DEF NewNodes
  <2> HIDE DEF h
  <2>2. /\ h \in Graph /\ h.edges = g.edges /\ h.outgoing = g.outgoing /\ h.incoming = g.incoming
        /\ \A m \in NodeId : h.nodes[m] = g.nodes[m]
        /\ \A t \in NodeType : h.nodesByType[t] = g.nodesByType[t]
    <3>1. WithNodes(g, {}, type, h)
      BY <2>1, AddNodesFields DEF h
    <3> QED BY <2>1, <3>1 DEF WithNodes
  <2>3. h = g
    BY <2>2, SameGraph
  <2> QED BY <2>3 DEF h
<1>2. AddNodes(g, ids \cup {n}, type) = PutNode(AddNodes(g, ids, type), Node(n, type))
  <2> DEFINE h == AddNodes(g, ids, type)
             both == AddNodes(g, ids \cup {n}, type)
             o == Node(n, type)
             put == PutNode(h, o)
  <2>0. o \in NodeObject /\ o.id = n /\ o.type = type
    BY NodeFacts
  <2> HIDE DEF h, both, put
  <2>1. WithNodes(g, ids, type, h)
    BY AddNodesFields DEF h
  <2>2. WithNodes(g, ids \cup {n}, type, both)
    <3>1. ids \cup {n} \in SUBSET NodeId
      OBVIOUS
    <3> QED BY <3>1, AddNodesFields DEF both
  <2>3. NewNodes(g, ids \cup {n}, type)
          = (IF HasNode(h, n) THEN NewNodes(g, ids, type) ELSE NewNodes(g, ids, type) \cup {o})
    <3>1. HasNode(h, n) <=> (n \in ids \/ HasNode(g, n))
      BY <2>1 DEF WithNodes
    <3>2. CASE HasNode(g, n) \/ n \in ids
      <4>1. {id \in ids \cup {n} : ~HasNode(g, id)} = {id \in ids : ~HasNode(g, id)}
        BY <3>2
      <4> QED BY <3>1, <3>2, <4>1 DEF NewNodes
    <3>3. CASE ~HasNode(g, n) /\ n \notin ids
      <4>1. {id \in ids \cup {n} : ~HasNode(g, id)} = {id \in ids : ~HasNode(g, id)} \cup {n}
        BY <3>3
      <4> QED BY <3>1, <3>3, <4>1 DEF NewNodes
    <3> QED BY <3>2, <3>3
  <2> HIDE DEF o
  <2>4. put = [h EXCEPT !.nodes[n] = o, !.nodesByType[type] = IF HasNode(h, n) THEN @ ELSE @ \cup {o}]
    BY <2>0 DEF put, PutNode
  <2>5. put \in Graph
    BY <2>0, <2>1, <2>4 DEF WithNodes, Graph
  <2>6. put.edges = h.edges /\ put.outgoing = h.outgoing /\ put.incoming = h.incoming
    BY <2>0, <2>1, <2>4 DEF WithNodes, Graph
  <2>7. put.nodes = [h.nodes EXCEPT ![n] = o]
    BY <2>0, <2>1, <2>4 DEF WithNodes, Graph
  <2>8. put.nodesByType = [h.nodesByType EXCEPT ![type] = IF HasNode(h, n) THEN @ ELSE @ \cup {o}]
    BY <2>0, <2>1, <2>4 DEF WithNodes, Graph
  <2>9. \A m \in NodeId : put.nodes[m] = IF m = n THEN o ELSE h.nodes[m]
    BY <2>1, <2>7 DEF WithNodes, Graph
  <2>10. \A t \in NodeType : put.nodesByType[t] = IF t = type /\ ~HasNode(h, n) THEN h.nodesByType[t] \cup {o}
                                                   ELSE h.nodesByType[t]
    BY <2>1, <2>8 DEF WithNodes, Graph
  <2>11. \A m \in NodeId : put.nodes[m] = both.nodes[m]
    BY <2>1, <2>2, <2>9 DEF WithNodes, o
  <2>12. \A t \in NodeType : put.nodesByType[t] = both.nodesByType[t]
    BY <2>1, <2>2, <2>3, <2>10 DEF WithNodes
  <2>13. put = both
    BY <2>1, <2>2, <2>5, <2>6, <2>11, <2>12, SameGraph DEF WithNodes
  <2> QED BY <2>13 DEF put, both, h, o
<1> QED BY <1>1, <1>2

\* The edges AddEdges makes.
NewEdges(specs, no) == {[no |-> no, source |-> s[1], target |-> s[2], relation |-> s[3]] : s \in specs}
Specs == NodeId \X NodeId \X Relation

\* A graph that was given edges.
WithEdges(g, new, h) ==
  /\ h \in Graph /\ new \in SUBSET EdgeObject
  /\ h.nodes = g.nodes /\ h.nodesByType = g.nodesByType /\ h.edges = g.edges \cup new
  /\ \A n \in NodeId : h.outgoing[n] = g.outgoing[n] \cup {e \in new : e.source = n}
  /\ \A n \in NodeId : h.incoming[n] = g.incoming[n] \cup {e \in new : e.target = n}

LEMMA AddEdgesFields ==
  ASSUME NEW g \in Graph, NEW specs \in SUBSET Specs, NEW no \in Nat
  PROVE  WithEdges(g, NewEdges(specs, no), AddEdges(g, specs, no))
<1> DEFINE h == AddEdges(g, specs, no)
           new == NewEdges(specs, no)
           out == [n \in NodeId |-> g.outgoing[n] \cup {e \in new : e.source = n}]
           in == [n \in NodeId |-> g.incoming[n] \cup {e \in new : e.target = n}]
<1>1. new \in SUBSET EdgeObject
  BY DEF NewEdges, Specs, EdgeObject
<1>2. h = [g EXCEPT !.edges = @ \cup new, !.outgoing = out, !.incoming = in]
  BY DEF AddEdges, NewEdges
<1> HIDE DEF new, h
<1>3. out \in [NodeId -> SUBSET EdgeObject] /\ in \in [NodeId -> SUBSET EdgeObject]
  BY <1>1 DEF Graph
<1>4. \A n \in NodeId : /\ out[n] = g.outgoing[n] \cup {e \in new : e.source = n}
                        /\ in[n] = g.incoming[n] \cup {e \in new : e.target = n}
  OBVIOUS
<1> HIDE DEF out, in
<1>5. h \in Graph /\ h.nodes = g.nodes /\ h.nodesByType = g.nodesByType /\ h.edges = g.edges \cup new
      /\ h.outgoing = out /\ h.incoming = in
  BY <1>1, <1>2, <1>3 DEF Graph
<1>6. WithEdges(g, new, h)
  BY <1>1, <1>4, <1>5 DEF WithEdges
<1> QED BY <1>6 DEF new, h

\* One more edge is one more call of add_edge.
LEMMA AddEdgesOneByOne ==
  ASSUME NEW g \in Graph, NEW specs \in SUBSET Specs, NEW no \in Nat, NEW spec \in Specs
  PROVE  /\ AddEdges(g, {}, no) = g
         /\ AddEdges(g, specs \cup {spec}, no)
              = PutEdge(AddEdges(g, specs, no),
                        [no |-> no, source |-> spec[1], target |-> spec[2], relation |-> spec[3]])
<1>1. AddEdges(g, {}, no) = g
  <2> DEFINE h == AddEdges(g, {}, no)
  <2>1. NewEdges({}, no) = {} /\ {} \in SUBSET Specs
    BY DEF NewEdges
  <2> HIDE DEF h
  <2>2. /\ h \in Graph /\ h.nodes = g.nodes /\ h.nodesByType = g.nodesByType /\ h.edges = g.edges
        /\ \A n \in NodeId : h.outgoing[n] = g.outgoing[n] /\ h.incoming[n] = g.incoming[n]
    <3>1. WithEdges(g, {}, h)
      BY <2>1, AddEdgesFields DEF h
    <3> QED BY <3>1 DEF WithEdges
  <2>3. h = g
    BY <2>2, SameGraph
  <2> QED BY <2>3 DEF h
<1>2. AddEdges(g, specs \cup {spec}, no)
        = PutEdge(AddEdges(g, specs, no), [no |-> no, source |-> spec[1], target |-> spec[2], relation |-> spec[3]])
  <2> DEFINE h == AddEdges(g, specs, no)
             both == AddEdges(g, specs \cup {spec}, no)
             e == [no |-> no, source |-> spec[1], target |-> spec[2], relation |-> spec[3]]
             put == PutEdge(h, e)
             new == NewEdges(specs, no)
  <2>1. e \in EdgeObject /\ e.source \in NodeId /\ e.target \in NodeId
    BY DEF Specs, EdgeObject
  <2>2. NewEdges(specs \cup {spec}, no) = new \cup {e}
    BY DEF NewEdges
  <2> HIDE DEF h, both, e, put, new
  <2>3. WithEdges(g, new, h)
    BY AddEdgesFields DEF h, new
  <2>4. WithEdges(g, new \cup {e}, both)
    <3>1. specs \cup {spec} \in SUBSET Specs
      OBVIOUS
    <3> QED BY <2>2, <3>1, AddEdgesFields DEF both
  <2>5. put = [h EXCEPT !.edges = @ \cup {e}, !.outgoing[e.source] = @ \cup {e}, !.incoming[e.target] = @ \cup {e}]
    BY DEF put, PutEdge
  <2>12. h = [nodes |-> h.nodes, nodesByType |-> h.nodesByType, edges |-> h.edges,
              outgoing |-> h.outgoing, incoming |-> h.incoming]
    <3>1. h \in Graph
      BY <2>3 DEF WithEdges
    <3> QED BY <3>1 DEF Graph
  <2>6. put \in Graph
    <3>1. h \in Graph
      BY <2>3 DEF WithEdges
    <3> DEFINE out == [h.outgoing EXCEPT ![e.source] = @ \cup {e}]
               in == [h.incoming EXCEPT ![e.target] = @ \cup {e}]
    <3>2. put = [nodes |-> h.nodes, nodesByType |-> h.nodesByType, edges |-> h.edges \cup {e},
                 outgoing |-> out, incoming |-> in]
      BY <2>5, <2>12
    <3>3. out \in [NodeId -> SUBSET EdgeObject] /\ in \in [NodeId -> SUBSET EdgeObject]
      BY <2>1, <3>1 DEF Graph
    <3> HIDE DEF out, in
    <3>4. /\ h.nodes \in [NodeId -> NodeObject \cup {NoNode}] /\ h.nodesByType \in [NodeType -> SUBSET NodeObject]
          /\ h.edges \cup {e} \in SUBSET EdgeObject
      BY <2>1, <3>1 DEF Graph
    <3> QED BY <3>2, <3>3, <3>4 DEF Graph
  <2>7. put.nodes = h.nodes /\ put.nodesByType = h.nodesByType /\ put.edges = h.edges \cup {e}
    BY <2>5, <2>12
  <2>8. put.outgoing = [h.outgoing EXCEPT ![e.source] = @ \cup {e}] /\ put.incoming = [h.incoming EXCEPT ![e.target] = @ \cup {e}]
    BY <2>5, <2>12
  <2>9. \A n \in NodeId : /\ put.outgoing[n] = IF n = e.source THEN h.outgoing[n] \cup {e} ELSE h.outgoing[n]
                          /\ put.incoming[n] = IF n = e.target THEN h.incoming[n] \cup {e} ELSE h.incoming[n]
    BY <2>3, <2>8 DEF WithEdges, Graph
  <2>10. \A n \in NodeId : put.outgoing[n] = both.outgoing[n] /\ put.incoming[n] = both.incoming[n]
    <3> TAKE n \in NodeId
    <3>1. {f \in new \cup {e} : f.source = n} = {f \in new : f.source = n} \cup (IF n = e.source THEN {e} ELSE {})
      OBVIOUS
    <3>2. {f \in new \cup {e} : f.target = n} = {f \in new : f.target = n} \cup (IF n = e.target THEN {e} ELSE {})
      OBVIOUS
    <3>3. h.outgoing[n] = g.outgoing[n] \cup {f \in new : f.source = n} /\ h.incoming[n] = g.incoming[n] \cup {f \in new : f.target = n}
      BY <2>3 DEF WithEdges
    <3>4. both.outgoing[n] = g.outgoing[n] \cup {f \in new \cup {e} : f.source = n}
          /\ both.incoming[n] = g.incoming[n] \cup {f \in new \cup {e} : f.target = n}
      BY <2>4 DEF WithEdges
    <3> QED BY <2>9, <3>1, <3>2, <3>3, <3>4
  <2>11. put = both
    <3>1. both \in Graph /\ put.nodes = both.nodes /\ put.nodesByType = both.nodesByType /\ put.edges = both.edges
      BY <2>3, <2>4, <2>7 DEF WithEdges
    <3> QED BY <2>6, <2>10, <3>1, SameGraph
  <2> QED BY <2>11 DEF put, both, h, e
<1> QED BY <1>1, <1>2

\* A graph that lost nodes, in which an edge is filed under its own ends.
Filed(g) == \A n \in NodeId : /\ \A e \in g.outgoing[n] : e.source = n
                              /\ \A e \in g.incoming[n] : e.target = n

WithoutNodes(g, ids, h) ==
  /\ h \in Graph
  /\ h.edges = {e \in g.edges : e.source \notin ids /\ e.target \notin ids}
  /\ \A n \in NodeId : h.nodes[n] = (IF n \in ids THEN NoNode ELSE g.nodes[n])
  /\ \A n \in NodeId : HasNode(h, n) <=> (n \notin ids /\ HasNode(g, n))
  /\ \A n \in NodeId : h.outgoing[n] = (IF n \in ids THEN {} ELSE g.outgoing[n] \ UNION {g.incoming[m] : m \in ids})
  /\ \A n \in NodeId : h.incoming[n] = (IF n \in ids THEN {} ELSE g.incoming[n] \ UNION {g.outgoing[m] : m \in ids})
  /\ \A t \in NodeType : h.nodesByType[t] = {o \in g.nodesByType[t] : ~(o.id \in ids /\ HasNode(g, o.id) /\ g.nodes[o.id].type = t)}

LEMMA DropNodesFields ==
  ASSUME NEW g \in Graph, NEW ids \in SUBSET NodeId
  PROVE  WithoutNodes(g, ids, DropNodes(g, ids))
<1> DEFINE h == DropNodes(g, ids)
           out == [m \in NodeId |-> IF m \in ids THEN {} ELSE g.outgoing[m] \ UNION {g.incoming[k] : k \in ids}]
           in == [m \in NodeId |-> IF m \in ids THEN {} ELSE g.incoming[m] \ UNION {g.outgoing[k] : k \in ids}]
           live(t) == {o \in g.nodesByType[t] : ~(o.id \in ids /\ HasNode(g, o.id) /\ g.nodes[o.id].type = t)}
           types == [t \in NodeType |-> live(t)]
           nodes == [m \in NodeId |-> IF m \in ids THEN NoNode ELSE g.nodes[m]]
           edges == {e \in g.edges : e.source \notin ids /\ e.target \notin ids}
<1>1. h = [nodes |-> nodes, nodesByType |-> types, edges |-> edges, outgoing |-> out, incoming |-> in]
  BY DEF DropNodes
<1>2. nodes \in [NodeId -> NodeObject \cup {NoNode}] /\ edges \in SUBSET EdgeObject
  BY DEF Graph
<1>3. out \in [NodeId -> SUBSET EdgeObject] /\ in \in [NodeId -> SUBSET EdgeObject]
  BY DEF Graph
<1>4. types \in [NodeType -> SUBSET NodeObject]
  BY DEF Graph
<1>5. \A t \in NodeType : types[t] = live(t)
  OBVIOUS
<1>6. \A n \in NodeId : nodes[n] = (IF n \in ids THEN NoNode ELSE g.nodes[n])
  OBVIOUS
<1>7. \A n \in NodeId : out[n] = (IF n \in ids THEN {} ELSE g.outgoing[n] \ UNION {g.incoming[m] : m \in ids})
  OBVIOUS
<1>8. \A n \in NodeId : in[n] = (IF n \in ids THEN {} ELSE g.incoming[n] \ UNION {g.outgoing[m] : m \in ids})
  OBVIOUS
<1> HIDE DEF out, in, types, nodes, h
<1>9. h \in Graph
  BY <1>1, <1>2, <1>3, <1>4 DEF Graph
<1>10. h.nodes = nodes /\ h.nodesByType = types /\ h.edges = edges /\ h.outgoing = out /\ h.incoming = in
  BY <1>1
<1>11. \A n \in NodeId : HasNode(h, n) <=> (n \notin ids /\ HasNode(g, n))
  BY <1>6, <1>10 DEF HasNode
<1>12. WithoutNodes(g, ids, h)
  BY <1>5, <1>6, <1>7, <1>8, <1>9, <1>10, <1>11 DEF WithoutNodes
<1> QED BY <1>12 DEF h

\* One more node is one more call of remove_node: what is removed with one node is filed
\* nowhere else.
LEMMA DropNodesOneByOne ==
  ASSUME NEW g \in Graph, NEW ids \in SUBSET NodeId, NEW n \in NodeId, HasNode(g, n), Filed(g)
  PROVE  /\ DropNodes(g, {}) = g
         /\ DropNodes(g, ids \cup {n}) = DropNode(DropNodes(g, ids), n)
<1>1. DropNodes(g, {}) = g
  <2> DEFINE h == DropNodes(g, {})
  <2>1. {} \in SUBSET NodeId
    OBVIOUS
  <2> HIDE DEF h
  <2>2. WithoutNodes(g, {}, h)
    BY <2>1, DropNodesFields DEF h
  <2>3. \A m \in NodeId : h.outgoing[m] = g.outgoing[m] /\ h.incoming[m] = g.incoming[m]
    <3> TAKE m \in NodeId
    <3>1. h.outgoing[m] = g.outgoing[m] \ UNION {g.incoming[k] : k \in {}}
          /\ h.incoming[m] = g.incoming[m] \ UNION {g.outgoing[k] : k \in {}}
      BY <2>2 DEF WithoutNodes
    <3> QED BY <3>1
  <2>4. \A t \in NodeType : h.nodesByType[t] = g.nodesByType[t]
    <3> TAKE t \in NodeType
    <3>1. h.nodesByType[t] = {o \in g.nodesByType[t] : ~(o.id \in {} /\ HasNode(g, o.id) /\ g.nodes[o.id].type = t)}
      BY <2>2 DEF WithoutNodes
    <3> QED BY <3>1
  <2>5. h \in Graph /\ h.edges = g.edges /\ \A m \in NodeId : h.nodes[m] = g.nodes[m]
    BY <2>2 DEF WithoutNodes
  <2>6. h = g
    BY <2>3, <2>4, <2>5, SameGraph
  <2> QED BY <2>6 DEF h
<1>2. CASE n \in ids
  <2> DEFINE h == DropNodes(g, ids)
  <2>1. ids \cup {n} = ids
    BY <1>2
  <2> HIDE DEF h
  <2>2. ~HasNode(h, n)
    <3>1. WithoutNodes(g, ids, h)
      BY DropNodesFields DEF h
    <3> QED BY <1>2, <3>1 DEF WithoutNodes
  <2> QED BY <1>1, <2>1, <2>2 DEF DropNode, h
<1>3. CASE n \notin ids
  <2> DEFINE h == DropNodes(g, ids)
             both == DropNodes(g, ids \cup {n})
             drop == DropNode(h, n)
             T == h.nodes[n].type
  <2> HIDE DEF h, both, drop
  <2>1. WithoutNodes(g, ids, h)
    BY DropNodesFields DEF h
  <2>2. WithoutNodes(g, ids \cup {n}, both)
    <3>1. ids \cup {n} \in SUBSET NodeId
      OBVIOUS
    <3> QED BY <3>1, DropNodesFields DEF both
  <2>3. HasNode(h, n) /\ T = g.nodes[n].type /\ T \in NodeType
    BY <1>3, <2>1 DEF WithoutNodes, Graph, NodeObject, HasNode
  <2> HIDE DEF T
  <2>4. drop = [ nodes       |-> [h.nodes EXCEPT ![n] = NoNode],
                 nodesByType |-> [h.nodesByType EXCEPT ![T] = {o \in @ : o.id # n}],
                 edges       |-> {e \in h.edges : e.source # n /\ e.target # n},
                 outgoing    |-> [m \in NodeId |-> IF m = n THEN {} ELSE h.outgoing[m] \ h.incoming[n]],
                 incoming    |-> [m \in NodeId |-> IF m = n THEN {} ELSE h.incoming[m] \ h.outgoing[n]] ]
    BY <2>3 DEF DropNode, drop, T
  <2>5. [h.nodes EXCEPT ![n] = NoNode] \in [NodeId -> NodeObject \cup {NoNode}]
    BY <2>1 DEF WithoutNodes, Graph
  <2>6. [h.nodesByType EXCEPT ![T] = {o \in @ : o.id # n}] \in [NodeType -> SUBSET NodeObject]
    BY <2>1 DEF WithoutNodes, Graph
  <2>7. /\ [m \in NodeId |-> IF m = n THEN {} ELSE h.outgoing[m] \ h.incoming[n]] \in [NodeId -> SUBSET EdgeObject]
        /\ [m \in NodeId |-> IF m = n THEN {} ELSE h.incoming[m] \ h.outgoing[n]] \in [NodeId -> SUBSET EdgeObject]
    BY <2>1 DEF WithoutNodes, Graph
  <2>8. drop \in Graph
    <3>1. {e \in h.edges : e.source # n /\ e.target # n} \in SUBSET EdgeObject
      BY <2>1 DEF WithoutNodes, Graph
    <3> QED BY <2>4, <2>5, <2>6, <2>7, <3>1 DEF Graph
  <2>9. \A m \in NodeId : /\ drop.nodes[m] = IF m = n THEN NoNode ELSE h.nodes[m]
                          /\ drop.outgoing[m] = IF m = n THEN {} ELSE h.outgoing[m] \ h.incoming[n]
                          /\ drop.incoming[m] = IF m = n THEN {} ELSE h.incoming[m] \ h.outgoing[n]
    BY <2>1, <2>4 DEF WithoutNodes, Graph
  <2>10. \A t \in NodeType : drop.nodesByType[t] = IF t = T THEN {o \in h.nodesByType[t] : o.id # n} ELSE h.nodesByType[t]
    BY <2>1, <2>4 DEF WithoutNodes, Graph
  <2>11. drop.edges = both.edges
    BY <2>1, <2>2, <2>4 DEF WithoutNodes
  <2>12. \A m \in NodeId : drop.nodes[m] = both.nodes[m]
    BY <2>1, <2>2, <2>9 DEF WithoutNodes
  <2>13. \A m \in NodeId : drop.outgoing[m] = both.outgoing[m]
    <3> SUFFICES ASSUME NEW m \in NodeId, NEW e
                 PROVE  e \in drop.outgoing[m] <=> e \in both.outgoing[m]
      OBVIOUS
    <3>1. e \in drop.outgoing[m] <=> m # n /\ e \in h.outgoing[m] /\ e \notin h.incoming[n]
      BY <2>9
    <3>2. e \in g.outgoing[m] /\ m \notin ids => \A k \in ids : e \notin g.outgoing[k]
      BY DEF Filed
    <3>3. e \in h.incoming[n] <=> e \in g.incoming[n] /\ \A k \in ids : e \notin g.outgoing[k]
      <4>1. h.incoming[n] = (IF n \in ids THEN {} ELSE g.incoming[n] \ UNION {g.outgoing[k] : k \in ids})
        BY <2>1 DEF WithoutNodes
      <4> QED BY <1>3, <4>1
    <3>4. e \in h.outgoing[m] <=> m \notin ids /\ e \in g.outgoing[m] /\ \A k \in ids : e \notin g.incoming[k]
      <4>1. h.outgoing[m] = (IF m \in ids THEN {} ELSE g.outgoing[m] \ UNION {g.incoming[k] : k \in ids})
        BY <2>1 DEF WithoutNodes
      <4> QED BY <4>1
    <3>5. e \in both.outgoing[m] <=> m \notin ids \cup {n} /\ e \in g.outgoing[m] /\ \A k \in ids \cup {n} : e \notin g.incoming[k]
      <4>1. both.outgoing[m] = (IF m \in (ids \cup {n}) THEN {} ELSE g.outgoing[m] \ UNION {g.incoming[k] : k \in (ids \cup {n})})
        BY <2>2 DEF WithoutNodes
      <4> QED BY <4>1
    <3> QED BY <3>1, <3>2, <3>3, <3>4, <3>5
  <2>14. \A m \in NodeId : drop.incoming[m] = both.incoming[m]
    <3> SUFFICES ASSUME NEW m \in NodeId, NEW e
                 PROVE  e \in drop.incoming[m] <=> e \in both.incoming[m]
      OBVIOUS
    <3>1. e \in drop.incoming[m] <=> m # n /\ e \in h.incoming[m] /\ e \notin h.outgoing[n]
      BY <2>9
    <3>2. e \in g.incoming[m] /\ m \notin ids => \A k \in ids : e \notin g.incoming[k]
      BY DEF Filed
    <3>3. e \in h.outgoing[n] <=> e \in g.outgoing[n] /\ \A k \in ids : e \notin g.incoming[k]
      <4>1. h.outgoing[n] = (IF n \in ids THEN {} ELSE g.outgoing[n] \ UNION {g.incoming[k] : k \in ids})
        BY <2>1 DEF WithoutNodes
      <4> QED BY <1>3, <4>1
    <3>4. e \in h.incoming[m] <=> m \notin ids /\ e \in g.incoming[m] /\ \A k \in ids : e \notin g.outgoing[k]
      <4>1. h.incoming[m] = (IF m \in ids THEN {} ELSE g.incoming[m] \ UNION {g.outgoing[k] : k \in ids})
        BY <2>1 DEF WithoutNodes
      <4> QED BY <4>1
    <3>5. e \in both.incoming[m] <=> m \notin ids \cup {n} /\ e \in g.incoming[m] /\ \A k \in ids \cup {n} : e \notin g.outgoing[k]
      <4>1. both.incoming[m] = (IF m \in (ids \cup {n}) THEN {} ELSE g.incoming[m] \ UNION {g.outgoing[k] : k \in (ids \cup {n})})
        BY <2>2 DEF WithoutNodes
      <4> QED BY <4>1
    <3> QED BY <3>1, <3>2, <3>3, <3>4, <3>5
  <2>15. \A t \in NodeType : drop.nodesByType[t] = both.nodesByType[t]
    <3> SUFFICES ASSUME NEW t \in NodeType, NEW o
                 PROVE  o \in drop.nodesByType[t] <=> o \in both.nodesByType[t]
      OBVIOUS
    <3>1. o \in drop.nodesByType[t] <=> o \in h.nodesByType[t] /\ ~(t = T /\ o.id = n)
      BY <2>10
    <3> QED BY <2>1, <2>2, <2>3, <3>1 DEF WithoutNodes
  <2>16. drop = both
    <3>1. both \in Graph
      BY <2>2 DEF WithoutNodes
    <3> QED BY <2>8, <2>11, <2>12, <2>13, <2>14, <2>15, <3>1, SameGraph
  <2> QED BY <1>1, <2>16 DEF drop, both, h
<1> QED BY <1>2, <1>3

----------------------------------------------------------------------------
(* The purge. *)

\* The indexes of a graph hold these edges and no other.
Indexes(g, edges) == g.outgoing = OutgoingScan(edges) /\ g.incoming = IncomingScan(edges)

LEMMA IndexedEdges ==
  ASSUME NEW g \in Graph, NEW edges \in SUBSET EdgeObject, Indexes(g, edges)
  PROVE  Indexed(g) = edges
<1>1. \A n \in NodeId : g.outgoing[n] = {e \in edges : e.source = n}
  BY DEF Indexes, OutgoingScan
<1>2. \A e \in edges : e.source \in NodeId
  BY DEF EdgeObject
<1> QED BY <1>1, <1>2 DEF Indexed

LEMMA IndexedType ==
  ASSUME NEW g \in Graph
  PROVE  Indexed(g) \in SUBSET EdgeObject
  BY DEF Indexed, Graph

LEMMA MoreIndexes ==
  ASSUME NEW g, NEW h, NEW edges, NEW new, Indexes(g, edges), WithEdges(g, new, h)
  PROVE  Indexes(h, edges \cup new)
<1>1. \A n \in NodeId : g.outgoing[n] = {e \in edges : e.source = n} /\ g.incoming[n] = {e \in edges : e.target = n}
  BY DEF Indexes, OutgoingScan, IncomingScan
<1>2. \A n \in NodeId : h.outgoing[n] = {e \in edges \cup new : e.source = n}
  <2> TAKE n \in NodeId
  <2>1. h.outgoing[n] = g.outgoing[n] \cup {e \in new : e.source = n}
    BY DEF WithEdges
  <2> QED BY <1>1, <2>1
<1>3. \A n \in NodeId : h.incoming[n] = {e \in edges \cup new : e.target = n}
  <2> TAKE n \in NodeId
  <2>1. h.incoming[n] = g.incoming[n] \cup {e \in new : e.target = n}
    BY DEF WithEdges
  <2> QED BY <1>1, <2>1
<1>4. h.outgoing \in [NodeId -> SUBSET EdgeObject] /\ h.incoming \in [NodeId -> SUBSET EdgeObject]
  BY DEF WithEdges, Graph
<1> QED BY <1>2, <1>3, <1>4 DEF Indexes, OutgoingScan, IncomingScan

\* The ends of a lawful edge tell its kind.
LEMMA LawfulEnds ==
  ASSUME NEW g, NEW e, Lawful(g, e)
  PROVE  /\ e.relation \in {"declares_dependency", "observed_as", "corroborates", "conflicts_with"}
         /\ e.target \in Claims(g) /\ HasNode(g, e.target) /\ e.target \notin Resolutions(g)
         /\ e.source \in Resolutions(g) <=> e.relation = "observed_as"
  BY PipelineAssumption DEF Lawful, Claims, Resolutions

\* What is left without the resolution nodes.
Told(g) == {e \in Indexed(g) : e.relation # "observed_as"}
Purging(g, h) ==
  /\ h \in Graph
  /\ \A n \in NodeId : HasNode(h, n) <=> (HasNode(g, n) /\ n \notin Resolutions(g))
  /\ h.edges = {e \in g.edges : e.relation # "observed_as"}
  /\ Indexes(h, Told(g))

LEMMA ResolutionsPurged ==
  ASSUME NEW g, GraphOK(g)
  PROVE  Purging(g, WithoutResolutions(g))
<1> DEFINE h == WithoutResolutions(g)
           ids == Resolutions(g)
<1>1. g \in Graph /\ ids \in SUBSET NodeId
  BY PipelineAssumption DEF GraphOK, Resolutions
<1>2. WithoutNodes(g, ids, h)
  BY <1>1, DropNodesFields DEF WithoutResolutions
<1> HIDE DEF h
<1>3. \A e \in g.edges \cup Indexed(g) : e.target \notin ids /\ (e.source \in ids <=> e.relation = "observed_as")
  BY LawfulEnds DEF GraphOK
<1>4. h \in Graph /\ \A n \in NodeId : HasNode(h, n) <=> (HasNode(g, n) /\ n \notin ids)
  BY <1>2 DEF WithoutNodes
<1>5. h.edges = {e \in g.edges : e.relation # "observed_as"}
  <2>1. h.edges = {e \in g.edges : e.source \notin ids /\ e.target \notin ids}
    BY <1>2 DEF WithoutNodes
  <2> QED BY <1>3, <2>1
<1>6. \A n \in NodeId : g.outgoing[n] = {e \in Indexed(g) : e.source = n} /\ g.incoming[n] = {e \in Indexed(g) : e.target = n}
  BY DEF GraphOK, OutgoingScan, IncomingScan
<1>7. \A n \in NodeId : h.outgoing[n] = {e \in Told(g) : e.source = n}
  <2> TAKE n \in NodeId
  <2>1. h.outgoing[n] = (IF n \in ids THEN {} ELSE g.outgoing[n] \ UNION {g.incoming[m] : m \in ids})
    BY <1>2 DEF WithoutNodes
  <2>2. \A m \in ids : g.incoming[m] = {}
    BY <1>1, <1>3, <1>6
  <2>3. g.outgoing[n] \ UNION {g.incoming[m] : m \in ids} = g.outgoing[n]
    BY <2>2
  <2> QED BY <1>3, <1>6, <2>1, <2>3 DEF Told
<1>8. \A n \in NodeId : h.incoming[n] = {e \in Told(g) : e.target = n}
  <2> TAKE n \in NodeId
  <2>1. h.incoming[n] = (IF n \in ids THEN {} ELSE g.incoming[n] \ UNION {g.outgoing[m] : m \in ids})
    BY <1>2 DEF WithoutNodes
  <2>2. \A e \in g.incoming[n] : e \in Indexed(g) /\ e.target = n
    BY <1>6
  <2>3. \A e \in g.incoming[n] : (\E m \in ids : e \in g.outgoing[m]) <=> e.relation = "observed_as"
    <3> TAKE e \in g.incoming[n]
    <3>1. e.source \in ids <=> e.relation = "observed_as"
      BY <1>3, <2>2
    <3>2. \A m \in ids : e \in g.outgoing[m] <=> e.source = m
      BY <1>1, <1>6, <2>2
    <3> QED BY <3>1, <3>2
  <2>4. {e \in g.incoming[n] : e.relation # "observed_as"} = {e \in Told(g) : e.target = n}
    BY <1>6 DEF Told
  <2>5. n \in ids => {e \in Told(g) : e.target = n} = {}
    BY <1>3 DEF Told
  <2>6. g.incoming[n] \ UNION {g.outgoing[m] : m \in ids} = {e \in g.incoming[n] : e.relation # "observed_as"}
    BY <2>3
  <2> QED BY <2>1, <2>4, <2>5, <2>6
<1>9. h.outgoing \in [NodeId -> SUBSET EdgeObject] /\ h.incoming \in [NodeId -> SUBSET EdgeObject]
  BY <1>4 DEF Graph
<1>10. Indexes(h, Told(g))
  BY <1>7, <1>8, <1>9 DEF Indexes, OutgoingScan, IncomingScan
<1>11. Purging(g, h)
  BY <1>4, <1>5, <1>10 DEF Purging
<1> QED BY <1>11 DEF h

\* The whole purge leaves the declarations in the list; in the indexes it leaves them too,
\* unless the list had no verdict: then verdicts of which the list does not know stay there.
Declared(g) == {e \in g.edges : e.relation = "declares_dependency"}
KeptIndex(g) == IF VerdictEdges(g) = {} THEN Told(g) ELSE Declared(g)
IsPurged(g, p) ==
  /\ p \in Graph
  /\ \A n \in NodeId : HasNode(p, n) <=> (HasNode(g, n) /\ n \notin Resolutions(g))
  /\ p.edges = Declared(g)
  /\ Indexes(p, KeptIndex(g))

LEMMA PurgeIsExact ==
  ASSUME NEW g, GraphOK(g)
  PROVE  /\ IsPurged(g, Purged(g))
         /\ VerdictEdges(WithoutResolutions(g)) = VerdictEdges(g)
<1> DEFINE h == WithoutResolutions(g)
           p == Purged(g)
<1>1. Purging(g, h)
  BY ResolutionsPurged
<1>2. p = DropEdges(h, VerdictEdges(h))
  BY DEF Purged
<1> HIDE DEF h, p
<1>3. VerdictEdges(h) = VerdictEdges(g)
  BY <1>1 DEF Purging, VerdictEdges
<1>4. h.edges \ VerdictEdges(h) = Declared(g)
  <2>1. \A e \in g.edges : e.relation \in {"declares_dependency", "observed_as", "corroborates", "conflicts_with"}
    BY LawfulEnds DEF GraphOK
  <2> QED BY <1>1, <2>1 DEF Purging, VerdictEdges, Declared
<1>5. h.edges \cap VerdictEdges(h) = VerdictEdges(g)
  BY <1>3 DEF VerdictEdges
<1>6. CASE VerdictEdges(g) = {}
  <2>1. p = h /\ p.edges = Declared(g)
    BY <1>2, <1>3, <1>4, <1>5, <1>6 DEF DropEdges
  <2>2. KeptIndex(g) = Told(g)
    BY <1>6 DEF KeptIndex
  <2> QED BY <1>1, <1>3, <2>1, <2>2 DEF Purging, IsPurged, p, h
<1>7. CASE VerdictEdges(g) # {}
  <2>1. p = [h EXCEPT !.edges = Declared(g), !.outgoing = OutgoingScan(Declared(g)), !.incoming = IncomingScan(Declared(g))]
    BY <1>2, <1>4, <1>5, <1>7 DEF DropEdges
  <2>2. Declared(g) \in SUBSET EdgeObject
    BY DEF Declared, GraphOK, Graph
  <2>3. OutgoingScan(Declared(g)) \in [NodeId -> SUBSET EdgeObject] /\ IncomingScan(Declared(g)) \in [NodeId -> SUBSET EdgeObject]
    BY <2>2 DEF OutgoingScan, IncomingScan
  <2>4. p \in Graph /\ p.nodes = h.nodes /\ p.edges = Declared(g)
        /\ p.outgoing = OutgoingScan(Declared(g)) /\ p.incoming = IncomingScan(Declared(g))
    <3>1. h \in Graph
      BY <1>1 DEF Purging
    <3> HIDE DEF Declared
    <3> QED BY <2>1, <2>2, <2>3, <3>1 DEF Graph
  <2>5. KeptIndex(g) = Declared(g)
    BY <1>7 DEF KeptIndex
  <2>6. \A n \in NodeId : HasNode(p, n) <=> (HasNode(g, n) /\ n \notin Resolutions(g))
    BY <1>1, <2>4 DEF Purging, HasNode
  <2>7. IsPurged(g, p)
    BY <2>4, <2>5, <2>6 DEF IsPurged, Indexes
  <2> QED BY <1>3, <2>7 DEF p, h
<1> QED BY <1>6, <1>7

\* The purge takes no claim and no other subject away.
LEMMA PurgeKeepsClaims ==
  ASSUME NEW g, GraphOK(g), NEW p, IsPurged(g, p)
  PROVE  /\ Claims(p) = Claims(g) /\ GroupsOf(p) = GroupsOf(g) /\ \A k : Members(p, k) = Members(g, k)
         /\ Resolutions(p) = {} /\ \A s \in Subject : HasNode(p, s)
<1>1. Claims(p) = Claims(g)
  BY PipelineAssumption DEF Claims, Resolutions, IsPurged
<1>2. Resolutions(p) = {}
  BY PipelineAssumption DEF Resolutions, IsPurged
<1>3. \A s \in Subject : HasNode(p, s)
  BY PipelineAssumption DEF Resolutions, IsPurged, GraphOK
<1> QED BY <1>1, <1>2, <1>3 DEF GroupsOf, Members

----------------------------------------------------------------------------
(* The rebuild. *)

LEMMA FiniteImage ==
  ASSUME NEW S, IsFiniteSet(S), NEW f
  PROVE  IsFiniteSet({f[x] : x \in S})
<1> DEFINE T == {f[x] : x \in S}
           h == [x \in S |-> f[x]]
<1>1. h \in Surjection(S, T)
  BY DEF Surjection
<1> QED BY <1>1, FS_Surjection

\* Two claims of one group and what _link_claims says of them.
LinkKinds == {"corroborates", "drift", "linkage"}
IsLink(g, c, d, kind) ==
  c \in Claims(g) /\ d \in Claims(g) /\ <<c, d>> \in LinkSpecs(Members(g, ClaimInfo[c].group))[kind]

LEMMA LinksAreOfMembers ==
  ASSUME NEW members, NEW kind \in LinkKinds
  PROVE  LinkSpecs(members)[kind] \subseteq members \X members
<1>1. LinkSpecs(members)["corroborates"] \subseteq members \X members
  BY DEF LinkSpecs
<1>2. LinkSpecs(members)["drift"] \subseteq members \X members
  BY DEF LinkSpecs
<1>3. LinkSpecs(members)["linkage"] \subseteq members \X members
  BY DEF LinkSpecs
<1> QED BY <1>1, <1>2, <1>3 DEF LinkKinds

LEMMA LinkedSpecsTold ==
  ASSUME NEW g, NEW kind \in LinkKinds, NEW relation \in Relation
  PROVE  /\ LinkedSpecs(g, kind, relation) \in SUBSET Specs
         /\ IsFiniteSet(LinkedSpecs(g, kind, relation))
         /\ \A spec \in LinkedSpecs(g, kind, relation) : spec[3] = relation
         /\ \A s, t : <<s, t, relation>> \in LinkedSpecs(g, kind, relation) <=> IsLink(g, s, t, kind)
<1> DEFINE L == LinkedSpecs(g, kind, relation)
           f == [p \in Claim \X Claim |-> <<p[1], p[2], relation>>]
           all == {f[p] : p \in Claim \X Claim}
<1>1. \A k : \A p \in LinkSpecs(Members(g, k))[kind] :
        /\ p = <<p[1], p[2]>> /\ p[1] \in Claims(g) /\ p[2] \in Claims(g) /\ ClaimInfo[p[1]].group = k
  <2> TAKE k
  <2>1. LinkSpecs(Members(g, k))[kind] \subseteq Members(g, k) \X Members(g, k)
    BY LinksAreOfMembers
  <2> QED BY <2>1 DEF Members
<1>2. \A spec : spec \in L <=> \E k \in GroupsOf(g) : \E p \in LinkSpecs(Members(g, k))[kind] : spec = <<p[1], p[2], relation>>
  BY DEF LinkedSpecs
<1> HIDE DEF L
<1>3. \A spec \in L : \E c, d \in Claims(g) : spec = <<c, d, relation>>
  BY <1>1, <1>2
<1>4. L \in SUBSET Specs /\ \A spec \in L : spec[3] = relation
  BY <1>3, PipelineAssumption DEF Specs, Claims
<1>5. IsFiniteSet(L)
  <2>1. IsFiniteSet(Claim \X Claim)
    BY PipelineAssumption, FS_Product
  <2>2. IsFiniteSet(all)
    <3> HIDE DEF f
    <3> QED BY <2>1, FiniteImage
  <2>3. L \in SUBSET all
    <3>1. ASSUME NEW c \in Claim, NEW d \in Claim
          PROVE  <<c, d, relation>> \in all
      <4>1. <<c, d>> \in Claim \X Claim /\ f[<<c, d>>] = <<c, d, relation>>
        OBVIOUS
      <4> QED BY <4>1
    <3> QED BY <1>3, <3>1 DEF Claims
  <2> QED BY <2>2, <2>3, FS_Subset
<1>6. ASSUME NEW s, NEW t
      PROVE  <<s, t, relation>> \in L <=> IsLink(g, s, t, kind)
  <2>1. ASSUME <<s, t, relation>> \in L
        PROVE  IsLink(g, s, t, kind)
    <3>1. PICK k \in GroupsOf(g) : \E p \in LinkSpecs(Members(g, k))[kind] : <<s, t, relation>> = <<p[1], p[2], relation>>
      BY <1>2, <2>1
    <3>2. PICK p \in LinkSpecs(Members(g, k))[kind] : s = p[1] /\ t = p[2]
      BY <3>1
    <3> QED BY <1>1, <3>2 DEF IsLink
  <2>2. ASSUME IsLink(g, s, t, kind)
        PROVE  <<s, t, relation>> \in L
    <3>1. ClaimInfo[s].group \in GroupsOf(g) /\ <<s, t>> \in LinkSpecs(Members(g, ClaimInfo[s].group))[kind]
      BY <2>2 DEF IsLink, GroupsOf
    <3> QED BY <1>2, <3>1
  <2> QED BY <2>1, <2>2
<1> QED BY <1>4, <1>5, <1>6 DEF L

LEMMA ObservedSpecsTold ==
  ASSUME NEW g
  PROVE  /\ ObservedSpecs(g) \in SUBSET Specs
         /\ IsFiniteSet(ObservedSpecs(g))
         /\ \A spec \in ObservedSpecs(g) : spec[3] = "observed_as"
         /\ \A s, t : <<s, t, "observed_as">> \in ObservedSpecs(g) <=> (t \in Claims(g) /\ s = ClaimInfo[t].group)
<1> DEFINE f == [c \in Claims(g) |-> <<ClaimInfo[c].group, c, "observed_as">>]
<1>1. ObservedSpecs(g) \in SUBSET Specs
  BY PipelineAssumption DEF ObservedSpecs, Specs, Claims
<1>2. IsFiniteSet(ObservedSpecs(g))
  <2>1. IsFiniteSet(Claims(g))
    BY PipelineAssumption, FS_Subset DEF Claims
  <2>2. IsFiniteSet({f[c] : c \in Claims(g)})
    BY <2>1, FiniteImage
  <2>3. {f[c] : c \in Claims(g)} = ObservedSpecs(g)
    BY DEF ObservedSpecs
  <2> QED BY <2>2, <2>3
<1>3. \A spec \in ObservedSpecs(g) : spec[3] = "observed_as"
  BY DEF ObservedSpecs
<1>4. \A s, t : <<s, t, "observed_as">> \in ObservedSpecs(g) <=> (t \in Claims(g) /\ s = ClaimInfo[t].group)
  BY DEF ObservedSpecs
<1> QED BY <1>1, <1>2, <1>3, <1>4

\* Everything the rebuild adds, by the number of its batch.
First(g) == ObservedSpecs(g) \cup LinkedSpecs(g, "corroborates", "corroborates")
               \cup LinkedSpecs(g, "drift", "conflicts_with")
Second(g) == LinkedSpecs(g, "linkage", "conflicts_with")
Output(g, count) == NewEdges(First(g), count + 1) \cup NewEdges(Second(g), count + 2)

LEMMA SpecsTold ==
  ASSUME NEW g
  PROVE  /\ First(g) \in SUBSET Specs /\ Second(g) \in SUBSET Specs
         /\ IsFiniteSet(First(g)) /\ IsFiniteSet(Second(g))
         /\ \A spec \in First(g) : spec[3] \in {"observed_as", "corroborates", "conflicts_with"}
         /\ \A spec \in Second(g) : spec[3] = "conflicts_with"
         /\ \A s, t :
              /\ <<s, t, "observed_as">> \in First(g) <=> (t \in Claims(g) /\ s = ClaimInfo[t].group)
              /\ <<s, t, "corroborates">> \in First(g) <=> IsLink(g, s, t, "corroborates")
              /\ <<s, t, "conflicts_with">> \in First(g) <=> IsLink(g, s, t, "drift")
              /\ <<s, t, "conflicts_with">> \in Second(g) <=> IsLink(g, s, t, "linkage")
<1> DEFINE O == ObservedSpecs(g)
           A == LinkedSpecs(g, "corroborates", "corroborates")
           D == LinkedSpecs(g, "drift", "conflicts_with")
           L == LinkedSpecs(g, "linkage", "conflicts_with")
<1>0. {"corroborates", "conflicts_with"} \subseteq Relation /\ {"corroborates", "drift", "linkage"} \subseteq LinkKinds
  BY PipelineAssumption DEF LinkKinds
<1>1. /\ O \in SUBSET Specs /\ IsFiniteSet(O) /\ \A spec \in O : spec[3] = "observed_as"
      /\ \A s, t : <<s, t, "observed_as">> \in O <=> (t \in Claims(g) /\ s = ClaimInfo[t].group)
  BY ObservedSpecsTold
<1>2. /\ A \in SUBSET Specs /\ IsFiniteSet(A) /\ \A spec \in A : spec[3] = "corroborates"
      /\ \A s, t : <<s, t, "corroborates">> \in A <=> IsLink(g, s, t, "corroborates")
  BY <1>0, LinkedSpecsTold
<1>3. /\ D \in SUBSET Specs /\ IsFiniteSet(D) /\ \A spec \in D : spec[3] = "conflicts_with"
      /\ \A s, t : <<s, t, "conflicts_with">> \in D <=> IsLink(g, s, t, "drift")
  BY <1>0, LinkedSpecsTold
<1>4. /\ L \in SUBSET Specs /\ IsFiniteSet(L) /\ \A spec \in L : spec[3] = "conflicts_with"
      /\ \A s, t : <<s, t, "conflicts_with">> \in L <=> IsLink(g, s, t, "linkage")
  BY <1>0, LinkedSpecsTold
<1>5. First(g) = O \cup A \cup D /\ Second(g) = L
  BY DEF First, Second
<1> HIDE DEF O, A, D, L
<1>6. IsFiniteSet(First(g))
  <2>1. IsFiniteSet(O \cup A)
    BY <1>1, <1>2, FS_Union
  <2> QED BY <1>3, <1>5, <2>1, FS_Union
<1>7. ASSUME NEW s, NEW t
      PROVE  /\ <<s, t, "observed_as">> \in First(g) <=> (t \in Claims(g) /\ s = ClaimInfo[t].group)
             /\ <<s, t, "corroborates">> \in First(g) <=> IsLink(g, s, t, "corroborates")
             /\ <<s, t, "conflicts_with">> \in First(g) <=> IsLink(g, s, t, "drift")
             /\ <<s, t, "conflicts_with">> \in Second(g) <=> IsLink(g, s, t, "linkage")
  <2>1. <<s, t, "observed_as">>[3] = "observed_as" /\ <<s, t, "corroborates">>[3] = "corroborates"
        /\ <<s, t, "conflicts_with">>[3] = "conflicts_with"
    OBVIOUS
  <2>2. <<s, t, "observed_as">> \in First(g) <=> <<s, t, "observed_as">> \in O
    BY <1>2, <1>3, <1>5, <2>1
  <2>3. <<s, t, "corroborates">> \in First(g) <=> <<s, t, "corroborates">> \in A
    BY <1>1, <1>3, <1>5, <2>1
  <2>4. <<s, t, "conflicts_with">> \in First(g) <=> <<s, t, "conflicts_with">> \in D
    BY <1>1, <1>2, <1>5, <2>1
  <2> QED BY <1>1, <1>2, <1>3, <1>4, <1>5, <2>2, <2>3, <2>4
<1>8. First(g) \in SUBSET Specs /\ \A spec \in First(g) : spec[3] \in {"observed_as", "corroborates", "conflicts_with"}
  BY <1>1, <1>2, <1>3, <1>5
<1> QED BY <1>4, <1>5, <1>6, <1>7, <1>8

LEMMA NewEdgesFinite ==
  ASSUME NEW specs, NEW no, IsFiniteSet(specs)
  PROVE  IsFiniteSet(NewEdges(specs, no))
<1> DEFINE f == [s \in specs |-> [no |-> no, source |-> s[1], target |-> s[2], relation |-> s[3]]]
<1>1. IsFiniteSet({f[s] : s \in specs})
  BY FiniteImage
<1>2. {f[s] : s \in specs} = NewEdges(specs, no)
  BY DEF NewEdges
<1> QED BY <1>1, <1>2

LEMMA NewEdgesTold ==
  ASSUME NEW specs \in SUBSET Specs, NEW no, NEW e
  PROVE  e \in NewEdges(specs, no) <=>
           /\ e = [no |-> no, source |-> e.source, target |-> e.target, relation |-> e.relation]
           /\ <<e.source, e.target, e.relation>> \in specs
<1>1. \A s \in specs : s = <<s[1], s[2], s[3]>>
  BY DEF Specs
<1>2. ASSUME e \in NewEdges(specs, no)
      PROVE  /\ e = [no |-> no, source |-> e.source, target |-> e.target, relation |-> e.relation]
             /\ <<e.source, e.target, e.relation>> \in specs
  <2>1. PICK s \in specs : e = [no |-> no, source |-> s[1], target |-> s[2], relation |-> s[3]]
    BY <1>2 DEF NewEdges
  <2>2. e.source = s[1] /\ e.target = s[2] /\ e.relation = s[3]
    BY <2>1
  <2> QED BY <1>1, <2>1, <2>2
<1>3. ASSUME e = [no |-> no, source |-> e.source, target |-> e.target, relation |-> e.relation],
             <<e.source, e.target, e.relation>> \in specs
      PROVE  e \in NewEdges(specs, no)
  <2> DEFINE s == <<e.source, e.target, e.relation>>
  <2>1. s \in specs /\ [no |-> no, source |-> s[1], target |-> s[2], relation |-> s[3]] = e
    BY <1>3
  <2> HIDE DEF s
  <2> QED BY <2>1 DEF NewEdges
<1> QED BY <1>2, <1>3

\* A reconciled graph: the resolution nodes are those of the groups, the list is the
\* declarations and the output, the indexes what the purge left there and the output.
IsRebuilt(g, count, r) ==
  /\ r \in Graph
  /\ \A n \in NodeId : HasNode(r, n) <=> (HasNode(g, n) \/ n \in GroupsOf(g))
  /\ r.edges = Declared(g) \cup Output(g, count)
  /\ Indexes(r, KeptIndex(g) \cup Output(g, count))

LEMMA SameClaimsSameSpecs ==
  ASSUME NEW g, NEW p, Claims(p) = Claims(g)
  PROVE  First(p) = First(g) /\ Second(p) = Second(g)
<1>1. GroupsOf(p) = GroupsOf(g) /\ \A k : Members(p, k) = Members(g, k)
  BY DEF GroupsOf, Members
<1>2. ASSUME NEW kind, NEW relation
      PROVE  LinkedSpecs(p, kind, relation) = LinkedSpecs(g, kind, relation)
  BY <1>1 DEF LinkedSpecs
<1>3. ObservedSpecs(p) = ObservedSpecs(g)
  BY DEF ObservedSpecs
<1> QED BY <1>2, <1>3 DEF First, Second

LEMMA RebuildIsExact ==
  ASSUME NEW g, GraphOK(g), NEW count \in Nat
  PROVE  IsRebuilt(g, count, Reconciled(g, count))
<1> DEFINE p == Purged(g)
           r == Reconciled(g, count)
           a == AddNodes(p, GroupsOf(p), "resolution")
           b == AddEdges(a, First(p), count + 1)
           N1 == NewEdges(First(p), count + 1)
           N2 == NewEdges(Second(p), count + 2)
<1>1. r = AddEdges(b, Second(p), count + 2)
  BY DEF Reconciled, Rebuilt, First, Second
<1>2. IsPurged(g, p) /\ p \in Graph
  BY PurgeIsExact DEF IsPurged
<1> HIDE DEF p
<1>3. Claims(p) = Claims(g) /\ GroupsOf(p) = GroupsOf(g)
  BY <1>2, PurgeKeepsClaims
<1>4. First(p) \in SUBSET Specs /\ Second(p) \in SUBSET Specs /\ count + 1 \in Nat /\ count + 2 \in Nat
  BY SpecsTold
<1>5. WithNodes(p, GroupsOf(p), "resolution", a)
  <2>1. GroupsOf(p) \in SUBSET NodeId /\ "resolution" \in NodeType
    BY PipelineAssumption DEF GroupsOf, Claims
  <2> QED BY <1>2, <2>1, AddNodesFields
<1>6. a \in Graph
  BY <1>5 DEF WithNodes
<1> HIDE DEF a
<1>7. WithEdges(a, N1, b)
  BY <1>4, <1>6, AddEdgesFields
<1>8. b \in Graph
  BY <1>7 DEF WithEdges
<1> HIDE DEF b
<1>9. WithEdges(b, N2, r)
  BY <1>1, <1>4, <1>8, AddEdgesFields
<1> HIDE DEF r
<1>10. Output(g, count) = N1 \cup N2
  BY <1>3, SameClaimsSameSpecs DEF Output
<1> HIDE DEF N1, N2
<1>11. r \in Graph /\ r.nodes = a.nodes /\ r.edges = p.edges \cup N1 \cup N2
  BY <1>5, <1>7, <1>9 DEF WithNodes, WithEdges
<1>12. \A n \in NodeId : HasNode(r, n) <=> (HasNode(g, n) \/ n \in GroupsOf(g))
  <2> TAKE n \in NodeId
  <2>1. HasNode(r, n) <=> HasNode(a, n)
    BY <1>11 DEF HasNode
  <2>2. HasNode(a, n) <=> (n \in GroupsOf(g) \/ HasNode(p, n))
    BY <1>3, <1>5 DEF WithNodes
  <2>3. HasNode(p, n) <=> (HasNode(g, n) /\ n \notin Resolutions(g))
    BY <1>2 DEF IsPurged
  <2> QED BY <2>1, <2>2, <2>3 DEF GraphOK
<1>13. Indexes(r, KeptIndex(g) \cup Output(g, count))
  <2>1. Indexes(a, KeptIndex(g))
    BY <1>2, <1>5 DEF IsPurged, WithNodes, Indexes
  <2>2. Indexes(b, KeptIndex(g) \cup N1)
    BY <1>7, <2>1, MoreIndexes
  <2>3. Indexes(r, (KeptIndex(g) \cup N1) \cup N2)
    BY <1>9, <2>2, MoreIndexes
  <2>4. (KeptIndex(g) \cup N1) \cup N2 = KeptIndex(g) \cup Output(g, count)
    BY <1>10
  <2> QED BY <2>3, <2>4
<1>14. r.edges = Declared(g) \cup Output(g, count)
  BY <1>2, <1>10, <1>11 DEF IsPurged
<1>15. IsRebuilt(g, count, r)
  BY <1>11, <1>12, <1>13, <1>14 DEF IsRebuilt
<1> QED BY <1>15 DEF r

\* What the output says, and that it is made of edges.
LEMMA OutputTold ==
  ASSUME NEW g, NEW count \in Nat
  PROVE  /\ Output(g, count) \in SUBSET EdgeObject /\ IsFiniteSet(Output(g, count))
         /\ \A e \in Output(g, count) :
              \/ e.relation = "observed_as" /\ e.target \in Claims(g) /\ e.source = ClaimInfo[e.target].group
              \/ e.relation = "corroborates" /\ IsLink(g, e.source, e.target, "corroborates")
              \/ e.relation = "conflicts_with" /\ IsLink(g, e.source, e.target, "drift")
              \/ e.relation = "conflicts_with" /\ IsLink(g, e.source, e.target, "linkage")
<1> DEFINE N1 == NewEdges(First(g), count + 1)
           N2 == NewEdges(Second(g), count + 2)
<1>1. First(g) \in SUBSET Specs /\ Second(g) \in SUBSET Specs /\ IsFiniteSet(First(g)) /\ IsFiniteSet(Second(g))
  BY SpecsTold
<1>2. N1 \in SUBSET EdgeObject /\ N2 \in SUBSET EdgeObject
  BY <1>1 DEF NewEdges, Specs, EdgeObject
<1>3. IsFiniteSet(N1) /\ IsFiniteSet(N2)
  BY <1>1, NewEdgesFinite
<1>4. \A e \in N1 : <<e.source, e.target, e.relation>> \in First(g)
  BY <1>1, NewEdgesTold
<1>5. \A e \in N2 : <<e.source, e.target, e.relation>> \in Second(g)
  BY <1>1, NewEdgesTold
<1>6. Output(g, count) = N1 \cup N2
  BY DEF Output
<1> HIDE DEF N1, N2
<1>7. ASSUME NEW e \in N1
      PROVE  \/ e.relation = "observed_as" /\ e.target \in Claims(g) /\ e.source = ClaimInfo[e.target].group
             \/ e.relation = "corroborates" /\ IsLink(g, e.source, e.target, "corroborates")
             \/ e.relation = "conflicts_with" /\ IsLink(g, e.source, e.target, "drift")
  <2>1. <<e.source, e.target, e.relation>>[3] \in {"observed_as", "corroborates", "conflicts_with"}
    BY <1>4, SpecsTold
  <2>2. e.relation \in {"observed_as", "corroborates", "conflicts_with"}
    BY <2>1
  <2> QED BY <1>4, <2>2, SpecsTold
<1>8. ASSUME NEW e \in N2
      PROVE  e.relation = "conflicts_with" /\ IsLink(g, e.source, e.target, "linkage")
  <2>1. <<e.source, e.target, e.relation>>[3] = "conflicts_with"
    BY <1>5, SpecsTold
  <2>2. e.relation = "conflicts_with"
    BY <2>1
  <2> QED BY <1>5, <2>2, SpecsTold
<1>9. IsFiniteSet(Output(g, count)) /\ Output(g, count) \in SUBSET EdgeObject
  BY <1>2, <1>3, <1>6, FS_Union
<1> QED BY <1>6, <1>7, <1>8, <1>9

\* A reconciled graph, and the one the callers of a run hold, has the claims it had and a
\* resolution node for each of their groups.
LEMMA NodesAfter ==
  ASSUME NEW g, GraphOK(g), NEW r, \A n \in NodeId : HasNode(r, n) <=> (HasNode(g, n) \/ n \in GroupsOf(g))
  PROVE  /\ Claims(r) = Claims(g) /\ GroupsOf(r) = GroupsOf(g) /\ \A k : Members(r, k) = Members(g, k)
         /\ Resolutions(r) = GroupsOf(g) /\ \A s \in Subject : HasNode(r, s)
<1>1. GroupsOf(g) \subseteq Group
  BY PipelineAssumption DEF GroupsOf, Claims
<1>2. Claims(r) = Claims(g)
  BY <1>1, PipelineAssumption DEF Claims
<1>3. Resolutions(r) = GroupsOf(g)
  BY <1>1, PipelineAssumption DEF Resolutions, GraphOK
<1>4. \A s \in Subject : HasNode(r, s)
  BY PipelineAssumption DEF GraphOK
<1> QED BY <1>2, <1>3, <1>4 DEF GroupsOf, Members

\* Without a claim there is no edge.
LEMMA NoClaimNoEdge ==
  ASSUME NEW g, GraphOK(g), Resolutions(g) = GroupsOf(g)
  PROVE  Untouched(g)
<1> SUFFICES ASSUME Resolutions(g) = {}
             PROVE  AdjacencyMatches(g) /\ VerdictEdges(g) = {}
  BY DEF Untouched
<1>1. Claims(g) = {}
  BY DEF GroupsOf
<1>2. g.edges = {} /\ Indexed(g) = {}
  BY <1>1, LawfulEnds DEF GraphOK
<1> QED BY <1>2 DEF GraphOK, AdjacencyMatches, VerdictEdges

LEMMA StillLawful ==
  ASSUME NEW g, NEW r, NEW e, Lawful(g, e), Claims(g) \subseteq Claims(r), Resolutions(g) \subseteq Resolutions(r)
  PROVE  Lawful(r, e)
  BY DEF Lawful

LEMMA OutputLawful ==
  ASSUME NEW g, NEW count \in Nat, NEW r, Claims(r) = Claims(g), Resolutions(r) = GroupsOf(g), NEW e \in Output(g, count)
  PROVE  Lawful(r, e)
<1>1. CASE e.relation = "observed_as" /\ e.target \in Claims(g) /\ e.source = ClaimInfo[e.target].group
  BY <1>1 DEF Lawful, GroupsOf
<1>2. CASE e.relation \in {"corroborates", "conflicts_with"} /\ e.source \in Claims(g) /\ e.target \in Claims(g)
  BY <1>2 DEF Lawful
<1> QED BY <1>1, <1>2, OutputTold DEF IsLink

LEMMA KeptParts ==
  ASSUME NEW g, GraphOK(g)
  PROVE  /\ KeptIndex(g) \subseteq g.edges \cup Indexed(g) /\ Declared(g) \subseteq g.edges /\ Told(g) \subseteq Indexed(g)
         /\ g.edges \in SUBSET EdgeObject /\ Indexed(g) \in SUBSET EdgeObject
         /\ IsFiniteSet(KeptIndex(g)) /\ IsFiniteSet(Declared(g)) /\ IsFiniteSet(Told(g))
<1>1. KeptIndex(g) \subseteq g.edges \cup Indexed(g) /\ Declared(g) \subseteq g.edges /\ Told(g) \subseteq Indexed(g)
  BY DEF KeptIndex, Declared, Told
<1>2. g.edges \in SUBSET EdgeObject /\ Indexed(g) \in SUBSET EdgeObject
  BY IndexedType DEF GraphOK, Graph
<1>3. IsFiniteSet(g.edges) /\ IsFiniteSet(Indexed(g))
  BY DEF GraphOK
<1>4. IsFiniteSet(Declared(g)) /\ IsFiniteSet(Told(g))
  BY <1>1, <1>3, FS_Subset
<1>5. IsFiniteSet(KeptIndex(g))
  BY <1>4 DEF KeptIndex
<1> QED BY <1>1, <1>2, <1>4, <1>5

\* A graph is in order if its list and indexes hold lawful edges, finitely many of them.
LEMMA GraphInOrder ==
  ASSUME NEW g, g \in Graph, \A s \in Subject : HasNode(g, s), Resolutions(g) \subseteq GroupsOf(g),
         NEW edges \in SUBSET EdgeObject, Indexes(g, edges), IsFiniteSet(edges), IsFiniteSet(g.edges),
         \A e \in g.edges : Lawful(g, e), \A e \in edges : Lawful(g, e)
  PROVE  GraphOK(g) /\ Indexed(g) = edges
<1>1. Indexed(g) = edges
  BY IndexedEdges
<1> QED BY <1>1 DEF GraphOK, Indexes

LEMMA ReconciledOK ==
  ASSUME NEW g, GraphOK(g), NEW count \in Nat, NEW r, IsRebuilt(g, count, r)
  PROVE  GraphOK(r) /\ Untouched(r) /\ Indexed(r) = KeptIndex(g) \cup Output(g, count)
<1>1. /\ Claims(r) = Claims(g) /\ GroupsOf(r) = GroupsOf(g)
      /\ Resolutions(r) = GroupsOf(g) /\ \A s \in Subject : HasNode(r, s)
  BY NodesAfter DEF IsRebuilt
<1>2. \A e \in Output(g, count) : Lawful(r, e)
  BY <1>1, OutputLawful
<1>3. \A e \in g.edges \cup Indexed(g) : Lawful(r, e)
  <2>1. Resolutions(g) \subseteq Resolutions(r)
    BY <1>1 DEF GraphOK
  <2> QED BY <1>1, <2>1, StillLawful DEF GraphOK
<1>4. /\ Output(g, count) \in SUBSET EdgeObject /\ IsFiniteSet(Output(g, count))
  BY OutputTold
<1> DEFINE index == KeptIndex(g) \cup Output(g, count)
<1>5. index \in SUBSET EdgeObject /\ IsFiniteSet(index) /\ \A e \in index : Lawful(r, e)
  <2>1. IsFiniteSet(index)
    BY <1>4, KeptParts, FS_Union
  <2> QED BY <1>2, <1>3, <1>4, <2>1, KeptParts
<1>6. IsFiniteSet(r.edges) /\ \A e \in r.edges : Lawful(r, e)
  <2>1. r.edges = Declared(g) \cup Output(g, count)
    BY DEF IsRebuilt
  <2>2. IsFiniteSet(Declared(g) \cup Output(g, count))
    BY <1>4, KeptParts, FS_Union
  <2> QED BY <1>2, <1>3, <2>1, <2>2, KeptParts
<1>7. r \in Graph /\ Indexes(r, index) /\ Resolutions(r) \subseteq GroupsOf(r)
  BY <1>1 DEF IsRebuilt
<1> HIDE DEF index
<1>8. GraphOK(r) /\ Indexed(r) = index
  BY <1>1, <1>5, <1>6, <1>7, GraphInOrder
<1>9. Untouched(r)
  BY <1>1, <1>8, NoClaimNoEdge
<1> QED BY <1>8, <1>9 DEF index

\* What the callers of a run hold after it: the nodes of the reconciled graph, but a list
\* and indexes that may be those of before the purge.
IsTarget(g, count, t) ==
  /\ t \in Graph
  /\ \A n \in NodeId : HasNode(t, n) <=> (HasNode(g, n) \/ n \in GroupsOf(g))
  /\ t.edges = (IF Resolutions(g) # {} \/ VerdictEdges(g) # {} THEN g.edges ELSE Declared(g) \cup Output(g, count))
  /\ Indexes(t, IF VerdictEdges(g) # {} THEN Told(g) ELSE KeptIndex(g) \cup Output(g, count))

LEMMA TargetIsExact ==
  ASSUME NEW g, GraphOK(g), NEW count \in Nat
  PROVE  /\ IsTarget(g, count, TargetAfter(g, count))
         /\ Resolutions(g) = {} /\ VerdictEdges(g) = {} => TargetAfter(g, count) = Reconciled(g, count)
<1> DEFINE h == WithoutResolutions(g)
           r == Reconciled(g, count)
           t == TargetAfter(g, count)
           moved == Resolutions(g) # {} \/ VerdictEdges(g) # {}
           dropped == VerdictEdges(g) # {}
<1>1. IsRebuilt(g, count, r)
  BY RebuildIsExact
<1>2. Purging(g, h) /\ VerdictEdges(h) = VerdictEdges(g)
  BY ResolutionsPurged, PurgeIsExact
<1>3. t = [r EXCEPT !.edges = IF moved THEN g.edges ELSE @,
                    !.outgoing = IF dropped THEN h.outgoing ELSE @,
                    !.incoming = IF dropped THEN h.incoming ELSE @]
  BY <1>2 DEF TargetAfter
<1> HIDE DEF h, r, t, moved, dropped
<1>4. r \in Graph /\ h \in Graph /\ g \in Graph
  BY <1>1, <1>2 DEF IsRebuilt, Purging, GraphOK
<1>5. /\ t \in Graph /\ t.nodes = r.nodes
      /\ t.edges = (IF moved THEN g.edges ELSE r.edges)
      /\ t.outgoing = (IF dropped THEN h.outgoing ELSE r.outgoing)
      /\ t.incoming = (IF dropped THEN h.incoming ELSE r.incoming)
  BY <1>3, <1>4 DEF Graph
<1>6. \A n \in NodeId : HasNode(t, n) <=> (HasNode(g, n) \/ n \in GroupsOf(g))
  BY <1>1, <1>5 DEF IsRebuilt, HasNode
<1>7. Indexes(t, IF dropped THEN Told(g) ELSE KeptIndex(g) \cup Output(g, count))
  BY <1>1, <1>2, <1>5 DEF Indexes, IsRebuilt, Purging
<1>8. IsTarget(g, count, t)
  BY <1>1, <1>5, <1>6, <1>7 DEF IsTarget, IsRebuilt, moved, dropped
<1>9. ~moved => t = r
  <2> SUFFICES ASSUME ~moved
               PROVE  t = r
    OBVIOUS
  <2>1. ~dropped
    BY DEF moved, dropped
  <2> QED BY <1>3, <1>4, <2>1 DEF Graph
<1> QED BY <1>8, <1>9 DEF t, r, moved

LEMMA TargetOK ==
  ASSUME NEW g, GraphOK(g), NEW count \in Nat, NEW t, IsTarget(g, count, t)
  PROVE  /\ GraphOK(t) /\ Untouched(t)
         /\ Declared(g) \subseteq t.edges
<1>1. /\ Claims(t) = Claims(g) /\ GroupsOf(t) = GroupsOf(g)
      /\ Resolutions(t) = GroupsOf(g) /\ \A s \in Subject : HasNode(t, s)
  BY NodesAfter DEF IsTarget
<1>2. \A e \in Output(g, count) : Lawful(t, e)
  BY <1>1, OutputLawful
<1>3. \A e \in g.edges \cup Indexed(g) : Lawful(t, e)
  <2>1. Resolutions(g) \subseteq Resolutions(t)
    BY <1>1 DEF GraphOK
  <2> QED BY <1>1, <2>1, StillLawful DEF GraphOK
<1>4. /\ Output(g, count) \in SUBSET EdgeObject /\ IsFiniteSet(Output(g, count))
  BY OutputTold
<1> DEFINE index == IF VerdictEdges(g) # {} THEN Told(g) ELSE KeptIndex(g) \cup Output(g, count)
<1>5. index \in SUBSET EdgeObject /\ IsFiniteSet(index) /\ \A e \in index : Lawful(t, e)
  BY <1>2, <1>3, <1>4, KeptParts, FS_Union
<1>6. IsFiniteSet(t.edges) /\ \A e \in t.edges : Lawful(t, e)
  <2>1. IsFiniteSet(g.edges) /\ IsFiniteSet(Declared(g) \cup Output(g, count))
    BY <1>4, KeptParts, FS_Union DEF GraphOK
  <2> QED BY <1>2, <1>3, <2>1, KeptParts DEF IsTarget
<1>7. t \in Graph /\ Indexes(t, index) /\ Resolutions(t) \subseteq GroupsOf(t)
  BY <1>1 DEF IsTarget
<1> HIDE DEF index
<1>8. GraphOK(t)
  BY <1>1, <1>5, <1>6, <1>7, GraphInOrder
<1>9. Untouched(t)
  BY <1>1, <1>8, NoClaimNoEdge
<1>10. Declared(g) \subseteq t.edges
  BY KeptParts DEF IsTarget
<1> QED BY <1>8, <1>9, <1>10

----------------------------------------------------------------------------
(* The reconciliation is complete and told once. *)

Edge(no, s, t, relation) == [no |-> no, source |-> s, target |-> t, relation |-> relation]
Between(edges, s, t, relation) == {e \in edges : e.source = s /\ e.target = t /\ e.relation = relation}

LEMMA BetweenNew ==
  ASSUME NEW specs \in SUBSET Specs, NEW no, NEW s, NEW t, NEW relation
  PROVE  Between(NewEdges(specs, no), s, t, relation)
           = IF <<s, t, relation>> \in specs THEN {Edge(no, s, t, relation)} ELSE {}
<1> DEFINE new == NewEdges(specs, no)
           E == Edge(no, s, t, relation)
<1>1. E.source = s /\ E.target = t /\ E.relation = relation
  BY DEF Edge
<1>2. E \in new <=> <<s, t, relation>> \in specs
  <2>1. E = [no |-> no, source |-> E.source, target |-> E.target, relation |-> E.relation]
    BY <1>1 DEF Edge
  <2> HIDE DEF E
  <2>2. E \in new <=> <<E.source, E.target, E.relation>> \in specs
    BY <2>1, NewEdgesTold
  <2> QED BY <1>1, <2>2
<1>3. \A e \in new : e.source = s /\ e.target = t /\ e.relation = relation => e = E
  <2> SUFFICES ASSUME NEW e \in new, e.source = s, e.target = t, e.relation = relation
               PROVE  e = E
    OBVIOUS
  <2>1. e = [no |-> no, source |-> e.source, target |-> e.target, relation |-> e.relation]
    BY NewEdgesTold
  <2> QED BY <2>1 DEF Edge
<1> HIDE DEF new, E
<1>4. Between(new, s, t, relation) = IF E \in new THEN {E} ELSE {}
  BY <1>1, <1>3 DEF Between
<1> QED BY <1>2, <1>4 DEF new, E

\* What the output holds between two nodes.
LEMMA BetweenOutput ==
  ASSUME NEW g, NEW count \in Nat, NEW s, NEW t
  PROVE  /\ Between(Output(g, count), s, t, "observed_as")
              = IF t \in Claims(g) /\ s = ClaimInfo[t].group THEN {Edge(count + 1, s, t, "observed_as")} ELSE {}
         /\ Between(Output(g, count), s, t, "corroborates")
              = IF IsLink(g, s, t, "corroborates") THEN {Edge(count + 1, s, t, "corroborates")} ELSE {}
         /\ Between(Output(g, count), s, t, "conflicts_with")
              = (IF IsLink(g, s, t, "drift") THEN {Edge(count + 1, s, t, "conflicts_with")} ELSE {})
                \cup (IF IsLink(g, s, t, "linkage") THEN {Edge(count + 2, s, t, "conflicts_with")} ELSE {})
         /\ \A relation : relation \notin {"observed_as", "corroborates", "conflicts_with"} =>
              Between(Output(g, count), s, t, relation) = {}
<1> DEFINE N1 == NewEdges(First(g), count + 1)
           N2 == NewEdges(Second(g), count + 2)
<1>1. First(g) \in SUBSET Specs /\ Second(g) \in SUBSET Specs
  BY SpecsTold
<1>2. ASSUME NEW relation
      PROVE  Between(Output(g, count), s, t, relation) = Between(N1, s, t, relation) \cup Between(N2, s, t, relation)
  BY DEF Output, Between
<1>3. ASSUME NEW relation
      PROVE  /\ Between(N1, s, t, relation) = IF <<s, t, relation>> \in First(g) THEN {Edge(count + 1, s, t, relation)} ELSE {}
             /\ Between(N2, s, t, relation) = IF <<s, t, relation>> \in Second(g) THEN {Edge(count + 2, s, t, relation)} ELSE {}
  BY <1>1, BetweenNew
<1> HIDE DEF N1, N2
<1>4. ASSUME NEW relation
      PROVE  /\ <<s, t, relation>> \in First(g) => relation \in {"observed_as", "corroborates", "conflicts_with"}
             /\ <<s, t, relation>> \in Second(g) => relation = "conflicts_with"
  <2>1. <<s, t, relation>>[3] = relation
    OBVIOUS
  <2> QED BY <2>1, SpecsTold
<1>5. /\ <<s, t, "observed_as">> \in First(g) <=> (t \in Claims(g) /\ s = ClaimInfo[t].group)
      /\ <<s, t, "corroborates">> \in First(g) <=> IsLink(g, s, t, "corroborates")
      /\ <<s, t, "conflicts_with">> \in First(g) <=> IsLink(g, s, t, "drift")
      /\ <<s, t, "conflicts_with">> \in Second(g) <=> IsLink(g, s, t, "linkage")
  BY SpecsTold
<1>6. <<s, t, "observed_as">> \notin Second(g) /\ <<s, t, "corroborates">> \notin Second(g)
  BY <1>4
<1>7. Between(Output(g, count), s, t, "observed_as")
        = IF t \in Claims(g) /\ s = ClaimInfo[t].group THEN {Edge(count + 1, s, t, "observed_as")} ELSE {}
  BY <1>2, <1>3, <1>5, <1>6
<1>8. Between(Output(g, count), s, t, "corroborates")
        = IF IsLink(g, s, t, "corroborates") THEN {Edge(count + 1, s, t, "corroborates")} ELSE {}
  BY <1>2, <1>3, <1>5, <1>6
<1>9. Between(Output(g, count), s, t, "conflicts_with")
        = (IF IsLink(g, s, t, "drift") THEN {Edge(count + 1, s, t, "conflicts_with")} ELSE {})
          \cup (IF IsLink(g, s, t, "linkage") THEN {Edge(count + 2, s, t, "conflicts_with")} ELSE {})
  BY <1>2, <1>3, <1>5
<1>10. ASSUME NEW relation, relation \notin {"observed_as", "corroborates", "conflicts_with"}
       PROVE  Between(Output(g, count), s, t, relation) = {}
  BY <1>2, <1>3, <1>4, <1>10
<1> QED BY <1>7, <1>8, <1>9, <1>10

\* One story is one between the list and the edges of the indexes.
LEMMA OneStory ==
  ASSUME NEW g, GraphOK(g)
  PROVE  SameStory(g) <=>
           \A s, t \in NodeId, relation \in Relation :
             Cardinality(Between(g.edges, s, t, relation)) = Cardinality(Between(Indexed(g), s, t, relation))
<1>1. \A s, t \in NodeId, relation \in Relation :
        /\ Between(g.outgoing[s], s, t, relation) = Between(Indexed(g), s, t, relation)
        /\ Between(g.incoming[t], s, t, relation) = Between(Indexed(g), s, t, relation)
  <2> TAKE s, t \in NodeId, relation \in Relation
  <2>1. g.outgoing[s] = {e \in Indexed(g) : e.source = s} /\ g.incoming[t] = {e \in Indexed(g) : e.target = t}
    BY DEF GraphOK, OutgoingScan, IncomingScan
  <2> QED BY <2>1 DEF Between
<1>2. SameStory(g) <=>
        \A s, t \in NodeId, relation \in Relation :
          /\ Cardinality(Between(g.edges, s, t, relation)) = Cardinality(Between(g.outgoing[s], s, t, relation))
          /\ Cardinality(Between(g.edges, s, t, relation)) = Cardinality(Between(g.incoming[t], s, t, relation))
  BY DEF SameStory, Between
<1> QED BY <1>1, <1>2

LEMMA StoryAfter ==
  ASSUME NEW g, GraphOK(g), SameStory(g), NEW count \in Nat, NEW r, IsRebuilt(g, count, r)
  PROVE  SameStory(r)
<1>1. GraphOK(r) /\ Indexed(r) = KeptIndex(g) \cup Output(g, count) /\ r.edges = Declared(g) \cup Output(g, count)
  BY ReconciledOK DEF IsRebuilt
<1> SUFFICES ASSUME NEW s \in NodeId, NEW t \in NodeId, NEW relation \in Relation
             PROVE  Cardinality(Between(r.edges, s, t, relation)) = Cardinality(Between(Indexed(r), s, t, relation))
  BY <1>1, OneStory
<1>2. Cardinality(Between(g.edges, s, t, relation)) = Cardinality(Between(Indexed(g), s, t, relation))
  BY OneStory
<1>3. /\ Between(r.edges, s, t, relation) = Between(Declared(g), s, t, relation) \cup Between(Output(g, count), s, t, relation)
      /\ Between(Indexed(r), s, t, relation) = Between(KeptIndex(g), s, t, relation) \cup Between(Output(g, count), s, t, relation)
  BY <1>1 DEF Between
<1>4. CASE VerdictEdges(g) # {}
  BY <1>3, <1>4 DEF KeptIndex
<1>5. CASE VerdictEdges(g) = {}
  <2>1. KeptIndex(g) = Told(g)
    BY <1>5 DEF KeptIndex
  <2>2. CASE relation = "declares_dependency"
    <3>1. Between(Output(g, count), s, t, relation) = {}
      BY <2>2, BetweenOutput
    <3>2. Between(Declared(g), s, t, relation) = Between(g.edges, s, t, relation)
      BY <2>2 DEF Between, Declared
    <3>3. Between(Told(g), s, t, relation) = Between(Indexed(g), s, t, relation)
      BY <2>2 DEF Between, Told
    <3> QED BY <1>2, <1>3, <2>1, <3>1, <3>2, <3>3
  <2>3. CASE relation # "declares_dependency"
    <3>1. Between(Declared(g), s, t, relation) = {}
      BY <2>3 DEF Between, Declared
    <3>2. Between(Told(g), s, t, relation) = {}
      <4>1. CASE relation \in {"corroborates", "conflicts_with"}
        <5>1. Between(g.edges, s, t, relation) = {}
          BY <1>5, <4>1 DEF Between, VerdictEdges
        <5>2. IsFiniteSet(Between(Indexed(g), s, t, relation))
          BY FS_Subset DEF Between, GraphOK
        <5>3. Between(Indexed(g), s, t, relation) = {}
          BY <1>2, <5>1, <5>2, FS_EmptySet
        <5> QED BY <5>3 DEF Between, Told
      <4>2. CASE relation \notin {"corroborates", "conflicts_with"}
        <5>1. \A e \in Told(g) : e.relation \in {"declares_dependency", "corroborates", "conflicts_with"}
          BY LawfulEnds DEF GraphOK, Told
        <5> QED BY <2>3, <4>2, <5>1 DEF Between
      <4> QED BY <4>1, <4>2
    <3> QED BY <1>3, <2>1, <3>1, <3>2
  <2> QED BY <2>2, <2>3
<1> QED BY <1>4, <1>5

\* If the list and the indexes told one story before, the reconciled graph has the
\* complete output of a reconciliation once.
LEMMA ReconciliationIsComplete ==
  ASSUME NEW g, GraphOK(g), SameStory(g), NEW count \in Nat, NEW r, IsRebuilt(g, count, r)
  PROVE  IsReconciled(r)
<1>1. /\ Claims(r) = Claims(g) /\ GroupsOf(r) = GroupsOf(g) /\ \A k : Members(r, k) = Members(g, k)
      /\ Resolutions(r) = GroupsOf(g) /\ \A s \in Subject : HasNode(r, s)
  BY NodesAfter DEF IsRebuilt
<1>2. ASSUME NEW s, NEW t, NEW relation, relation # "declares_dependency"
      PROVE  Count(r, s, t, relation) = Cardinality(Between(Output(g, count), s, t, relation))
  <2>1. Between(r.edges, s, t, relation) = Between(Output(g, count), s, t, relation)
    BY <1>2 DEF IsRebuilt, Declared, Between
  <2>2. Count(r, s, t, relation) = Cardinality(Between(r.edges, s, t, relation))
    BY DEF Count, Between
  <2> QED BY <2>1, <2>2
<1>3. ASSUME NEW k \in Group, NEW c \in Claim
      PROVE  Count(r, k, c, "observed_as") = IF c \in Members(r, k) THEN 1 ELSE 0
  <2>1. c \in Members(r, k) <=> (c \in Claims(g) /\ k = ClaimInfo[c].group)
    BY <1>1 DEF Members
  <2>2. Count(r, k, c, "observed_as") = Cardinality(Between(Output(g, count), k, c, "observed_as"))
    BY <1>2
  <2>3. Between(Output(g, count), k, c, "observed_as")
          = IF c \in Claims(g) /\ k = ClaimInfo[c].group THEN {Edge(count + 1, k, c, "observed_as")} ELSE {}
    BY BetweenOutput
  <2> QED BY <2>1, <2>2, <2>3, FS_EmptySet, FS_Singleton
<1>4. ASSUME NEW c \in Claims(r), NEW d \in Claims(r)
      PROVE  LET links == LinkSpecs(Members(r, ClaimInfo[c].group))
                 Of(S) == IF <<c, d>> \in S THEN 1 ELSE 0
             IN  /\ Count(r, c, d, "corroborates") = Of(links.corroborates)
                 /\ Count(r, c, d, "conflicts_with") = Of(links.drift) + Of(links.linkage)
  <2> DEFINE links == LinkSpecs(Members(r, ClaimInfo[c].group))
             Of(S) == IF <<c, d>> \in S THEN 1 ELSE 0
             drift == Edge(count + 1, c, d, "conflicts_with")
             linkage == Edge(count + 2, c, d, "conflicts_with")
  <2>1. /\ <<c, d>> \in links.corroborates <=> IsLink(g, c, d, "corroborates")
        /\ <<c, d>> \in links.drift <=> IsLink(g, c, d, "drift")
        /\ <<c, d>> \in links.linkage <=> IsLink(g, c, d, "linkage")
    BY <1>1 DEF IsLink
  <2>2. /\ Count(r, c, d, "corroborates") = Cardinality(Between(Output(g, count), c, d, "corroborates"))
        /\ Count(r, c, d, "conflicts_with") = Cardinality(Between(Output(g, count), c, d, "conflicts_with"))
    BY <1>2
  <2>3. /\ Between(Output(g, count), c, d, "corroborates")
             = IF IsLink(g, c, d, "corroborates") THEN {Edge(count + 1, c, d, "corroborates")} ELSE {}
        /\ Between(Output(g, count), c, d, "conflicts_with")
             = (IF IsLink(g, c, d, "drift") THEN {drift} ELSE {}) \cup (IF IsLink(g, c, d, "linkage") THEN {linkage} ELSE {})
    BY BetweenOutput
  <2> HIDE DEF links
  <2>4. Count(r, c, d, "corroborates") = Of(links.corroborates)
    BY <2>1, <2>2, <2>3, FS_EmptySet, FS_Singleton
  <2>5. drift # linkage
    BY DEF Edge
  <2> HIDE DEF drift, linkage
  <2>6. Cardinality({drift} \cup {linkage}) = 2 /\ Cardinality({drift}) = 1 /\ Cardinality({linkage}) = 1 /\ Cardinality({}) = 0
    <3>1. IsFiniteSet({drift}) /\ Cardinality({drift}) = 1 /\ Cardinality({linkage}) = 1 /\ Cardinality({}) = 0
      BY FS_Singleton, FS_EmptySet
    <3>2. linkage \notin {drift}
      BY <2>5
    <3>3. Cardinality({drift} \cup {linkage}) = IF linkage \in {drift} THEN Cardinality({drift}) ELSE Cardinality({drift}) + 1
      BY <3>1, FS_AddElement
    <3> QED BY <3>1, <3>2, <3>3
  <2>7. Count(r, c, d, "conflicts_with") = Of(links.drift) + Of(links.linkage)
    <3>1. CASE IsLink(g, c, d, "drift") /\ IsLink(g, c, d, "linkage")
      <4>1. Between(Output(g, count), c, d, "conflicts_with") = {drift} \cup {linkage}
        BY <2>3, <3>1
      <4>2. Count(r, c, d, "conflicts_with") = 2
        BY <2>2, <2>6, <4>1
      <4>3. Of(links.drift) + Of(links.linkage) = 2
        BY <2>1, <3>1
      <4> QED BY <4>2, <4>3
    <3>2. CASE IsLink(g, c, d, "drift") /\ ~IsLink(g, c, d, "linkage")
      <4>1. Between(Output(g, count), c, d, "conflicts_with") = {drift}
        BY <2>3, <3>2
      <4>2. Count(r, c, d, "conflicts_with") = 1
        BY <2>2, <2>6, <4>1
      <4>3. Of(links.drift) + Of(links.linkage) = 1
        BY <2>1, <3>2
      <4> QED BY <4>2, <4>3
    <3>3. CASE ~IsLink(g, c, d, "drift") /\ IsLink(g, c, d, "linkage")
      <4>1. Between(Output(g, count), c, d, "conflicts_with") = {linkage}
        BY <2>3, <3>3
      <4>2. Count(r, c, d, "conflicts_with") = 1
        BY <2>2, <2>6, <4>1
      <4>3. Of(links.drift) + Of(links.linkage) = 1
        BY <2>1, <3>3
      <4> QED BY <4>2, <4>3
    <3>4. CASE ~IsLink(g, c, d, "drift") /\ ~IsLink(g, c, d, "linkage")
      <4>1. Between(Output(g, count), c, d, "conflicts_with") = {}
        BY <2>3, <3>4
      <4>2. Count(r, c, d, "conflicts_with") = 0
        BY <2>2, <2>6, <4>1
      <4>3. Of(links.drift) + Of(links.linkage) = 0
        BY <2>1, <3>4
      <4> QED BY <4>2, <4>3
    <3> QED BY <3>1, <3>2, <3>3, <3>4
  <2> QED BY <2>4, <2>7 DEF links
<1>5. NoDangling(r)
  <2>1. \A e \in r.edges : Lawful(r, e)
    BY ReconciledOK DEF GraphOK
  <2> QED BY <1>1, <2>1 DEF NoDangling, Lawful, Claims, Resolutions
<1>6. SameStory(r)
  BY StoryAfter
<1> QED BY <1>1, <1>3, <1>4, <1>5, <1>6 DEF IsReconciled

----------------------------------------------------------------------------
(* The verdicts. *)

LEMMA FewVersionClasses ==
  ASSUME NEW members \in SUBSET Claim
  PROVE  IsFiniteSet(VersionClasses(members)) /\ IsFiniteSet({ClaimInfo[c].linkage : c \in members} \ {"unknown"})
<1> DEFINE version == [c \in members |-> ClaimInfo[c].version]
           rank == [v \in Versions(members) |-> v.rank]
           linkage == [c \in members |-> ClaimInfo[c].linkage]
<1>1. IsFiniteSet(members)
  BY PipelineAssumption, FS_Subset
<1>2. {version[c] : c \in members} = {ClaimInfo[c].version : c \in members}
      /\ {rank[v] : v \in Versions(members)} = VersionClasses(members)
      /\ {linkage[c] : c \in members} = {ClaimInfo[c].linkage : c \in members}
  BY DEF VersionClasses
<1>3. IsFiniteSet({version[c] : c \in members}) /\ IsFiniteSet({linkage[c] : c \in members})
  BY <1>1, FiniteImage
<1>4. IsFiniteSet(Versions(members))
  BY <1>2, <1>3, FS_Subset DEF Versions
<1>5. IsFiniteSet({rank[v] : v \in Versions(members)})
  BY <1>4, FiniteImage
<1> QED BY <1>2, <1>3, <1>5, FS_Subset

\* More claims show every conflict that fewer showed, but for an undeclared dependency.
LEMMA ConflictsGrow ==
  ASSUME NEW fewer \in SUBSET Claim, NEW members \in SUBSET Claim, fewer \subseteq members, NEW declared, NEW declaring
  PROVE  ConflictKinds(fewer, declared) \ {"presence_undeclared"} \subseteq ConflictKinds(members, declaring)
<1>1. VersionDrift(fewer) => VersionDrift(members)
  <2>1. VersionClasses(fewer) \subseteq VersionClasses(members)
    BY DEF VersionClasses, Versions
  <2>2. /\ Cardinality(VersionClasses(fewer)) <= Cardinality(VersionClasses(members))
        /\ Cardinality(VersionClasses(fewer)) \in Nat /\ Cardinality(VersionClasses(members)) \in Nat
    BY <2>1, FewVersionClasses, FS_Subset, FS_CardinalityType
  <2> QED BY <2>2 DEF VersionDrift
<1>2. IdentityMismatch(fewer) => IdentityMismatch(members)
  BY DEF IdentityMismatch
<1>3. RangeViolation(fewer) => RangeViolation(members)
  BY DEF RangeViolation, Versions
<1>4. LinkageMismatch(fewer) => LinkageMismatch(members)
  <2> DEFINE few == {ClaimInfo[c].linkage : c \in fewer} \ {"unknown"}
             all == {ClaimInfo[c].linkage : c \in members} \ {"unknown"}
  <2>1. few \subseteq all
    OBVIOUS
  <2>2. IsFiniteSet(few) /\ IsFiniteSet(all)
    BY FewVersionClasses
  <2> HIDE DEF few, all
  <2>3. Cardinality(few) <= Cardinality(all) /\ Cardinality(few) \in Nat /\ Cardinality(all) \in Nat
    BY <2>1, <2>2, FS_Subset, FS_CardinalityType
  <2>4. LinkageMismatch(fewer) <=> Cardinality(few) > 1
    BY DEF LinkageMismatch, few
  <2>5. LinkageMismatch(members) <=> Cardinality(all) > 1
    BY DEF LinkageMismatch, all
  <2> QED BY <2>3, <2>4, <2>5
<1> QED BY <1>1, <1>2, <1>3, <1>4 DEF ConflictKinds

\* An agreement is one of the four.
LEMMA AgreementType ==
  ASSUME NEW members, NEW declaring
  PROVE  EvaluateGroup(members, declaring).agreement \in
           {"conflict", "insufficient_evidence", "consensus", "compatible"}
         /\ EvaluateGroup(members, declaring).kinds = ConflictKinds(members, declaring)
<1> DEFINE kinds == ConflictKinds(members, declaring)
           classes == VersionClasses(members)
           chosen == IF kinds # {} \/ classes = {} THEN None ELSE CHOOSE r \in classes : TRUE
<1>1. EvaluateGroup(members, declaring).agreement
        = CASE kinds # {} -> "conflict"
            [] kinds = {} /\ classes = {} -> "insufficient_evidence"
            [] kinds = {} /\ classes # {} -> IF SourcesAgreeing(members, chosen) >= 2 THEN "consensus" ELSE "compatible"
  BY DEF EvaluateGroup
<1> HIDE DEF kinds, classes, chosen
<1>2. EvaluateGroup(members, declaring).kinds = kinds
  BY DEF EvaluateGroup, kinds
<1> QED BY <1>1, <1>2 DEF kinds

\* Two sources behind a consensus, and one version.
LEMMA ConsensusIsEarned ==
  ASSUME NEW members \in SUBSET Claim, NEW declaring, EvaluateGroup(members, declaring).agreement = "consensus"
  PROVE  LET asserting == {c \in members : ClaimInfo[c].version # None}
         IN  /\ \E c, d \in asserting : ClaimInfo[c].evidence # ClaimInfo[d].evidence
             /\ \A c, d \in asserting : ClaimInfo[c].version.rank = ClaimInfo[d].version.rank
<1> DEFINE asserting == {c \in members : ClaimInfo[c].version # None}
           kinds == ConflictKinds(members, declaring)
           classes == VersionClasses(members)
           chosen == IF kinds # {} \/ classes = {} THEN None ELSE CHOOSE r \in classes : TRUE
           concurring == {d \in members : ClaimInfo[d].version # None /\ ClaimInfo[d].version.rank = chosen}
           evidence == [c \in concurring |-> ClaimInfo[c].evidence]
           sources == {evidence[c] : c \in concurring}
<1>1. EvaluateGroup(members, declaring).agreement
        = CASE kinds # {} -> "conflict"
            [] kinds = {} /\ classes = {} -> "insufficient_evidence"
            [] kinds = {} /\ classes # {} -> IF SourcesAgreeing(members, chosen) >= 2 THEN "consensus" ELSE "compatible"
  BY DEF EvaluateGroup
<1> HIDE DEF kinds, classes, chosen
<1>2. kinds = {} /\ SourcesAgreeing(members, chosen) >= 2
  BY <1>1
<1>3. sources = {ClaimInfo[c].evidence : c \in concurring}
  OBVIOUS
<1>4. SourcesAgreeing(members, chosen) = Cardinality(sources)
  BY <1>3 DEF SourcesAgreeing
<1>5. IsFiniteSet(sources)
  <2>1. IsFiniteSet(concurring)
    BY PipelineAssumption, FS_Subset
  <2> HIDE DEF evidence
  <2> QED BY <2>1, FiniteImage
<1>6. \E c, d \in concurring : ClaimInfo[c].evidence # ClaimInfo[d].evidence
  <2> SUFFICES ASSUME \A c, d \in concurring : ClaimInfo[c].evidence = ClaimInfo[d].evidence
               PROVE  FALSE
    OBVIOUS
  <2>1. sources = {} \/ \E x : sources = {x}
    <3>1. CASE concurring = {}
      BY <1>3, <3>1
    <3>2. ASSUME NEW c \in concurring
          PROVE  sources = {ClaimInfo[c].evidence}
      BY <1>3
    <3> HIDE DEF concurring, sources
    <3> QED BY <3>1, <3>2
  <2> HIDE DEF sources
  <2>2. Cardinality(sources) \in {0, 1}
    BY <2>1, FS_EmptySet, FS_Singleton
  <2> QED BY <1>2, <1>4, <2>2
<1>7. ASSUME NEW c \in asserting, NEW d \in asserting
      PROVE  ClaimInfo[c].version.rank = ClaimInfo[d].version.rank
  <2>1. ~VersionDrift(members)
    BY <1>2 DEF kinds, ConflictKinds
  <2>2. ~(Cardinality(VersionClasses(members)) > 1)
    BY <2>1 DEF VersionDrift
  <2>3. ClaimInfo[c].version.rank \in VersionClasses(members) /\ ClaimInfo[d].version.rank \in VersionClasses(members)
    BY DEF VersionClasses, Versions
  <2>4. IsFiniteSet(VersionClasses(members)) /\ Cardinality(VersionClasses(members)) \in Nat
    BY FewVersionClasses, FS_CardinalityType
  <2>5. Cardinality(VersionClasses(members)) \in {0, 1}
    BY <2>2, <2>4
  <2>6. \E x : VersionClasses(members) = {x}
    BY <2>3, <2>4, <2>5, FS_EmptySet, FS_Singleton
  <2> QED BY <2>3, <2>6
<1> QED BY <1>6, <1>7

----------------------------------------------------------------------------
(* The invariant. *)

LEMMA NewVerdictTold ==
  ASSUME NEW g, NEW k \in Group
  PROVE  /\ NewVerdict(g)[k] = IF Members(g, k) = {} THEN None
                               ELSE EvaluateGroup(Members(g, k), SubjectsWithDeclarations(Claims(g)))
         /\ Members(g, k) # {} => NewVerdict(g)[k] # None
         /\ Members(g, k) = GroupIn(Claims(g), k) /\ Members(g, k) \in SUBSET Claim
<1>1. k \in GroupsOf(g) <=> Members(g, k) # {}
  BY DEF GroupsOf, Members
<1>2. Members(g, k) \in SUBSET Claim /\ SubjectsWithDeclarations(Claims(g)) \in SUBSET Subject
  BY PipelineAssumption DEF Members, Claims, SubjectsWithDeclarations
<1>3. EvaluateGroup(Members(g, k), SubjectsWithDeclarations(Claims(g))) # None
  BY <1>2, NoVerdictAssumption
<1>4. Members(g, k) = GroupIn(Claims(g), k)
  BY DEF Members, GroupIn
<1> QED BY <1>1, <1>2, <1>3, <1>4 DEF NewVerdict

\* The verdicts after a reconciliation are those of the claims in the graph.
LEMMA VerdictsAfter ==
  ASSUME NEW g, Claims(graph') = Claims(g), verdict' = NewVerdict(g)
  PROVE  /\ VerdictsAreEarned'
         /\ \A k \in Group : /\ verdict'[k] = None \/ verdict'[k].agreement \in
                                  {"conflict", "insufficient_evidence", "consensus", "compatible"}
                             /\ verdict'[k] # None => VerdictTold(k)'
<1>1. \A k : Members(graph', k) = Members(g, k)
  BY DEF Members
<1>2. ASSUME NEW k \in Group
      PROVE  verdict'[k] = IF Members(graph', k) = {} THEN None
                           ELSE EvaluateGroup(Members(graph', k), SubjectsWithDeclarations(Claims(graph')))
  BY <1>1, NewVerdictTold
<1>3. ASSUME NEW k \in Group, verdict'[k] # None
      PROVE  /\ Members(graph', k) # {} /\ Members(graph', k) \in SUBSET Claim
             /\ Members(graph', k) = GroupIn(Claims(graph'), k)
             /\ verdict'[k] = EvaluateGroup(Members(graph', k), SubjectsWithDeclarations(Claims(graph')))
  BY <1>2, <1>3, NewVerdictTold
<1>4. VerdictsAreCurrent'
  BY <1>2 DEF VerdictsAreCurrent
<1>5. ConsensusIsIndependent'
  <2> SUFFICES ASSUME NEW k \in Group, verdict'[k] # None, verdict'[k].agreement = "consensus"
               PROVE  LET asserting == {c \in Members(graph', k) : ClaimInfo[c].version # None}
                      IN  /\ \E c, d \in asserting : ClaimInfo[c].evidence # ClaimInfo[d].evidence
                          /\ \A c, d \in asserting : ClaimInfo[c].version.rank = ClaimInfo[d].version.rank
    BY DEF ConsensusIsIndependent
  <2> QED BY <1>3, ConsensusIsEarned
<1>6. ASSUME NEW k \in Group, verdict'[k] # None
      PROVE  VerdictTold(k)'
  BY <1>3, <1>6 DEF VerdictTold
<1>7. ASSUME NEW k \in Group, verdict'[k] # None
      PROVE  verdict'[k].agreement \in {"conflict", "insufficient_evidence", "consensus", "compatible"}
  BY <1>3, <1>7, AgreementType
<1> QED BY <1>4, <1>5, <1>6, <1>7 DEF VerdictsAreEarned

LEMMA EmptyIsGraph == EmptyGraph \in Graph
  BY DEF EmptyGraph, Graph

LEMMA InitInv == Init => PipelineInv
<1> SUFFICES ASSUME Init
             PROVE  PipelineInv
  OBVIOUS
<1>1. WithNodes(EmptyGraph, Subject, "rpm", graph)
  <2>1. Subject \in SUBSET NodeId /\ "rpm" \in NodeType
    BY PipelineAssumption
  <2> QED BY <2>1, EmptyIsGraph, AddNodesFields DEF Init
<1>2. graph \in Graph /\ \A n \in NodeId : HasNode(graph, n) <=> n \in Subject
  BY <1>1 DEF WithNodes, EmptyGraph, HasNode
<1>3. graph.edges = {} /\ \A n \in NodeId : graph.outgoing[n] = {} /\ graph.incoming[n] = {}
  BY <1>1 DEF WithNodes, EmptyGraph
<1>4. Resolutions(graph) = {} /\ Claims(graph) = {} /\ GroupsOf(graph) = {} /\ \A s \in Subject : HasNode(graph, s)
  BY <1>2, PipelineAssumption DEF Resolutions, Claims, GroupsOf
<1>5. Indexes(graph, {})
  BY <1>2, <1>3 DEF Indexes, OutgoingScan, IncomingScan, Graph
<1>6. GraphOK(graph)
  BY <1>2, <1>3, <1>4, <1>5, GraphInOrder, FS_EmptySet
<1>7. Untouched(graph)
  BY <1>4, <1>6, NoClaimNoEdge
<1>8. PipelineTypeOK
  <2>1. runs \in 0 .. MaxRuns /\ edgeCount \in Nat
    BY PipelineAssumption DEF Init
  <2>2. \A k \in Group : verdict[k] = None
    BY DEF Init
  <2> QED BY <1>2, <2>1, <2>2, EmptyIsGraph DEF Init, PipelineTypeOK
<1>9. RunsReconcile /\ VerdictsAreEarned
  BY <1>8 DEF Init, RunsReconcile, FirstRunIsReconciled, ClaimsSurvive, VerdictsAreEarned, VerdictsAreCurrent,
              ConsensusIsIndependent
<1> QED BY <1>6, <1>7, <1>9 DEF Init, PipelineInv

LEMMA BeginRunInv ==
  ASSUME PipelineInv, BeginRun
  PROVE  PipelineInv'
<1>1. PipelineTypeOK'
  <2>1. graph' \in Graph /\ recorder' \in Graph /\ added' \subseteq Claim /\ everAdded' \subseteq Claim
    BY DEF PipelineInv, RunsReconcile, PipelineTypeOK, BeginRun
  <2>2. runs' \in 0 .. MaxRuns /\ edgeCount' \in Nat
    BY PipelineAssumption DEF PipelineInv, RunsReconcile, PipelineTypeOK, BeginRun
  <2> QED BY <2>1, <2>2 DEF PipelineInv, RunsReconcile, PipelineTypeOK, BeginRun
<1>2. FirstRunIsReconciled' /\ VerdictsAreEarned'
  BY DEF BeginRun, FirstRunIsReconciled, VerdictsAreEarned, VerdictsAreCurrent, ConsensusIsIndependent
<1>3. ClaimsSurvive'
  BY DEF PipelineInv, RunsReconcile, ClaimsSurvive, BeginRun
<1>4. GraphOK(graph)' /\ Untouched(graph)' /\ (\A k \in Group : verdict[k] # None => VerdictTold(k))'
  BY DEF PipelineInv, BeginRun, VerdictTold
<1>5. (phase = "running" => recorder = graph /\ (~rerun => Resolutions(graph) = {}))'
  BY DEF BeginRun
<1> QED BY <1>1, <1>2, <1>3, <1>4, <1>5 DEF PipelineInv, RunsReconcile

LEMMA StepRaisesInv ==
  ASSUME PipelineInv, StepRaises
  PROVE  PipelineInv'
<1>1. PipelineTypeOK'
  BY EmptyIsGraph DEF PipelineInv, RunsReconcile, PipelineTypeOK, StepRaises
<1>2. FirstRunIsReconciled' /\ VerdictsAreEarned'
  BY DEF StepRaises, FirstRunIsReconciled, VerdictsAreEarned, VerdictsAreCurrent, ConsensusIsIndependent
<1>3. ClaimsSurvive'
  BY DEF PipelineInv, RunsReconcile, ClaimsSurvive, StepRaises
<1>4. GraphOK(graph)' /\ Untouched(graph)' /\ (\A k \in Group : verdict[k] # None => VerdictTold(k))'
  BY DEF PipelineInv, StepRaises, VerdictTold
<1>5. (phase = "running" => recorder = graph /\ (~rerun => Resolutions(graph) = {}))'
  BY DEF StepRaises
<1> QED BY <1>1, <1>2, <1>3, <1>4, <1>5 DEF PipelineInv, RunsReconcile

\* A graph that got a claim: one more node and one more edge.
LEMMA ClaimAdded ==
  ASSUME NEW g, GraphOK(g), NEW c \in Claim, NEW no \in Nat,
         NEW h, h = PutEdge(PutNode(g, Node(c, "claim")), Edge(no, ClaimInfo[c].subject, c, "declares_dependency"))
  PROVE  /\ GraphOK(h) /\ (Untouched(g) => Untouched(h))
         /\ Resolutions(h) = Resolutions(g) /\ Claims(h) = Claims(g) \cup {c}
         /\ h.edges = g.edges \cup {Edge(no, ClaimInfo[c].subject, c, "declares_dependency")}
<1> DEFINE e == Edge(no, ClaimInfo[c].subject, c, "declares_dependency")
           spec == <<ClaimInfo[c].subject, c, "declares_dependency">>
           a == PutNode(g, Node(c, "claim"))
<1>1. g \in Graph /\ c \in NodeId /\ {c} \in SUBSET NodeId /\ "claim" \in NodeType
  BY PipelineAssumption DEF GraphOK
<1>2. WithNodes(g, {c}, "claim", a)
  <2>1. AddNodes(g, {} \cup {c}, "claim") = PutNode(AddNodes(g, {}, "claim"), Node(c, "claim")) /\ AddNodes(g, {}, "claim") = g
    BY <1>1, AddNodesOneByOne
  <2>2. AddNodes(g, {c}, "claim") = a
    BY <2>1
  <2> QED BY <1>1, <2>2, AddNodesFields
<1>3. a \in Graph /\ spec \in Specs /\ {spec} \in SUBSET Specs
  BY <1>2, PipelineAssumption DEF WithNodes, Specs
<1> HIDE DEF a
<1>4. WithEdges(a, {e}, h)
  <2>1. /\ AddEdges(a, {} \cup {spec}, no)
             = PutEdge(AddEdges(a, {}, no), [no |-> no, source |-> spec[1], target |-> spec[2], relation |-> spec[3]])
        /\ AddEdges(a, {}, no) = a
    BY <1>3, AddEdgesOneByOne
  <2>2. [no |-> no, source |-> spec[1], target |-> spec[2], relation |-> spec[3]] = e
    BY DEF Edge
  <2>3. h = PutEdge(a, e)
    BY DEF a
  <2>4. AddEdges(a, {spec}, no) = h
    BY <2>1, <2>2, <2>3
  <2>5. NewEdges({spec}, no) = {e}
    BY DEF NewEdges, Edge
  <2> QED BY <1>3, <2>4, <2>5, AddEdgesFields
<1>5. e.source = ClaimInfo[c].subject /\ e.target = c /\ e.relation = "declares_dependency"
  BY DEF Edge
<1> HIDE DEF e, spec
<1>6. h \in Graph /\ h.edges = g.edges \cup {e} /\ e \in EdgeObject
  BY <1>2, <1>4 DEF WithNodes, WithEdges
<1>7. \A n \in NodeId : HasNode(h, n) <=> (HasNode(g, n) \/ n = c)
  <2> TAKE n \in NodeId
  <2>1. HasNode(h, n) <=> HasNode(a, n)
    BY <1>4 DEF WithEdges, HasNode
  <2>2. HasNode(a, n) <=> (n \in {c} \/ HasNode(g, n))
    BY <1>2 DEF WithNodes
  <2> QED BY <2>1, <2>2
<1>8. Resolutions(h) = Resolutions(g) /\ Claims(h) = Claims(g) \cup {c} /\ \A s \in Subject : HasNode(h, s)
  BY <1>7, PipelineAssumption DEF Resolutions, Claims, GraphOK
<1>9. ASSUME NEW edges, Indexes(g, edges)
      PROVE  Indexes(h, edges \cup {e})
  <2>1. Indexes(a, edges)
    BY <1>2, <1>9 DEF WithNodes, Indexes
  <2> QED BY <1>4, <2>1, MoreIndexes
<1>10. Lawful(h, e)
  BY <1>5, <1>8, PipelineAssumption DEF Lawful
<1>11. GraphOK(h)
  <2> DEFINE index == Indexed(g) \cup {e}
  <2>1. Indexes(h, index)
    BY <1>9 DEF GraphOK, Indexes
  <2>2. index \in SUBSET EdgeObject /\ IsFiniteSet(index) /\ IsFiniteSet(h.edges)
    BY <1>1, <1>6, IndexedType, FS_AddElement DEF GraphOK
  <2>3. \A f \in g.edges \cup Indexed(g) : Lawful(h, f)
    BY <1>8, StillLawful DEF GraphOK
  <2>4. Resolutions(h) \subseteq GroupsOf(h)
    BY <1>8 DEF GraphOK, GroupsOf
  <2>5. \A f \in index : Lawful(h, f)
    BY <1>10, <2>3
  <2>6. \A f \in h.edges : Lawful(h, f)
    BY <1>6, <1>10, <2>3
  <2> HIDE DEF index
  <2> QED BY <1>6, <1>8, <2>1, <2>2, <2>4, <2>5, <2>6, GraphInOrder
<1>12. Untouched(g) => Untouched(h)
  <2> SUFFICES ASSUME Untouched(g), Resolutions(h) = {}
               PROVE  AdjacencyMatches(h) /\ VerdictEdges(h) = {}
    BY DEF Untouched
  <2>1. AdjacencyMatches(g) /\ VerdictEdges(g) = {}
    BY <1>8 DEF Untouched
  <2>2. Indexes(h, g.edges \cup {e})
    BY <1>9, <2>1 DEF AdjacencyMatches, Indexes
  <2>3. AdjacencyMatches(h)
    BY <1>6, <2>2 DEF AdjacencyMatches, Indexes
  <2>4. VerdictEdges(h) = {}
    BY <1>5, <1>6, <2>1 DEF VerdictEdges
  <2> QED BY <2>3, <2>4
<1> QED BY <1>6, <1>8, <1>11, <1>12 DEF e

LEMMA AddClaimInv ==
  ASSUME PipelineInv, NEW c \in Claim, AddClaim(c)
  PROVE  PipelineInv'
<1> DEFINE e == Edge(edgeCount + 1, ClaimInfo[c].subject, c, "declares_dependency")
<1>1. recorder = graph /\ edgeCount \in Nat /\ edgeCount + 1 \in Nat /\ edgeCount' = edgeCount + 1
  BY DEF PipelineInv, RunsReconcile, PipelineTypeOK, AddClaim
<1>2. graph' = PutEdge(PutNode(graph, Node(c, "claim")), e) /\ recorder' = graph'
  BY <1>1 DEF AddClaim, Edge
<1>3. e.source = ClaimInfo[c].subject /\ e.target = c /\ e.relation = "declares_dependency"
  BY DEF Edge
<1> HIDE DEF e
<1>4. /\ GraphOK(graph') /\ Untouched(graph')
      /\ Resolutions(graph') = Resolutions(graph) /\ Claims(graph') = Claims(graph) \cup {c}
      /\ graph'.edges = graph.edges \cup {e}
  BY <1>1, <1>2, ClaimAdded DEF PipelineInv, e
<1>5. PipelineTypeOK'
  <2>1. graph' \in Graph /\ recorder' \in Graph /\ added' \subseteq Claim /\ everAdded' \subseteq Claim /\ edgeCount' \in Nat
    BY <1>1, <1>2, <1>4 DEF PipelineInv, RunsReconcile, PipelineTypeOK, AddClaim, GraphOK
  <2> QED BY <2>1 DEF PipelineInv, RunsReconcile, PipelineTypeOK, AddClaim
<1>6. FirstRunIsReconciled' /\ VerdictsAreEarned'
  BY DEF AddClaim, FirstRunIsReconciled, VerdictsAreEarned, VerdictsAreCurrent, ConsensusIsIndependent
<1>7. ClaimsSurvive'
  <2> SUFFICES ASSUME NEW d \in everAdded \cup {c}
               PROVE  /\ HasNode(graph', d)
                      /\ \E f \in graph'.edges :
                           f.source = ClaimInfo[d].subject /\ f.target = d /\ f.relation = "declares_dependency"
    BY DEF AddClaim, ClaimsSurvive
  <2>1. CASE d = c
    BY <1>3, <1>4, <2>1 DEF Claims
  <2>2. CASE d \in everAdded
    <3>1. /\ HasNode(graph, d)
          /\ \E f \in graph.edges : f.source = ClaimInfo[d].subject /\ f.target = d /\ f.relation = "declares_dependency"
      BY <2>2 DEF PipelineInv, RunsReconcile, ClaimsSurvive
    <3>2. d \in Claim
      BY <2>2 DEF PipelineInv, RunsReconcile, PipelineTypeOK
    <3>3. HasNode(graph', d)
      BY <1>4, <3>1, <3>2 DEF Claims
    <3> QED BY <1>4, <3>1, <3>3
  <2> QED BY <2>1, <2>2
<1>8. (\A k \in Group : verdict[k] # None => VerdictTold(k))'
  <2> SUFFICES ASSUME NEW k \in Group, verdict[k] # None
               PROVE  VerdictTold(k)'
    BY DEF AddClaim
  <2>1. VerdictTold(k)
    BY DEF PipelineInv
  <2>2. SUBSET Claims(graph) \subseteq SUBSET Claims(graph') /\ verdict' = verdict
    BY <1>4 DEF AddClaim
  <2> QED BY <2>1, <2>2 DEF VerdictTold
<1>9. (phase = "running" => recorder = graph /\ (~rerun => Resolutions(graph) = {}))'
  BY <1>2, <1>4 DEF AddClaim, PipelineInv
<1> QED BY <1>4, <1>5, <1>6, <1>7, <1>8, <1>9 DEF PipelineInv, RunsReconcile

\* Declarations that stay keep the claims.
LEMMA ClaimsStay ==
  ASSUME PipelineInv, everAdded' = everAdded, Claims(graph') = Claims(graph), Declared(graph) \subseteq graph'.edges
  PROVE  ClaimsSurvive'
<1> SUFFICES ASSUME NEW c \in everAdded
             PROVE  /\ HasNode(graph', c)
                    /\ \E e \in graph'.edges : e.source = ClaimInfo[c].subject /\ e.target = c /\ e.relation = "declares_dependency"
  BY DEF ClaimsSurvive
<1>1. /\ HasNode(graph, c) /\ c \in Claim
      /\ \E e \in graph.edges : e.source = ClaimInfo[c].subject /\ e.target = c /\ e.relation = "declares_dependency"
  BY DEF PipelineInv, RunsReconcile, ClaimsSurvive, PipelineTypeOK
<1>2. HasNode(graph', c)
  BY <1>1 DEF Claims
<1> QED BY <1>1, <1>2 DEF Declared

LEMMA FinishRunInv ==
  ASSUME PipelineInv, FinishRun
  PROVE  PipelineInv'
<1>1. /\ recorder = graph /\ GraphOK(graph) /\ edgeCount \in Nat /\ edgeCount' = edgeCount + 2
      /\ recorder' = Reconciled(graph, edgeCount) /\ graph' = TargetAfter(graph, edgeCount)
      /\ verdict' = NewVerdict(graph)
  BY DEF PipelineInv, RunsReconcile, PipelineTypeOK, FinishRun
<1>2. IsTarget(graph, edgeCount, graph') /\ IsRebuilt(graph, edgeCount, recorder')
  BY <1>1, TargetIsExact, RebuildIsExact
<1>3. GraphOK(graph') /\ Untouched(graph') /\ Declared(graph) \subseteq graph'.edges
  BY <1>1, <1>2, TargetOK
<1>4. Claims(graph') = Claims(graph)
  BY <1>1, <1>2, NodesAfter DEF IsTarget
<1>5. /\ VerdictsAreEarned'
      /\ \A k \in Group : /\ verdict'[k] = None \/ verdict'[k].agreement \in
                               {"conflict", "insufficient_evidence", "consensus", "compatible"}
                          /\ verdict'[k] # None => VerdictTold(k)'
  BY <1>1, <1>4, VerdictsAfter
<1>6. PipelineTypeOK'
  <2>1. graph' \in Graph /\ recorder' \in Graph /\ added' \subseteq Claim /\ everAdded' \subseteq Claim /\ edgeCount' \in Nat
    BY <1>1, <1>2 DEF PipelineInv, RunsReconcile, PipelineTypeOK, FinishRun, IsTarget, IsRebuilt
  <2> QED BY <1>5, <2>1 DEF PipelineInv, RunsReconcile, PipelineTypeOK, FinishRun
<1>7. ClaimsSurvive'
  BY <1>3, <1>4, ClaimsStay DEF FinishRun
<1>8. FirstRunIsReconciled'
  <2> SUFFICES ASSUME ~rerun
               PROVE  IsReconciled(graph')
    BY DEF FinishRun, FirstRunIsReconciled
  <2>1. Resolutions(graph) = {} /\ AdjacencyMatches(graph) /\ VerdictEdges(graph) = {}
    BY DEF PipelineInv, FinishRun, Untouched
  <2>2. SameStory(graph)
    <3>1. Indexed(graph) = graph.edges
      BY <1>1, <2>1, IndexedEdges DEF AdjacencyMatches, Indexes, GraphOK, Graph
    <3> QED BY <1>1, <3>1, OneStory
  <2>3. graph' = Reconciled(graph, edgeCount)
    BY <1>1, <2>1, TargetIsExact
  <2> QED BY <1>1, <1>2, <2>2, <2>3, ReconciliationIsComplete
<1>9. (phase = "running" => recorder = graph /\ (~rerun => Resolutions(graph) = {}))'
  BY DEF FinishRun
<1> QED BY <1>3, <1>5, <1>6, <1>7, <1>8, <1>9 DEF PipelineInv, RunsReconcile

LEMMA ReconcileDirectInv ==
  ASSUME PipelineInv, ReconcileDirect
  PROVE  PipelineInv'
<1>1. /\ GraphOK(graph) /\ edgeCount \in Nat /\ edgeCount' = edgeCount + 2
      /\ graph' = Reconciled(graph, edgeCount) /\ verdict' = NewVerdict(graph)
  BY DEF PipelineInv, RunsReconcile, PipelineTypeOK, ReconcileDirect
<1>2. IsRebuilt(graph, edgeCount, graph')
  BY <1>1, RebuildIsExact
<1>3. GraphOK(graph') /\ Untouched(graph') /\ Declared(graph) \subseteq graph'.edges
  BY <1>1, <1>2, ReconciledOK DEF IsRebuilt
<1>4. Claims(graph') = Claims(graph)
  BY <1>1, <1>2, NodesAfter DEF IsRebuilt
<1>5. /\ VerdictsAreEarned'
      /\ \A k \in Group : /\ verdict'[k] = None \/ verdict'[k].agreement \in
                               {"conflict", "insufficient_evidence", "consensus", "compatible"}
                          /\ verdict'[k] # None => VerdictTold(k)'
  BY <1>1, <1>4, VerdictsAfter
<1>6. PipelineTypeOK'
  <2>1. graph' \in Graph /\ recorder' \in Graph /\ added' \subseteq Claim /\ everAdded' \subseteq Claim /\ edgeCount' \in Nat
    BY <1>1, <1>2 DEF PipelineInv, RunsReconcile, PipelineTypeOK, ReconcileDirect, IsRebuilt
  <2> QED BY <1>5, <2>1 DEF PipelineInv, RunsReconcile, PipelineTypeOK, ReconcileDirect
<1>7. ClaimsSurvive'
  BY <1>3, <1>4, ClaimsStay DEF ReconcileDirect
<1>8. FirstRunIsReconciled'
  BY DEF ReconcileDirect, FirstRunIsReconciled
<1>9. (phase = "running" => recorder = graph /\ (~rerun => Resolutions(graph) = {}))'
  BY DEF ReconcileDirect
<1> QED BY <1>3, <1>5, <1>6, <1>7, <1>8, <1>9 DEF PipelineInv, RunsReconcile

LEMMA SaveAndLoadInv ==
  ASSUME PipelineInv, SaveAndLoad
  PROVE  PipelineInv'
<1> DEFINE rows == {<<e.source, e.target, e.relation>> : e \in graph.edges}
           live == {r \in rows : HasNode(graph, r[1]) /\ HasNode(graph, r[2])}
           bare == [EmptyGraph EXCEPT !.nodes = graph.nodes, !.nodesByType = graph.nodesByType]
           new == NewEdges(live, 1)
<1>1. GraphOK(graph) /\ graph \in Graph /\ graph.edges \in SUBSET EdgeObject
  BY DEF PipelineInv, GraphOK, Graph
<1>2. graph' = AddEdges(bare, live, 1)
  BY DEF SaveAndLoad
<1>3. live \in SUBSET Specs /\ IsFiniteSet(live)
  <2>1. rows \in SUBSET Specs
    BY <1>1 DEF EdgeObject, Specs
  <2>2. IsFiniteSet(rows)
    <3> DEFINE f == [e \in graph.edges |-> <<e.source, e.target, e.relation>>]
    <3>1. rows = {f[e] : e \in graph.edges}
      OBVIOUS
    <3> HIDE DEF f, rows
    <3> QED BY <1>1, <3>1, FiniteImage DEF GraphOK
  <2> HIDE DEF rows
  <2> QED BY <2>1, <2>2, FS_Subset
<1>4. \A spec : spec \in live <=> \E e \in graph.edges : /\ spec = <<e.source, e.target, e.relation>>
                                                       /\ HasNode(graph, e.source) /\ HasNode(graph, e.target)
  OBVIOUS
<1>5. /\ bare \in Graph /\ bare.nodes = graph.nodes /\ bare.edges = {}
      /\ \A n \in NodeId : bare.outgoing[n] = {} /\ bare.incoming[n] = {}
  BY <1>1, EmptyIsGraph DEF EmptyGraph, Graph
<1> HIDE DEF live, bare
<1>6. WithEdges(bare, new, graph')
  BY <1>2, <1>3, <1>5, AddEdgesFields
<1>7. new \in SUBSET EdgeObject /\ IsFiniteSet(new)
  BY <1>3, <1>6, NewEdgesFinite DEF WithEdges
<1>8. \A e \in new : \E f \in graph.edges : f.source = e.source /\ f.target = e.target /\ f.relation = e.relation
  <2> TAKE e \in new
  <2>1. <<e.source, e.target, e.relation>> \in live
    BY <1>3, NewEdgesTold
  <2> QED BY <1>4, <2>1
<1>9. ASSUME NEW f \in graph.edges, HasNode(graph, f.source), HasNode(graph, f.target)
      PROVE  \E e \in new : f.source = e.source /\ f.target = e.target /\ f.relation = e.relation
  <2> DEFINE e == [no |-> 1, source |-> f.source, target |-> f.target, relation |-> f.relation]
  <2>1. <<e.source, e.target, e.relation>> \in live
    BY <1>4, <1>9
  <2>2. e = [no |-> 1, source |-> e.source, target |-> e.target, relation |-> e.relation]
    OBVIOUS
  <2>3. f.source = e.source /\ f.target = e.target /\ f.relation = e.relation
    OBVIOUS
  <2> HIDE DEF e
  <2>4. e \in new
    BY <1>3, <2>1, <2>2, NewEdgesTold
  <2> QED BY <2>3, <2>4
<1> HIDE DEF new
<1>10. graph' \in Graph /\ graph'.nodes = graph.nodes /\ graph'.edges = new
  BY <1>5, <1>6 DEF WithEdges
<1>11. /\ Resolutions(graph') = Resolutions(graph) /\ Claims(graph') = Claims(graph) /\ GroupsOf(graph') = GroupsOf(graph)
       /\ \A s \in Subject : HasNode(graph', s)
  BY <1>1, <1>10 DEF Resolutions, Claims, GroupsOf, HasNode, GraphOK
<1>12. Indexes(graph', new)
  <2>1. Indexes(bare, {})
    BY <1>5 DEF Indexes, OutgoingScan, IncomingScan, Graph
  <2>2. Indexes(graph', {} \cup new)
    BY <1>6, <2>1, MoreIndexes
  <2> QED BY <2>2
<1>13. \A e \in new : Lawful(graph', e)
  <2> TAKE e \in new
  <2>1. PICK f \in graph.edges : f.source = e.source /\ f.target = e.target /\ f.relation = e.relation
    BY <1>8
  <2>2. Lawful(graph, f)
    BY <1>1 DEF GraphOK
  <2> QED BY <1>11, <2>1, <2>2 DEF Lawful
<1>14. GraphOK(graph')
  BY <1>1, <1>7, <1>10, <1>11, <1>12, <1>13, GraphInOrder DEF GraphOK
<1>15. Untouched(graph')
  <2> SUFFICES ASSUME Resolutions(graph') = {}
               PROVE  AdjacencyMatches(graph') /\ VerdictEdges(graph') = {}
    BY DEF Untouched
  <2>1. VerdictEdges(graph) = {}
    BY <1>11 DEF PipelineInv, Untouched
  <2>2. VerdictEdges(graph') = {}
    BY <1>8, <1>10, <2>1 DEF VerdictEdges
  <2> QED BY <1>10, <1>12, <2>2 DEF AdjacencyMatches, Indexes
<1>16. PipelineTypeOK'
  BY <1>10 DEF PipelineInv, RunsReconcile, PipelineTypeOK, SaveAndLoad
<1>17. FirstRunIsReconciled' /\ VerdictsAreEarned'
  BY DEF SaveAndLoad, FirstRunIsReconciled, VerdictsAreEarned, VerdictsAreCurrent, ConsensusIsIndependent
<1>18. ClaimsSurvive'
  <2> SUFFICES ASSUME NEW c \in everAdded
               PROVE  /\ HasNode(graph', c)
                      /\ \E e \in graph'.edges : e.source = ClaimInfo[c].subject /\ e.target = c /\ e.relation = "declares_dependency"
    BY DEF ClaimsSurvive, SaveAndLoad
  <2>1. HasNode(graph, c) /\ c \in Claim /\ ClaimInfo[c].subject \in Subject
    BY PipelineAssumption DEF PipelineInv, RunsReconcile, ClaimsSurvive, PipelineTypeOK
  <2>2. PICK f \in graph.edges : f.source = ClaimInfo[c].subject /\ f.target = c /\ f.relation = "declares_dependency"
    BY DEF PipelineInv, RunsReconcile, ClaimsSurvive
  <2>3. HasNode(graph, f.source) /\ HasNode(graph, f.target)
    BY <1>1, <2>1, <2>2 DEF GraphOK
  <2>4. HasNode(graph', c)
    BY <1>10, <2>1 DEF HasNode
  <2> QED BY <1>9, <1>10, <2>2, <2>3, <2>4
<1>19. (\A k \in Group : verdict[k] # None => VerdictTold(k))'
  BY <1>11 DEF PipelineInv, VerdictTold, SaveAndLoad
<1>20. (phase = "running" => recorder = graph /\ (~rerun => Resolutions(graph) = {}))'
  BY DEF SaveAndLoad
<1> QED BY <1>14, <1>15, <1>16, <1>17, <1>18, <1>19, <1>20 DEF PipelineInv, RunsReconcile

LEMMA StutterInv ==
  ASSUME PipelineInv, UNCHANGED vars
  PROVE  PipelineInv'
<1>1. PipelineTypeOK' /\ FirstRunIsReconciled' /\ ClaimsSurvive'
  BY DEF PipelineInv, RunsReconcile, PipelineTypeOK, FirstRunIsReconciled, ClaimsSurvive, vars
<1>2. VerdictsAreEarned'
  BY DEF PipelineInv, VerdictsAreEarned, VerdictsAreCurrent, ConsensusIsIndependent, vars
<1>3. GraphOK(graph)' /\ Untouched(graph)' /\ (\A k \in Group : verdict[k] # None => VerdictTold(k))'
      /\ (phase = "running" => recorder = graph /\ (~rerun => Resolutions(graph) = {}))'
  BY DEF PipelineInv, VerdictTold, vars
<1> QED BY <1>1, <1>2, <1>3 DEF PipelineInv, RunsReconcile

LEMMA NextInv == PipelineInv /\ [Next]_vars => PipelineInv'
<1> SUFFICES ASSUME PipelineInv, [Next]_vars
             PROVE  PipelineInv'
  OBVIOUS
<1>1. CASE BeginRun
  BY <1>1, BeginRunInv
<1>2. ASSUME NEW c \in Claim, AddClaim(c)
      PROVE  PipelineInv'
  BY <1>2, AddClaimInv
<1>3. CASE StepRaises
  BY <1>3, StepRaisesInv
<1>4. CASE FinishRun
  BY <1>4, FinishRunInv
<1>5. CASE ReconcileDirect
  BY <1>5, ReconcileDirectInv
<1>6. CASE SaveAndLoad
  BY <1>6, SaveAndLoadInv
<1>7. CASE UNCHANGED vars
  BY <1>7, StutterInv
<1> QED BY <1>1, <1>2, <1>3, <1>4, <1>5, <1>6, <1>7 DEF Next

----------------------------------------------------------------------------
(* The theorems. *)

\* The inductive invariant: every graph holds only edges of the pipeline's kinds between
\* nodes that are there, its two indexes hold the same edges, and a graph that was never
\* reconciled has a list that agrees with them (pipeline.py:76-101, reconcile.py:250-330).
THEOREM PipelineInvariant == Spec => []PipelineInv
<1>1. Init => PipelineInv
  BY InitInv
<1>2. PipelineInv /\ [Next]_vars => PipelineInv'
  BY NextInv
<1> QED BY <1>1, <1>2, PTL DEF Spec

\* The graph a first run returns carries the complete reconciliation of its claims, once,
\* and no run, purge, abort or save loses a claim or its declaration.
THEOREM RunsAreComplete == Spec => []RunsReconcile
<1>1. PipelineInv => RunsReconcile
  BY DEF PipelineInv
<1> QED BY <1>1, PipelineInvariant, PTL

\* After every reconciliation each group's verdict is that of the claims now in the
\* graph, and a consensus has two sources and one version behind it.
THEOREM VerdictsAreRight == Spec => []VerdictsAreEarned
<1>1. PipelineInv => VerdictsAreEarned
  BY DEF PipelineInv
<1> QED BY <1>1, PipelineInvariant, PTL

\* However often a graph was reconciled before: if its list and indexes told one story,
\* what the run itself sees at its end is a complete reconciliation.
THEOREM RerunsAreComplete == Spec => RerunsReconcile
<1>1. ASSUME PipelineInv, [Next]_vars, phase = "running", phase' = "done", SameStory(recorder)
      PROVE  IsReconciled(recorder')
  <2>1. FinishRun
    BY <1>1 DEF Next, BeginRun, AddClaim, StepRaises, ReconcileDirect, SaveAndLoad, vars
  <2>2. /\ GraphOK(recorder) /\ edgeCount \in Nat /\ recorder' = Reconciled(recorder, edgeCount)
    BY <1>1, <2>1 DEF PipelineInv, RunsReconcile, PipelineTypeOK, FinishRun
  <2>3. IsRebuilt(recorder, edgeCount, recorder')
    BY <2>2, RebuildIsExact
  <2> QED BY <1>1, <2>2, <2>3, ReconciliationIsComplete
<1>2. PipelineInv /\ [Next]_vars
        => [phase = "running" /\ phase' = "done" /\ SameStory(recorder) => IsReconciled(recorder')]_vars
  BY <1>1
<1> QED BY <1>2, PipelineInvariant, PTL DEF Spec, RerunsReconcile

\* A verdict, once given, is never withdrawn, and no kind of conflict in it but an
\* undeclared dependency ever disappears: claims are only added.
THEOREM ConflictsAreKept == Spec => ConflictsPersist
<1>1. ASSUME PipelineInv, [Next]_vars, NEW k \in Group, verdict[k] # None
      PROVE  /\ verdict'[k] # None
             /\ verdict[k].kinds \ {"presence_undeclared"} \subseteq verdict'[k].kinds
  <2>1. CASE verdict' = verdict
    BY <1>1, <2>1
  <2>2. CASE verdict' = NewVerdict(graph)
    <3>1. PICK claims \in SUBSET Claims(graph) :
            /\ GroupIn(claims, k) # {}
            /\ verdict[k] = EvaluateGroup(GroupIn(claims, k), SubjectsWithDeclarations(claims))
      BY <1>1 DEF PipelineInv, VerdictTold
    <3>2. /\ GroupIn(claims, k) \subseteq Members(graph, k)
          /\ GroupIn(claims, k) \in SUBSET Claim /\ Members(graph, k) \in SUBSET Claim
      BY DEF GroupIn, Members, Claims
    <3>3. /\ verdict'[k] # None
          /\ verdict'[k] = EvaluateGroup(Members(graph, k), SubjectsWithDeclarations(Claims(graph)))
      BY <2>2, <3>1, <3>2, NewVerdictTold
    <3>4. /\ verdict[k].kinds = ConflictKinds(GroupIn(claims, k), SubjectsWithDeclarations(claims))
          /\ verdict'[k].kinds = ConflictKinds(Members(graph, k), SubjectsWithDeclarations(Claims(graph)))
      BY <3>1, <3>3, AgreementType
    <3> QED BY <3>2, <3>3, <3>4, ConflictsGrow
  <2>3. verdict' = verdict \/ verdict' = NewVerdict(graph)
    BY <1>1 DEF PipelineInv, Next, BeginRun, AddClaim, StepRaises, FinishRun, ReconcileDirect, SaveAndLoad, vars
  <2> QED BY <2>1, <2>2, <2>3
<1>2. PipelineInv /\ [Next]_vars
        => [\A k \in Group : verdict[k] # None =>
              /\ verdict'[k] # None
              /\ verdict[k].kinds \ {"presence_undeclared"} \subseteq verdict'[k].kinds]_vars
  BY <1>1
<1> QED BY <1>2, PipelineInvariant, PTL DEF Spec, ConflictsPersist

----------------------------------------------------------------------------
(* The errata steps (ErrataEvidence). *)

ErrataNode == [sources : SUBSET Source, checked : Flag, file : BOOLEAN]
Mark == [status : {"confirmed_clean", Unset}, checked : Flag]

\* TypeOK speaks of the entries of fixes; that each is a list is needed beside it.
Typed ==
  /\ TypeOK
  /\ errata \in [Advisory -> ErrataNode \cup {Unset}]
  /\ mark \in [Rpm -> Mark]
  /\ fixes \in [Pair -> Seq(Flag)]

\* An edge is there exactly for what was reported, and an RPM is marked clean if it was
\* asked about, as long as nothing is reported of it.
MarksTell ==
  /\ \A p \in Pair : fixes[p] # << >> <=> p \in reported
  /\ \A r \in Rpm :
       /\ mark[r].status = "confirmed_clean" => r \in queried
       /\ r \in queried =>
            mark[r].status = "confirmed_clean" \/ \E a \in Advisory : <<r, a>> \in reported

\* The mark of an RPM is that of its last cross-check; and agreement that is not about
\* knowing none was about something reported.
ChecksTell ==
  /\ agreeing \subseteq queried
  /\ \A r \in agreeing : r \in agreedClean \/ \E a \in Advisory : <<r, a>> \in reported
  /\ \A r \in Rpm : mark[r].checked = TRUE <=> r \in agreeing

ErrataInv == Typed /\ MarksTell /\ ChecksTell /\ AgreementIsEarned /\ CvesComeAlongOnce /\ OneEdgePerReport

USE BoundAssumption, UnsetAssumption
-----------------------------------------------------------------------------
\* Two of the two sources are both: what Agreed counts is what the history calls
\* corroborated.
LEMMA TwoSourcesAreBoth ==
  ASSUME NEW S \in SUBSET Source
  PROVE  (Cardinality(S) >= 2) \in BOOLEAN /\ (Cardinality(S) >= 2 <=> S = Source)
<1>1. /\ Cardinality({}) = 0
      /\ IsFiniteSet({"http"}) /\ Cardinality({"http"}) = 1 /\ Cardinality({"dnf"}) = 1
  BY FS_Singleton, FS_EmptySet
<1>2. Cardinality({"http"} \cup {"dnf"}) = Cardinality({"http"}) + 1
  BY <1>1, FS_AddElement
<1>3. Source = {"http"} \cup {"dnf"}
  BY DEF Source
<1>4. CASE S = Source
  BY <1>1, <1>2, <1>3, <1>4
<1>5. CASE S # Source
  <2>1. S = {} \/ S = {"http"} \/ S = {"dnf"}
    BY <1>5 DEF Source
  <2>2. ~(Cardinality(S) >= 2)
    BY <1>1, <2>1
  <2> QED BY <1>5, <2>2
<1> QED BY <1>4, <1>5

\* The list of edges of a pair after a step of the sources.
LEMMA WithFixesEntry ==
  ASSUME Typed, NEW pairs \in SUBSET Pair, NEW flag \in [pairs -> Flag]
  PROVE  /\ WithFixes(pairs, flag) \in [Pair -> Seq(Flag)]
         /\ \A p \in Pair :
              LET l == WithFixes(pairs, flag)[p]
              IN  /\ p \in pairs /\ fixes[p] = << >> => Len(l) = 1 /\ l[1] = flag[p] /\ l # << >>
                  /\ ~(p \in pairs /\ fixes[p] = << >>) => l = fixes[p]
  BY DEF WithFixes, Typed

\* Before the first step nothing is attached, and nothing was asked.
LEMMA ErrataInitInv == ErrataInit => ErrataInv
<1> SUFFICES ASSUME ErrataInit PROVE ErrataInv
  OBVIOUS
<1>1. Typed
  BY DEF ErrataInit, Typed, TypeOK, ErrataNode, Mark, Flag, Pair
<1>2. MarksTell /\ ChecksTell
  BY DEF ErrataInit, MarksTell, ChecksTell
<1>3. AgreementIsEarned /\ CvesComeAlongOnce /\ OneEdgePerReport
  BY DEF ErrataInit, AgreementIsEarned, CvesComeAlongOnce, OneEdgePerReport
<1> QED BY <1>1, <1>2, <1>3 DEF ErrataInv

-----------------------------------------------------------------------------
\* What a step of the sources over pairs makes of the edges: every pair has one now, no
\* pair has lost or doubled one, and what an edge says of agreement is what it said or
\* what the step says.
EdgesKept(pairs, flag) ==
  /\ fixes' \in [Pair -> Seq(Flag)]
  /\ \A p \in Pair : Len(fixes'[p]) <= MaxFixes /\ \A i \in DOMAIN fixes'[p] : fixes'[p][i] \in Flag
  /\ \A p \in Pair : fixes'[p] # << >> <=> p \in reported'
  /\ OneEdgePerReport'
  /\ \A p \in Pair : \A i \in DOMAIN fixes'[p] :
       \/ i \in DOMAIN fixes[p] /\ fixes'[p][i] = fixes[p][i]
       \/ p \in pairs /\ fixes'[p][i] = flag[p]

\* A step of the sources, seen at the edges.
LEMMA EdgesFollowReports ==
  ASSUME ErrataInv, NEW pairs \in SUBSET Pair, NEW flag, flag \in [pairs -> Flag],
         fixes' = WithFixes(pairs, flag), reported' = reported \cup pairs, filed' = filed
  PROVE  EdgesKept(pairs, flag)
<1>0. Typed /\ MarksTell /\ OneEdgePerReport
  BY DEF ErrataInv
<1>1. fixes' \in [Pair -> Seq(Flag)]
  BY <1>0, WithFixesEntry
<1> DEFINE New(p) == p \in pairs /\ fixes[p] = << >>
<1>2. \A p \in Pair : /\ New(p) => Len(fixes'[p]) = 1 /\ fixes'[p][1] = flag[p] /\ fixes'[p] # << >>
                      /\ ~New(p) => fixes'[p] = fixes[p]
  BY <1>0, WithFixesEntry
<1>3. \A p \in Pair : fixes[p] \in Seq(Flag) /\ fixes'[p] \in Seq(Flag)
  BY <1>0, <1>1 DEF Typed
<1>4. \A p \in Pair : fixes[p] # << >> <=> p \in reported
  BY <1>0 DEF MarksTell
<1>5. \A p \in Pair : Len(fixes'[p]) <= MaxFixes
  <2>1. \A p \in Pair : Len(fixes[p]) <= MaxFixes
    BY <1>0 DEF Typed, TypeOK
  <2>2. \A p \in Pair : Len(fixes'[p]) = 1 \/ Len(fixes'[p]) = Len(fixes[p])
    BY <1>2
  <2>3. MaxFixes \in Nat /\ MaxFixes >= 1
    BY BoundAssumption
  <2> QED BY <2>1, <2>2, <2>3
<1>6. \A p \in Pair : \A i \in DOMAIN fixes'[p] : fixes'[p][i] \in Flag
  BY <1>3
<1>7. \A p \in Pair : fixes'[p] # << >> <=> p \in reported'
  BY <1>2, <1>4
<1>8. OneEdgePerReport'
  <2> SUFFICES ASSUME NEW p \in Pair, p[2] \notin filed
               PROVE  Len(fixes'[p]) = IF p \in reported' THEN 1 ELSE 0
    BY DEF OneEdgePerReport
  <2>1. Len(fixes[p]) = IF p \in reported THEN 1 ELSE 0
    BY <1>0 DEF OneEdgePerReport
  <2>2. CASE New(p)
    BY <1>2, <2>2
  <2>3. CASE ~New(p)
    BY <1>2, <1>4, <2>1, <2>3
  <2> QED BY <2>2, <2>3
<1>9. \A p \in Pair : \A i \in DOMAIN fixes'[p] :
              \/ i \in DOMAIN fixes[p] /\ fixes'[p][i] = fixes[p][i]
              \/ p \in pairs /\ fixes'[p][i] = flag[p]
  BY <1>2, <1>3
<1> QED BY <1>1, <1>5, <1>6, <1>7, <1>8, <1>9 DEF EdgesKept

\* A step of the sources, seen at the CVEs.
LEMMA CvesFollowTheFeed ==
  ASSUME ErrataInv, NEW advisories \in SUBSET Advisory,
         cveEdges' = WithCves(advisories), withCve' = withCve \cup advisories, filed' = filed
  PROVE  cveEdges' \in [Advisory -> Nat] /\ CvesComeAlongOnce'
<1>1. cveEdges \in [Advisory -> Nat] /\ CvesComeAlongOnce
  BY DEF ErrataInv, Typed, TypeOK
<1>2. \A a \in Advisory : cveEdges'[a] = IF a \in advisories /\ cveEdges[a] = 0 THEN 1 ELSE cveEdges[a]
  BY DEF WithCves
<1>3. cveEdges' \in [Advisory -> Nat]
  BY <1>1 DEF WithCves
<1>4. CvesComeAlongOnce'
  BY <1>1, <1>2 DEF CvesComeAlongOnce
<1> QED BY <1>3, <1>4

\* attach_errata_from_source keeps the invariant.
LEMMA SingleSourceInv ==
  ASSUME ErrataInv, NEW s \in Source, NEW selected \in SUBSET Rpm,
         NEW pairs \in SUBSET (selected \X Advisory), SingleSource(s, selected, pairs)
  PROVE  ErrataInv'
<1> DEFINE flag == [p \in pairs |-> Unset]
           given == IF s = "http" THEN AdvisoriesOf(pairs) ELSE {}
<1>0. /\ Typed /\ TypeOK /\ MarksTell /\ ChecksTell /\ AgreementIsEarned
      /\ pairs \in SUBSET Pair /\ flag \in [pairs -> Flag]
  BY DEF ErrataInv, Typed, Pair, Flag
<1>1. /\ AdvisoriesOf(pairs) \in SUBSET Advisory /\ given \in SUBSET Advisory
      /\ \A a \in AdvisoriesOf(pairs) : \E r \in Rpm : <<r, a>> \in pairs
  BY DEF AdvisoriesOf
<1>2. /\ fixes' = WithFixes(pairs, flag) /\ reported' = reported \cup pairs /\ filed' = filed
      /\ cveEdges' = WithCves(given) /\ withCve' = withCve \cup given
      /\ corroborated' = corroborated /\ agreeing' = agreeing /\ agreedClean' = agreedClean
      /\ queried' = queried \cup selected
  BY DEF SingleSource
<1> HIDE DEF given, flag
<1>3. EdgesKept(pairs, flag)
  BY <1>0, <1>2, EdgesFollowReports
<1>4. cveEdges' \in [Advisory -> Nat] /\ CvesComeAlongOnce'
  BY <1>1, <1>2, CvesFollowTheFeed
<1>5. /\ errata' \in [Advisory -> ErrataNode \cup {Unset}]
      /\ \A a \in Advisory : (errata'[a] # Unset /\ errata'[a].checked = TRUE)
                               <=> (errata[a] # Unset /\ errata[a].checked = TRUE)
  <2> DEFINE fresh == [sources |-> {}, checked |-> Unset, file |-> FALSE]
  <2>1. fresh \in ErrataNode /\ fresh.checked # TRUE
    BY DEF ErrataNode, Flag
  <2>2. errata' = [a \in Advisory |-> IF a \in AdvisoriesOf(pairs) /\ errata[a] = Unset THEN fresh ELSE errata[a]]
    BY DEF SingleSource
  <2>3. errata \in [Advisory -> ErrataNode \cup {Unset}]
    BY <1>0 DEF Typed
  <2> HIDE DEF fresh
  <2> QED BY <2>1, <2>2, <2>3
<1>6. /\ mark' \in [Rpm -> Mark]
      /\ \A r \in Rpm : /\ mark'[r].checked = mark[r].checked
                         /\ IF r \in selected /\ ~ \E a \in Advisory : <<r, a>> \in pairs
                            THEN mark'[r].status = "confirmed_clean" ELSE mark'[r] = mark[r]
  <2>1. mark \in [Rpm -> Mark]
    BY <1>0 DEF Typed
  <2>2. \A r \in Rpm : [mark[r] EXCEPT !.status = "confirmed_clean"] \in Mark
    BY <2>1 DEF Mark
  <2>3. mark' = [r \in Rpm |-> IF r \in selected /\ ~ \E a \in Advisory : <<r, a>> \in pairs
                               THEN [mark[r] EXCEPT !.status = "confirmed_clean"] ELSE mark[r]]
    BY DEF SingleSource
  <2>4. \A r \in Rpm : LET m == [mark[r] EXCEPT !.status = "confirmed_clean"]
                       IN  m.status = "confirmed_clean" /\ m.checked = mark[r].checked
    BY <2>1 DEF Mark
  <2> QED BY <2>1, <2>2, <2>3, <2>4
<1>7. Typed'
  <2>1. steps' \in 0 .. MaxSteps
    BY <1>0 DEF TypeOK, SingleSource, NextStep
  <2>2. queried' \subseteq Rpm /\ reported' \subseteq Pair /\ withCve' \subseteq Advisory
    BY <1>0, <1>1, <1>2 DEF TypeOK
  <2> QED BY <1>0, <1>2, <1>3, <1>4, <1>5, <1>6, <2>1, <2>2 DEF EdgesKept, Typed, TypeOK, ErrataNode, Mark
<1>8. MarksTell'
  <2>1. \A r \in Rpm : mark'[r].status = "confirmed_clean" => r \in queried'
    BY <1>0, <1>2, <1>6 DEF MarksTell
  <2>2. \A r \in Rpm : r \in queried' =>
          mark'[r].status = "confirmed_clean" \/ \E a \in Advisory : <<r, a>> \in reported'
    BY <1>0, <1>2, <1>6 DEF MarksTell
  <2> QED BY <1>3, <2>1, <2>2 DEF EdgesKept, MarksTell
<1>9. ChecksTell'
  BY <1>0, <1>2, <1>6 DEF ChecksTell
<1>10. AgreementIsEarned'
  <2>1. \A p \in pairs : flag[p] # TRUE
    BY DEF Flag, flag
  <2>2. \A p \in Pair : \A i \in DOMAIN fixes'[p] : fixes'[p][i] = TRUE => p \in corroborated'
    BY <1>0, <1>2, <1>3, <2>1 DEF EdgesKept, AgreementIsEarned
  <2> QED BY <1>0, <1>2, <1>5, <2>2 DEF AgreementIsEarned
<1> QED BY <1>3, <1>4, <1>7, <1>8, <1>9, <1>10 DEF EdgesKept, ErrataInv

\* The pairs that the answers give of an RPM.
Said(gave, r) == {p \in UNION {gave[s] : s \in DOMAIN gave} : p[1] = r}

\* An RPM of the cross-check is marked as checked exactly if both sources were asked and
\* their answers about it are the same.
LEMMA EqualAnswers ==
  ASSUME NEW selected \in SUBSET Rpm, NEW consulted \in SUBSET Source,
         NEW gave \in [consulted -> SUBSET (selected \X Advisory)],
         NEW r \in selected
  PROVE  LET Of == Said(gave, r)
         IN  (IF Of # {} THEN \A p \in Of : Agreed(gave, p) ELSE Cardinality(DOMAIN gave) >= 2)
               <=> DOMAIN gave = Source /\ gave["http"] \cap Of = gave["dnf"] \cap Of
<1> DEFINE Of == Said(gave, r)
<1>1. DOMAIN gave = consulted /\ (Cardinality(DOMAIN gave) >= 2 <=> DOMAIN gave = Source)
  BY TwoSourcesAreBoth
<1>2. ASSUME NEW p
      PROVE  Agreed(gave, p) <=> Reporters(gave, p) = Source
  BY TwoSourcesAreBoth DEF Agreed, Reporters
<1>3. ASSUME NEW p
      PROVE  Agreed(gave, p) <=> DOMAIN gave = Source /\ p \in gave["http"] /\ p \in gave["dnf"]
  BY <1>2 DEF Reporters, Source
<1>4. CASE Of = {}
  BY <1>1, <1>4
<1>5. CASE Of # {}
  <2>1. \A p \in Of : p \in UNION {gave[s] : s \in DOMAIN gave}
    BY DEF Said
  <2>2. ASSUME DOMAIN gave = Source
        PROVE  \A p \in Of : p \in gave["http"] \/ p \in gave["dnf"]
    BY <2>1, <2>2 DEF Source
  <2>3. ASSUME \A p \in Of : Agreed(gave, p)
        PROVE  DOMAIN gave = Source /\ gave["http"] \cap Of = gave["dnf"] \cap Of
    BY <1>3, <1>5, <2>3
  <2>4. ASSUME DOMAIN gave = Source, gave["http"] \cap Of = gave["dnf"] \cap Of
        PROVE  \A p \in Of : Agreed(gave, p)
    <3> SUFFICES ASSUME NEW p \in Of PROVE Agreed(gave, p)
      OBVIOUS
    <3>1. p \in gave["http"] <=> p \in gave["dnf"]
      BY <2>4
    <3>2. p \in gave["http"] \/ p \in gave["dnf"]
      BY <2>2, <2>4
    <3> QED BY <1>3, <2>4, <3>1, <3>2
  <2> QED BY <1>5, <2>3, <2>4
<1> QED BY <1>4, <1>5

\* attach_errata_cross_checked keeps the invariant.
LEMMA CrossCheckedInv ==
  ASSUME ErrataInv, NEW consulted \in SUBSET Source, NEW selected \in SUBSET Rpm,
         NEW gave \in [consulted -> SUBSET (selected \X Advisory)], CrossChecked(selected, gave)
  PROVE  ErrataInv'
<1> DEFINE pairs == UNION {gave[s] : s \in DOMAIN gave}
           flag == [p \in pairs |-> Agreed(gave, p)]
           fed == AdvisoriesOf({p \in pairs : "http" \in Reporters(gave, p)})
           Of(r) == Said(gave, r)
           both == {p \in pairs : Reporters(gave, p) = Source}
<1>0. /\ Typed /\ TypeOK /\ MarksTell /\ ChecksTell /\ AgreementIsEarned
      /\ pairs \in SUBSET (selected \X Advisory)
  BY DEF ErrataInv, Typed
<1>1. \A p : Agreed(gave, p) \in BOOLEAN /\ (Agreed(gave, p) <=> Reporters(gave, p) = Source)
  <2> SUFFICES ASSUME NEW p
               PROVE  Agreed(gave, p) \in BOOLEAN /\ (Agreed(gave, p) <=> Reporters(gave, p) = Source)
    OBVIOUS
  <2>1. Reporters(gave, p) \in SUBSET Source
    BY DEF Reporters
  <2> QED BY <2>1, TwoSourcesAreBoth DEF Agreed
<1>2. /\ pairs \in SUBSET Pair /\ flag \in [pairs -> Flag] /\ fed \in SUBSET Advisory
      /\ both = {p \in pairs : Agreed(gave, p)}
  BY <1>0, <1>1 DEF Pair, Flag, AdvisoriesOf
<1>3. {p \in pairs : Kept(gave, p) = "http"} = {p \in pairs : "http" \in Reporters(gave, p)}
  BY DEF Kept
<1>4. /\ fixes' = WithFixes(pairs, flag) /\ reported' = reported \cup pairs /\ filed' = filed
      /\ cveEdges' = WithCves(fed) /\ withCve' = withCve \cup fed
      /\ corroborated' = corroborated \cup both /\ queried' = queried \cup selected
  BY <1>3 DEF CrossChecked
<1> USE DEF Said
<1>5. agreeing' = (agreeing \ selected) \cup
                    {r \in selected : DOMAIN gave = Source /\ gave["http"] \cap Of(r) = gave["dnf"] \cap Of(r)}
  BY DEF CrossChecked
<1>c. agreedClean' = (agreedClean \ selected) \cup {r \in selected : DOMAIN gave = Source /\ Of(r) = {}}
  BY DEF CrossChecked
<1>6. errata' = [a \in Advisory |-> CrossNode(gave, a)]
  BY DEF CrossChecked
<1>7. mark' = [r \in Rpm |->
                 IF r \notin selected THEN mark[r]
                 ELSE IF Of(r) # {}
                 THEN [mark[r] EXCEPT !.checked = \A p \in Of(r) : Agreed(gave, p)]
                 ELSE [status |-> "confirmed_clean", checked |-> Cardinality(DOMAIN gave) >= 2]]
  BY DEF CrossChecked
<1> HIDE DEF Said
<1>8. EdgesKept(pairs, flag)
  <2> HIDE DEF flag, pairs
  <2> QED BY <1>2, <1>4, EdgesFollowReports
<1>9. cveEdges' \in [Advisory -> Nat] /\ CvesComeAlongOnce'
  <2> HIDE DEF fed
  <2> QED BY <1>2, <1>4, CvesFollowTheFeed
<1>10. /\ errata' \in [Advisory -> ErrataNode \cup {Unset}]
       /\ \A a \in Advisory : (errata'[a] # Unset /\ errata'[a].checked = TRUE)
                                <=> \/ errata[a] # Unset /\ errata[a].checked = TRUE
                                    \/ \E p \in pairs : p[2] = a /\ Agreed(gave, p)
  <2> SUFFICES ASSUME NEW a \in Advisory
               PROVE  /\ CrossNode(gave, a) \in ErrataNode \cup {Unset}
                      /\ (CrossNode(gave, a) # Unset /\ CrossNode(gave, a).checked = TRUE)
                           <=> \/ errata[a] # Unset /\ errata[a].checked = TRUE
                               \/ \E p \in pairs : p[2] = a /\ Agreed(gave, p)
    BY <1>6
  <2> DEFINE here == {p \in pairs : p[2] = a}
             names == UNION {Reporters(gave, p) : p \in here}
             agree == \E p \in here : Agreed(gave, p)
  <2>1. CrossNode(gave, a) =
          IF here = {} THEN errata[a]
          ELSE IF errata[a] = Unset THEN [sources |-> names, checked |-> agree, file |-> FALSE]
          ELSE [errata[a] EXCEPT !.sources = @ \cup names, !.checked = (@ = TRUE) \/ agree]
    BY DEF CrossNode
  <2>2. names \in SUBSET Source /\ agree \in BOOLEAN /\ errata[a] \in ErrataNode \cup {Unset}
    BY <1>0, <1>1 DEF Reporters, Typed
  <2>3. agree <=> \E p \in pairs : p[2] = a /\ Agreed(gave, p)
    OBVIOUS
  <2>4. here = {} => ~agree
    OBVIOUS
  <2> HIDE DEF here, names, agree
  <2>5. LET n == [sources |-> names, checked |-> agree, file |-> FALSE]
        IN  n \in ErrataNode /\ n # Unset /\ (n.checked = TRUE <=> agree)
    <3>1. [sources |-> names, checked |-> agree, file |-> FALSE] \in ErrataNode
      BY <2>2 DEF ErrataNode, Flag
    <3> QED BY <2>2, <3>1 DEF ErrataNode
  <2>6. ASSUME errata[a] # Unset
        PROVE  LET n == [errata[a] EXCEPT !.sources = @ \cup names, !.checked = (@ = TRUE) \/ agree]
               IN  n \in ErrataNode /\ n # Unset /\ (n.checked = TRUE <=> errata[a].checked = TRUE \/ agree)
    BY <2>2, <2>6 DEF ErrataNode, Flag
  <2>7. CASE here = {}
    BY <2>1, <2>2, <2>3, <2>4, <2>7
  <2>8. CASE here # {} /\ errata[a] = Unset
    BY <2>1, <2>2, <2>3, <2>5, <2>8
  <2>9. CASE here # {} /\ errata[a] # Unset
    BY <2>1, <2>2, <2>3, <2>6, <2>9
  <2> QED BY <2>7, <2>8, <2>9
<1>11. \A r \in selected : (IF Of(r) # {} THEN \A p \in Of(r) : Agreed(gave, p) ELSE Cardinality(DOMAIN gave) >= 2)
                            <=> r \in agreeing'
  <2> SUFFICES ASSUME NEW r \in selected
               PROVE  (IF Of(r) # {} THEN \A p \in Of(r) : Agreed(gave, p) ELSE Cardinality(DOMAIN gave) >= 2)
                        <=> r \in agreeing'
    OBVIOUS
  <2>1. r \in agreeing' <=> DOMAIN gave = Source /\ gave["http"] \cap Of(r) = gave["dnf"] \cap Of(r)
    BY <1>5
  <2> HIDE DEF Said
  <2> QED BY <2>1, EqualAnswers
<1>12. /\ mark' \in [Rpm -> Mark]
       /\ \A r \in Rpm : r \notin selected => mark'[r] = mark[r]
       /\ \A r \in selected : mark'[r].checked = TRUE <=> r \in agreeing'
       /\ \A r \in selected : mark'[r].status = IF Of(r) # {} THEN mark[r].status ELSE "confirmed_clean"
  <2>1. mark \in [Rpm -> Mark]
    BY <1>0 DEF Typed
  <2>2. (Cardinality(DOMAIN gave) >= 2) \in BOOLEAN
    BY TwoSourcesAreBoth
  <2>3. \A r \in selected : (\A p \in Of(r) : Agreed(gave, p)) \in BOOLEAN
    OBVIOUS
  <2> HIDE DEF Of
  <2>4. ASSUME NEW r \in selected
        PROVE  /\ mark'[r] \in Mark
               /\ mark'[r].checked = TRUE <=> r \in agreeing'
               /\ mark'[r].status = IF Of(r) # {} THEN mark[r].status ELSE "confirmed_clean"
    <3>1. CASE Of(r) # {}
      <4>1. mark'[r] = [mark[r] EXCEPT !.checked = \A p \in Of(r) : Agreed(gave, p)]
        BY <1>7, <2>4, <3>1
      <4>2. (\A p \in Of(r) : Agreed(gave, p)) <=> r \in agreeing'
        BY <1>11, <3>1
      <4>3. mark[r] \in Mark /\ (\A p \in Of(r) : Agreed(gave, p)) \in BOOLEAN
        BY <2>1, <2>3
      <4> QED BY <3>1, <4>1, <4>2, <4>3 DEF Mark, Flag
    <3>2. CASE Of(r) = {}
      <4>1. mark'[r] = [status |-> "confirmed_clean", checked |-> Cardinality(DOMAIN gave) >= 2]
        BY <1>7, <2>4, <3>2
      <4>2. Cardinality(DOMAIN gave) >= 2 <=> r \in agreeing'
        BY <1>11, <3>2
      <4> DEFINE n == Cardinality(DOMAIN gave) >= 2
      <4> HIDE DEF n
      <4>3. mark'[r] = [status |-> "confirmed_clean", checked |-> n] /\ n \in BOOLEAN /\ (n <=> r \in agreeing')
        BY <2>2, <4>1, <4>2 DEF n
      <4>4. mark'[r] \in Mark
        BY <4>3 DEF Mark, Flag
      <4>5. mark'[r].checked = TRUE <=> r \in agreeing'
        BY <4>3
      <4> QED BY <3>2, <4>3, <4>4, <4>5
    <3> QED BY <3>1, <3>2
  <2>5. \A r \in Rpm : r \notin selected => mark'[r] = mark[r]
    BY <1>7
  <2>6. mark' \in [Rpm -> Mark]
    <3>1. \A r \in Rpm : mark'[r] \in Mark
      BY <2>1, <2>4, <2>5
    <3>2. DOMAIN mark' = Rpm /\ mark' = [r \in Rpm |-> mark'[r]]
      BY <1>7
    <3> QED BY <3>1, <3>2
  <2> QED BY <2>4, <2>5, <2>6
<1> HIDE DEF flag
<1>13. \A p \in pairs : flag[p] = Agreed(gave, p)
  BY DEF flag
<1>14. Typed'
  <2>1. steps' \in 0 .. MaxSteps
    BY <1>0 DEF TypeOK, CrossChecked, NextStep
  <2>2. /\ queried' \subseteq Rpm /\ reported' \subseteq Pair /\ withCve' \subseteq Advisory
        /\ corroborated' \subseteq Pair /\ agreeing' \subseteq Rpm /\ filed' \subseteq Advisory
    BY <1>0, <1>2, <1>4, <1>5 DEF TypeOK
  <2>3. agreedClean' \subseteq agreeing'
    <3>1. agreedClean \subseteq agreeing
      BY <1>0 DEF TypeOK
    <3>2. ASSUME NEW r \in selected, DOMAIN gave = Source, Of(r) = {}
          PROVE  gave["http"] \cap Of(r) = gave["dnf"] \cap Of(r)
      BY <3>2
    <3> HIDE DEF Of
    <3> QED BY <1>5, <1>c, <3>1, <3>2
  <2> QED BY <1>8, <1>9, <1>10, <1>12, <2>1, <2>2, <2>3 DEF EdgesKept, Typed, TypeOK, ErrataNode, Mark
<1>15. MarksTell'
  <2>1. \A r \in selected : Of(r) # {} => \E a \in Advisory : <<r, a>> \in reported'
    BY <1>0, <1>4 DEF Said
  <2> HIDE DEF pairs, Of
  <2>2. \A r \in Rpm : mark'[r].status = "confirmed_clean" => r \in queried'
    BY <1>0, <1>4, <1>12 DEF MarksTell
  <2>3. \A r \in Rpm : r \in queried' =>
          mark'[r].status = "confirmed_clean" \/ \E a \in Advisory : <<r, a>> \in reported'
    <3> SUFFICES ASSUME NEW r \in Rpm, r \in queried'
                 PROVE  mark'[r].status = "confirmed_clean" \/ \E a \in Advisory : <<r, a>> \in reported'
      OBVIOUS
    <3>1. CASE r \in selected
      <4>1. mark'[r].status = IF Of(r) # {} THEN mark[r].status ELSE "confirmed_clean"
        BY <1>12, <3>1
      <4> QED BY <2>1, <3>1, <4>1
    <3>2. CASE r \notin selected
      BY <1>0, <1>4, <1>12, <3>2 DEF MarksTell
    <3> QED BY <3>1, <3>2
  <2> QED BY <1>8, <2>2, <2>3 DEF EdgesKept, MarksTell
<1>16. ChecksTell'
  <2>0. \A r \in selected : Of(r) # {} => \E a \in Advisory : <<r, a>> \in reported'
    BY <1>0, <1>4 DEF Said
  <2> HIDE DEF Of, pairs
  <2>1. agreeing' \subseteq queried'
    BY <1>0, <1>4, <1>5 DEF ChecksTell
  <2>4. ASSUME NEW r \in agreeing'
        PROVE  r \in agreedClean' \/ \E a \in Advisory : <<r, a>> \in reported'
    <3>1. CASE r \in selected
      <4>1. DOMAIN gave = Source
        BY <1>5, <3>1
      <4> QED BY <1>c, <2>0, <3>1, <4>1
    <3>2. CASE r \notin selected
      <4>1. r \in agreeing
        BY <1>5, <3>2
      <4> QED BY <1>0, <1>4, <1>c, <3>2, <4>1 DEF ChecksTell
    <3> QED BY <3>1, <3>2
  <2>2. \A r \in Rpm \ selected : r \in agreeing' <=> r \in agreeing
    BY <1>5
  <2>3. ASSUME NEW r \in Rpm
        PROVE  mark'[r].checked = TRUE <=> r \in agreeing'
    <3>1. CASE r \in selected
      BY <1>12, <3>1
    <3>2. CASE r \notin selected
      BY <1>0, <1>12, <2>2, <3>2 DEF ChecksTell
    <3> QED BY <3>1, <3>2
  <2> QED BY <2>1, <2>3, <2>4 DEF ChecksTell
<1>17. AgreementIsEarned'
  <2>1. \A a \in Advisory : (\E r \in Rpm : <<r, a>> \in both) <=> \E p \in pairs : p[2] = a /\ Agreed(gave, p)
    <3>1. both \in SUBSET Pair /\ pairs \in SUBSET Pair
      BY <1>2
    <3>2. both = {p \in pairs : Agreed(gave, p)}
      BY <1>2
    <3>3. \A p \in pairs : p[1] \in Rpm /\ p = <<p[1], p[2]>>
      BY <3>1 DEF Pair
    <3>4. \A p \in pairs : p \in both <=> Agreed(gave, p)
      BY <3>2
    <3>5. \A p \in both : p \in pairs
      OBVIOUS
    <3> HIDE DEF both, pairs
    <3> SUFFICES ASSUME NEW a \in Advisory
                 PROVE  (\E r \in Rpm : <<r, a>> \in both) <=> \E p \in pairs : p[2] = a /\ Agreed(gave, p)
      OBVIOUS
    <3>6. ASSUME NEW r \in Rpm, <<r, a>> \in both
          PROVE  \E p \in pairs : p[2] = a /\ Agreed(gave, p)
      <4>1. <<r, a>> \in pairs /\ <<r, a>>[2] = a /\ Agreed(gave, <<r, a>>)
        BY <3>4, <3>5, <3>6
      <4> QED BY <4>1
    <3>7. ASSUME NEW p \in pairs, p[2] = a, Agreed(gave, p)
          PROVE  \E r \in Rpm : <<r, a>> \in both
      <4>1. p[1] \in Rpm /\ p = <<p[1], a>> /\ p \in both
        BY <3>3, <3>4, <3>7
      <4> QED BY <4>1
    <3> QED BY <3>6, <3>7
  <2> HIDE DEF pairs, both
  <2>2. \A p \in Pair : \A i \in DOMAIN fixes'[p] : fixes'[p][i] = TRUE => p \in corroborated'
    <3> SUFFICES ASSUME NEW p \in Pair, NEW i \in DOMAIN fixes'[p], fixes'[p][i] = TRUE
                 PROVE  p \in corroborated'
      OBVIOUS
    <3>1. CASE i \in DOMAIN fixes[p] /\ fixes'[p][i] = fixes[p][i]
      BY <1>0, <1>4, <3>1 DEF AgreementIsEarned
    <3>2. CASE p \in pairs /\ fixes'[p][i] = flag[p]
      BY <1>2, <1>4, <1>13, <3>2
    <3> QED BY <1>8, <3>1, <3>2 DEF EdgesKept
  <2> QED BY <1>0, <1>4, <1>10, <2>1, <2>2 DEF AgreementIsEarned
<1> QED BY <1>8, <1>9, <1>14, <1>15, <1>16, <1>17 DEF EdgesKept, ErrataInv

\* attach_errata_file keeps the invariant.
LEMMA FromErrataFileInv ==
  ASSUME ErrataInv, NEW r \in Rpm, NEW a \in Advisory, FromErrataFile(r, a)
  PROVE  ErrataInv'
<1>0. /\ Typed /\ TypeOK /\ MarksTell /\ ChecksTell /\ AgreementIsEarned
      /\ CvesComeAlongOnce /\ OneEdgePerReport /\ <<r, a>> \in Pair
  BY DEF ErrataInv, Typed, Pair
<1>1. \A p \in Pair : fixes[p] \in Seq(Flag)
  BY <1>0 DEF Typed
<1>2. /\ fixes' = [fixes EXCEPT ![<<r, a>>] = Append(@, Unset)]
      /\ reported' = reported \cup {<<r, a>>} /\ filed' = filed \cup {a}
      /\ cveEdges' = [cveEdges EXCEPT ![a] = @ + 1]
      /\ errata' = [errata EXCEPT ![a] = FromFile] /\ errata[a] \in {Unset, FromFile}
      /\ mark' = mark /\ queried' = queried /\ withCve' = withCve
      /\ corroborated' = corroborated /\ agreeing' = agreeing /\ agreedClean' = agreedClean
      /\ Len(fixes[<<r, a>>]) < MaxFixes
  BY DEF FromErrataFile
<1>3. LET l == Append(fixes[<<r, a>>], Unset)
      IN  /\ l \in Seq(Flag) /\ l # << >> /\ Len(l) = Len(fixes[<<r, a>>]) + 1
          /\ \A i \in DOMAIN l : l[i] = Unset \/ (i \in DOMAIN fixes[<<r, a>>] /\ l[i] = fixes[<<r, a>>][i])
  BY <1>0, <1>1 DEF Flag
<1>4. /\ fixes' \in [Pair -> Seq(Flag)]
      /\ \A p \in Pair : p # <<r, a>> => fixes'[p] = fixes[p]
      /\ fixes'[<<r, a>>] = Append(fixes[<<r, a>>], Unset)
  BY <1>0, <1>2, <1>3 DEF Typed
<1>5. \A p \in Pair : Len(fixes'[p]) <= MaxFixes /\ \A i \in DOMAIN fixes'[p] : fixes'[p][i] \in Flag
  <2>1. \A p \in Pair : Len(fixes[p]) <= MaxFixes /\ \A i \in DOMAIN fixes[p] : fixes[p][i] \in Flag
    BY <1>0 DEF TypeOK
  <2>2. Len(fixes'[<<r, a>>]) <= MaxFixes
    <3>1. Len(fixes[<<r, a>>]) \in Nat /\ MaxFixes \in Nat
      BY <1>0, <1>1, BoundAssumption
    <3> QED BY <1>2, <1>3, <1>4, <3>1
  <2>3. \A i \in DOMAIN fixes'[<<r, a>>] : fixes'[<<r, a>>][i] \in Flag
    <3>1. fixes'[<<r, a>>] \in Seq(Flag)
      BY <1>0, <1>4
    <3> QED BY <3>1
  <2> QED BY <1>4, <2>1, <2>2, <2>3
<1>6. /\ errata' \in [Advisory -> ErrataNode \cup {Unset}]
      /\ \A b \in Advisory : (errata'[b] # Unset /\ errata'[b].checked = TRUE)
                               <=> (errata[b] # Unset /\ errata[b].checked = TRUE)
  <2>1. FromFile \in ErrataNode /\ FromFile.checked # TRUE
    BY DEF FromFile, ErrataNode, Flag
  <2>2. errata \in [Advisory -> ErrataNode \cup {Unset}]
    BY <1>0 DEF Typed
  <2> QED BY <1>2, <2>1, <2>2
<1>7. cveEdges' \in [Advisory -> Nat] /\ CvesComeAlongOnce'
  <2>1. cveEdges \in [Advisory -> Nat]
    BY <1>0 DEF TypeOK
  <2> QED BY <1>0, <1>2, <2>1 DEF CvesComeAlongOnce
<1>8. Typed'
  <2>1. steps' \in 0 .. MaxSteps
    BY <1>0 DEF TypeOK, FromErrataFile, NextStep
  <2>2. mark \in [Rpm -> Mark] /\ reported' \subseteq Pair /\ filed' \subseteq Advisory
    BY <1>0, <1>2 DEF Typed, TypeOK
  <2> QED BY <1>0, <1>2, <1>4, <1>5, <1>6, <1>7, <2>1, <2>2 DEF Typed, TypeOK, ErrataNode, Mark
<1>9. MarksTell'
  <2>1. \A p \in Pair : fixes'[p] # << >> <=> p \in reported'
    BY <1>0, <1>2, <1>3, <1>4 DEF MarksTell
  <2> QED BY <1>0, <1>2, <2>1 DEF MarksTell
<1>10. ChecksTell'
  BY <1>0, <1>2 DEF ChecksTell
<1>11. AgreementIsEarned'
  <2>1. \A p \in Pair : \A i \in DOMAIN fixes'[p] : fixes'[p][i] = TRUE => p \in corroborated'
    BY <1>0, <1>2, <1>3, <1>4 DEF AgreementIsEarned
  <2> QED BY <1>0, <1>2, <1>6, <2>1 DEF AgreementIsEarned
<1>12. OneEdgePerReport'
  <2> SUFFICES ASSUME NEW p \in Pair, p[2] \notin filed'
               PROVE  Len(fixes'[p]) = IF p \in reported' THEN 1 ELSE 0
    BY DEF OneEdgePerReport
  <2>1. p # <<r, a>> /\ p[2] \notin filed
    BY <1>2
  <2> QED BY <1>0, <1>2, <1>4, <2>1 DEF OneEdgePerReport
<1> QED BY <1>7, <1>8, <1>9, <1>10, <1>11, <1>12 DEF ErrataInv

-----------------------------------------------------------------------------
\* Whatever the steps read, from one source, from both or from a file, the invariant
\* holds after each of them.
THEOREM ErrataInvariance == ErrataSpec => []ErrataInv
<1>1. ErrataInit => ErrataInv
  BY ErrataInitInv
<1>2. ErrataInv /\ [ErrataNext]_errataVars => ErrataInv'
  <2> SUFFICES ASSUME ErrataInv, [ErrataNext]_errataVars PROVE ErrataInv'
    OBVIOUS
  <2>1. ASSUME NEW s \in Source, NEW selected \in SUBSET Rpm,
               NEW pairs \in SUBSET (selected \X Advisory), SingleSource(s, selected, pairs)
        PROVE  ErrataInv'
    BY <2>1, SingleSourceInv
  <2>2. ASSUME NEW consulted \in SUBSET Source \ {{}}, NEW selected \in SUBSET Rpm,
               NEW gave \in [consulted -> SUBSET (selected \X Advisory)], CrossChecked(selected, gave)
        PROVE  ErrataInv'
    BY <2>2, CrossCheckedInv
  <2>3. ASSUME NEW r \in Rpm, NEW a \in Advisory, FromErrataFile(r, a)
        PROVE  ErrataInv'
    BY <2>3, FromErrataFileInv
  <2>4. CASE UNCHANGED errataVars
    BY <2>4 DEF errataVars, history, ErrataInv, Typed, TypeOK, MarksTell, ChecksTell, AgreementIsEarned,
                CvesComeAlongOnce, OneEdgePerReport
  <2> QED BY <2>1, <2>2, <2>3, <2>4 DEF ErrataNext
<1> QED BY <1>1, <1>2, PTL DEF ErrataSpec

\* The errata cell of an RPM tells its history (errata_source.py:16-20, 392-397): an
\* advisory once reported stays in sight, clean means that it was asked about and nobody
\* ever reported one, and [x-checked] that both sources gave equal answers about it when
\* they were last asked together; a marked cell says what they said, but for an RPM of
\* which they knew none and something else did; for any number of RPMs, advisories and
\* steps.
THEOREM CellCorrect == ErrataSpec => []CellTellsHistory
<1>1. ErrataInv => CellTellsHistory
  <2> SUFFICES ASSUME ErrataInv PROVE CellTellsHistory
    OBVIOUS
  <2>1. MarksTell /\ ChecksTell
    BY DEF ErrataInv
  <2>2. \A r \in Rpm : (\E a \in Advisory : fixes[<<r, a>>] # << >>)
                         <=> \E a \in Advisory : <<r, a>> \in reported
    BY <2>1 DEF MarksTell, Pair
  <2>3. StatusTellsHistory
    BY <2>1, <2>2 DEF MarksTell, Status, StatusTellsHistory
  <2>4. \A r \in Rpm : r \in agreeing => Status(r) # "not_checked"
    BY <2>1, <2>2 DEF MarksTell, ChecksTell, Status
  <2>5. \A r \in Rpm : Cell(r).checked <=> r \in agreeing
    BY <2>1, <2>4 DEF ChecksTell, Cell
  <2>6. ASSUME NEW r \in agreeing
        PROVE  Cell(r).status = AgreedStatus(r)
                 <=> ~(r \in agreedClean /\ \E a \in Advisory : <<r, a>> \in reported)
    <3>1. r \in Rpm /\ r \in queried
      BY <2>1 DEF ErrataInv, Typed, TypeOK, ChecksTell
    <3>2. r \in agreedClean \/ \E a \in Advisory : <<r, a>> \in reported
      BY <2>1 DEF ChecksTell
    <3>3. Cell(r).status = IF \E a \in Advisory : <<r, a>> \in reported
                           THEN "advisory_present" ELSE "confirmed_clean"
      BY <2>3, <3>1 DEF StatusTellsHistory, Cell
    <3> QED BY <3>2, <3>3 DEF AgreedStatus
  <2> QED BY <2>3, <2>5, <2>6 DEF CellTellsHistory
<1> QED BY <1>1, ErrataInvariance, PTL

\* Repeated steps link every advisory and every CVE, and once, and what an edge or an
\* advisory says of agreement is earned (errata_source.py:249-316, 392-397).
THEOREM LinkedOnceCorrect == ErrataSpec => []LinkedOnce
<1>1. ErrataInv => LinkedOnce
  BY DEF ErrataInv, Typed, LinkedOnce
<1> QED BY <1>1, ErrataInvariance, PTL
=============================================================================
