--------------------------- MODULE RecordingGraph ---------------------------
(***************************************************************************)
(* A recorded enrichment session (albs_graph/model/patch.py).  A caller    *)
(* loads a graph, wraps it -- or, for a dry run, a deep copy of it -- in a *)
(* RecordingGraph, lets an adapter write through the recorder, and may     *)
(* then replay the recorded EvidencePatch on the original graph.           *)
(*                                                                         *)
(* Sharing.  RecordingGraph.__init__ binds its five attributes to the      *)
(* objects of the wrapped graph.  A method that changes one of them in     *)
(* place is seen through both; remove_node assigns self.edges a new list   *)
(* and remove_edges_where assigns self.edges, self._outgoing and           *)
(* self._incoming new objects, and from then on the wrapped graph keeps    *)
(* the old ones.  "rebound" says which attributes have parted.             *)
(***************************************************************************)
EXTENDS ProvenanceGraph, FiniteSets, Sequences

CONSTANT MaxWrites  \* bound: recorded writes of each kind in a session

ASSUME WritesAssumption == MaxWrites \in Nat

VARIABLES phase,    \* "loading", "recording", "recorded", "replaying" or "replayed"
          dryRun,   \* the session runs on a copy
          scratch,  \* that copy
          recorder, \* what the recorder's attributes hold
          rebound,  \* attributes the recorder no longer shares with its target
          patch,    \* recorder.patch
          removed,  \* a removal went through the recorder
          done,     \* entries of the patch that are replayed, of each of its lists
          replayOk  \* EvidencePatch.apply has not raised

sessionVars == <<phase, dryRun, scratch, recorder, rebound, patch, removed, done, replayOk>>
allVars == <<vars, sessionVars>>

PatchLists == {"nodes", "edges", "updates"}
NoPatch == [nodes |-> <<>>, edges |-> <<>>, updates |-> <<>>]

\* The graph object the recorder wraps.
target == IF dryRun THEN scratch ELSE graph

SessionTypeOK ==
  /\ TypeOK
  /\ phase \in {"loading", "recording", "recorded", "replaying", "replayed"}
  /\ dryRun \in BOOLEAN /\ removed \in BOOLEAN /\ replayOk \in BOOLEAN
  /\ scratch \in Graph /\ recorder \in Graph
  /\ rebound \subseteq {"edges", "adjacency"}
  /\ patch \in [nodes : Seq(NodeObject), edges : Seq(NodeId \X NodeId \X Relation),
               updates : Seq(NodeId \X MetaKey \X MetaValue)]
  /\ done \in [PatchLists -> Nat] /\ \A list \in PatchLists : done[list] <= Len(patch[list])

SessionInit ==
  /\ Init
  /\ phase = "loading"
  /\ dryRun = FALSE
  /\ scratch = EmptyGraph
  /\ recorder = EmptyGraph
  /\ rebound = {}
  /\ patch = NoPatch
  /\ removed = FALSE
  /\ done = [list \in PatchLists |-> 0]
  /\ replayOk = TRUE

\* The graph is parsed from build metadata, or read back from the store.
Load ==
  /\ phase = "loading"
  /\ \/ \E n \in NodeId, type \in NodeType, m \in Metadata : AddNode(n, type, m)
     \/ \E source, t \in NodeId, relation \in Relation : AddEdge(source, t, relation)
  /\ UNCHANGED sessionVars

----------------------------------------------------------------------------
(* copy and RecordingGraph.__init__ *)

\* Mutant of copy: the clone holds the Node objects of the original.
CopyWith_Shared(g, refs) ==
  [ nodes       |-> g.nodes,
    nodesByType |-> [t \in NodeType |-> {g.nodes[n] : n \in {m \in NodeIds(g) : g.nodes[m].type = t}}],
    edges       |-> g.edges,
    outgoing    |-> OutgoingScan(g.edges),
    incoming    |-> IncomingScan(g.edges) ]

\* copy(): fresh Node objects (refs) with deep-copied metadata, indexes built by
\* add_node and add_edge.  Edges never change, so the clone may hold the same.
CopyWith(g, refs) ==
  LET clone(n) == [g.nodes[n] EXCEPT !.ref = refs[n]]
  IN  [ nodes       |-> [n \in NodeId |-> IF HasNode(g, n) THEN clone(n) ELSE NoNode],
        nodesByType |-> [t \in NodeType |->
                           {clone(n) : n \in {m \in NodeIds(g) : g.nodes[m].type = t}}],
        edges       |-> g.edges,
        outgoing    |-> OutgoingScan(g.edges),
        incoming    |-> IncomingScan(g.edges) ]

\* Wrap the graph itself: AnalysisPipeline.run and capture_patch(apply=True).
Wrap ==
  /\ phase = "loading"
  /\ phase' = "recording"
  /\ recorder' = graph
  /\ UNCHANGED <<vars, dryRun, scratch, rebound, patch, removed, done, replayOk>>

\* Wrap a copy: dry_run=True and capture_patch(apply=False).
WrapCopy ==
  /\ phase = "loading"
  /\ LET ids == NodeIds(graph)
         k   == Cardinality(ids)
     IN  /\ nodeCount + k <= MaxNodes
         /\ \E refs \in [ids -> nodeCount + 1 .. nodeCount + k] :
              /\ \A m, n \in ids : refs[m] = refs[n] => m = n
              /\ scratch' = CopyWith(graph, refs)
              /\ meta' = [r \in 1 .. MaxNodes |->
                            IF \E n \in ids : refs[n] = r
                            THEN meta[graph.nodes[CHOOSE n \in ids : refs[n] = r].ref]
                            ELSE meta[r]]
         /\ nodeCount' = nodeCount + k
  /\ recorder' = scratch'
  /\ dryRun' = TRUE
  /\ phase' = "recording"
  /\ UNCHANGED <<graph, edgeCount, rebound, patch, removed, done, replayOk>>

----------------------------------------------------------------------------
(* Writes through the recorder *)

\* What the target's attributes hold after the recorder's became r: the node
\* dict and the type index are never rebound, the others as far as they are shared.
Through(old, r, parted) ==
  [ r EXCEPT !.edges    = IF "edges" \in parted THEN old.edges ELSE @,
             !.outgoing = IF "adjacency" \in parted THEN old.outgoing ELSE @,
             !.incoming = IF "adjacency" \in parted THEN old.incoming ELSE @ ]

Write(r, parted) ==
  /\ recorder' = r
  /\ rebound' = parted
  /\ IF dryRun THEN scratch' = Through(scratch, r, parted) /\ UNCHANGED graph
               ELSE graph' = Through(graph, r, parted) /\ UNCHANGED scratch
  /\ UNCHANGED <<phase, dryRun, done, replayOk>>

RecordNode(n, type, m) ==
  /\ phase = "recording"
  /\ nodeCount < MaxNodes /\ Len(patch.nodes) < MaxWrites
  /\ ~ConflictsWith(recorder, meta, n, type, m)
  /\ nodeCount' = nodeCount + 1
  /\ meta' = [meta EXCEPT ![nodeCount'] = m]
  /\ LET o == [ref |-> nodeCount', id |-> n, type |-> type]
     IN  /\ Write(PutNode(recorder, o), rebound)
         /\ patch' = [patch EXCEPT !.nodes = Append(@, o)]
  /\ UNCHANGED <<edgeCount, removed>>

RecordEdge(source, t, relation) ==
  /\ phase = "recording"
  /\ edgeCount < MaxEdges /\ Len(patch.edges) < MaxWrites
  /\ CanAddEdge(recorder, source, t)
  /\ edgeCount' = edgeCount + 1
  /\ Write(PutEdge(recorder, [no |-> edgeCount', source |-> source,
                              target |-> t, relation |-> relation]), rebound)
  /\ patch' = [patch EXCEPT !.edges = Append(@, <<source, t, relation>>)]
  /\ UNCHANGED <<meta, nodeCount, removed>>

RecordUpdate(n, k, v) ==
  /\ phase = "recording"
  /\ Len(patch.updates) < MaxWrites
  /\ HasNode(recorder, n)
  /\ meta' = [meta EXCEPT ![recorder.nodes[n].ref][k] = v]
  /\ patch' = [patch EXCEPT !.updates = Append(@, <<n, k, v>>)]
  /\ UNCHANGED <<graph, nodeCount, edgeCount, phase, dryRun, scratch, recorder,
                 rebound, removed, done, replayOk>>

\* remove_node and remove_edges_where are inherited: nothing is recorded.
RecordedRemoveNode(n) ==
  /\ phase = "recording"
  /\ HasNode(recorder, n)
  /\ Write(DropNode(recorder, n), rebound \cup {"edges"})
  /\ removed' = TRUE
  /\ UNCHANGED <<meta, nodeCount, edgeCount, patch>>

RecordedRemoveEdges(relations) ==
  /\ phase = "recording"
  /\ LET selected == {e \in recorder.edges : e.relation \in relations}
     IN  /\ selected # {}
         /\ Write(DropEdges(recorder, selected), {"edges", "adjacency"})
  /\ removed' = TRUE
  /\ UNCHANGED <<meta, nodeCount, edgeCount, patch>>

Finish ==
  /\ phase = "recording"
  /\ phase' = "recorded"
  /\ UNCHANGED <<vars, dryRun, scratch, recorder, rebound, patch, removed, done, replayOk>>

----------------------------------------------------------------------------
(* EvidencePatch.apply on the original graph of a dry run: nodes, then     *)
(* edges, then updates; the first call that raises ends the replay.        *)

StartReplay ==
  /\ phase = "recorded" /\ dryRun
  /\ edgeCount + Len(patch.edges) <= MaxEdges
  /\ phase' = "replaying"
  /\ UNCHANGED <<vars, dryRun, scratch, recorder, rebound, patch, removed, done, replayOk>>

\* Mutant of apply: edges before the nodes they connect.
Before_EdgesFirst(list) ==
  CASE list = "nodes" -> {"edges"} [] list = "edges" -> {} [] list = "updates" -> {"nodes", "edges"}

\* The lists apply is through with when it comes to one.
Before(list) ==
  CASE list = "nodes" -> {} [] list = "edges" -> {"nodes"} [] list = "updates" -> {"nodes", "edges"}

IsThrough(lists) == \A list \in lists : done[list] = Len(patch[list])

\* The next entry of a list is replayed, unless the call raises.
Entry(list) == patch[list][done[list] + 1]

Turn(list, raises) ==
  /\ phase = "replaying"
  /\ IsThrough(Before(list)) /\ done[list] < Len(patch[list])
  /\ IF raises THEN phase' = "replayed" /\ replayOk' = FALSE /\ UNCHANGED done
     ELSE done' = [done EXCEPT ![list] = @ + 1] /\ UNCHANGED <<phase, replayOk>>
  /\ UNCHANGED <<nodeCount, dryRun, scratch, recorder, rebound, patch, removed>>

ReplayNode ==
  LET o == Entry("nodes")
      raises == ConflictsWith(graph, meta, o.id, o.type, meta[o.ref])
  IN  /\ Turn("nodes", raises)
      /\ graph' = IF raises THEN graph ELSE PutNode(graph, o)
      /\ UNCHANGED <<meta, edgeCount>>

ReplayEdge ==
  LET e == Entry("edges")
      raises == ~CanAddEdge(graph, e[1], e[2])
  IN  /\ Turn("edges", raises)
      /\ IF raises THEN UNCHANGED <<graph, edgeCount>>
         ELSE /\ edgeCount' = edgeCount + 1
              /\ graph' = PutEdge(graph, [no |-> edgeCount', source |-> e[1],
                                          target |-> e[2], relation |-> e[3]])
      /\ UNCHANGED meta

ReplayUpdate ==
  LET u == Entry("updates")
      raises == ~HasNode(graph, u[1])
  IN  /\ Turn("updates", raises)
      /\ meta' = IF raises THEN meta ELSE [meta EXCEPT ![graph.nodes[u[1]].ref][u[2]] = u[3]]
      /\ UNCHANGED <<graph, edgeCount>>

\* Mutant of apply: the metadata updates are forgotten.
EndReplay_NoUpdates ==
  /\ phase = "replaying" /\ IsThrough({"nodes", "edges"})
  /\ phase' = "replayed"
  /\ UNCHANGED <<vars, dryRun, scratch, recorder, rebound, patch, removed, done, replayOk>>

EndReplay ==
  /\ phase = "replaying" /\ IsThrough(PatchLists)
  /\ phase' = "replayed"
  /\ UNCHANGED <<vars, dryRun, scratch, recorder, rebound, patch, removed, done, replayOk>>

SessionNext ==
  \/ Load
  \/ Wrap
  \/ WrapCopy
  \/ \E n \in NodeId, type \in NodeType, m \in Metadata : RecordNode(n, type, m)
  \/ \E source, t \in NodeId, relation \in Relation : RecordEdge(source, t, relation)
  \/ \E n \in NodeId, k \in MetaKey, v \in MetaValue : RecordUpdate(n, k, v)
  \/ \E n \in NodeId : RecordedRemoveNode(n)
  \/ \E relations \in SUBSET Relation : RecordedRemoveEdges(relations)
  \/ Finish
  \/ StartReplay
  \/ ReplayNode \/ ReplayEdge \/ ReplayUpdate
  \/ EndReplay

SessionSpec == SessionInit /\ [][SessionNext]_allVars

----------------------------------------------------------------------------
(* Properties *)

Content(g) ==
  [ nodes |-> [n \in NodeIds(g) |-> <<g.nodes[n].type, meta[g.nodes[n].ref]>>],
    edges |-> [s \in NodeId \X NodeId \X Relation |->
                 Cardinality({e \in g.edges : <<e.source, e.target, e.relation>> = s})] ]

\* A dry run leaves the original as it was, metadata included, until the patch is
\* replayed (patch.py:14-16, the regression graph.copy's docstring tells of).
DryRunIsolated == [][dryRun /\ phase = "recording" => Content(graph)' = Content(graph)]_allVars

\* Whatever the adapter and the reconciler did, the recorder's own attributes
\* agree with one another, so the code that runs on it reads a sound graph.
RecorderIsSound ==
  /\ SessionTypeOK
  /\ AdjacencyMatches(recorder) /\ NoDangling(recorder) /\ TypeIndexComplete(recorder)

\* Replaying a session that only added evidence gives the original graph exactly
\* the content the session's copy has, multiplicity of edges included.
ReplayReproduces ==
  phase = "replayed" /\ replayOk /\ ~removed => Content(graph) = Content(scratch)

\* ... and such a replay raises for one reason: the session added again a node
\* that was there already and also changed its metadata; apply() sees only the
\* last metadata, because the patch holds the live Node object.
ReplayRaisesOnlyOnReAdd ==
  phase = "replayed" /\ ~replayOk /\ ~removed =>
    \E i \in DOMAIN patch.nodes, j \in DOMAIN patch.updates :
      LET n == patch.nodes[i].id
      IN  /\ n = patch.updates[j][1]
          /\ HasNode(graph, n) /\ graph.nodes[n] # patch.nodes[i]

\* The two above: a replay does what the session did, or raises for that one reason.
ReplayIsFaithful == ReplayReproduces /\ ReplayRaisesOnlyOnReAdd
=============================================================================
