-------------------------- MODULE AnalysisPipeline --------------------------
(***************************************************************************)
(* Enrichment runs over one provenance graph (albs_graph/pipeline.py): the *)
(* steps write dependency claims through a RecordingGraph, then the claims *)
(* are reconciled through the same recorder (provenance/reconcile.py) and  *)
(* the wrapped graph is returned.  A graph may be run again -- the same    *)
(* object, or the one the store gives back -- and may be reconciled        *)
(* without a recorder, as the CLI's resolver import does.                  *)
(*                                                                         *)
(* The identity of Node objects plays no part here: a claim is always      *)
(* added with the same metadata, and the metadata of a resolution node is  *)
(* the variable "verdict".                                                 *)
(***************************************************************************)
EXTENDS GraphOps, ReconcileRules

CONSTANTS Group,      \* group keys, also the ids of the resolution nodes
          ClaimOrder, \* the claims as the steps find them, which is also their id order
          MaxRuns     \* bound: runs over the graph

ASSUME PipelineAssumption ==
  /\ {"rpm", "claim", "resolution"} \subseteq NodeType
  /\ {"declares_dependency", "observed_as", "corroborates", "conflicts_with"} \subseteq Relation
  /\ Claim \cup Group \cup Subject \subseteq NodeId
  /\ Claim \cap Group = {} /\ Claim \cap Subject = {} /\ Group \cap Subject = {}
  /\ IsFiniteSet(Claim)
  /\ \A c \in Claim : ClaimInfo[c].subject \in Subject /\ ClaimInfo[c].group \in Group
  /\ MaxRuns \in Nat

\* None is not a verdict.
ASSUME NoVerdictAssumption ==
  \A members \in SUBSET Claim, declaring \in SUBSET Subject : EvaluateGroup(members, declaring) # None

VARIABLES graph,     \* the graph object the callers hold
          recorder,  \* the attributes of the RecordingGraph of the current run
          added,     \* claims the steps of the current run have added
          verdict,   \* metadata of the resolution node of each group
          everAdded, \* claims of all runs
          edgeCount, \* Edge objects created for this graph object
          rerun,     \* the current or last run began on a reconciled graph
          phase, runs

vars == <<graph, recorder, added, verdict, everAdded, edgeCount, rerun, phase, runs>>

Before(c, d) == \E i, j \in DOMAIN ClaimOrder : i < j /\ ClaimOrder[i] = c /\ ClaimOrder[j] = d

Node(n, type) == [ref |-> 0, id |-> n, type |-> type]

Claims(g) == {c \in Claim : HasNode(g, c)}
Members(g, k) == {c \in Claims(g) : ClaimInfo[c].group = k}
GroupsOf(g) == {ClaimInfo[c].group : c \in Claims(g)}
Resolutions(g) == {k \in Group : HasNode(g, k)}

PipelineTypeOK ==
  /\ graph \in Graph /\ recorder \in Graph
  /\ added \subseteq Claim /\ everAdded \subseteq Claim
  /\ \A k \in Group : verdict[k] = None \/ verdict[k].agreement \in
       {"conflict", "insufficient_evidence", "consensus", "compatible"}
  /\ edgeCount \in Nat /\ runs \in 0 .. MaxRuns
  /\ rerun \in BOOLEAN
  /\ phase \in {"idle", "running", "done", "direct"}

----------------------------------------------------------------------------
(* Reconciliation *)

\* add_node of all these ids, which the graph has with the same metadata or not at all.
AddNodes(g, ids, type) ==
  [g EXCEPT !.nodes = [n \in NodeId |-> IF n \in ids THEN Node(n, type) ELSE g.nodes[n]],
            !.nodesByType = [t \in NodeType |->
                               g.nodesByType[t] \cup {Node(n, t) : n \in {id \in ids : t = type /\ ~HasNode(g, id)}}]]

\* add_edge of all these <<source, target, relation>>: no two are equal, so they may have
\* one number, by which they are told apart from other edges between the same nodes.
AddEdges(g, specs, no) ==
  LET new == {[no |-> no, source |-> s[1], target |-> s[2], relation |-> s[3]] : s \in specs}
  IN  [g EXCEPT !.edges = @ \cup new,
                !.outgoing = [n \in NodeId |-> g.outgoing[n] \cup {e \in new : e.source = n}],
                !.incoming = [n \in NodeId |-> g.incoming[n] \cup {e \in new : e.target = n}]]

\* remove_node of all these ids.
DropNodes(g, ids) ==
  LET Live(type) == {o \in g.nodesByType[type] : ~(o.id \in ids /\ HasNode(g, o.id) /\ g.nodes[o.id].type = type)}
  IN  [ nodes       |-> [n \in NodeId |-> IF n \in ids THEN NoNode ELSE g.nodes[n]],
        nodesByType |-> [type \in NodeType |-> Live(type)],
        edges       |-> {e \in g.edges : e.source \notin ids /\ e.target \notin ids},
        outgoing    |-> [n \in NodeId |-> IF n \in ids THEN {} ELSE g.outgoing[n] \ UNION {g.incoming[m] : m \in ids}],
        incoming    |-> [n \in NodeId |-> IF n \in ids THEN {} ELSE g.incoming[n] \ UNION {g.outgoing[m] : m \in ids}] ]

\* Mutant: the purge takes the claims away with the resolution nodes.
WithoutResolutions_NoClaims(g) == DropNodes(g, Resolutions(g) \cup Claims(g))

\* _purge_prior_reconciliation, in its two steps.
WithoutResolutions(g) == DropNodes(g, Resolutions(g))

VerdictEdges(g) == {e \in g.edges : e.relation \in {"corroborates", "conflicts_with"}}

\* Mutant: the purge forgets the edges between claims.
Purged_KeepLinks(g) == WithoutResolutions(g)

Purged(g) == LET h == WithoutResolutions(g) IN DropEdges(h, VerdictEdges(h))

\* _link_claims: one verdict on the versions and one on the linkage of a pair.
LinkSpecs(members) ==
  LET pairs    == {p \in members \X members : Before(p[1], p[2])}
      versions == {p \in pairs : ClaimInfo[p[1]].version # None /\ ClaimInfo[p[2]].version # None}
      agree    == {p \in versions : ClaimInfo[p[1]].version.rank = ClaimInfo[p[2]].version.rank}
      linkage  == {p \in pairs : /\ ClaimInfo[p[1]].linkage # "unknown"
                                 /\ ClaimInfo[p[2]].linkage # "unknown"
                                 /\ ClaimInfo[p[1]].linkage # ClaimInfo[p[2]].linkage}
  IN  [ corroborates |-> agree, drift |-> versions \ agree, linkage |-> linkage ]

ObservedSpecs(g) == {<<ClaimInfo[c].group, c, "observed_as">> : c \in Claims(g)}

LinkedSpecs(g, verdicts, relation) ==
  UNION {{<<p[1], p[2], relation>> : p \in LinkSpecs(Members(g, k))[verdicts]} : k \in GroupsOf(g)}

\* The rebuild: a resolution node per group, OBSERVED_AS edges to its claims,
\* links between them.  A pair may get two CONFLICTS_WITH edges (one per kind).
Rebuilt(g, count) ==
  LET first  == ObservedSpecs(g) \cup LinkedSpecs(g, "corroborates", "corroborates")
                  \cup LinkedSpecs(g, "drift", "conflicts_with")
      second == LinkedSpecs(g, "linkage", "conflicts_with")
  IN  AddEdges(AddEdges(AddNodes(g, GroupsOf(g), "resolution"), first, count + 1), second, count + 2)

Reconciled(g, count) == Rebuilt(Purged(g), count)

\* Mutant: a resolution node that was there keeps its metadata.
NewVerdict_KeepsOld(g) ==
  [k \in Group |-> IF k \in GroupsOf(g)
                   THEN IF verdict[k] # None THEN verdict[k]
                        ELSE EvaluateGroup(Members(g, k), SubjectsWithDeclarations(Claims(g)))
                   ELSE None]

NewVerdict(g) ==
  [k \in Group |-> IF k \in GroupsOf(g)
                   THEN EvaluateGroup(Members(g, k), SubjectsWithDeclarations(Claims(g)))
                   ELSE None]

\* What the wrapped graph holds when its recorder was reconciled: dicts changed in
\* place are shared, the edge list is the one from before the first removal and
\* the adjacency the one from before remove_edges_where, if these were rebound.
TargetAfter(g, count) ==
  LET result  == Reconciled(g, count)
      dropped == VerdictEdges(WithoutResolutions(g)) # {}
      moved   == Resolutions(g) # {} \/ dropped
      shared  == WithoutResolutions(g)
  IN  [ result EXCEPT !.edges    = IF moved THEN g.edges ELSE @,
                      !.outgoing = IF dropped THEN shared.outgoing ELSE @,
                      !.incoming = IF dropped THEN shared.incoming ELSE @ ]

----------------------------------------------------------------------------
(* Actions *)

Init ==
  /\ graph = AddNodes(EmptyGraph, Subject, "rpm")
  /\ recorder = EmptyGraph
  /\ added = {} /\ everAdded = {}
  /\ verdict = [k \in Group |-> None]
  /\ edgeCount = 0 /\ runs = 0
  /\ rerun = FALSE
  /\ phase = "idle"

BeginRun ==
  /\ phase # "running" /\ runs < MaxRuns
  /\ recorder' = graph
  /\ phase' = "running"
  /\ runs' = runs + 1
  /\ added' = {}
  /\ rerun' = (Resolutions(graph) # {})
  /\ UNCHANGED <<graph, verdict, everAdded, edgeCount>>

\* add_dependency_claim by a step: only appends, so recorder and graph agree.
\* A claim that is already there is added again, with a second edge.  Steps run in
\* the order of DEFAULT_STEPS, each only if the run asks for it.
AddClaim(c) ==
  /\ phase = "running" /\ \A d \in added : Before(d, c)
  /\ recorder' = PutEdge(PutNode(recorder, Node(c, "claim")),
                         [no |-> edgeCount + 1, source |-> ClaimInfo[c].subject,
                          target |-> c, relation |-> "declares_dependency"])
  /\ graph' = recorder'
  /\ edgeCount' = edgeCount + 1
  /\ added' = added \cup {c}
  /\ everAdded' = everAdded \cup {c}
  /\ UNCHANGED <<verdict, rerun, phase, runs>>

\* A step raises: what earlier steps wrote stays in the graph, unreconciled.
StepRaises ==
  /\ phase = "running"
  /\ phase' = "idle"
  /\ recorder' = EmptyGraph
  /\ UNCHANGED <<graph, added, verdict, everAdded, edgeCount, rerun, runs>>

\* The end of run(): reconcile through the recorder, return the wrapped graph.
FinishRun ==
  /\ phase = "running"
  /\ recorder' = Reconciled(recorder, edgeCount)
  /\ graph' = TargetAfter(recorder, edgeCount)
  /\ edgeCount' = edgeCount + 2
  /\ verdict' = NewVerdict(recorder)
  /\ phase' = "done"
  /\ UNCHANGED <<added, everAdded, rerun, runs>>

\* reconcile_dependency_claims on a plain graph.
ReconcileDirect ==
  /\ phase \in {"idle", "done"}
  /\ graph' = Reconciled(graph, edgeCount)
  /\ edgeCount' = edgeCount + 2
  /\ verdict' = NewVerdict(graph)
  /\ phase' = "direct"
  /\ UNCHANGED <<recorder, added, everAdded, rerun, runs>>

\* save_graph(mode="replace") and load_graph: one row for each (source, target,
\* relation), rows with a missing end skipped, all objects built anew.
SaveAndLoad ==
  /\ phase \in {"done", "direct"}
  /\ LET rows == {<<e.source, e.target, e.relation>> : e \in graph.edges}
         live == {r \in rows : HasNode(graph, r[1]) /\ HasNode(graph, r[2])}
         bare == [EmptyGraph EXCEPT !.nodes = graph.nodes, !.nodesByType = graph.nodesByType]
     IN  graph' = AddEdges(bare, live, 1)
  /\ edgeCount' = 1
  /\ phase' = "idle"
  /\ UNCHANGED <<recorder, added, verdict, everAdded, rerun, runs>>

Next ==
  \/ BeginRun
  \/ \E c \in Claim : AddClaim(c)
  \/ StepRaises
  \/ FinishRun
  \/ ReconcileDirect
  \/ SaveAndLoad

Spec == Init /\ [][Next]_vars

----------------------------------------------------------------------------
(* Properties *)

Count(g, s, t, relation) ==
  Cardinality({e \in g.edges : e.source = s /\ e.target = t /\ e.relation = relation})

\* The list and the two indexes hold equal edges, each as often as the others.
SameStory(g) ==
  \A s, t \in NodeId, relation \in Relation :
    LET Of(edges) == Cardinality({e \in edges : e.source = s /\ e.target = t /\ e.relation = relation})
    IN  Of(g.edges) = Of(g.outgoing[s]) /\ Of(g.edges) = Of(g.incoming[t])

\* The output of a reconciliation is there exactly once: one resolution node per
\* group of claims, one OBSERVED_AS edge per claim and the links of each pair, and
\* the list and the indexes tell the same story.
IsReconciled(g) ==
  /\ Resolutions(g) = GroupsOf(g)
  /\ \A k \in Group, c \in Claim :
       Count(g, k, c, "observed_as") = IF c \in Members(g, k) THEN 1 ELSE 0
  /\ \A c, d \in Claims(g) :
       LET links == LinkSpecs(Members(g, ClaimInfo[c].group))
           Of(S) == IF <<c, d>> \in S THEN 1 ELSE 0
       IN  /\ Count(g, c, d, "corroborates") = Of(links.corroborates)
           /\ Count(g, c, d, "conflicts_with") = Of(links.drift) + Of(links.linkage)
  /\ SameStory(g)
  /\ NoDangling(g)

\* The graph a first run returns, aborted runs before it included, carries the
\* complete reconciliation of its claims.
FirstRunIsReconciled == phase = "done" /\ ~rerun => IsReconciled(graph)

\* The recorder of a run whose list and indexes told one story before the end of the
\* run is reconciled after it, on a graph with verdicts too: the purge leaves no trace
\* of them in what the run itself sees.  (The graph a second run returns tells two
\* stories, and then the purge finds only the verdicts that are in the list.)
RerunsReconcile ==
  [][phase = "running" /\ phase' = "done" /\ SameStory(recorder) => IsReconciled(recorder')]_vars

\* Each resolution node tells the verdict of the claims that are in the graph now,
\* never the one of an earlier run.
VerdictsAreCurrent ==
  phase \in {"done", "direct"} =>
    \A k \in Group : verdict[k] = IF Members(graph, k) = {} THEN None
                                  ELSE EvaluateGroup(Members(graph, k),
                                         SubjectsWithDeclarations(Claims(graph)))

\* Claims are input: no run, purge, abort or save loses one or its declaration.
ClaimsSurvive ==
  \A c \in everAdded :
    /\ HasNode(graph, c)
    /\ \E e \in graph.edges : e.source = ClaimInfo[c].subject /\ e.target = c /\ e.relation = "declares_dependency"

\* What a run promises: a complete reconciliation, and no claim lost on the way.
RunsReconcile == PipelineTypeOK /\ FirstRunIsReconciled /\ ClaimsSurvive

\* More evidence may settle an undeclared dependency but never hides another kind
\* of conflict that an earlier verdict reported.
ConflictsPersist ==
  [][\A k \in Group : verdict[k] # None =>
       /\ verdict'[k] # None
       /\ verdict[k].kinds \ {"presence_undeclared"} \subseteq verdict'[k].kinds]_vars

\* reconcile_rules.py:46: CONSENSUS takes two independent sources that agree on one
\* version, and nobody in the group asserts another one.
ConsensusIsIndependent ==
  phase \in {"done", "direct"} =>
    \A k \in Group : verdict[k] # None /\ verdict[k].agreement = "consensus" =>
      LET asserting == {c \in Members(graph, k) : ClaimInfo[c].version # None}
      IN  /\ \E c, d \in asserting : ClaimInfo[c].evidence # ClaimInfo[d].evidence
          /\ \A c, d \in asserting : ClaimInfo[c].version.rank = ClaimInfo[d].version.rank

\* A verdict is about the claims that are there, and consensus among them is earned.
VerdictsAreEarned == VerdictsAreCurrent /\ ConsensusIsIndependent

\* reconcile.py:257-263: "Idempotent ... re-running -- on a fresh graph, or on a
\* saved graph after new evidence lands -- never duplicates edges".
RerunIsReconciled == phase = "done" => IsReconciled(graph)
=============================================================================
