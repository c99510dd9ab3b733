----------------------------- MODULE GraphSlices -----------------------------
(***************************************************************************)
(* What the workbench cuts out of the graph of a result: the four slices   *)
(* of its modes (services/slices.py) and the layers that are switched on   *)
(* and off (filter_graph_layers in services/workbench.py).  Graphs are     *)
(* those of TrustPath; a slice is [nodes, edges, focus].                   *)
(***************************************************************************)
EXTENDS TrustPath

Slice(graph, focus) == [nodes |-> graph.nodes, edges |-> graph.edges, focus |-> focus]

IdsOf(g, kind) == {id \in DOMAIN g.nodes : Kind(id) = kind}

\* dependency_evidence: what is claimed and resolved of a subject, and by which specs.
DependencyEvidence(g, subject) ==
  LET about(kind) == {id \in IdsOf(g, kind) : g.nodes[id].subject = subject}
      specs == UNION {Incoming(g, claim, "observed_as") : claim \in about("claim")}
  IN  Slice(Subgraph(g, {subject} \cup about("claim") \cup about("resolution") \cup specs), subject)

\* security_context: one step along the evidence, and the CVEs of its advisories.
SecurityContext(g, subject) ==
  LET frontier == UNION {Outgoing(g, subject, r) :
                           r \in {"described_by", "fixes", "affected_by", "authenticated_by"}}
      cves == UNION {Outgoing(g, id, "fixes") : id \in {f \in frontier : Kind(f) = "errata"}}
  IN  Slice(Subgraph(g, {subject} \cup frontier \cup cves), subject)

NodeNeighborhood(g, id) ==
  LET around == {e[1] : e \in {f \in g.edges : f[2] = id}} \cup {e[2] : e \in {f \in g.edges : f[1] = id}}
  IN  Slice(Subgraph(g, {id} \cup around), id)

TrustPathSlice(g, rpm) == Slice(FocusedTrustGraph(g, rpm), rpm)

\* GRAPH_LAYERS, as far as the graphs of these models go: kinds and relations.
Layers ==
  [ build        |-> [kinds     |-> {"source", "repo", "commit", "task", "build", "rpm", "srpm"},
                      relations |-> {"stored_in", "points_to", "built_by", "produces"}],
    cas          |-> [kinds |-> {"cas", "artifact cas"}, relations |-> {"authenticated_by"}],
    sign_release |-> [kinds |-> {"signature", "release"}, relations |-> {"signed_as", "released_to"}],
    security     |-> [kinds     |-> {"sbom", "errata", "cve"},
                      relations |-> {"described_by", "fixes", "affected_by"}],
    dependencies |-> [kinds     |-> {"spec", "claim", "resolution"},
                      relations |-> {"observed_as", "corroborates", "conflicts_with"}] ]

\* Mutant of filter_graph_layers: the focus goes with its layer.
FilterGraphLayers_DropsFocus(slice, enabled) ==
  LET kinds     == UNION {Layers[l].kinds : l \in enabled}
      relations == UNION {Layers[l].relations : l \in enabled}
      kept == {id \in DOMAIN slice.nodes : Kind(id) \in kinds}
      sub  == Subgraph(slice, kept)
  IN  [nodes |-> sub.nodes, focus |-> slice.focus, edges |-> {e \in sub.edges : e[3] \in relations}]

\* filter_graph_layers: the focus stays whatever is switched off.
FilterGraphLayers(slice, enabled) ==
  LET kinds     == UNION {Layers[l].kinds : l \in enabled}
      relations == UNION {Layers[l].relations : l \in enabled}
      kept == {id \in DOMAIN slice.nodes : Kind(id) \in kinds} \cup ({slice.focus} \cap DOMAIN slice.nodes)
      sub  == Subgraph(slice, kept)
  IN  [nodes |-> sub.nodes, focus |-> slice.focus, edges |-> {e \in sub.edges : e[3] \in relations}]
=============================================================================
