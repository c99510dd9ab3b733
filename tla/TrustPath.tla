------------------------------ MODULE TrustPath ------------------------------
(***************************************************************************)
(* What is said of one artifact of a build graph: the path from its source *)
(* (model/graph.py), the trust report, the focused graph (trust.py), the   *)
(* artifacts of a source (lineage.py), the SLSA statement (slsa.py).       *)
(*                                                                         *)
(* A graph is [nodes, edges]: metadata by id, and a set of <<source,       *)
(* target, relation>>; that an edge is there twice is never told apart     *)
(* here.  An id is a tuple of its kind and of numbers, which stand for     *)
(* names, commits and hashes in the order of their text.                   *)
(***************************************************************************)
EXTENDS Integers, Sequences, FiniteSets, SequencesExt

CONSTANT None

SourceId(p) == <<"source", p>>
RepoId(r) == <<"repo", r>>
CommitId(p, c) == <<"commit", p, c>>
SourceCasId(p, h) == <<"cas", p, h>>
ArtifactCasId(h) == <<"artifact cas", h>>

Kind(id) == id[1]
IsCas(id) == Kind(id) \in {"cas", "artifact cas"}
Artifacts(g) == {id \in DOMAIN g.nodes : Kind(id) \in {"rpm", "srpm"}}
Rpms(g) == {id \in DOMAIN g.nodes : Kind(id) = "rpm"}

Outgoing(g, id, relation) == {e[2] : e \in {f \in g.edges : f[1] = id /\ f[3] = relation}}
Incoming(g, id, relation) == {e[1] : e \in {f \in g.edges : f[2] = id /\ f[3] = relation}}

HasCasEvidence(g, id) == IsCas(id) /\ g.nodes[id].hash # None

\* The first of some ids of one kind, by their text.
FirstId(ids) ==
  CHOOSE a \in ids : \A b \in ids \ {a} :
    \E i \in 2 .. Len(a) : a[i] < b[i] /\ \A j \in 2 .. i - 1 : a[j] = b[j]

\* _prefer_cas_evidence_edges
Preferred(g, ids) ==
  LET evident == {id \in ids : HasCasEvidence(g, id)}
  IN  FirstId(IF evident # {} THEN evident ELSE ids)

Upwards == <<"produces", "built_by", "authenticated_by", "points_to", "stored_in">>

\* A path that is not broken yet and the nth node from its artifact up.
WithAbove(g, path, n) ==
  LET above == Incoming(g, path[1], Upwards[n])
  IN  IF Len(path) < n \/ above = {} THEN path
      ELSE <<IF Upwards[n] = "built_by" THEN Preferred(g, above) ELSE FirstId(above)>> \o path

\* source_to_artifact_path, from the artifact up; a missing link ends it.
SourceToArtifactPath(g, artifact) ==
  WithAbove(g, WithAbove(g, WithAbove(g, WithAbove(g, WithAbove(g, <<artifact>>, 1), 2), 3), 4), 5)

HasSourceCas(g, rpm) ==
  \E task \in Incoming(g, rpm, "produces") : \E cas \in Incoming(g, task, "built_by") :
    HasCasEvidence(g, cas) /\ Incoming(g, cas, "authenticated_by") # {}

ErrataStatus(g, rpm) ==
  IF Outgoing(g, rpm, "fixes") \cup Outgoing(g, rpm, "affected_by") # {} THEN "advisory_present"
  ELSE IF g.nodes[rpm].clean THEN "confirmed_clean" ELSE "not_checked"

\* trust_path_report: the checks that failed, in two groups, and the path.
TrustPathReport(g, rpm) ==
  [ provenance |->
      {check \in {"build task", "signature", "release", "source CAS", "artifact CAS"} :
         ~ CASE check = "build task"   -> Incoming(g, rpm, "produces") # {}
             [] check = "signature"    -> Outgoing(g, rpm, "signed_as") # {}
             [] check = "release"      -> Outgoing(g, rpm, "released_to") # {}
             [] check = "source CAS"   -> HasSourceCas(g, rpm)
             [] check = "artifact CAS" -> \E cas \in Outgoing(g, rpm, "authenticated_by") :
                                            HasCasEvidence(g, cas)},
    security |->
      {check \in {"sbom", "errata"} :
         ~ CASE check = "sbom"   -> Outgoing(g, rpm, "described_by") # {}
             [] check = "errata" -> ErrataStatus(g, rpm) # "not_checked"},
    errata |-> ErrataStatus(g, rpm),
    path   |-> SourceToArtifactPath(g, rpm) ]

----------------------------------------------------------------------------
(* Parts of the graph *)

Subgraph(g, ids) ==
  [ nodes |-> [id \in ids |-> g.nodes[id]],
    edges |-> {e \in g.edges : {e[1], e[2]} \subseteq ids} ]

EvidenceRelations == {"authenticated_by", "signed_as", "released_to", "described_by", "fixes", "affected_by"}

\* Mutant of focused_trust_graph: signatures and releases are not followed.
Evidence_NoSignature(g, rpm) ==
  UNION {Outgoing(g, rpm, r) : r \in EvidenceRelations \ {"signed_as", "released_to"}}

Evidence(g, rpm) == UNION {Outgoing(g, rpm, r) : r \in EvidenceRelations}

AroundTask(g, task) ==
  LET srpms == {id \in Outgoing(g, task, "produces") : Kind(id) = "srpm"}
  IN  Incoming(g, task, "derived_from") \cup Outgoing(g, task, "built_in") \cup srpms
        \cup UNION {Outgoing(g, s, "authenticated_by") : s \in srpms}

AroundPath(g, path) ==
  Range(path) \cup (IF Len(path) < 2 THEN {} ELSE AroundTask(g, path[Len(path) - 1]))

\* focused_trust_graph: with what is one step from the build task and from the RPM, and
\* the CVEs behind its advisories; tests are not asked for.
FocusedIds(g, rpm) ==
  AroundPath(g, SourceToArtifactPath(g, rpm)) \cup Evidence(g, rpm)
    \cup UNION {Outgoing(g, e, "fixes") : e \in {f \in Evidence(g, rpm) : Kind(f) = "errata"}}

FocusedTrustGraph(g, rpm) == Subgraph(g, FocusedIds(g, rpm))

\* Mutant of artifacts_from_source: whatever the source reaches.
ArtifactsFromSource_Reachable(g, source) ==
  LET reach[n \in 0 .. 6] == IF n = 0 THEN {source}
                             ELSE reach[n - 1] \cup {e[2] : e \in {f \in g.edges : f[1] \in reach[n - 1]}}
  IN  reach[6] \cap Artifacts(g)

\* artifacts_from_source: those whose path begins at the source.
ArtifactsFromSource(g, source) ==
  {a \in Artifacts(g) : LET path == SourceToArtifactPath(g, a)
                        IN  Len(path) >= 2 /\ path[1] = source}

\* source_build_subgraph, for all archs.
SourceBuildSubgraph(g, source) ==
  Subgraph(g, UNION {FocusedIds(g, rpm) : rpm \in ArtifactsFromSource(g, source) \cap Rpms(g)})

\* slsa_provenance: what it names as the digest, the repository and the commit.
SlsaProvenance(g, rpm) ==
  LET path == Range(SourceToArtifactPath(g, rpm))
      of(kind) == {id \in path : Kind(id) = kind}
  IN  [ digest |-> g.nodes[rpm].hash,
        repo   |-> {id[2] : id \in of("repo")},
        commit |-> {id[3] : id \in of("commit")},
        signed |-> g.nodes[rpm].signed ]
=============================================================================
