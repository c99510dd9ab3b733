-------------------------- MODULE DependencySources --------------------------
(***************************************************************************)
(* The adapters that turn evidence into dependency claims                  *)
(* (albs_graph/adapters: rpmgraph, dnf, sbom, pylang, source_imports,      *)
(* rpm_remote, rpm_payload; dependency/native_resolvers), each as the      *)
(* sequence of claims it adds, in its order, and add_dependency_claim.     *)
(*                                                                         *)
(* A package name is <<ecosystem, namespace, name>>; a version is None or  *)
(* one of ReconcileRules; requested is None or [op, bound].  raw is what   *)
(* tells two observations of one and the same claim apart.  A subject is   *)
(* an id of TrustPath.                                                     *)
(***************************************************************************)
EXTENDS TrustPath

CONSTANT Sonames  \* dependency names with ".so" in them

Dep(subject, package, evidence, version) ==
  [ subject |-> subject, package |-> package, evidence |-> evidence, version |-> version,
    context |-> {}, purl |-> None, scope |-> "runtime", linkage |-> "unknown",
    state |-> "observed", requested |-> None, raw |-> [of |-> None] ]

Rpm(name) == <<"rpm", None, name>>
AlmaLinuxRpm(name) == <<"rpm", "almalinux", name>>

\* claim_node_id: neither the constraint nor the observation is part of it.
ClaimNodeId(c) == <<c.subject, c.package, c.evidence, c.version, c.context, c.purl>>

GroupKey(c) == <<c.subject, c.package, c.context>>

EvidenceClass(c) ==
  CASE c.evidence \in {"sbom", "soname_provider"}                              -> "resolved"
    [] c.evidence = "rpm_header_requires"                                      -> "declared"
    [] c.evidence \in {"rpm_header_soname", "elf_dt_needed"}                   -> "artifact"
    [] OTHER -> IF c.state \in {"locked", "resolved"} THEN c.state ELSE "declared"

\* What ReconcileRules asks of a claim.
InfoOf(c) ==
  [ subject |-> c.subject, group |-> GroupKey(c), evidence |-> c.evidence,
    class |-> EvidenceClass(c), version |-> c.version, linkage |-> c.linkage,
    purl |-> c.purl, constraint |-> c.requested, rangeSatisfied |-> None,
    soname |-> c.package[3] \in Sonames ]

----------------------------------------------------------------------------
(* Adding claims: st = [claims, raised] *)

\* Mutant of add_dependency_claim: a node that is there is one too many.
AddDependencyClaim_Once(st, c) ==
  LET there == {i \in DOMAIN st.claims : ClaimNodeId(st.claims[i]) = ClaimNodeId(c)}
  IN  IF st.raised THEN st
      ELSE IF there = {} THEN [st EXCEPT !.claims = Append(@, c)]
      ELSE [st EXCEPT !.raised = TRUE]

\* add_dependency_claim: the graph takes an equal node again, and raises when the
\* node of that id differs.
AddDependencyClaim(st, c) ==
  LET there == {i \in DOMAIN st.claims : ClaimNodeId(st.claims[i]) = ClaimNodeId(c)}
  IN  IF st.raised THEN st
      ELSE IF there = {} THEN [st EXCEPT !.claims = Append(@, c)]
      ELSE [st EXCEPT !.raised = \E i \in there : st.claims[i] # c]

\* The claims in turn.
AddAll(claims, new) ==
  LET added[n \in 0 .. Len(new)] == IF n = 0 THEN [claims |-> claims, raised |-> FALSE]
                                    ELSE AddDependencyClaim(added[n - 1], new[n])
  IN  added[Len(new)]

MapSeq(seq, Op(_)) == [i \in DOMAIN seq |-> Op(seq[i])]

\* Some numbers from the least up, and what a sequence has at some of its places.
Ascending(ns) ==
  [k \in 1 .. Cardinality(ns) |-> CHOOSE n \in ns : Cardinality({m \in ns : m <= n}) = k]
Picked(seq, places) == MapSeq(Ascending(places), LAMBDA i : seq[i])

\* The elements of a sequence, of those with one key the first.
Deduped(seq, keys) == Picked(seq, {i \in DOMAIN seq : \A j \in 1 .. i - 1 : keys[j] # keys[i]})

----------------------------------------------------------------------------
(* Package managers *)

\* enrich_graph_with_rpmgraph: an edge is claimed of every node of the source's name;
\* of equal ones the first.
RpmgraphClaims(edges, nodesOf) ==
  LET found == FlattenSeq([i \in DOMAIN edges |->
                 MapSeq(nodesOf[edges[i].source],
                        LAMBDA rpm : [Dep(rpm, AlmaLinuxRpm(edges[i].name), "repograph", edges[i].version)
                                        EXCEPT !.state = "resolved", !.raw = [of |-> i]])])
  IN  Deduped(found, MapSeq(found, ClaimNodeId))

DnfRelations == <<"requires", "recommends", "suggests">>
DnfEvidence == <<"dnf:requires", "dnf:recommends", "dnf:suggests">>

\* enrich_graph_with_dnf, one package: the relations in turn, until a query fails.
\* answer[relation] is a sequence of [name, version], or None for one
\* that fails.
DnfClaims(rpm, answer) ==
  LET Failed(i) == answer[DnfRelations[i]] = None
      asked == {i \in 1 .. 3 : \A j \in 1 .. i : ~Failed(j)}
      of(i) == MapSeq(answer[DnfRelations[i]],
                      LAMBDA p : [Dep(rpm, AlmaLinuxRpm(p.name), DnfEvidence[i], p.version)
                                    EXCEPT !.state = "resolved",
                                           !.scope = IF i = 1 THEN "runtime" ELSE "optional"])
      found == FlattenSeq([i \in 1 .. Cardinality(asked) |-> of(i)])
  IN  Deduped(found, found)

\* And so does the recording of what the package conflicts with and obsoletes.
DnfFails(answer) == \E relation \in DOMAIN answer : answer[relation] = None

\* resolve_soname_claims: the package behind each soname that is claimed; of two
\* sonames in one package the first claim found.
Bridged(claims, index) == Picked(claims, {i \in DOMAIN claims : claims[i].package[3] \in DOMAIN index})
SonameClaims(bridged, index) ==
  LET provider(c) == index[c.package[3]]
      found == MapSeq(bridged, LAMBDA c : [Dep(c.subject, AlmaLinuxRpm(provider(c).name), "soname_provider",
                                               provider(c).version)
                                           EXCEPT !.linkage = "dynamic", !.state = "resolved",
                                                  !.raw = [of |-> c.package[3]]])
  IN  Deduped(found, MapSeq(found, ClaimNodeId))

\* build_soname_index: the sonames in the order of their text, until dnf fails.
SonameIndex(claims, provider, failsAt) ==
  LET sonames == {claims[i].package[3] : i \in DOMAIN claims} \cap Sonames
      asked   == {s \in sonames : failsAt = None \/ Cardinality({t \in sonames : t <= s}) < failsAt}
  IN  [s \in asked \cap DOMAIN provider |-> provider[s]]

----------------------------------------------------------------------------
(* What is in the package *)

\* Mutant of header_dependency_claims: one claim for a name, whatever it requires.
HeaderClaims_OnePerName(rpm, header) ==
  LET required == MapSeq(header.requires, LAMBDA r : [Dep(rpm, Rpm(r.name), "rpm_header_requires", r.version)
                                                        EXCEPT !.requested = r.requested])
  IN  MapSeq(header.sonames, LAMBDA s : [Dep(rpm, Rpm(s), "rpm_header_soname", None) EXCEPT !.linkage = "dynamic"])
        \o Deduped(required, MapSeq(required, LAMBDA c : c.package))

\* header_dependency_claims: a soname once whatever symbol versions it is required
\* with, then the packages; [name, version, requested] once.
HeaderClaims(rpm, header) ==
  LET required == MapSeq(header.requires, LAMBDA r : [Dep(rpm, Rpm(r.name), "rpm_header_requires", r.version)
                                                        EXCEPT !.requested = r.requested])
  IN  MapSeq(header.sonames, LAMBDA s : [Dep(rpm, Rpm(s), "rpm_header_soname", None) EXCEPT !.linkage = "dynamic"])
        \o Deduped(required, required)

\* payload_dependency_claims and go_static_claims.
PayloadClaims(rpm, payload) ==
  MapSeq(payload.needed, LAMBDA s : [Dep(rpm, Rpm(s), "elf_dt_needed", None) EXCEPT !.linkage = "dynamic"])
    \o MapSeq(payload.goModules, LAMBDA m : [Dep(rpm, <<"go", None, m.name>>, "go_buildinfo", m.version)
                                               EXCEPT !.linkage = "static", !.state = "resolved"])

\* The outcome of _try_candidates for one package: the candidates are tried while
\* they are refused; another error is not caught.
Tried(candidates) ==
  LET usable == {i \in DOMAIN candidates : candidates[i] # "refused"}
      first  == CHOOSE i \in usable : \A j \in usable : i <= j
  IN  IF usable = {} THEN "refused" ELSE candidates[first]

----------------------------------------------------------------------------
(* Documents about one subject *)

\* cyclonedx_dependency_claims
SbomClaims(subject, components) ==
  MapSeq(components, LAMBDA p : [Dep(subject, AlmaLinuxRpm(p.name), "sbom", p.version)
                                   EXCEPT !.purl = p.purl, !.scope = p.scope,
                                          !.raw = [of |-> p.ref, licenses |-> p.licenses]])

\* python_requirement_claims
RequirementClaims(subject, lines) ==
  MapSeq(lines, LAMBDA p : [Dep(subject, <<"pypi", None, p.name>>, "requirements.txt", p.version)
                              EXCEPT !.state = IF p.version = None THEN "declared" ELSE "locked",
                                     !.context = p.extras, !.requested = p.requested,
                                     !.raw = [of |-> p.line]])

\* python_import_claims, with the package each module comes from.
ImportClaims(subject, modules, packageOf) ==
  MapSeq(modules, LAMBDA m : [Dep(subject, <<"pypi", None, packageOf[m]>>, "python_import", None)
                                EXCEPT !.state = "declared", !.raw = [of |-> m]])

\* attach_source_tree_imports: [evidence, ecosystem, modules] for each language found.
SourceImportClaims(subject, languages) ==
  FlattenSeq(MapSeq(languages, LAMBDA l :
    MapSeq(l.modules, LAMBDA m : [Dep(subject, <<l.ecosystem, None, m>>, l.evidence, None)
                                    EXCEPT !.state = "declared", !.raw = [of |-> m]])))

\* claims_from_resolver_result.  The command asks for nothing by name, so a tool that
\* fails leaves nothing unresolved.
ResolverClaims(subject, evidence, ecosystem, resolved) ==
  MapSeq(resolved, LAMBDA p : [Dep(subject, <<ecosystem, None, p.name>>, evidence, p.version)
                                 EXCEPT !.state = "resolved"])
=============================================================================
