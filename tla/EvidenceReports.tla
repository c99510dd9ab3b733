--------------------------- MODULE EvidenceReports ---------------------------
(***************************************************************************)
(* What the reports say of an enriched graph: the coverage axes            *)
(* (provenance/coverage.py), the applicability of CVEs (vuln.py), the      *)
(* findings (services/findings.py), the matrix, the queries and the rows   *)
(* of the workbench (services/workbench.py), and the comparison of two     *)
(* graphs (services/compare.py).  All are functions of a graph in the form *)
(* of TrustPath, of the claims in it and of the verdicts on them.          *)
(*                                                                         *)
(* A report that counts is a set here: what it counts.  Binary RPMs are    *)
(* found in the order of their ids.  A verdict holds the claims its        *)
(* resolution node points to, as the reconciler found them.                *)
(***************************************************************************)
EXTENDS TrustPath

CONSTANTS DefaultArches,  \* archs an enrichment selects by default
          CveFeed         \* CVE |-> set of affected [vendor, product, introduced, fixed]

LastOf(ids) == CHOOSE a \in ids : \A b \in ids : b[2] <= a[2]

Key(g, rpm) == <<g.nodes[rpm].name, g.nodes[rpm].arch>>
Namesakes(g, rpm) == {r \in Rpms(g) : Key(g, r) = Key(g, rpm)}

----------------------------------------------------------------------------
(* Identity and CVEs *)

HasVerifiedCpe(identity) ==
  identity.cpe # None \/ \E i \in DOMAIN identity.candidates : identity.candidates[i].verified

\* identity_strength: the RPMs of each status that establishes an identity.
IdentityStrength(g) ==
  [status \in {"verified", "vendor_asserted"} |-> {r \in Rpms(g) : g.nodes[r].identity.status = status}]

Errata(g, rpm) == {e \in Outgoing(g, rpm, "fixes") : Kind(e) = "errata"}

\* _errata_and_cves
AddressedCves(g, rpm) == UNION {{c[2] : c \in Outgoing(g, e, "fixes")} : e \in Errata(g, rpm)}

Affects(range, cpe) ==
  /\ range.vendor \in {"*", cpe.vendor} /\ range.product \in {"*", cpe.product}
  /\ range.introduced # None => cpe.version >= range.introduced
  /\ range.fixed # None => cpe.version < range.fixed

\* _feed_matches: nothing for a CPE without a version ("*", None here).
FeedMatches(cpe, addressed) ==
  IF cpe = None THEN {} ELSE IF cpe.version = None THEN {}
  ELSE {cve \in DOMAIN CveFeed : \E range \in CveFeed[cve] : Affects(range, cpe)} \ addressed

\* vulnerability_report, one RPM of it.
Assessment(g, rpm) ==
  LET id == g.nodes[rpm].identity
  IN  [ addressed   |-> AddressedCves(g, rpm),
        potential   |-> FeedMatches(id.cpe, AddressedCves(g, rpm)),
        established |-> id.cpe # None,
        external    |-> id.status = "verified",
        caveats     |-> {c \in {"backport", "dlopen", "static"} :
                           \/ c = "backport" /\ id.backport
                           \/ c = "dlopen" /\ g.nodes[rpm].elf # None /\ g.nodes[rpm].elf.dlopen # {}
                           \/ c = "static" /\ g.nodes[rpm].elf # None /\ g.nodes[rpm].elf.static # {}} ]

IdentityLabel(id) ==
  CASE id.status = "verified"         -> "verified"
    [] id.status = "vendor_asserted"  -> "vendor-asserted"
    [] id.status = "ambiguous_vendor" -> "ambiguous"
    [] OTHER -> IF id.candidates # << >> THEN "candidate" ELSE "none"

\* _errata_cell
ErrataCell(status) ==
  CASE status = "advisory_present" -> "advisory"
    [] status = "confirmed_clean"  -> "clean"
    [] OTHER                       -> "missing"

\* security_rows: the assessment is looked up by name and arch, where the last wins.
SecurityRows(g) ==
  [rpm \in Rpms(g) |->
     [ identity |-> IdentityLabel(g.nodes[rpm].identity), errata |-> ErrataCell(ErrataStatus(g, rpm)),
       assessed |-> Assessment(g, LastOf(Namesakes(g, rpm))) ]]

----------------------------------------------------------------------------
(* The evidence matrix, and what is asked of it *)

HasTests(g, rpm) ==
  \/ Outgoing(g, rpm, "tested_by") # {}
  \/ \E task \in Incoming(g, rpm, "produces") : Outgoing(g, task, "tested_by") # {}

TrustChecks == {"build task", "signature", "release", "source CAS", "artifact CAS", "sbom", "errata"}

Failed(report) == report.provenance \cup report.security
Missing(g, rpm) == Failed(TrustPathReport(g, rpm))

\* evidence_matrix_rows: all cells but "missing" is ok.
MatrixRow(report, tested) ==
  [ provenance |-> report.provenance = {}, security |-> report.security = {},
    errata     |-> ErrataCell(report.errata),
    missing    |-> report.provenance \cup report.security \cup (IF tested THEN {} ELSE {"tests"}) ]

EvidenceMatrixRows(g) == [rpm \in Rpms(g) |-> MatrixRow(TrustPathReport(g, rpm), HasTests(g, rpm))]

\* _query_missing_check, of what each RPM is missing.
QueryMissingCheck(missing, check) == {rpm \in DOMAIN missing : check \in missing[rpm]}

\* run_graph_query, coverage_gaps.
CoverageGaps(matrix) == {rpm \in DOMAIN matrix : matrix[rpm].missing # {}}

\* In comparisons the last RPM of a name and arch stands for all.
Representatives(g) == {LastOf(Namesakes(g, rpm)) : rpm \in Rpms(g)}

Fingerprint(node) == <<node.vr, node.purl, node.hash, node.source>>

ByKey(g) == [k \in {Key(g, r) : r \in Rpms(g)} |-> CHOOSE r \in Representatives(g) : Key(g, r) = k]

\* compare_artifacts
CompareArtifacts(left, right) ==
  LET l == ByKey(left)
      r == ByKey(right)
  IN  [ removed |-> DOMAIN l \ DOMAIN r, added |-> DOMAIN r \ DOMAIN l,
        changed |-> {k \in DOMAIN l \cap DOMAIN r :
                       Fingerprint(left.nodes[l[k]]) # Fingerprint(right.nodes[r[k]])} ]

\* _compare_evidence_matrices, of two matrices.
CompareEvidence(left, right, leftRows, rightRows) ==
  LET l == ByKey(left)
      r == ByKey(right)
  IN  {k \in DOMAIN l \cap DOMAIN r : leftRows[l[k]] # rightRows[r[k]]}

----------------------------------------------------------------------------
(* Dependencies *)

UnresolvedStates == {"unresolvable", "ambiguous", "resolution_skipped"}

IsUnresolved(verdict, states) ==
  \/ verdict.agreement = "insufficient_evidence"
  \/ states \cap UnresolvedStates # {}
  \/ states = {"declared"}

\* _scope_facet_match
FacetMatch(facets, scopes, linkages) ==
  facets = {} \/ \E f \in facets : f \in scopes \/ (f = "static" /\ "static" \in linkages)

\* dependency_rows: the groups that are listed.
DependencyRows(claims, verdicts, facets, onlyConflicts, onlyUnresolved) ==
  {group \in DOMAIN verdicts :
     LET verdict == verdicts[group]
         of(field) == {claims[i][field] : i \in verdict.members}
     IN  /\ onlyConflicts => verdict.kinds # {}
         /\ onlyUnresolved => IsUnresolved(verdict, of("state"))
         /\ FacetMatch(facets, of("scope"), of("linkage"))}

\* license_report: components counted, and those without a licence.
LicenseReport(claims) ==
  LET components == {i \in DOMAIN claims : claims[i].evidence = "sbom"}
  IN  [components |-> components, unlicensed |-> {i \in components : claims[i].raw.licenses = {}}]

----------------------------------------------------------------------------
(* Coverage, findings and what leads to them *)

Axis(covered, total) == [covered |-> covered, total |-> total]

\* Mutant of _resolution_axis: agreement on a foreign distro's package counts.
ResolutionAxis_AnyContext(claims, verdicts) ==
  IF DOMAIN verdicts # {}
  THEN Axis({k \in DOMAIN verdicts : verdicts[k].agreement \in {"consensus", "compatible"}}, DOMAIN verdicts)
  ELSE Axis({i \in DOMAIN claims : claims[i].state \in {"resolved", "locked"}}, DOMAIN claims)

ResolutionAxis(claims, verdicts) ==
  IF DOMAIN verdicts # {}
  THEN Axis({k \in DOMAIN verdicts : /\ verdicts[k].agreement \in {"consensus", "compatible"}
                                     /\ ~verdicts[k].crossDistro}, DOMAIN verdicts)
  ELSE Axis({i \in DOMAIN claims : claims[i].state \in {"resolved", "locked"}}, DOMAIN claims)

CoverageReport(g, claims, verdicts) ==
  [ resolution |-> ResolutionAxis(claims, verdicts),
    linkage    |-> Axis({r \in Rpms(g) : \E i \in DOMAIN claims : /\ claims[i].subject = r
                                                                  /\ claims[i].linkage # "unknown"}, Rpms(g)),
    identity   |-> Axis({r \in Rpms(g) : HasVerifiedCpe(g.nodes[r].identity)}, Rpms(g)),
    provenance |-> Axis({r \in Rpms(g) : TrustPathReport(g, r).provenance = {}}, Rpms(g)),
    security   |-> Axis({r \in Rpms(g) : TrustPathReport(g, r).security = {}}, Rpms(g)) ]

Incomplete(axis) == axis.total # {} /\ axis.covered # axis.total

\* coverage_rows: an axis with nothing to cover is complete.
CoverageRows(report) == [a \in DOMAIN report |-> IF Incomplete(report[a]) THEN "incomplete" ELSE "complete"]

\* findings_for_analysis, of a coverage report and of what each RPM is missing: the axes, the conflicts and their groups, the RPMs of each
\* check that is missing somewhere.
Findings(report, missing, verdicts) ==
  [ coverage    |-> {a \in DOMAIN report : Incomplete(report[a])},
    conflicts   |-> {k \in DOMAIN verdicts : verdicts[k].kinds # {}},
    crossDistro |-> {k \in DOMAIN verdicts : verdicts[k].crossDistro},
    trust       |-> [check \in UNION Range(missing) |-> {r \in DOMAIN missing : check \in missing[r]}] ]

\* finding_drilldown_rows: of the RPMs of a check the first DrillDownCap, of a subject
\* its checks.
DrillDownCap == 50
DrillDownCheck(g, findings, check) ==
  LET rpms == findings.trust[check] \cap Rpms(g)
  IN  {r \in rpms : Cardinality({s \in rpms : s[2] < r[2]}) < DrillDownCap}
DrillDownSubject(g, group) ==
  LET subject == group[1]
  IN  IF subject \in Rpms(g) THEN [check \in TrustChecks |-> check \notin Missing(g, subject)] ELSE << >>

\* investigation_recipes: the four of the modes, and what the findings lead to.
Recipes(g, found) ==
  {"trust_path", "node_neighborhood", "security_context", "dependency_evidence"}
    \cup {r \in {"first_finding", "coverage_gaps", "build_timeline"} :
            \/ r = "first_finding" /\ found.conflicts # {}
            \/ r = "coverage_gaps" /\ found.coverage # {}
            \/ r = "build_timeline" /\ \E id \in DOMAIN g.nodes : Kind(id) = "task"}

----------------------------------------------------------------------------
(* Sources, and one file *)

SourceKinds == {"source", "repo", "commit", "cas", "tree", "file", "manifest", "spec"}

\* _source_path: without a usable subject, the path of the first RPM.
SourcePath(g, subject) ==
  LET PathTo(rpm) == Range(TrustPathReport(g, rpm).path)
  IN  IF subject \in Rpms(g) THEN PathTo(subject)
      ELSE IF subject \in DOMAIN g.nodes /\ Kind(subject) \in SourceKinds \cup {"artifact cas"} THEN {subject}
      ELSE IF Rpms(g) # {} THEN PathTo(FirstId(Rpms(g)))
      ELSE {id \in DOMAIN g.nodes : Kind(id) = "source"}

\* source_evidence_rows: the path, the trees of its sources (or else all trees), the
\* manifests and specs of the trees, and what these declare.
SourceEvidenceRows(g, subject) ==
  LET onPath == {id \in SourcePath(g, subject) : Kind(id) \in SourceKinds}
      trees(sources) == {t \in UNION {Outgoing(g, s, "described_by") : s \in sources} : Kind(t) = "tree"}
      own   == trees({id \in onPath : Kind(id) = "source"})
      shown == IF own # {} THEN own ELSE {id \in DOMAIN g.nodes : Kind(id) = "tree"}
      files == {f \in UNION {Outgoing(g, t, "contains") : t \in shown} : Kind(f) \in {"manifest", "spec"}}
      rows  == onPath \cup shown \cup files
                 \cup UNION {Outgoing(g, f, "declares_dependency") \cup Outgoing(g, f, "references") : f \in files}
  IN  IF rows # {} THEN rows ELSE {id \in DOMAIN g.nodes : Kind(id) = "source"}

\* _resolve_owner from the graph: by the file lists, then by the ELF objects.
Owner(g, file) ==
  LET of(Has(_)) == {r \in Rpms(g) : Has(g.nodes[r])}
      listed == of(LAMBDA node : node.files # None /\ file \in node.files)
      objects == of(LAMBDA node : node.elf # None /\ file \in node.elf.static \cup node.elf.dlopen)
      First(rpms) == CHOOSE a \in rpms : \A b \in rpms : a[2] <= b[2]
  IN  IF listed \cup objects = {} THEN None
      ELSE g.nodes[First(IF listed # {} THEN listed ELSE objects)].name

\* identify_file: the RPM of the owner's name that is taken, "x86_64" ones first.
Identify(g, file) ==
  LET named == {r \in Rpms(g) : g.nodes[r].name = Owner(g, file)}
      main == {r \in named : g.nodes[r].arch = "x86_64"}
      from == IF main # {} THEN main ELSE named
  IN  IF Owner(g, file) = None THEN None ELSE CHOOSE a \in from : \A b \in from : a[2] <= b[2]
=============================================================================
