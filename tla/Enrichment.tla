------------------------------ MODULE Enrichment ------------------------------
(***************************************************************************)
(* Enrichment of one graph by the steps of DEFAULT_STEPS (pipeline.py),    *)
(* and what the reports say of it at every moment.  A run asks for some of *)
(* the steps, which come in their order; a step that raises ends the run,  *)
(* with what was written left in the graph; a run that comes to its end    *)
(* reconciles the claims.  A resolver's result or the imports of a source  *)
(* tree may be added between runs.                                         *)
(*                                                                         *)
(* The cas and signatures steps are those of module BuildGraph.  A run on  *)
(* a graph that has verdicts is followed up to its reconciliation, which   *)
(* is the matter of module AnalysisPipeline.  No package, arch or limit is *)
(* asked for: the default selector.                                        *)
(***************************************************************************)
EXTENDS SecuritySources, DependencySources

CONSTANTS BaseGraph,
          MaxEvidence,          \* bound: steps and imports in a behaviour
          \* What each step may be given, by name.
          BuildSboms,        \* components
          Repographs,        \* edges
          DnfAnswers,        \* an answer for each RPM
          DepSboms,          \* [subject, components]
          Requirements, Imports, \* [subject, lines], [subject, modules]
          ErrataFiles,       \* [subject, advisory]
          Advisories,        \* the advisories of each RPM
          Dictionaries,      \* product |-> vendors
          Candidates,        \* what the candidate URLs of one RPM may answer
          HeaderOf, PayloadOf, \* of each RPM
          ProvidesMaps,      \* soname |-> [name, version]
          PackageOf,         \* of each module that is imported
          Resolved,          \* [subject, evidence, ecosystem, resolved]
          SourceTrees,       \* [subject, languages]
          Distro             \* distro generation of the subjects

\* A graph as the build's analysis leaves it: RPMs whose CPE is not known.
RpmFields == {"name", "arch", "vr", "purl", "source", "hash", "signed", "clean", "debug",
              "elRelease", "elf", "files", "identity"}
ASSUME RpmsAssumption ==
  /\ DOMAIN BaseGraph = {"nodes", "edges"} /\ IsFiniteSet(DOMAIN BaseGraph.nodes)
  /\ \A edge \in BaseGraph.edges : {edge[1], edge[2]} \subseteq DOMAIN BaseGraph.nodes
  /\ \A r \in Rpms(BaseGraph) :
       /\ r[2] \in Nat /\ r = <<"rpm", r[2]>> /\ r # None
       /\ DOMAIN BaseGraph.nodes[r] = RpmFields /\ BaseGraph.nodes[r].name # None
  /\ \A edge \in BaseGraph.edges : edge[3] \in {"declares_dependency", "references"} => Kind(edge[2]) # "tree"

Vendors == UNION {UNION Range(Dictionaries[d]) : d \in DOMAIN Dictionaries}
RpmCandidates == UNION {Range(BaseGraph.nodes[r].identity.candidates) : r \in Rpms(BaseGraph)}
CandidateType == [product  : {c.product : c \in RpmCandidates} \cup {None},
                  version  : {c.version : c \in RpmCandidates} \cup {None}, verified : BOOLEAN]
ASSUME CandidatesAssumption ==
  /\ \A r \in Rpms(BaseGraph) :
       LET identity == BaseGraph.nodes[r].identity
       IN  /\ DOMAIN identity = {"cpe", "status", "backport", "candidates"}
           /\ identity.cpe = None /\ identity.status \notin {"verified", "vendor_asserted"}
           /\ identity.candidates \in Seq(CandidateType)
           /\ \A i \in DOMAIN identity.candidates : ~identity.candidates[i].verified
  /\ \A d \in DOMAIN Dictionaries : \A product \in DOMAIN Dictionaries[d] : IsFiniteSet(Dictionaries[d][product])
  /\ \A v \in Vendors : \A c \in CandidateType : None # [vendor |-> v, product |-> c.product, version |-> c.version]

IsSeq(s) == s \in Seq(Range(s))
ASSUME InputsAssumption ==
  /\ None \notin DOMAIN BuildSboms \cup DOMAIN Dictionaries
  /\ \A doc \in DOMAIN BuildSboms : IsSeq(BuildSboms[doc])
  /\ \A dot \in DOMAIN Repographs : IsSeq(Repographs[dot])
  /\ \A a \in DOMAIN DnfAnswers : \A r \in Rpms(BaseGraph) :
       /\ DOMAIN DnfAnswers[a][r] = {"requires", "recommends", "suggests"}
       /\ \A relation \in DOMAIN DnfAnswers[a][r] : DnfAnswers[a][r][relation] = None \/ IsSeq(DnfAnswers[a][r][relation])
  /\ \A doc \in DOMAIN DepSboms : IsSeq(DepSboms[doc].components)
  /\ \A file \in DOMAIN Requirements : IsSeq(Requirements[file].lines)
  /\ \A file \in DOMAIN Imports : IsSeq(Imports[file].modules)
  /\ \A r \in Rpms(BaseGraph) : /\ IsSeq(HeaderOf[r].requires) /\ IsSeq(HeaderOf[r].sonames)
                                /\ IsSeq(PayloadOf[r].needed) /\ IsSeq(PayloadOf[r].goModules)
                                /\ PayloadOf[r].files # None
  /\ \A tool \in DOMAIN Resolved : IsSeq(Resolved[tool].resolved)
  /\ \A tree \in DOMAIN SourceTrees : /\ IsSeq(SourceTrees[tree].languages)
                                      /\ \A l \in Range(SourceTrees[tree].languages) : IsSeq(l.modules)

VARIABLES enriched, claims,
          verdicts,  \* metadata of the resolution node of each group, with its claims
          at,        \* the first step the run may still come to, 1 between runs
          count, accepted,
          last       \* the step taken last: [step, input, failures, raised, again]

enrichmentVars == <<enriched, claims, verdicts, at, count, accepted, last>>

DefaultSteps == <<"build_sbom", "repograph", "dnf", "sbom", "python", "python_imports", "errata",
                  "errata_source", "verify_cpe", "rpm_headers", "rpm_payloads", "soname">>

Subjects == {id \in DOMAIN BaseGraph.nodes : Kind(id) \in {"rpm", "source"}}

Rules(cs) == INSTANCE ReconcileRules
  WITH Claim <- DOMAIN cs, ClaimInfo <- [i \in DOMAIN cs |-> InfoOf(cs[i])],
       DistroOf <- [s \in Subjects |-> Distro]

\* reconcile_dependency_claims
Reconcile(cs) ==
  LET group(k) == {i \in DOMAIN cs : GroupKey(cs[i]) = k}
      declaring == Rules(cs)!SubjectsWithDeclarations(DOMAIN cs)
      verdict(k) == Rules(cs)!EvaluateGroup(group(k), declaring)
  IN  [k \in {GroupKey(cs[i]) : i \in DOMAIN cs} |->
         [ agreement |-> verdict(k).agreement, kinds |-> verdict(k).kinds,
           crossDistro |-> verdict(k).crossDistro, members |-> group(k) ]]

----------------------------------------------------------------------------
(* The steps *)

EnrichmentInit ==
  /\ enriched = BaseGraph /\ claims = << >> /\ verdicts = << >>
  /\ at = 1 /\ count = 0 /\ accepted = {}
  /\ last = [step |-> "none", input |-> None, failures |-> {}, raised |-> FALSE, again |-> FALSE]

Place(step) == CHOOSE i \in DOMAIN DefaultSteps : DefaultSteps[i] = step

Ended(step, input, failures, raised) ==
  /\ count < MaxEvidence /\ count' = count + 1
  /\ accepted' = IF raised THEN accepted ELSE accepted \cup {<<step, input>>}
  /\ last' = [ step |-> step, input |-> input, failures |-> failures, raised |-> raised,
               again |-> <<step, input>> \in accepted ]

\* A step of the run, which ends with it if it raised.
RunStep(step, input, failures, raised) ==
  /\ at <= Place(step)
  /\ at' = IF raised THEN 1 ELSE Place(step) + 1
  /\ Ended(step, input, failures, raised)
  /\ UNCHANGED verdicts

GraphStep(step, input, after) ==
  /\ enriched' = after
  /\ RunStep(step, input, {}, FALSE)
  /\ UNCHANGED claims

ClaimStep(step, input, new, failures) ==
  LET added == AddAll(claims, new)
  IN  /\ claims' = added.claims
      /\ RunStep(step, input, failures, added.raised)

BuildSbomStep == \E doc \in DOMAIN BuildSboms :
  GraphStep("build_sbom", doc, EnrichWithBuildSbom(enriched, doc, BuildSboms[doc]))

InOrder(rpms) == MapSeq(Ascending({r[2] : r \in rpms}), LAMBDA n : <<"rpm", n>>)

SelectedNodesOf(name) == InOrder({r \in Selected(enriched) : enriched.nodes[r].name = name})

NodesOfSources(edges) == [name \in {edge.source : edge \in Range(edges)} |-> SelectedNodesOf(name)]

RepographStep == \E dot \in DOMAIN Repographs :
  /\ ClaimStep("repograph", dot, RpmgraphClaims(Repographs[dot], NodesOfSources(Repographs[dot])), {})
  /\ UNCHANGED enriched

\* None where there is no dnf.  A package that fails keeps what it was given before.
DnfStep == \E answer \in DOMAIN DnfAnswers \cup {None} :
  LET asked == InOrder(Selected(enriched))
  IN  /\ IF answer = None THEN ClaimStep("dnf", None, << >>, Selected(enriched))
         ELSE ClaimStep("dnf", answer, FlattenSeq([i \in DOMAIN asked |-> DnfClaims(asked[i], DnfAnswers[answer][asked[i]])]),
                        {r \in Selected(enriched) : DnfFails(DnfAnswers[answer][r])})
      /\ UNCHANGED enriched

SbomStep == \E doc \in DOMAIN DepSboms :
  LET sbom == DepSboms[doc]
  IN  /\ enriched' = AddEdges(AddNodes(enriched, {<<"sbom", doc>>}), {<<sbom.subject, <<"sbom", doc>>, "described_by">>})
      /\ ClaimStep("sbom", doc, SbomClaims(sbom.subject, sbom.components), {})

RequirementsStep == \E file \in DOMAIN Requirements :
  /\ ClaimStep("python", file, RequirementClaims(Requirements[file].subject, Requirements[file].lines), {})
  /\ UNCHANGED enriched

ImportsStep == \E file \in DOMAIN Imports :
  /\ ClaimStep("python_imports", file,
               ImportClaims(Imports[file].subject, Imports[file].modules, PackageOf), {})
  /\ UNCHANGED enriched

ErrataStep == \E file \in DOMAIN ErrataFiles :
  GraphStep("errata", file, AttachAdvisories(enriched, {<<ErrataFiles[file].subject, ErrataFiles[file].advisory>>}))

\* None where no source could be consulted.
ErrataSourceStep == \E source \in DOMAIN Advisories \cup {None} :
  GraphStep("errata_source", source,
            AttachErrataFromSource(enriched, IF source = None THEN None ELSE Advisories[source]))

VerifyCpeStep == \E dictionary \in DOMAIN Dictionaries \cup {None} :
  GraphStep("verify_cpe", dictionary,
            IF dictionary = None THEN enriched ELSE VerifyGraphCpe(enriched, Dictionaries[dictionary]))

Fetches == [WorkList(BaseGraph) -> {Tried(c) : c \in Candidates}]

\* All is fetched before anything is merged; a network error that is not "refused"
\* ends the step there.
HeadersStep == \E fetched \in Fetches :
  LET rpms == InOrder({r \in DOMAIN fetched : fetched[r] = "there"})
  IN  /\ IF \E r \in DOMAIN fetched : fetched[r] = "broken"
         THEN claims' = claims /\ RunStep("rpm_headers", fetched, {}, TRUE)
         ELSE ClaimStep("rpm_headers", fetched,
                        FlattenSeq([i \in DOMAIN rpms |-> HeaderClaims(rpms[i], HeaderOf[rpms[i]])]),
                        {r \in DOMAIN fetched : fetched[r] # "there"})
      /\ UNCHANGED enriched

\* Here all errors of the network are caught, of one candidate at a time; that a payload
\* does not decompress may be none of those that are caught (ReadingFails).
PayloadStep == \E fetched \in [WorkList(BaseGraph) -> {"there", "refused"}] :
  LET there == {r \in DOMAIN fetched : fetched[r] = "there"}
      rpms  == InOrder(there)
  IN  /\ enriched' = PayloadFacts(enriched, there, PayloadOf)
      /\ ClaimStep("rpm_payloads", fetched,
                   FlattenSeq([i \in DOMAIN rpms |-> PayloadClaims(rpms[i], PayloadOf[rpms[i]])]),
                   DOMAIN fetched \ there)

\* The index is a map's, or what dnf gave until it failed.
SonameStep == \E map \in DOMAIN ProvidesMaps :
  \E index \in {ProvidesMaps[map]} \cup {SonameIndex(claims, ProvidesMaps[map], n) : n \in {None} \cup 1 .. 2} :
    /\ LET bridged == Bridged(claims, index)
       IN  ClaimStep("soname", <<index, bridged>>, SonameClaims(bridged, index), {})
    /\ UNCHANGED enriched

\* The file is no CycloneDX SBOM, or lzma or zstd raises an error of its own: the step
\* raises before it has written anything, of an input that was never accepted.
ReadingFails == \E step \in {"build_sbom", "sbom", "rpm_payloads"} :
  /\ at <= Place(step) /\ at' = 1
  /\ count < MaxEvidence /\ count' = count + 1
  /\ last' = [step |-> step, input |-> None, failures |-> {}, raised |-> TRUE, again |-> FALSE]
  /\ UNCHANGED <<enriched, claims, verdicts, accepted>>

\* The end of the run.
Finish ==
  /\ at > 1 /\ DOMAIN verdicts = {}
  /\ verdicts' = Reconcile(claims)
  /\ at' = 1
  /\ last' = [step |-> "reconcile", input |-> None, failures |-> {}, raised |-> FALSE, again |-> FALSE]
  /\ UNCHANGED <<enriched, claims, count, accepted>>

----------------------------------------------------------------------------
(* Between runs *)

\* add_resolver_result and the reconciliation after it.
Resolve == \E r \in DOMAIN Resolved :
  LET added == AddAll(claims, ResolverClaims(Resolved[r].subject, Resolved[r].evidence,
                                             Resolved[r].ecosystem, Resolved[r].resolved))
  IN  /\ at = 1
      /\ claims' = added.claims
      /\ verdicts' = IF added.raised THEN verdicts ELSE Reconcile(claims')
      /\ Ended("resolve", r, {}, added.raised)
      /\ UNCHANGED <<enriched, at>>

\* attach_source_tree_imports
ScanImports == \E tree \in DOMAIN SourceTrees :
  LET added == AddAll(claims, SourceImportClaims(SourceTrees[tree].subject, SourceTrees[tree].languages))
  IN  /\ at = 1
      /\ claims' = added.claims
      /\ Ended("scan", tree, {}, added.raised)
      /\ UNCHANGED <<enriched, verdicts, at>>

EnrichmentNext ==
  \/ BuildSbomStep \/ RepographStep \/ DnfStep \/ SbomStep \/ RequirementsStep \/ ImportsStep
  \/ ErrataStep \/ ErrataSourceStep \/ VerifyCpeStep \/ HeadersStep \/ PayloadStep \/ SonameStep
  \/ ReadingFails \/ Finish \/ Resolve \/ ScanImports

EnrichmentSpec == EnrichmentInit /\ [][EnrichmentNext]_enrichmentVars

----------------------------------------------------------------------------
(* Properties *)

Given(step) == {a[2] : a \in {b \in accepted : b[1] = step}} \ {None}

CoveredAxes == {"linkage", "identity", "provenance", "security"}

\* An RPM's CPE was asserted of it by a build SBOM -- of its own version-release, if the
\* SBOM has that one -- or a dictionary knows one vendor for it; "verified" is what a
\* dictionary did, and an RPM is not called by another's CPE because of its name
\* (_sbom_cpe_identity, verify_security_identity).
IdentityIsEarned ==
  \A r \in Rpms(enriched) :
    LET node == enriched.nodes[r]
        cpe == node.identity.cpe
        Asserted == \E doc \in Given("build_sbom") : \E i \in DOMAIN BuildSboms[doc] :
                      LET c == BuildSboms[doc][i]
                      IN  /\ c.cpe = cpe /\ c.name = node.name /\ c.arch \in {node.arch, None}
                          /\ \/ c.vr = node.vr
                             \/ \A j \in DOMAIN BuildSboms[doc] :
                                  LET d == BuildSboms[doc][j]
                                  IN  <<d.name, d.arch, d.vr>> # <<node.name, node.arch, node.vr>>
        Known == \E d \in Given("verify_cpe") : VendorsFor(Dictionaries[d], cpe.product) = {cpe.vendor}
    IN  /\ cpe # None => Asserted \/ Known
        /\ node.identity.status = "verified" => cpe # None /\ Known
        /\ node.identity.status = "vendor_asserted" => cpe # None /\ Asserted

\* A CVE that may affect an RPM is dropped only when an advisory addresses it or a
\* dictionary replaces the CPE it was found by: never by new evidence alone (vuln.py).
NoCveVanishes ==
  [][\A r \in Rpms(enriched) :
       \A cve \in Assessment(enriched, r).potential \ Assessment(enriched', r).potential :
         \/ cve \in Assessment(enriched', r).addressed
         \/ enriched'.nodes[r].identity.status = "verified"]_enrichmentVars

Grows(old, new) == \A axis \in CoveredAxes : old[axis].covered \subseteq new[axis].covered

\* No step takes evidence away: what an axis of coverage.py counted stays counted, what
\* an artifact is stays as it was built, and no claim is lost, whatever raised.
EvidenceOnlyGrows ==
  [][/\ Grows(CoverageReport(enriched, claims, << >>), CoverageReport(enriched', claims', << >>))
     /\ Range(CompareArtifacts(enriched, enriched')) = {{}}
     /\ IsPrefix(claims, claims')]_enrichmentVars

Rows(onlyConflicts, onlyUnresolved) == DependencyRows(claims, verdicts, {}, onlyConflicts, onlyUnresolved)

\* The matrix, the queries and the findings with their drilldown list the same RPMs for
\* each check, the drilldown as many of them as fit.
ChecksAgree(missing, matrix, found) ==
  \A check \in TrustChecks :
    LET without == {r \in Rpms(enriched) : check \in matrix[r].missing}
        shown == DrillDownCheck(enriched, found, check)
    IN  /\ QueryMissingCheck(missing, check) = without
        /\ without # {} <=> check \in DOMAIN found.trust
        /\ without # {} => shown \subseteq without /\ (shown = without \/ Cardinality(shown) = DrillDownCap)
        /\ without \subseteq CoverageGaps(matrix)

\* The axes count the RPMs whose rows are complete.
AxesAgree(report, matrix, security) ==
  /\ \A r \in Rpms(enriched) :
       /\ matrix[r].provenance <=> r \in report.provenance.covered
       /\ matrix[r].security <=> r \in report.security.covered
       /\ matrix[r].errata = security[r].errata
       /\ Assessment(enriched, r).established <=> r \in report.identity.covered
  /\ UNION Range(IdentityStrength(enriched)) \subseteq report.identity.covered

\* After a reconciliation a dependency that is not resolved is a row the user can find.
DependenciesAgree(report, matrix, found) ==
  LET conflicts == Rows(TRUE, FALSE)
  IN  /\ DOMAIN verdicts # {} =>
           /\ report.resolution.covered \cap (found.conflicts \cup found.crossDistro) = {}
           /\ report.resolution.total \ report.resolution.covered
                \subseteq conflicts \cup Rows(FALSE, TRUE) \cup found.crossDistro
           /\ found.conflicts = conflicts
           /\ \A k \in conflicts : k[1] \in Rpms(enriched) =>
                {c \in TrustChecks : ~DrillDownSubject(enriched, k)[c]} = matrix[k[1]].missing \ {"tests"}
      /\ "first_finding" \in Recipes(enriched, found) <=> conflicts # {}
      /\ "coverage_gaps" \in Recipes(enriched, found) <=> "incomplete" \in Range(CoverageRows(report))

\* A comparison with the graph before it was enriched names an RPM whose row changed.
ComparisonAgrees(before, matrix) ==
  \A k \in CompareEvidence(BaseGraph, enriched, before, matrix) :
    \E r \in Rpms(enriched) : Key(enriched, r) = k /\ before[r] # matrix[r]

\* Another source's tree is never shown for an RPM whose own source has one.
TreesAreOwn ==
  \A r \in Rpms(enriched) :
    LET path == Range(SourceToArtifactPath(enriched, r))
        own == {s \in path : Kind(s) = "source"}
        trees == {t \in SourceEvidenceRows(enriched, r) \ path : Kind(t) = "tree"}
    IN  \A t \in trees : \/ Incoming(enriched, t, "described_by") \cap own # {}
                         \/ \A s \in own : \A d \in Outgoing(enriched, s, "described_by") : Kind(d) # "tree"

StoryOf(report, missing, matrix, found) ==
  /\ ChecksAgree(missing, matrix, found) /\ DependenciesAgree(report, matrix, found)
  /\ AxesAgree(report, matrix, SecurityRows(enriched)) /\ ComparisonAgrees(EvidenceMatrixRows(BaseGraph), matrix)

StoryOfReport(report, missing, matrix) ==
  StoryOf(report, missing, matrix, Findings(report, missing, verdicts))

\* The matrix, the queries, the findings with their drilldown, the axes, the recipes, the
\* security rows, the comparison and the source rows agree on what is missing of which
\* RPM and on which dependencies are in doubt.
ReportsTellOneStory ==
  /\ StoryOfReport(CoverageReport(enriched, claims, verdicts), [r \in Rpms(enriched) |-> Missing(enriched, r)],
                   EvidenceMatrixRows(enriched))
  /\ TreesAreOwn

\* A step that was once accepted is accepted whenever it is given the same again: no
\* claim of it differs from the one it left ("Conflicting node definition").
RepeatsAreSafe == last.again => ~last.raised

Claimed(subject, evidence, name) ==
  {i \in DOMAIN claims : /\ claims[i].subject = subject /\ claims[i].evidence = evidence
                         /\ claims[i].package[3] = name}

\* When a step has come to its end, every RPM it works on is among its failures or has
\* each of the claims its evidence speaks for: every constraint of a header, every soname,
\* every edge for every namesake, all that dnf answered, every SBOM component.
NothingIsLostQuietly ==
  ~last.raised =>
    CASE last.step = "rpm_headers" ->
           \A r \in WorkList(enriched) \ last.failures :
             /\ \A q \in Range(HeaderOf[r].requires) : \E i \in Claimed(r, "rpm_header_requires", q.name) :
                  claims[i].version = q.version /\ claims[i].requested = q.requested
             /\ \A s \in Range(HeaderOf[r].sonames) : Claimed(r, "rpm_header_soname", s) # {}
      [] last.step = "rpm_payloads" ->
           \A r \in WorkList(enriched) \ last.failures :
             /\ \A s \in Range(PayloadOf[r].needed) : Claimed(r, "elf_dt_needed", s) # {}
             /\ \A f \in PayloadOf[r].files : Identify(enriched, f) # None
      [] last.step = "dnf" ->
           \A r \in Selected(enriched) \ last.failures : \A i \in 1 .. 3 :
             \A p \in Range(DnfAnswers[last.input][r][DnfRelations[i]]) :
               \E k \in Claimed(r, DnfEvidence[i], p.name) : claims[k].version = p.version
      [] last.step = "repograph" ->
           \A e \in Range(Repographs[last.input]) : \A r \in Range(SelectedNodesOf(e.source)) :
             \E i \in Claimed(r, "repograph", e.name) : claims[i].version = e.version
      [] last.step = "sbom" ->
           LET components == Range(DepSboms[last.input].components)
           IN  /\ \A p \in components : \E i \in Claimed(DepSboms[last.input].subject, "sbom", p.name) :
                    claims[i].raw.of = p.ref
               /\ {p.ref : p \in {q \in components : q.licenses = {}}}
                    \subseteq {claims[i].raw.of : i \in LicenseReport(claims).unlicensed}
      [] OTHER -> TRUE
=============================================================================
