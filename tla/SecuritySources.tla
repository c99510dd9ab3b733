--------------------------- MODULE SecuritySources ---------------------------
(***************************************************************************)
(* The steps that write what is known of the RPMs themselves into a graph: *)
(* the build SBOM (adapters/sbom.py), the errata (errata_source.py,        *)
(* errata.py), the CPE dictionary (security/cpe.py) and what the header    *)
(* and the payload leave on the node.                                      *)
(*                                                                         *)
(* A CPE is [vendor, product, version] and a candidate [product, version,  *)
(* verified]; None stands for "*" and for a missing field.  The PURL and   *)
(* hash a build SBOM leaves under names of their own are not followed.     *)
(***************************************************************************)
EXTENDS EvidenceReports

Selected(g) == {r \in Rpms(g) : g.nodes[r].arch \in DefaultArches}

\* The work list of the header and payload steps.
WorkList(g) == {r \in Selected(g) : ~g.nodes[r].debug}

\* add_node, of each of some nodes.
AddNodes(g, ids) ==
  [g EXCEPT !.nodes = [i \in DOMAIN @ \cup ids |-> IF i \in DOMAIN @ THEN @[i] ELSE [hash |-> None]]]
AddEdges(g, edges) == [g EXCEPT !.edges = @ \cup edges]
UpdateMetadata(g, updated) ==
  [g EXCEPT !.nodes = [id \in DOMAIN @ |-> IF id \in DOMAIN updated THEN updated[id] ELSE @[id]]]

----------------------------------------------------------------------------
(* The build SBOM *)

\* Mutant of ComponentFor: the first component of that name and arch.
ComponentFor_First(components, node) ==
  LET named == {i \in DOMAIN components : /\ components[i].name = node.name
                                          /\ components[i].arch \in {node.arch, None}}
  IN  IF named = {} THEN None ELSE components[CHOOSE i \in named : \A j \in named : i <= j]

\* The component of an RPM: the first with its version-release, or else the only one
\* of its name and arch -- whatever version that one has.
ComponentFor(components, node) ==
  LET named(arch) == {i \in DOMAIN components : components[i].name = node.name /\ components[i].arch = arch}
      exact == {i \in named(node.arch) : node.vr # None /\ components[i].vr = node.vr}
      loose == IF named(node.arch) # {} THEN named(node.arch) ELSE named(None)
  IN  IF exact # {} THEN components[CHOOSE i \in exact : \A j \in exact : i <= j]
      ELSE IF Cardinality(loose) = 1 THEN components[CHOOSE i \in loose : TRUE]
      ELSE None

\* Mutant of _sbom_cpe_identity: whatever CPE there is gives way.
SbomIdentity_Overwrites(identity, cpe) ==
  [identity EXCEPT !.cpe = cpe, !.status = "vendor_asserted",
                   !.candidates = Append(@, [product |-> None, version |-> None, verified |-> TRUE])]

\* _sbom_cpe_identity
SbomIdentity(identity, cpe) ==
  IF identity.cpe # None THEN identity
  ELSE [identity EXCEPT !.cpe = cpe, !.status = "vendor_asserted",
                        !.candidates = Append(@, [product |-> None, version |-> None, verified |-> TRUE])]

\* enrich_graph_with_build_sbom
EnrichWithBuildSbom(g, doc, components) ==
  LET of(rpm) == ComponentFor(components, g.nodes[rpm])
      matched == {r \in Rpms(g) : of(r) # None}
      described == AddEdges(AddNodes(g, {<<"sbom", doc>>}), {<<r, <<"sbom", doc>>, "described_by">> : r \in matched})
  IN  UpdateMetadata(described, [r \in {m \in matched : of(m).cpe # None} |->
                                   [g.nodes[r] EXCEPT !.identity = SbomIdentity(@, of(r).cpe)]])

----------------------------------------------------------------------------
(* The CPE dictionary: product |-> vendors *)

VendorsFor(dictionary, product) ==
  IF product \in DOMAIN dictionary THEN dictionary[product] ELSE {}

\* verify_security_identity: the first candidate whose product has one vendor.
VerifyIdentity(identity, dictionary) ==
  LET asked == {i \in DOMAIN identity.candidates : VendorsFor(dictionary, identity.candidates[i].product) # {}}
      ambiguous == {i \in asked : Cardinality(VendorsFor(dictionary, identity.candidates[i].product)) > 1}
      found == asked \ ambiguous
      i == CHOOSE k \in found : \A l \in found : k <= l
  IN  IF found = {} THEN [identity EXCEPT !.status = IF ambiguous = {} THEN @ ELSE "ambiguous_vendor"]
      ELSE [identity EXCEPT
              !.cpe = [vendor |-> CHOOSE v \in VendorsFor(dictionary, identity.candidates[i].product) : TRUE,
                       product |-> identity.candidates[i].product, version |-> identity.candidates[i].version],
              !.status = "verified", !.candidates[i].verified = TRUE]

\* verify_graph_cpe
VerifyGraphCpe(g, dictionary) ==
  LET verified(node) == [VerifyIdentity(node.identity, dictionary) EXCEPT !.backport = @ \/ node.elRelease]
  IN  UpdateMetadata(g, [r \in Selected(g) |-> [g.nodes[r] EXCEPT !.identity = verified(g.nodes[r])]])

----------------------------------------------------------------------------
(* Errata: advisories are [id, cves] *)

\* _attach_advisory, of some <<rpm, advisory>>; attach_errata_file has one for its subject.
AttachAdvisories(g, pairs) ==
  LET erratum(p) == <<"errata", p[2].id>>
      cvesOf(p)  == {<<"cve", c>> : c \in p[2].cves}
  IN  AddEdges(AddNodes(g, {erratum(p) : p \in pairs} \cup UNION {cvesOf(p) : p \in pairs}),
               {<<p[1], erratum(p), "fixes">> : p \in pairs}
                 \cup UNION {{<<erratum(p), c, "fixes">> : c \in cvesOf(p)} : p \in pairs})

\* The RPMs that a source knows advisories of, and these.
Reported(g, advisories) == {r \in Rpms(g) : advisories[r] # {}}
ReportedPairs(g, advisories) == UNION {{r} \X advisories[r] : r \in Rpms(g)}

\* Mutant of attach_errata_from_source: what was not asked now is not known any more.
AttachErrataFromSource_Forgets(g, advisories) ==
  IF advisories = None THEN UpdateMetadata(g, [r \in Rpms(g) |-> [g.nodes[r] EXCEPT !.clean = FALSE]])
  ELSE UpdateMetadata(AttachAdvisories(g, ReportedPairs(g, advisories)),
                      [r \in Rpms(g) \ Reported(g, advisories) |-> [g.nodes[r] EXCEPT !.clean = TRUE]])

\* attach_errata_from_source, of all archs: advisories[rpm] as the source has them, None
\* from one that was not consulted.
AttachErrataFromSource(g, advisories) ==
  IF advisories = None THEN g
  ELSE UpdateMetadata(AttachAdvisories(g, ReportedPairs(g, advisories)),
                      [r \in Rpms(g) \ Reported(g, advisories) |-> [g.nodes[r] EXCEPT !.clean = TRUE]])

\* What the payload step writes on the node of each RPM it read.
PayloadFacts(g, rpms, payloads) ==
  UpdateMetadata(g, [r \in rpms |-> [g.nodes[r] EXCEPT
    !.elf = [static |-> payloads[r].static, dlopen |-> payloads[r].dlopen], !.files = payloads[r].files]])
=============================================================================
