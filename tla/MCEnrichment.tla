---------------------------- MODULE MCEnrichment ----------------------------
EXTENDS Enrichment

\* Names: packages 1 (foo), 2 (bar) and 5 (ssl); sonames 11 and 12; modules 21, 22.
MCSonames == {11, 12}
Version(text, rank, distro) == [text |-> text, rank |-> rank, bare |-> rank, distro |-> distro]
V1 == Version("1-1.el9", 1, "el9")
V2 == Version("2-1.el10", 2, "el10")

\* One source, two builds of foo for x86_64 and one bar for aarch64: the first foo has
\* all its provenance, the second neither a signature nor a CAS entry; the source has a
\* tree with a manifest, and there is a tree of a source nothing is built from.
R(n) == <<"rpm", n>>
Foo1 == R(1)
Foo2 == R(2)
Bar == R(3)
Unresolved(product, vr) ==
  [cpe |-> None, status |-> "candidate_only", backport |-> FALSE,
   candidates |-> <<[product |-> product, version |-> vr, verified |-> FALSE]>>]
RpmNode(name, arch, vr, product) ==
  [ name |-> name, arch |-> arch, vr |-> vr, purl |-> <<name, arch, vr>>, source |-> 1,
    hash |-> None, signed |-> FALSE, clean |-> FALSE, debug |-> FALSE, elRelease |-> vr = 1,
    elf |-> None, files |-> None, identity |-> Unresolved(product, vr) ]
Src == SourceId(1)
Task == <<"task", 1>>
Cas == SourceCasId(1, 1)
Signature == <<"signature", 1>>
Release == <<"release", 1>>
Plain == {Src, SourceId(2), RepoId(1), CommitId(1, 1), Task, Signature, Release,
          <<"tree", 1>>, <<"tree", 2>>, <<"manifest", 1>>, <<"dependency", 1>>, <<"test", 1>>}
MCBaseGraph ==
  [ nodes |-> [id \in Plain \cup {Cas, ArtifactCasId(1)} \cup {Foo1, Foo2, Bar} |->
                 CASE id = Foo1 -> [RpmNode(1, "x86_64", 1, "foo") EXCEPT !.hash = 1, !.signed = TRUE]
                   [] id = Foo2 -> RpmNode(1, "x86_64", 2, "foo")
                   [] id = Bar  -> RpmNode(2, "aarch64", 1, "bar")
                   [] id \in {Cas, ArtifactCasId(1)} -> [hash |-> 1]
                   [] OTHER -> [hash |-> None]],
    edges |-> {<<Src, RepoId(1), "stored_in">>, <<RepoId(1), CommitId(1, 1), "points_to">>,
               <<CommitId(1, 1), Cas, "authenticated_by">>, <<Cas, Task, "built_by">>,
               <<Task, Foo1, "produces">>, <<Task, Foo2, "produces">>, <<Task, Bar, "produces">>,
               <<Foo1, Signature, "signed_as">>, <<Foo1, Release, "released_to">>,
               <<Foo2, Release, "released_to">>,
               <<Foo1, ArtifactCasId(1), "authenticated_by">>, <<Foo1, <<"test", 1>>, "tested_by">>,
               <<Src, <<"tree", 1>>, "described_by">>, <<SourceId(2), <<"tree", 2>>, "described_by">>,
               <<<<"tree", 1>>, <<"manifest", 1>>, "contains">>,
               <<<<"manifest", 1>>, <<"dependency", 1>>, "declares_dependency">>} ]

\* Build SBOMs: of both builds of foo, of another build of it only, one without versions.
Component(name, arch, vr, cpe) == [name |-> name, arch |-> arch, vr |-> vr, cpe |-> cpe]
Cpe(vendor, product, version) == [vendor |-> vendor, product |-> product, version |-> version]
MCBuildSboms ==
  [ both  |-> <<Component(1, "x86_64", 1, Cpe("alma", "foo", 1)),
                Component(1, "x86_64", 2, Cpe("alma", "foo", 2))>>,
    other |-> <<Component(1, "x86_64", 2, Cpe("alma", "foo", 2)), Component(2, None, None, None)>>,
    loose |-> <<Component(1, None, None, Cpe("alma", "foo", None)),
                Component(2, "aarch64", 1, Cpe("alma", "bar", 1))>> ]
MCDictionaries ==
  [ unique    |-> [foo |-> {"gnu"}, bar |-> {"gnu"}],
    ambiguous |-> [foo |-> {"acme", "gnu"}, bar |-> {"gnu"}] ]
Affected(vendor, product, introduced, fixed) ==
  [vendor |-> vendor, product |-> product, introduced |-> introduced, fixed |-> fixed]
MCCveFeed ==
  [c \in 1 .. 2 |-> IF c = 1 THEN {Affected("*", "foo", None, 2)} ELSE {Affected("alma", "foo", 1, None)}]
MCAdvisories ==
  [ dnf  |-> [r \in {Foo1, Foo2, Bar} |-> IF r = Foo2 THEN {[id |-> 1, cves |-> {2}]} ELSE {}],
    http |-> [r \in {Foo1, Foo2, Bar} |-> IF r = Bar THEN {} ELSE {[id |-> 1, cves |-> {1}], [id |-> 2, cves |-> {}]}] ]
MCErrataFiles == [file |-> [subject |-> Foo1, advisory |-> [id |-> 3, cves |-> {1, 2}]]]

\* The edges of foo are for both its builds; what dnf, the header and the SBOM say of ssl
\* agrees or not.
Package(name, version) == [name |-> name, version |-> version]
MCRepographs == [dot |-> <<[source |-> 1, name |-> 5, version |-> V1], [source |-> 1, name |-> 2, version |-> None],
                           [source |-> 2, name |-> 5, version |-> V1]>>]
DnfAnswer(requires, suggests) ==
  [requires |-> requires, recommends |-> << >>, suggests |-> suggests]
MCDnfAnswers ==
  [ all  |-> [r \in {Foo1, Foo2, Bar} |-> DnfAnswer(<<Package(5, V1), Package(5, V1)>>, <<Package(2, V2)>>)],
    some |-> [r \in {Foo1, Foo2, Bar} |-> DnfAnswer(<<Package(5, V2)>>, IF r = Foo1 THEN None ELSE << >>)] ]
SbomPart(ref, version) ==
  [name |-> 5, version |-> version, purl |-> IF version = None THEN None ELSE <<"ssl", version.text>>,
   scope |-> "runtime", ref |-> ref, licenses |-> IF ref = 1 THEN {"MIT"} ELSE {}]
MCDepSboms ==
  [ plain |-> [subject |-> Foo1, components |-> <<SbomPart(1, V1), SbomPart(2, None)>>],
    twice |-> [subject |-> Foo1, components |-> <<SbomPart(1, V1), SbomPart(2, V1)>>] ]
Line(n, name, version) ==
  [name |-> name, version |-> version, extras |-> {}, requested |-> None, line |-> n]
MCRequirements ==
  [ one |-> [subject |-> Src, lines |-> <<Line(1, 21, V1), Line(2, 22, None)>>],
    two |-> [subject |-> Src, lines |-> <<Line(1, 21, V1), Line(2, 21, V1)>>] ]
MCImports == [file |-> [subject |-> Src, modules |-> <<21, 22>>]]
MCPackageOf == [m \in 21 .. 22 |-> m]

\* foo needs ssl in a range, of two bounds for its second build, and the two sonames.
Requires(version, op, bound) == [name |-> 5, version |-> version, requested |-> [op |-> op, bound |-> bound]]
MCHeaderOf ==
  [r \in {Foo1, Foo2, Bar} |->
     CASE r = Foo1 -> [sonames |-> <<12, 11>>, requires |-> <<Requires(None, ">=", 1), Requires(V1, "<", 3)>>]
       [] r = Foo2 -> [sonames |-> <<11>>, requires |-> <<Requires(None, ">=", 1)>>]
       [] OTHER    -> [sonames |-> << >>, requires |-> << >>]]
MCPayloadOf ==
  [r \in {Foo1, Foo2, Bar} |->
     [ needed |-> IF r = Foo1 THEN <<11>> ELSE <<12>>,
       goModules |-> IF r = Foo2 THEN <<Package(22, V1)>> ELSE << >>,
       static |-> IF r = Foo2 THEN {31} ELSE {}, dlopen |-> IF r = Foo1 THEN {32} ELSE {},
       files |-> {31, 32} ]]
MCCandidates == {<<"refused", "there">>, <<"refused", "refused">>, <<"broken", "there">>}
MCProvidesMaps == [map |-> [s \in {11, 12} |-> Package(5, V1)]]
MCResolved == [tool |-> [subject |-> Src, evidence |-> "resolver:pip", ecosystem |-> "pypi",
                         resolved |-> <<Package(21, V2), Package(22, V1)>>]]
MCSourceTrees == [tree |-> [subject |-> Src, languages |->
                    <<[evidence |-> "python_import", ecosystem |-> "pypi", modules |-> <<21>>],
                      [evidence |-> "go_import", ecosystem |-> "go", modules |-> <<22>>]>>]]
MCArches == {None, "x86_64", "noarch"}
=============================================================================
