-------------------------- MODULE MCUniverseStore --------------------------
EXTENDS UniverseStore, TLC

CONSTANTS p1, p2

TwoProcesses == {p1, p2}
Symmetry == Permutations(TwoProcesses)

Ids == {"pkg:zlib", "pkg:zlib-devel", "pkg:curl", "cap:zlib", "cap:libz.so.1"}
\* LIBZ is a part of no id, but LIKE has no case.
Needles == {"zlib", "libz", "curl", "LIBZ"}
Labels == [ id \in Ids |-> CASE id \in {"pkg:zlib", "cap:zlib"} -> "zlib"
                             [] id = "pkg:zlib-devel" -> "zlib-devel"
                             [] id = "pkg:curl" -> "curl"
                             [] id = "cap:libz.so.1" -> "libz.so.1" ]
PartOf == [ n \in Needles |-> CASE n = "zlib" -> {"pkg:zlib", "pkg:zlib-devel", "cap:zlib"}
                                [] n = "libz" -> {"cap:libz.so.1"}
                                [] n = "curl" -> {"pkg:curl"}
                                [] n = "LIBZ" -> {} ]
LikeFinds == [ n \in Needles |-> CASE n = "zlib" -> {"cap:zlib"}
                                   [] n \in {"libz", "LIBZ"} -> {"cap:libz.so.1"}
                                   [] n = "curl" -> {} ]
Named == [ n \in Needles |-> CASE n = "zlib" -> {"pkg:zlib"} [] n = "curl" -> {"pkg:curl"} [] OTHER -> {} ]

Token(id, v, arch) == [id |-> id, version |-> v, arch |-> arch]
Curl == Token("pkg:curl", "8", "x86_64")
Zlib == Token("pkg:zlib", "1.2", "x86_64")
Zlib32 == Token("pkg:zlib", "1.1", "i686")
Devel == Token("pkg:zlib-devel", "1.2", "noarch")

\* A cycle of packages; a chain of one arch, with a self-requirement in it.
Cycle == FromDot(<< <<Curl, Zlib>>, <<Zlib, Devel>>, <<Devel, Curl>> >>, "any")
Chain == FromDot(<< <<Zlib32, Curl>>, <<Zlib, Zlib32>>, <<Curl, Devel>>, <<Devel, Zlib>> >>, "x86_64")

\* Claims of an enriched build: a soname resolved to its provider, and needed as such.
Rpms == << [rpm |-> "r1", id |-> "pkg:curl", arch |-> "x86_64"] >>
Claims == << [subject |-> "r1", cap |-> "cap:zlib", linkage |-> "dynamic",
              evidence |-> "soname_provider", soname |-> "cap:libz.so.1"],
             [subject |-> "r1", cap |-> "cap:libz.so.1", linkage |-> "dynamic",
              evidence |-> "elf_needed", soname |-> ""],
             [subject |-> "r2", cap |-> "cap:libz.so.1", linkage |-> "static",
              evidence |-> "elf_needed", soname |-> ""] >>
Claimed == FromClaims(Rpms, Claims)

\* The two builds of test_store.py, which list where an edge was seen.
Build(b) ==
  [ nodes |-> [id \in {"pkg:curl", "pkg:zlib"} |-> [k \in {"builds"} |-> List({b})]],
    edges |-> [e \in {<<"pkg:curl", "pkg:zlib", "requires_runtime">>} |->
                 [k \in {"builds"} |-> List({b})]] ]

UniverseSet ==
  {Cycle, Chain, MergeGraphs(<<Claimed, Cycle>>), Build("build-1"), Build("build-2"), Empty}
Releases == {0, 2, 3}
=============================================================================
