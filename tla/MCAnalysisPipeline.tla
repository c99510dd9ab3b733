------------------------- MODULE MCAnalysisPipeline -------------------------
EXTENDS AnalysisPipeline

Version(text, rank, distro) == [text |-> text, rank |-> rank, bare |-> rank, distro |-> distro]
Info(group, evidence, class, version) ==
  [ subject |-> "rpm", group |-> group, evidence |-> evidence, class |-> class,
    version |-> version, linkage |-> "unknown", purl |-> None, constraint |-> None,
    rangeSatisfied |-> TRUE, soname |-> FALSE ]

\* One dependency: two sources on one version (written "1.1" and "1.01"), a second
\* claim of one of them, a source that drifts and gives an epoch; and an observation nobody declared.
ClaimSet == {"c1", "c2", "c3", "c4", "c5"}
ClaimTable ==
  [c \in ClaimSet |->
     CASE c = "c1" -> [Info("zlib", "sbom", "resolved", Version("1.1", 11, "el9"))
                         EXCEPT !.linkage = "static", !.purl = "purl1"]
       [] c = "c2" -> Info("zlib", "header", "declared", Version("1.01", 11, "el9"))
       [] c = "c3" -> [Info("zlib", "dnf", "declared", [Version("1:1.2", 112, "el10") EXCEPT !.bare = 12])
                         EXCEPT !.constraint = [op |-> ">=", bound |-> 12], !.linkage = "dynamic"]
       [] c = "c4" -> [Info("zlib", "header", "declared", Version("1.1", 11, "el9"))
                         EXCEPT !.purl = "purl2"]
       [] c = "c5" -> Info("ssl", "elf", "artifact", None)]
ClaimsSorted == <<"c1", "c2", "c3", "c4", "c5">>
GroupSet == {"zlib", "ssl"}
Distros == [s \in {"rpm"} |-> "el9"]
Ids == ClaimSet \cup GroupSet \cup {"rpm"}
Types == {"rpm", "claim", "resolution"}
Relations == {"declares_dependency", "observed_as", "corroborates", "conflicts_with"}
=============================================================================
