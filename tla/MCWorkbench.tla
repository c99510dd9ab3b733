---------------------------- MODULE MCWorkbench ----------------------------
EXTENDS Workbench, TLC

CONSTANTS b1, b2, s1, s2, s0, f1, f2, f0

BuildSet == {b1, b2}

\* A source and an SBOM of each build, and one of each whose name tells no build.
AllSources == {s1, s2, s0}
AllSboms == {f1, f2, f0}
NameTells ==
  [f \in Source \cup Sbom |->
     IF f \in {s1, f1} THEN b1 ELSE IF f \in {s2, f2} THEN b2 ELSE None]
Places ==
  [f \in Sbom |-> IF f = f1 THEN "beside" ELSE IF f = f2 THEN "examples" ELSE "elsewhere"]
OnDisk == Source \ {s2}

\* One SBOM is made while the window is open.
SbomsAtFirst == Sbom \ {f2}

\* A session that was saved with the SBOM of one build and the id of another, and with a
\* source file that has gone.
SavedSessions ==
  [s \in {"mixed"} |-> [source |-> s2, buildId |-> b2, sbom |-> f1, artifact |-> b2]]
=============================================================================
