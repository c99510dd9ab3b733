----------------------------- MODULE MCInspector -----------------------------
EXTENDS Inspector

A == <<"rpm", 1, 1>>
B == <<"rpm", 1, 2>>
Task == <<"task", 1>>
Commit(c) == <<"commit", 1, c>>
Cas == <<"cas", 1, 1>>
Errata == <<"errata", 1>>
Cve == <<"cve", 1>>
Claim == <<"claim", 1>>
DepSpec == <<"spec", 1>>

Plain == [hash |-> 1, clean |-> FALSE, signed |-> FALSE, subject |-> A]
GraphWith(ids, edges) == [nodes |-> [id \in ids |-> Plain], edges |-> edges]

\* A build with two RPMs, one of them with an advisory and a dependency claim; and the
\* same package when nothing has been built yet: a commit, no artifacts.
Graphs ==
  [ built |-> GraphWith({A, B, Task, Commit(1), Cas, Errata, Cve, Claim, DepSpec},
                { <<Commit(1), Cas, "authenticated_by">>, <<Cas, Task, "built_by">>,
                  <<Task, A, "produces">>, <<Task, B, "produces">>, <<A, Errata, "fixes">>,
                  <<Errata, Cve, "fixes">>, <<DepSpec, Claim, "observed_as">> }),
    bare  |-> GraphWith({Commit(1), Commit(2), Cas}, {<<Commit(1), Cas, "authenticated_by">>}) ]

Results == {"built", "bare"}
Files == [c \in {Commit(1), Commit(2)} |-> {c[3]}]
QueryableCommits == {Commit(1)}
Switched == {"cas", "security"}
=============================================================================
