-------------------------- MODULE BuildGraph_proofs --------------------------
(***************************************************************************)
(* Theorems about the graph of a build and its enrichment: where an        *)
(* artifact comes from is what its own task says, marks of verification    *)
(* and CPEs are earned, and no step of the enrichment loses what its       *)
(* evidence says or takes away what was there.                             *)
(***************************************************************************)
EXTENDS BuildGraph, Enrichment, FiniteSetTheorems, WellFoundedInduction, TLAPS

----------------------------------------------------------------------------
(* The first of some ids, and the path through a graph *)

\* A set of numbers has a least one: among the sets 0 .. m of its members m one has no
\* other within it.
LEMMA Least ==
  ASSUME NEW S \in SUBSET Nat, S # {}
  PROVE  \E m \in S : \A n \in S : m <= n
<1> DEFINE Below  == {0 .. m : m \in S}
           Within == StrictSubsetOrdering(Nat)
<1>1. IsWellFoundedOn(Within, FiniteSubsetsOf(Nat))
  BY FS_StrictSubsetOrderingWellFounded
<1>2. Below \subseteq FiniteSubsetsOf(Nat) /\ Below # {}
  <2>1. \A m \in S : IsFiniteSet(0 .. m) /\ 0 .. m \subseteq Nat
    BY FS_Interval
  <2> QED
    BY <2>1 DEF FiniteSubsetsOf
<1>3. PICK x \in Below : \A y \in Below : <<y, x>> \notin Within
  <2> HIDE DEF Below, Within
  <2> QED
    BY <1>1, <1>2, WFMin, Zenon
<1>4. PICK m \in S : x = 0 .. m
  OBVIOUS
<1>5. \A n \in S : m <= n
  <2> SUFFICES ASSUME NEW n \in S, n < m
               PROVE  FALSE
    OBVIOUS
  <2>1. 0 .. n \subseteq 0 .. m /\ 0 .. n # 0 .. m
    <3>1. m \in 0 .. m /\ m \notin 0 .. n
      OBVIOUS
    <3> QED
      BY <3>1
  <2>2. <<0 .. n, 0 .. m>> \in Within
    BY <2>1 DEF StrictSubsetOrdering
  <2> QED
    BY <1>3, <1>4, <2>2
<1> QED
  BY <1>5

\* What _sorted_edges puts first.
IsFirst(a, ids) ==
  /\ a \in ids
  /\ \A b \in ids \ {a} : \E i \in 2 .. Len(a) : a[i] < b[i] /\ \A j \in 2 .. i - 1 : a[j] = b[j]

\* _sorted_edges takes the only one there is.
LEMMA FirstOfOne ==
  ASSUME NEW id
  PROVE  FirstId({id}) = id
  BY DEF FirstId

\* _sorted_edges takes one of those there are, of ids that end in a number ...
LEMMA FirstOfPairs ==
  ASSUME NEW kind, NEW ids, ids # {},
         \A id \in ids : \E n \in Nat : id = <<kind, n>>
  PROVE  FirstId(ids) \in ids /\ IsFirst(FirstId(ids), ids)
<1> DEFINE S == {n \in Nat : <<kind, n>> \in ids}
<1>1. S \in SUBSET Nat /\ S # {}
  OBVIOUS
<1>2. PICK m \in S : \A n \in S : m <= n
  <2> HIDE DEF S
  <2> QED
    BY <1>1, Least
<1>3. \A id \in ids \ {<<kind, m>>} : \E i \in 2 .. 2 : <<kind, m>>[i] < id[i] /\ \A j \in 2 .. i - 1 : <<kind, m>>[j] = id[j]
  <2> TAKE id \in ids \ {<<kind, m>>}
  <2>1. PICK n \in Nat : id = <<kind, n>>
    OBVIOUS
  <2>2. n \in S /\ m <= n /\ n # m /\ m \in Nat
    BY <1>2, <2>1
  <2>3. <<kind, m>>[2] < id[2]
    BY <2>1, <2>2
  <2>4. 2 \in 2 .. 2 /\ 2 .. 2 - 1 = {}
    OBVIOUS
  <2> WITNESS 2 \in 2 .. 2
  <2> QED
    BY <2>3, <2>4
<1>4. \E a \in ids : \A b \in ids \ {a} :
        \E i \in 2 .. Len(a) : a[i] < b[i] /\ \A j \in 2 .. i - 1 : a[j] = b[j]
  <2>1. <<kind, m>> \in ids /\ Len(<<kind, m>>) = 2
    OBVIOUS
  <2> QED
    BY <1>3, <2>1
<1> QED
  BY <1>4 DEF FirstId, IsFirst

\* ... and of commits of one package.
LEMMA FirstOfTriples ==
  ASSUME NEW kind, NEW p, NEW ids, ids # {},
         \A id \in ids : \E n \in Nat : id = <<kind, p, n>>
  PROVE  FirstId(ids) \in ids /\ IsFirst(FirstId(ids), ids)
<1> DEFINE S == {n \in Nat : <<kind, p, n>> \in ids}
<1>1. S \in SUBSET Nat /\ S # {}
  OBVIOUS
<1>2. PICK m \in S : \A n \in S : m <= n
  <2> HIDE DEF S
  <2> QED
    BY <1>1, Least
<1> DEFINE first == <<kind, p, m>>
<1>3. \A id \in ids \ {first} : \E i \in 2 .. 3 : first[i] < id[i] /\ \A j \in 2 .. i - 1 : first[j] = id[j]
  <2> TAKE id \in ids \ {first}
  <2>1. PICK n \in Nat : id = <<kind, p, n>>
    OBVIOUS
  <2>2. n \in S /\ m <= n /\ n # m /\ m \in Nat
    BY <1>2, <2>1
  <2>3. first[3] < id[3] /\ first[2] = id[2]
    BY <2>1, <2>2
  <2>4. 3 \in 2 .. 3 /\ 2 .. 3 - 1 = {2}
    OBVIOUS
  <2> WITNESS 3 \in 2 .. 3
  <2> QED
    BY <2>3, <2>4
<1>4. \E a \in ids : \A b \in ids \ {a} :
        \E i \in 2 .. Len(a) : a[i] < b[i] /\ \A j \in 2 .. i - 1 : a[j] = b[j]
  <2>1. first \in ids /\ Len(first) = 3
    OBVIOUS
  <2> QED
    BY <1>3, <2>1
<1> QED
  BY <1>4 DEF FirstId, IsFirst

\* source_to_artifact_path is the artifact, extended five times.
LEMMA PathUnfolds ==
  ASSUME NEW g, NEW a
  PROVE  SourceToArtifactPath(g, a) =
           WithAbove(g, WithAbove(g, WithAbove(g, WithAbove(g, WithAbove(g, <<a>>, 1), 2), 3), 4), 5)
  BY DEF SourceToArtifactPath

\* What is put before a path.
LEMMA PutBefore ==
  ASSUME NEW U, NEW x \in U, NEW path \in Seq(U)
  PROVE  <<x>> \o path = [i \in 1 .. Len(path) + 1 |-> IF i = 1 THEN x ELSE path[i - 1]]
  OBVIOUS

\* Where every link is there, the path has six nodes.
LEMMA WholePath ==
  ASSUME NEW g, NEW a, NEW task, NEW cas, NEW commit, NEW repo, NEW source,
         Incoming(g, a, "produces") # {},            FirstId(Incoming(g, a, "produces")) = task,
         Incoming(g, task, "built_by") # {},         Preferred(g, Incoming(g, task, "built_by")) = cas,
         Incoming(g, cas, "authenticated_by") # {},  FirstId(Incoming(g, cas, "authenticated_by")) = commit,
         Incoming(g, commit, "points_to") # {},      FirstId(Incoming(g, commit, "points_to")) = repo,
         Incoming(g, repo, "stored_in") # {},        FirstId(Incoming(g, repo, "stored_in")) = source
  PROVE  SourceToArtifactPath(g, a) = <<source, repo, commit, cas, task, a>>
<1> DEFINE U == {a, task, cas, commit, repo, source}
<1>1. WithAbove(g, <<a>>, 1) = <<task, a>>
  <2>1. PICK path : path = <<a>>
    OBVIOUS
  <2>2. WithAbove(g, path, 1) = <<task>> \o path
    BY <2>1 DEF WithAbove, Upwards
  <2>3. task \in U /\ path \in Seq(U)
    BY <2>1
  <2>4. <<task>> \o path = [i \in 1 .. Len(path) + 1 |-> IF i = 1 THEN task ELSE path[i - 1]]
    <3> HIDE DEF U
    <3> QED
      BY <2>3, PutBefore
  <2>5. [i \in 1 .. Len(path) + 1 |-> IF i = 1 THEN task ELSE path[i - 1]] = <<task, a>>
    BY <2>1
  <2> QED
    BY <2>1, <2>2, <2>4, <2>5
<1>2. WithAbove(g, <<task, a>>, 2) = <<cas, task, a>>
  <2>1. PICK path : path = <<task, a>>
    OBVIOUS
  <2>2. WithAbove(g, path, 2) = <<cas>> \o path
    BY <2>1 DEF WithAbove, Upwards
  <2>3. cas \in U /\ path \in Seq(U)
    BY <2>1
  <2>4. <<cas>> \o path = [i \in 1 .. Len(path) + 1 |-> IF i = 1 THEN cas ELSE path[i - 1]]
    <3> HIDE DEF U
    <3> QED
      BY <2>3, PutBefore
  <2>5. [i \in 1 .. Len(path) + 1 |-> IF i = 1 THEN cas ELSE path[i - 1]] = <<cas, task, a>>
    BY <2>1
  <2> QED
    BY <2>1, <2>2, <2>4, <2>5
<1>3. WithAbove(g, <<cas, task, a>>, 3) = <<commit, cas, task, a>>
  <2>1. PICK path : path = <<cas, task, a>>
    OBVIOUS
  <2>2. WithAbove(g, path, 3) = <<commit>> \o path
    BY <2>1 DEF WithAbove, Upwards
  <2>3. commit \in U /\ path \in Seq(U)
    BY <2>1
  <2>4. <<commit>> \o path = [i \in 1 .. Len(path) + 1 |-> IF i = 1 THEN commit ELSE path[i - 1]]
    <3> HIDE DEF U
    <3> QED
      BY <2>3, PutBefore
  <2>5. [i \in 1 .. Len(path) + 1 |-> IF i = 1 THEN commit ELSE path[i - 1]] = <<commit, cas, task, a>>
    BY <2>1
  <2> QED
    BY <2>1, <2>2, <2>4, <2>5
<1>4. WithAbove(g, <<commit, cas, task, a>>, 4) = <<repo, commit, cas, task, a>>
  <2>1. PICK path : path = <<commit, cas, task, a>>
    OBVIOUS
  <2>2. WithAbove(g, path, 4) = <<repo>> \o path
    BY <2>1 DEF WithAbove, Upwards
  <2>3. repo \in U /\ path \in Seq(U)
    BY <2>1
  <2>4. <<repo>> \o path = [i \in 1 .. Len(path) + 1 |-> IF i = 1 THEN repo ELSE path[i - 1]]
    <3> HIDE DEF U
    <3> QED
      BY <2>3, PutBefore
  <2>5. [i \in 1 .. Len(path) + 1 |-> IF i = 1 THEN repo ELSE path[i - 1]] = <<repo, commit, cas, task, a>>
    BY <2>1
  <2> QED
    BY <2>1, <2>2, <2>4, <2>5
<1>5. WithAbove(g, <<repo, commit, cas, task, a>>, 5) = <<source, repo, commit, cas, task, a>>
  <2>1. PICK path : path = <<repo, commit, cas, task, a>>
    OBVIOUS
  <2>2. WithAbove(g, path, 5) = <<source>> \o path
    BY <2>1 DEF WithAbove, Upwards
  <2>3. source \in U /\ path \in Seq(U)
    BY <2>1
  <2>4. <<source>> \o path = [i \in 1 .. Len(path) + 1 |-> IF i = 1 THEN source ELSE path[i - 1]]
    <3> HIDE DEF U
    <3> QED
      BY <2>3, PutBefore
  <2>5. [i \in 1 .. Len(path) + 1 |-> IF i = 1 THEN source ELSE path[i - 1]] = <<source, repo, commit, cas, task, a>>
    BY <2>1
  <2> QED
    BY <2>1, <2>2, <2>4, <2>5
<1> QED
  BY <1>1, <1>2, <1>3, <1>4, <1>5, PathUnfolds

----------------------------------------------------------------------------
(* The inductive invariant *)

\* The document is one of the instance and names a package; what was parsed is of it.
DocumentInv ==
  doc \in Documents /\ build = ParseBuild(doc.tasks) /\ build.package # None

\* The sources whose chains have been added so far.
Sources == {s \in {build} : next # 0} \cup {TaskRef(u) : u \in 1 .. next - 1}

\* The links of the graph, up from an artifact, are those of the chains of its sources
\* and of the tasks that were added, and all of these are there.
LinksInv ==
  /\ \A s \in Sources :
       /\ <<SourceId(s.package), RepoId(s.repo), "stored_in">> \in graph.edges
       /\ <<RepoId(s.repo), CommitId(s.package, s.commit), "points_to">> \in graph.edges
       /\ <<CommitId(s.package, s.commit), Chain(s).cas, "authenticated_by">> \in graph.edges
  /\ \A u \in 1 .. next - 1 : <<Chain(TaskRef(u)).cas, TaskId(u), "built_by">> \in graph.edges
  /\ \A e \in graph.edges :
       /\ e[3] = "stored_in" =>
            \E s \in Sources : e = <<SourceId(s.package), RepoId(s.repo), "stored_in">>
       /\ e[3] = "points_to" =>
            \E s \in Sources : e = <<RepoId(s.repo), CommitId(s.package, s.commit), "points_to">>
       /\ e[3] = "authenticated_by" /\ Kind(e[2]) = "cas" =>
            \E s \in Sources : e = <<CommitId(s.package, s.commit), Chain(s).cas, "authenticated_by">>
       /\ e[3] = "built_by" =>
            \/ e[2] = BuildId
            \/ \E u \in 1 .. next - 1 : e = <<Chain(TaskRef(u)).cas, TaskId(u), "built_by">>
       /\ e[3] = "produces" => e[1] = TaskId(e[2][2])

\* Every artifact is of a task that was added, and has what the document says of it.
ArtifactsInv ==
  \A a \in Artifacts(graph) :
    /\ a[2] \in 1 .. next - 1
    /\ <<TaskId(a[2]), a, "produces">> \in graph.edges
    /\ Kind(a) = "rpm" => graph.nodes[a].hash = doc.tasks[a[2]].rpms[a[3]]

\* Only what is an RPM has a verdict, and each node has the fields that verdicts go to.
FieldsInv ==
  /\ DOMAIN graph = {"nodes", "edges"}
  /\ DOMAIN lastVerdict \subseteq Rpms(graph)
  /\ \A id \in DOMAIN graph.nodes :
       /\ Kind(id) = "rpm" => DOMAIN graph.nodes[id] = {"hash", "signed", "clean"}
       /\ Kind(id) = "signature" => DOMAIN graph.nodes[id] = {"verified"}
       /\ IsCas(id) => DOMAIN graph.nodes[id] = {"hash", "verified"}

\* What the loop over the tasks finds: the nodes of the build itself.
HeadInv ==
  next # 0 => {BuildId} \cup {<<"signature", s>> : s \in doc.signTasks}
                \cup (IF doc.released THEN {ReleaseId} ELSE {}) \subseteq DOMAIN graph.nodes

BuildInv ==
  TypeOK /\ DocumentInv /\ HeadInv /\ LinksInv /\ ArtifactsInv /\ FieldsInv /\ MarksAreEarned

----------------------------------------------------------------------------
(* What the document says *)

\* A source as its readers find it: everything but the hash is always there.
Attributed(s) ==
  /\ s.package \in DOMAIN DefaultRepo /\ s.repo \in DOMAIN RepoName
  /\ s.commit \in Nat /\ s.cas \in Nat \cup {None}

\* parse_build_metadata takes the SRPM of some task, if there is one.
LEMMA FirstSrpmType ==
  ASSUME NEW d \in Documents
  PROVE  FirstSrpm(d.tasks) \in DOMAIN DefaultRepo \cup {None}
<1> DEFINE with == {t \in DOMAIN d.tasks : d.tasks[t].srpm # None}
<1>1. d.tasks \in Seq(Range(d.tasks))
  BY DocumentsAssumption
<1>2. DOMAIN d.tasks = 1 .. Len(d.tasks)
  <2> HIDE DEF with
  <2> QED
    BY <1>1
<1>3. \A t \in DOMAIN d.tasks : d.tasks[t].srpm \in DOMAIN DefaultRepo \cup {None}
  BY DocumentsAssumption
<1>4. CASE with = {}
  BY <1>4 DEF FirstSrpm
<1>5. CASE with # {}
  <2>1. with \in SUBSET Nat
    BY <1>2
  <2>2. \E t \in with : \A u \in with : t <= u
    <3> HIDE DEF with
    <3> QED
      BY <1>5, <2>1, Least
  <2>3. (CHOOSE t \in with : \A u \in with : t <= u) \in with
    <3> HIDE DEF with
    <3> QED
      BY <2>2
  <2>4. FirstSrpm(d.tasks) = d.tasks[CHOOSE t \in with : \A u \in with : t <= u].srpm
    BY <1>5 DEF FirstSrpm
  <2> HIDE DEF with
  <2>5. with \subseteq DOMAIN d.tasks
    BY DEF with
  <2> QED
    BY <1>3, <2>3, <2>4, <2>5
<1> QED
  BY <1>4, <1>5

\* A build that names a package names a repository of it and a commit.
LEMMA BuildIsAttributed ==
  ASSUME NEW d \in Documents, ParseBuild(d.tasks).package # None
  PROVE  Attributed(ParseBuild(d.tasks))
<1> DEFINE first == d.tasks[1]
           named == IF first.repo = None THEN None ELSE RepoName[first.repo]
           b == ParseBuild(d.tasks)
<1>1. d.tasks \in Seq(Range(d.tasks)) /\ d.tasks # << >>
  BY DocumentsAssumption
<1>2. 1 \in DOMAIN d.tasks
  BY <1>1
<1>3. /\ first.ref \in DOMAIN DefaultRepo \cup {None} /\ first.repo \in DOMAIN RepoName \cup {None}
      /\ first.commit \in Nat \cup {None} /\ first.cas \in Nat \cup {None}
  BY <1>2, DocumentsAssumption
<1>4. PICK srpm \in DOMAIN DefaultRepo \cup {None} : srpm = FirstSrpm(d.tasks)
  BY FirstSrpmType
<1>5. /\ b.package = Or(srpm, Or(first.ref, named))
      /\ b.repo = IF first.repo # None THEN first.repo
                  ELSE IF b.package = None THEN None ELSE DefaultRepo[b.package]
      /\ b.commit = Or(first.commit, Unknown) /\ b.cas = first.cas
  BY <1>4 DEF ParseBuild
<1> HIDE DEF b, first
<1>6. named \in DOMAIN DefaultRepo \cup {None}
  BY <1>3, NamesAssumption
<1>7. b.package \in DOMAIN DefaultRepo \cup {None}
  <2> HIDE DEF named
  <2> QED
    BY <1>3, <1>5, <1>6 DEF Or
<1>8. b.package \in DOMAIN DefaultRepo
  BY <1>7 DEF b
<1>9. b.repo \in DOMAIN RepoName
  <2>1. b.package # None
    BY DEF b
  <2>2. DefaultRepo[b.package] \in DOMAIN RepoName
    BY <1>8, NamesAssumption
  <2> QED
    BY <1>3, <1>5, <2>1, <2>2
<1>10. b.commit \in Nat /\ b.cas \in Nat \cup {None}
  BY <1>3, <1>5, NamesAssumption DEF Or
<1> QED
  BY <1>8, <1>9, <1>10 DEF Attributed, b

\* What build_task_refs says of a task is complete.
LEMMA TasksAreAttributed ==
  ASSUME DocumentInv, NEW t \in Tasks
  PROVE  Attributed(build) /\ Attributed(TaskRef(t))
<1> DEFINE task == doc.tasks[t]
<1>1. doc \in Documents /\ build = ParseBuild(doc.tasks) /\ build.package # None
  BY DEF DocumentInv
<1>2. Attributed(build)
  BY <1>1, BuildIsAttributed
<1>3. t \in DOMAIN doc.tasks
  <2>1. doc.tasks \in Seq(Range(doc.tasks))
    BY <1>1, DocumentsAssumption
  <2> QED
    BY <2>1 DEF Tasks
<1>4. /\ task.srpm \in DOMAIN DefaultRepo \cup {None} /\ task.ref \in DOMAIN DefaultRepo \cup {None}
      /\ task.repo \in DOMAIN RepoName \cup {None}
      /\ task.commit \in Nat \cup {None} /\ task.cas \in Nat \cup {None}
  BY <1>1, <1>3, DocumentsAssumption
<1> DEFINE s == TaskRef(t)
<1>5. /\ s.repo = Or(task.repo, build.repo) /\ s.commit = Or(task.commit, build.commit)
      /\ s.package = Or(task.srpm, Or(task.ref, RepoName[s.repo])) /\ s.cas = Or(task.cas, build.cas)
  BY DEF TaskRef
<1> HIDE DEF s, task
<1>6. s.repo \in DOMAIN RepoName
  BY <1>2, <1>4, <1>5 DEF Or, Attributed
<1>7. s.package \in DOMAIN DefaultRepo
  <2>1. RepoName[s.repo] \in DOMAIN DefaultRepo
    BY <1>6, NamesAssumption
  <2> QED
    BY <1>4, <1>5, <2>1 DEF Or
<1>8. s.commit \in Nat /\ s.cas \in Nat \cup {None}
  BY <1>2, <1>4, <1>5 DEF Or, Attributed
<1> QED
  BY <1>2, <1>6, <1>7, <1>8 DEF Attributed, s

\* The sources of the graph are complete, and are those of the build and of its tasks.
LEMMA SourcesAreAttributed ==
  ASSUME TypeOK, DocumentInv
  PROVE  /\ 1 .. next - 1 \subseteq Tasks
         /\ \A s \in Sources : Attributed(s) /\ s \in {TaskRef(u) : u \in Tasks} \cup {build}
<1>1. next \in 0 .. Len(doc.tasks) + 1 /\ Len(doc.tasks) \in Nat
  <2>1. doc.tasks \in Seq(Range(doc.tasks))
    BY DocumentsAssumption DEF DocumentInv
  <2> QED
    BY <2>1 DEF TypeOK
<1>2. 1 .. next - 1 \subseteq Tasks
  BY <1>1 DEF Tasks
<1>3. Attributed(build)
  BY BuildIsAttributed DEF DocumentInv
<1>4. \A u \in Tasks : Attributed(TaskRef(u))
  BY TasksAreAttributed
<1> QED
  BY <1>2, <1>3, <1>4 DEF Sources

\* The id of a CAS node says whose and which hash it is.
LEMMA ChainCas ==
  ASSUME NEW s
  PROVE  Chain(s).cas = <<"cas", s.package, Or(s.cas, s.commit)>>
  BY DEF Chain, SourceCasId

\* Ids of one kind that differ in a name, and of commits of one package.
AreNamed(ids, kind) == \A id \in ids : \E n \in Nat : id = <<kind, n>>
AreCommits(ids, package) == package \in Nat /\ \A id \in ids : \E n \in Nat : id = <<"commit", package, n>>

\* What source_to_artifact_path finds above an artifact, step by step.
Trail(g, a, source, repo, commit, cas, task) ==
  /\ Incoming(g, a, "produces") = {task}
  /\ Incoming(g, task, "built_by") = {cas}
  /\ IsFirst(commit, Incoming(g, cas, "authenticated_by"))
  /\ FirstId(Incoming(g, cas, "authenticated_by")) = commit
  /\ \E package : AreCommits(Incoming(g, cas, "authenticated_by"), package)
  /\ IsFirst(repo, Incoming(g, commit, "points_to"))
  /\ FirstId(Incoming(g, commit, "points_to")) = repo
  /\ AreNamed(Incoming(g, commit, "points_to"), "repo")
  /\ IsFirst(source, Incoming(g, repo, "stored_in"))
  /\ FirstId(Incoming(g, repo, "stored_in")) = source
  /\ AreNamed(Incoming(g, repo, "stored_in"), "source")

\* The path of an artifact goes through its own task and CAS node, and each further node
\* is of a source that shares the node before it.
LEMMA PathOfArtifact ==
  ASSUME BuildInv, NEW a \in Artifacts(graph)
  PROVE  LET own == Own(a)
         IN  \E o, r, p \in Sources :
               /\ SourceToArtifactPath(graph, a) =
                    <<SourceId(p.package), RepoId(r.repo), CommitId(o.package, o.commit),
                      Chain(own).cas, TaskId(a[2]), a>>
               /\ o.package = own.package /\ Or(o.cas, o.commit) = Or(own.cas, own.commit)
               /\ r.package = own.package /\ r.commit = o.commit
               /\ p.repo = r.repo
               /\ <<SourceId(p.package), RepoId(p.repo), "stored_in">> \in graph.edges
               /\ Trail(graph, a, SourceId(p.package), RepoId(r.repo), CommitId(o.package, o.commit),
                        Chain(own).cas, TaskId(a[2]))
<1> DEFINE own  == TaskRef(a[2])
           task == TaskId(a[2])
           cas  == Chain(own).cas
<1> USE DEF BuildInv
<1>1. a[2] \in 1 .. next - 1 /\ <<task, a, "produces">> \in graph.edges
  BY DEF ArtifactsInv
<1>2. own \in Sources /\ \A s \in Sources : Attributed(s)
  BY <1>1, SourcesAreAttributed DEF Sources
<1>3. Incoming(graph, a, "produces") = {task}
  BY <1>1 DEF LinksInv, Incoming
<1>4. Incoming(graph, task, "built_by") = {cas}
  <2>1. <<cas, task, "built_by">> \in graph.edges
    BY <1>1 DEF LinksInv
  <2>2. ASSUME NEW e \in graph.edges, e[2] = task, e[3] = "built_by"
        PROVE  e[1] = cas
    <3>1. task[1] = "task" /\ BuildId[1] = "build" /\ "task" # "build"
      BY DEF TaskId, BuildId
    <3>2. e[2] # BuildId
      BY <2>2, <3>1
    <3>3. PICK u \in 1 .. next - 1 : e = <<Chain(TaskRef(u)).cas, TaskId(u), "built_by">>
      BY <2>2, <3>2 DEF LinksInv
    <3>4. TaskId(u)[2] = task[2]
      BY <2>2, <3>3
    <3>5. u = a[2]
      BY <3>4 DEF TaskId
    <3> QED
      BY <3>3, <3>5
  <2> QED
    BY <2>1, <2>2 DEF Incoming
<1>5. Preferred(graph, {cas}) = cas
  <2> DEFINE evident == {id \in {cas} : HasCasEvidence(graph, id)}
  <2> HIDE DEF cas
  <2>1. evident = {} \/ evident = {cas}
    OBVIOUS
  <2>2. Preferred(graph, {cas}) = FirstId(IF evident # {} THEN evident ELSE {cas})
    BY DEF Preferred
  <2> HIDE DEF evident
  <2>3. Preferred(graph, {cas}) = FirstId({cas})
    <3>1. CASE evident = {}
      BY <2>2, <3>1
    <3>2. CASE evident = {cas}
      BY <2>2, <3>2
    <3> QED
      BY <2>1, <3>1, <3>2
  <2> QED
    BY <2>3, FirstOfOne
<1>6. PICK o \in Sources :
        /\ FirstId(Incoming(graph, cas, "authenticated_by")) = CommitId(o.package, o.commit)
        /\ Incoming(graph, cas, "authenticated_by") # {}
        /\ IsFirst(CommitId(o.package, o.commit), Incoming(graph, cas, "authenticated_by"))
        /\ AreCommits(Incoming(graph, cas, "authenticated_by"), own.package)
        /\ o.package = own.package /\ Or(o.cas, o.commit) = Or(own.cas, own.commit)
  <2> DEFINE ids == Incoming(graph, cas, "authenticated_by")
  <2>1. CommitId(own.package, own.commit) \in ids
    BY <1>2 DEF LinksInv, Incoming
  <2>2. \A id \in ids : \E s \in Sources : id = CommitId(s.package, s.commit) /\ Chain(s).cas = cas
    <3> SUFFICES ASSUME NEW e \in graph.edges, e[2] = cas, e[3] = "authenticated_by"
                 PROVE  \E s \in Sources : e[1] = CommitId(s.package, s.commit) /\ Chain(s).cas = cas
      BY DEF Incoming
    <3>1. Kind(e[2]) = "cas"
      BY ChainCas DEF Kind
    <3>2. PICK s \in Sources : e = <<CommitId(s.package, s.commit), Chain(s).cas, "authenticated_by">>
      BY <3>1 DEF LinksInv
    <3> QED
      BY <3>2
  <2>3. \A s \in Sources : Chain(s).cas = cas =>
          s.package = own.package /\ Or(s.cas, s.commit) = Or(own.cas, own.commit)
    <3> TAKE s \in Sources
    <3>1. Chain(s).cas[2] = s.package /\ Chain(s).cas[3] = Or(s.cas, s.commit)
      BY ChainCas
    <3>2. cas[2] = own.package /\ cas[3] = Or(own.cas, own.commit)
      BY ChainCas
    <3> HIDE DEF cas
    <3> QED
      BY <3>1, <3>2
  <2> HIDE DEF ids, cas, own
  <2>4. \A id \in ids : \E n \in Nat : id = <<"commit", own.package, n>>
    BY <1>2, <2>2, <2>3 DEF CommitId, Attributed
  <2>5. FirstId(ids) \in ids /\ IsFirst(FirstId(ids), ids)
    BY <2>1, <2>4, FirstOfTriples
  <2>6. AreCommits(ids, own.package)
    BY <1>2, <2>4, NamesAssumption DEF AreCommits, Attributed
  <2> QED
    BY <2>1, <2>2, <2>3, <2>5, <2>6 DEF ids
<1> DEFINE commit == CommitId(o.package, o.commit)
<1>7. PICK r \in Sources :
        /\ FirstId(Incoming(graph, commit, "points_to")) = RepoId(r.repo)
        /\ Incoming(graph, commit, "points_to") # {}
        /\ IsFirst(RepoId(r.repo), Incoming(graph, commit, "points_to"))
        /\ AreNamed(Incoming(graph, commit, "points_to"), "repo")
        /\ r.package = o.package /\ r.commit = o.commit
  <2> DEFINE ids == Incoming(graph, commit, "points_to")
  <2>1. RepoId(o.repo) \in ids
    BY DEF LinksInv, Incoming
  <2>2. \A id \in ids : \E s \in Sources : id = RepoId(s.repo) /\ CommitId(s.package, s.commit) = commit
    <3> SUFFICES ASSUME NEW e \in graph.edges, e[2] = commit, e[3] = "points_to"
                 PROVE  \E s \in Sources : e[1] = RepoId(s.repo) /\ CommitId(s.package, s.commit) = commit
      BY DEF Incoming
    <3>1. PICK s \in Sources : e = <<RepoId(s.repo), CommitId(s.package, s.commit), "points_to">>
      BY DEF LinksInv
    <3> QED
      BY <3>1
  <2>3. \A s \in Sources : CommitId(s.package, s.commit) = commit => s.package = o.package /\ s.commit = o.commit
    BY DEF CommitId
  <2> HIDE DEF ids, commit
  <2>4. \A id \in ids : \E n \in Nat : id = <<"repo", n>>
    BY <1>2, <2>2, NamesAssumption DEF RepoId, Attributed
  <2>5. FirstId(ids) \in ids /\ IsFirst(FirstId(ids), ids)
    BY <2>1, <2>4, FirstOfPairs
  <2>6. AreNamed(ids, "repo")
    BY <2>4 DEF AreNamed
  <2> QED
    BY <2>1, <2>2, <2>3, <2>5, <2>6 DEF ids
<1> DEFINE repo == RepoId(r.repo)
<1>8. PICK p \in Sources :
        /\ FirstId(Incoming(graph, repo, "stored_in")) = SourceId(p.package)
        /\ Incoming(graph, repo, "stored_in") # {}
        /\ IsFirst(SourceId(p.package), Incoming(graph, repo, "stored_in"))
        /\ AreNamed(Incoming(graph, repo, "stored_in"), "source")
        /\ p.repo = r.repo
  <2> DEFINE ids == Incoming(graph, repo, "stored_in")
  <2>1. SourceId(r.package) \in ids
    BY DEF LinksInv, Incoming
  <2>2. \A id \in ids : \E s \in Sources : id = SourceId(s.package) /\ RepoId(s.repo) = repo
    <3> SUFFICES ASSUME NEW e \in graph.edges, e[2] = repo, e[3] = "stored_in"
                 PROVE  \E s \in Sources : e[1] = SourceId(s.package) /\ RepoId(s.repo) = repo
      BY DEF Incoming
    <3>1. PICK s \in Sources : e = <<SourceId(s.package), RepoId(s.repo), "stored_in">>
      BY DEF LinksInv
    <3> QED
      BY <3>1
  <2>3. \A s \in Sources : RepoId(s.repo) = repo => s.repo = r.repo
    BY DEF RepoId
  <2> HIDE DEF ids, repo
  <2>4. \A id \in ids : \E n \in Nat : id = <<"source", n>>
    BY <1>2, <2>2, NamesAssumption DEF SourceId, Attributed
  <2>5. FirstId(ids) \in ids /\ IsFirst(FirstId(ids), ids)
    BY <2>1, <2>4, FirstOfPairs
  <2>6. AreNamed(ids, "source")
    BY <2>4 DEF AreNamed
  <2> QED
    BY <2>1, <2>2, <2>3, <2>5, <2>6 DEF ids
<1>9. SourceToArtifactPath(graph, a) = <<SourceId(p.package), repo, commit, cas, task, a>>
  <2> HIDE DEF repo, commit, cas, task, own
  <2>1. /\ Incoming(graph, a, "produces") # {} /\ FirstId(Incoming(graph, a, "produces")) = task
        /\ Incoming(graph, task, "built_by") # {} /\ Preferred(graph, Incoming(graph, task, "built_by")) = cas
    BY <1>3, <1>4, <1>5, FirstOfOne
  <2>2. /\ FirstId(Incoming(graph, cas, "authenticated_by")) = commit
        /\ FirstId(Incoming(graph, commit, "points_to")) = repo
    BY <1>6, <1>7 DEF commit, repo
  <2> QED
    BY <1>6, <1>7, <1>8, <2>1, <2>2, WholePath
<1>10. <<SourceId(p.package), RepoId(p.repo), "stored_in">> \in graph.edges
  BY DEF LinksInv
<1>11. Trail(graph, a, SourceId(p.package), repo, commit, cas, task)
  BY <1>3, <1>4, <1>6, <1>7, <1>8 DEF Trail
<1> QED
  BY <1>6, <1>7, <1>8, <1>9, <1>10, <1>11 DEF Own

\* decisions.md D36: the path of every artifact goes through its own task, and to its own
\* commit, repository and package unless the build has another of the same id below it.
LEMMA PathsAreOwn ==
  ASSUME BuildInv
  PROVE  PathIsOwn
<1> SUFFICES ASSUME NEW a \in Artifacts(graph)
             PROVE  LET path == SourceToArtifactPath(graph, a)
                        own  == Own(a)
                        sameCas    == {o \in Others(a) : o.package = own.package /\ Or(o.cas, o.commit) = Or(own.cas, own.commit)}
                        sameCommit == {o \in Others(a) : o.package = own.package /\ o.commit = own.commit}
                        sameRepo   == {o \in Others(a) : o.repo = own.repo}
                    IN  /\ Len(path) = 6 /\ path[5] = TaskId(a[2]) /\ path[4] = Chain(own).cas
                        /\ (\A o \in sameCas : o.commit = own.commit) =>
                             /\ path[3] = CommitId(own.package, own.commit)
                             /\ (\A o \in sameCommit : o.repo = own.repo) =>
                                  /\ path[2] = RepoId(own.repo)
                                  /\ (\A o \in sameRepo : o.package = own.package) => path[1] = SourceId(own.package)
                        /\ a \in Rpms(graph) =>
                             LET statement == SlsaProvenance(graph, a)
                             IN  statement.digest = doc.tasks[a[2]].rpms[a[3]]
                                 /\ statement.commit = {path[3][3]} /\ statement.repo = {path[2][2]}
  BY DEF PathIsOwn
<1> DEFINE path == SourceToArtifactPath(graph, a)
           own  == Own(a)
           sameCas    == {o \in Others(a) : o.package = own.package /\ Or(o.cas, o.commit) = Or(own.cas, own.commit)}
           sameCommit == {o \in Others(a) : o.package = own.package /\ o.commit = own.commit}
           sameRepo   == {o \in Others(a) : o.repo = own.repo}
<1>1. PICK o, r, p \in Sources :
        /\ path = <<SourceId(p.package), RepoId(r.repo), CommitId(o.package, o.commit),
                    Chain(own).cas, TaskId(a[2]), a>>
        /\ o.package = own.package /\ Or(o.cas, o.commit) = Or(own.cas, own.commit)
        /\ r.package = own.package /\ r.commit = o.commit
        /\ p.repo = r.repo
  BY PathOfArtifact
<1>2. Sources \subseteq Others(a)
  BY SourcesAreAttributed DEF BuildInv, Others
<1>3. Len(path) = 6 /\ path[5] = TaskId(a[2]) /\ path[4] = Chain(own).cas
  <2> HIDE DEF path, own
  <2> QED
    BY <1>1
<1>4. path[1] = SourceId(p.package) /\ path[2] = RepoId(r.repo) /\ path[3] = CommitId(o.package, o.commit)
  <2> HIDE DEF path, own
  <2> QED
    BY <1>1
<1>5. ASSUME \A s \in sameCas : s.commit = own.commit
      PROVE  /\ path[3] = CommitId(own.package, own.commit)
             /\ (\A s \in sameCommit : s.repo = own.repo) =>
                  /\ path[2] = RepoId(own.repo)
                  /\ (\A s \in sameRepo : s.package = own.package) => path[1] = SourceId(own.package)
  <2>1. o.commit = own.commit
    BY <1>1, <1>2, <1>5
  <2>2. r \in sameCommit
    BY <1>1, <1>2, <2>1
  <2>3. p.repo = r.repo /\ p \in Others(a)
    BY <1>1, <1>2
  <2> HIDE DEF path, own
  <2> QED
    BY <1>1, <1>4, <2>1, <2>2, <2>3
<1>6. ASSUME a \in Rpms(graph)
      PROVE  LET statement == SlsaProvenance(graph, a)
             IN  statement.digest = doc.tasks[a[2]].rpms[a[3]]
                 /\ statement.commit = {path[3][3]} /\ statement.repo = {path[2][2]}
  <2>1. graph.nodes[a].hash = doc.tasks[a[2]].rpms[a[3]]
    BY <1>6 DEF BuildInv, ArtifactsInv, Rpms
  <2>2. Range(path) = {path[1], path[2], path[3], path[4], path[5], path[6]}
    <3>1. DOMAIN path = 1 .. 6
      <4> HIDE DEF path, own
      <4> QED
        BY <1>1
    <3>2. 1 .. 6 = {1, 2, 3, 4, 5, 6}
      OBVIOUS
    <3> HIDE DEF path
    <3> QED
      BY <3>1, <3>2 DEF Range
  <2>3. path[6] = a
    <3> HIDE DEF path, own
    <3> QED
      BY <1>1
  <2>4. /\ Kind(path[1]) = "source" /\ Kind(path[2]) = "repo" /\ Kind(path[3]) = "commit"
        /\ Kind(path[4]) = "cas" /\ Kind(path[5]) = "task" /\ Kind(path[6]) = "rpm"
    <3> HIDE DEF path, own
    <3>1. Kind(a) = "rpm"
      BY <1>6 DEF Rpms
    <3> QED
      BY <1>3, <1>4, <2>3, <3>1, ChainCas DEF Kind, SourceId, RepoId, CommitId, TaskId
  <2>5. {id \in Range(path) : Kind(id) = "commit"} = {path[3]}
    <3> HIDE DEF path
    <3> QED
      BY <2>2, <2>4
  <2>6. {id \in Range(path) : Kind(id) = "repo"} = {path[2]}
    <3> HIDE DEF path
    <3> QED
      BY <2>2, <2>4
  <2>7. /\ SlsaProvenance(graph, a).digest = graph.nodes[a].hash
        /\ SlsaProvenance(graph, a).commit = {id[3] : id \in {x \in Range(path) : Kind(x) = "commit"}}
        /\ SlsaProvenance(graph, a).repo = {id[2] : id \in {x \in Range(path) : Kind(x) = "repo"}}
    BY DEF SlsaProvenance
  <2> HIDE DEF path
  <2> QED
    BY <2>1, <2>5, <2>6, <2>7
<1> HIDE DEF path, own, sameCas, sameCommit, sameRepo
<1>7. /\ Len(path) = 6 /\ path[5] = TaskId(a[2]) /\ path[4] = Chain(own).cas
      /\ (\A s \in sameCas : s.commit = own.commit) =>
           /\ path[3] = CommitId(own.package, own.commit)
           /\ (\A s \in sameCommit : s.repo = own.repo) =>
                /\ path[2] = RepoId(own.repo)
                /\ (\A s \in sameRepo : s.package = own.package) => path[1] = SourceId(own.package)
      /\ a \in Rpms(graph) =>
           LET statement == SlsaProvenance(graph, a)
           IN  statement.digest = doc.tasks[a[2]].rpms[a[3]]
               /\ statement.commit = {path[3][3]} /\ statement.repo = {path[2][2]}
  BY <1>3, <1>5, <1>6
<1> QED
  BY <1>7 DEF path, own, sameCas, sameCommit, sameRepo

\* lineage.py:7-14: every artifact is attributed to one source of the graph.
LEMMA LineageIsOne ==
  ASSUME BuildInv
  PROVE  LineageIsPartition
<1> SUFFICES ASSUME NEW a \in Artifacts(graph)
             PROVE  \E source \in DOMAIN graph.nodes : Kind(source) = "source" /\
                      {id \in {s \in DOMAIN graph.nodes : Kind(s) = "source"} : a \in ArtifactsFromSource(graph, id)}
                        = {source}
  BY DEF LineageIsPartition
<1> DEFINE path == SourceToArtifactPath(graph, a)
<1>1. PICK p \in Sources : path[1] = SourceId(p.package) /\ Len(path) = 6
                           /\ <<SourceId(p.package), RepoId(p.repo), "stored_in">> \in graph.edges
  <2>1. PICK o, r, p \in Sources :
          /\ path = <<SourceId(p.package), RepoId(r.repo), CommitId(o.package, o.commit),
                      Chain(Own(a)).cas, TaskId(a[2]), a>>
          /\ <<SourceId(p.package), RepoId(p.repo), "stored_in">> \in graph.edges
    BY PathOfArtifact
  <2> HIDE DEF path
  <2> QED
    BY <2>1
<1>2. path[1] \in DOMAIN graph.nodes /\ Kind(path[1]) = "source"
  <2> HIDE DEF path
  <2>1. PICK e \in graph.edges : e = <<SourceId(p.package), RepoId(p.repo), "stored_in">>
    BY <1>1
  <2>2. e[1] \in DOMAIN graph.nodes
    BY DEF BuildInv, TypeOK
  <2>3. SourceId(p.package)[1] = "source"
    BY DEF SourceId
  <2> QED
    BY <1>1, <2>1, <2>2, <2>3 DEF Kind
<1>3. \A id : a \in ArtifactsFromSource(graph, id) <=> path[1] = id
  <2>1. \A id : a \in ArtifactsFromSource(graph, id) <=> Len(path) >= 2 /\ path[1] = id
    BY DEF ArtifactsFromSource
  <2> HIDE DEF path
  <2> QED
    BY <1>1, <2>1
<1> HIDE DEF path
<1> QED
  BY <1>2, <1>3

----------------------------------------------------------------------------
(* What steps that add to the graph have in common *)

\* add_node and add_edge, of nodes that are there already or not.
LEMMA WithAdds ==
  ASSUME NEW g, NEW nodes, NEW edges
  PROVE  /\ DOMAIN With(g, nodes, edges) = {"nodes", "edges"}
         /\ DOMAIN With(g, nodes, edges).nodes = DOMAIN g.nodes \cup DOMAIN nodes
         /\ \A id \in DOMAIN g.nodes : With(g, nodes, edges).nodes[id] = g.nodes[id]
         /\ \A id \in DOMAIN nodes \ DOMAIN g.nodes : With(g, nodes, edges).nodes[id] = nodes[id]
         /\ With(g, nodes, edges).edges = g.edges \cup edges
  BY DEF With

\* The graph has grown: what was there is as it was.
Grown ==
  /\ DOMAIN graph' = {"nodes", "edges"}
  /\ DOMAIN graph.nodes \subseteq DOMAIN graph'.nodes /\ graph.edges \subseteq graph'.edges
  /\ \A id \in DOMAIN graph.nodes : graph'.nodes[id] = graph.nodes[id]

\* New nodes bear no mark.
Unmarked(nodes) ==
  \A id \in DOMAIN nodes :
    /\ Kind(id) = "rpm" => \E h : nodes[id] = [hash |-> h, signed |-> None, clean |-> FALSE]
    /\ Kind(id) = "signature" => nodes[id] = [verified |-> FALSE]
    /\ IsCas(id) => \E h : nodes[id] = Cas(h)

\* Marks stay earned when a graph grows by nodes that bear none.
LEMMA GrowthKeepsMarks ==
  ASSUME BuildInv, TypeOK', Grown, UNCHANGED <<verifiedOnce, lastVerdict, hashesVerified>>,
         NEW nodes, Unmarked(nodes),
         \A id \in DOMAIN graph'.nodes \ DOMAIN graph.nodes : id \in DOMAIN nodes /\ graph'.nodes[id] = nodes[id]
  PROVE  FieldsInv' /\ MarksAreEarned'
<1> USE DEF BuildInv
<1>1. \A id \in DOMAIN graph'.nodes :
        /\ Kind(id) = "rpm" => DOMAIN graph'.nodes[id] = {"hash", "signed", "clean"}
        /\ Kind(id) = "signature" => DOMAIN graph'.nodes[id] = {"verified"}
        /\ IsCas(id) => DOMAIN graph'.nodes[id] = {"hash", "verified"}
  <2> TAKE id \in DOMAIN graph'.nodes
  <2>1. CASE id \in DOMAIN graph.nodes
    BY <2>1 DEF FieldsInv, Grown
  <2>2. CASE id \notin DOMAIN graph.nodes
    BY <2>2 DEF Unmarked, Cas
  <2> QED
    BY <2>1, <2>2
<1>2. DOMAIN lastVerdict \subseteq Rpms(graph)
  BY DEF FieldsInv
<1>3. FieldsInv'
  BY <1>1, <1>2 DEF FieldsInv, Rpms, Grown
<1>4. \A rpm \in Rpms(graph') :
        graph'.nodes[rpm].signed = (IF rpm \in DOMAIN lastVerdict THEN lastVerdict[rpm] = "verified" ELSE None)
  <2> TAKE rpm \in Rpms(graph')
  <2>1. CASE rpm \in DOMAIN graph.nodes
    <3>1. rpm \in Rpms(graph) /\ graph'.nodes[rpm] = graph.nodes[rpm]
      BY <2>1 DEF Rpms, Grown
    <3> QED
      BY <3>1 DEF MarksAreEarned
  <2>2. CASE rpm \notin DOMAIN graph.nodes
    <3>1. rpm \notin DOMAIN lastVerdict
      BY <1>2, <2>2 DEF Rpms
    <3>2. graph'.nodes[rpm].signed = None
      <4>1. rpm \in DOMAIN nodes /\ graph'.nodes[rpm] = nodes[rpm] /\ Kind(rpm) = "rpm"
        BY <2>2 DEF Rpms
      <4> QED
        BY <4>1 DEF Unmarked
    <3> QED
      BY <3>1, <3>2
  <2> QED
    BY <2>1, <2>2
<1>5. \A id \in DOMAIN graph'.nodes :
        /\ Kind(id) = "signature" /\ graph'.nodes[id].verified =>
             Incoming(graph', id, "signed_as") \cap verifiedOnce # {}
        /\ IsCas(id) /\ graph'.nodes[id].verified => graph'.nodes[id].hash \in hashesVerified
  <2> TAKE id \in DOMAIN graph'.nodes
  <2>1. CASE id \in DOMAIN graph.nodes
    <3>1. graph'.nodes[id] = graph.nodes[id]
      BY <2>1 DEF Grown
    <3>2. Incoming(graph, id, "signed_as") \subseteq Incoming(graph', id, "signed_as")
      BY DEF Incoming, Grown
    <3> QED
      BY <2>1, <3>1, <3>2 DEF MarksAreEarned
  <2>2. CASE id \notin DOMAIN graph.nodes
    <3>1. (Kind(id) = "signature" \/ IsCas(id)) => ~ graph'.nodes[id].verified
      BY <2>2 DEF Unmarked, Cas
    <3> QED
      BY <3>1
  <2> QED
    BY <2>1, <2>2
<1> QED
  BY <1>3, <1>4, <1>5 DEF MarksAreEarned

\* Evidence adds no link of the chains, and changes nothing of an artifact but its marks.
LEMMA EvidenceKeepsLinks ==
  ASSUME BuildInv, UNCHANGED <<doc, build, next>>, graph.edges \subseteq graph'.edges,
         \A e \in graph'.edges \ graph.edges : e[3] \in {"described_by", "fixes"},
         DOMAIN graph.nodes \subseteq DOMAIN graph'.nodes,
         \A a \in Artifacts(graph') : a \in DOMAIN graph.nodes /\ (Kind(a) = "rpm" => graph'.nodes[a].hash = graph.nodes[a].hash)
  PROVE  DocumentInv' /\ HeadInv' /\ LinksInv' /\ ArtifactsInv'
<1> USE DEF BuildInv
<1>1. DocumentInv'
  BY DEF DocumentInv
<1>2. \A u : TaskRef(u)' = TaskRef(u)
  BY DEF TaskRef
<1>3. Sources' = Sources
  BY <1>2 DEF Sources
<1>4. LinksInv'
  <2>1. \A e \in graph'.edges :
          e[3] \in {"stored_in", "points_to", "authenticated_by", "built_by", "produces"} => e \in graph.edges
    OBVIOUS
  <2> QED
    BY <1>2, <1>3, <2>1 DEF LinksInv
<1>5. ArtifactsInv'
  BY DEF ArtifactsInv, Artifacts
<1>6. HeadInv'
  BY DEF HeadInv
<1> QED
  BY <1>1, <1>4, <1>5, <1>6

\* The nodes and edges that the chain of a source brings.
ChainNodes(s) ==
  [id \in {SourceId(s.package), RepoId(s.repo), CommitId(s.package, s.commit), Chain(s).cas} |->
     IF id = Chain(s).cas THEN Cas(s.cas) ELSE Plain]

ChainEdges(s, builder) ==
  { <<SourceId(s.package), RepoId(s.repo), "stored_in">>,
    <<RepoId(s.repo), CommitId(s.package, s.commit), "points_to">>,
    <<CommitId(s.package, s.commit), Chain(s).cas, "authenticated_by">>,
    <<Chain(s).cas, builder, "built_by">> }

\* A chain is added as its nodes and its edges; the nodes bear no mark.
LEMMA ChainAdds ==
  ASSUME NEW g, NEW s, NEW builder
  PROVE  /\ WithChain(g, Chain(s), s.cas, builder) = With(g, ChainNodes(s), ChainEdges(s, builder))
         /\ Unmarked(ChainNodes(s))
         /\ \A id \in DOMAIN ChainNodes(s) : Kind(id) \notin {"rpm", "srpm", "signature"}
<1>1. /\ Chain(s).source = SourceId(s.package) /\ Chain(s).repo = RepoId(s.repo)
      /\ Chain(s).commit = CommitId(s.package, s.commit)
  BY DEF Chain
<1>2. WithChain(g, Chain(s), s.cas, builder) = With(g, ChainNodes(s), ChainEdges(s, builder))
  BY <1>1 DEF WithChain, ChainNodes, ChainEdges
<1>3. /\ Kind(SourceId(s.package)) = "source" /\ Kind(RepoId(s.repo)) = "repo"
      /\ Kind(CommitId(s.package, s.commit)) = "commit" /\ Kind(Chain(s).cas) = "cas"
  BY ChainCas DEF Kind, SourceId, RepoId, CommitId
<1>4. \A id \in DOMAIN ChainNodes(s) :
        /\ Kind(id) \notin {"rpm", "srpm", "signature"}
        /\ IsCas(id) => ChainNodes(s)[id] = Cas(s.cas)
  BY <1>3 DEF ChainNodes, IsCas
<1>5. Unmarked(ChainNodes(s))
  <2>1. \A id \in DOMAIN ChainNodes(s) : IsCas(id) => \E h : ChainNodes(s)[id] = Cas(h)
    BY <1>4
  <2> QED
    BY <1>4, <2>1 DEF Unmarked
<1> QED
  BY <1>2, <1>4, <1>5

\* Two additions in a row: the graph grows by the nodes and edges of both.
LEMMA TwoAdditions ==
  ASSUME NEW n1, NEW e1, NEW n2, NEW e2, Unmarked(n1), Unmarked(n2),
         graph' = With(With(graph, n1, e1), n2, e2)
  PROVE  /\ Grown
         /\ DOMAIN graph'.nodes = DOMAIN graph.nodes \cup DOMAIN n1 \cup DOMAIN n2
         /\ graph'.edges = graph.edges \cup e1 \cup e2
         /\ \A id \in DOMAIN n2 \ (DOMAIN graph.nodes \cup DOMAIN n1) : graph'.nodes[id] = n2[id]
         /\ \E nodes : /\ Unmarked(nodes)
                       /\ \A id \in DOMAIN graph'.nodes \ DOMAIN graph.nodes :
                            id \in DOMAIN nodes /\ graph'.nodes[id] = nodes[id]
<1> DEFINE g1 == With(graph, n1, e1)
           nodes == [id \in DOMAIN n1 \cup DOMAIN n2 |-> IF id \in DOMAIN n1 THEN n1[id] ELSE n2[id]]
<1>1. /\ DOMAIN g1.nodes = DOMAIN graph.nodes \cup DOMAIN n1 /\ g1.edges = graph.edges \cup e1
      /\ \A id \in DOMAIN graph.nodes : g1.nodes[id] = graph.nodes[id]
      /\ \A id \in DOMAIN n1 \ DOMAIN graph.nodes : g1.nodes[id] = n1[id]
  BY WithAdds
<1>2. graph' = With(g1, n2, e2)
  OBVIOUS
<1> HIDE DEF g1
<1>3. /\ DOMAIN graph' = {"nodes", "edges"}
      /\ DOMAIN graph'.nodes = DOMAIN g1.nodes \cup DOMAIN n2 /\ graph'.edges = g1.edges \cup e2
      /\ \A id \in DOMAIN g1.nodes : graph'.nodes[id] = g1.nodes[id]
      /\ \A id \in DOMAIN n2 \ DOMAIN g1.nodes : graph'.nodes[id] = n2[id]
  BY <1>2, WithAdds
<1>4. Unmarked(nodes)
  <2> SUFFICES ASSUME NEW id \in DOMAIN n1 \cup DOMAIN n2
               PROVE  /\ Kind(id) = "rpm" => \E h : nodes[id] = [hash |-> h, signed |-> None, clean |-> FALSE]
                      /\ Kind(id) = "signature" => nodes[id] = [verified |-> FALSE]
                      /\ IsCas(id) => \E h : nodes[id] = Cas(h)
    BY DEF Unmarked
  <2>1. CASE id \in DOMAIN n1
    <3>1. nodes[id] = n1[id]
      BY <2>1
    <3> HIDE DEF nodes
    <3> QED
      BY <2>1, <3>1 DEF Unmarked
  <2>2. CASE id \notin DOMAIN n1
    <3>1. nodes[id] = n2[id]
      BY <2>2
    <3> HIDE DEF nodes
    <3> QED
      BY <2>2, <3>1 DEF Unmarked
  <2> QED
    BY <2>1, <2>2
<1>5. \A id \in DOMAIN graph'.nodes \ DOMAIN graph.nodes : id \in DOMAIN nodes /\ graph'.nodes[id] = nodes[id]
  BY <1>1, <1>3
<1>6. Grown
  BY <1>1, <1>3 DEF Grown
<1> HIDE DEF nodes
<1> QED
  BY <1>1, <1>3, <1>4, <1>5, <1>6

\* A chain that is added, and whatever else is no link of a chain, keeps the links.
LEMMA ChainKeepsLinks ==
  ASSUME BuildInv, UNCHANGED <<doc, build>>, next' = next + 1,
         NEW s, NEW builder, NEW other,
         graph'.edges = graph.edges \cup ChainEdges(s, builder) \cup other,
         \/ next = 0 /\ s = build /\ builder = BuildId
         \/ next \in Tasks /\ s = TaskRef(next) /\ builder = TaskId(next),
         \A e \in other : /\ e[3] \notin {"stored_in", "points_to", "built_by"}
                          /\ e[3] = "authenticated_by" => Kind(e[2]) # "cas"
                          /\ e[3] = "produces" => e[1] = TaskId(e[2][2])
  PROVE  LinksInv'
<1> USE DEF BuildInv
<1>1. \A u : TaskRef(u)' = TaskRef(u)
  BY DEF TaskRef
<1>2. next \in Nat /\ (next # 0 => 1 .. next = (1 .. next - 1) \cup {next})
  <2>1. doc.tasks \in Seq(Range(doc.tasks))
    BY DocumentsAssumption DEF DocumentInv
  <2>2. next \in 0 .. Len(doc.tasks) + 1 /\ Len(doc.tasks) \in Nat
    BY <2>1 DEF TypeOK
  <2> QED
    BY <2>2
<1>3. Sources' = Sources \cup {s}
  <2>1. CASE next = 0 /\ s = build
    <3>1. 1 .. next' - 1 = {} /\ 1 .. next - 1 = {} /\ next' # 0
      BY <2>1
    <3> QED
      BY <2>1, <3>1 DEF Sources
  <2>2. CASE next \in Tasks /\ s = TaskRef(next)
    <3>1. next # 0 /\ next' # 0 /\ 1 .. next' - 1 = (1 .. next - 1) \cup {next}
      BY <1>2, <2>2 DEF Tasks
    <3> QED
      BY <1>1, <2>2, <3>1 DEF Sources
  <2> QED
    BY <2>1, <2>2
<1>4. 1 .. next - 1 \subseteq 1 .. next' - 1
  BY <1>2
<1>5. \A t \in Sources' :
        /\ <<SourceId(t.package), RepoId(t.repo), "stored_in">> \in graph'.edges
        /\ <<RepoId(t.repo), CommitId(t.package, t.commit), "points_to">> \in graph'.edges
        /\ <<CommitId(t.package, t.commit), Chain(t).cas, "authenticated_by">> \in graph'.edges
  BY <1>3 DEF LinksInv, ChainEdges
<1>6. \A u \in 1 .. next' - 1 : <<Chain(TaskRef(u)').cas, TaskId(u), "built_by">> \in graph'.edges
  <2> SUFFICES ASSUME NEW u \in 1 .. next' - 1
               PROVE  <<Chain(TaskRef(u)).cas, TaskId(u), "built_by">> \in graph'.edges
    BY <1>1
  <2>1. CASE u \in 1 .. next - 1
    BY <2>1 DEF LinksInv
  <2>2. CASE u \notin 1 .. next - 1
    <3>1. u = next /\ next # 0
      BY <1>2, <2>2
    <3>2. s = TaskRef(u) /\ builder = TaskId(u)
      BY <3>1
    <3> QED
      BY <3>2 DEF ChainEdges
  <2> QED
    BY <2>1, <2>2
<1>7. ASSUME NEW e \in graph'.edges
      PROVE  /\ e[3] = "stored_in" =>
                  \E t \in Sources' : e = <<SourceId(t.package), RepoId(t.repo), "stored_in">>
             /\ e[3] = "points_to" =>
                  \E t \in Sources' : e = <<RepoId(t.repo), CommitId(t.package, t.commit), "points_to">>
             /\ e[3] = "authenticated_by" /\ Kind(e[2]) = "cas" =>
                  \E t \in Sources' : e = <<CommitId(t.package, t.commit), Chain(t).cas, "authenticated_by">>
             /\ e[3] = "built_by" =>
                  \/ e[2] = BuildId
                  \/ \E u \in 1 .. next' - 1 : e = <<Chain(TaskRef(u)').cas, TaskId(u), "built_by">>
             /\ e[3] = "produces" => e[1] = TaskId(e[2][2])
  <2>1. CASE e \in graph.edges
    <3>1. e[3] = "built_by" /\ e[2] # BuildId =>
            \E u \in 1 .. next' - 1 : e = <<Chain(TaskRef(u)').cas, TaskId(u), "built_by">>
      BY <1>1, <1>4, <2>1 DEF LinksInv
    <3> QED
      BY <1>3, <2>1, <3>1 DEF LinksInv
  <2>2. CASE e \in ChainEdges(s, builder)
    <3>1. e[3] = "built_by" => e = <<Chain(s).cas, builder, "built_by">>
      BY <2>2 DEF ChainEdges
    <3>2. ASSUME next # 0
          PROVE  \E u \in 1 .. next' - 1 : s = TaskRef(u)' /\ builder = TaskId(u)
      <4>1. PICK u : u = next
        OBVIOUS
      <4>2. u \in 1 .. next' - 1
        BY <1>2, <3>2, <4>1
      <4>3. s = TaskRef(u)' /\ builder = TaskId(u)
        BY <1>1, <3>2, <4>1
      <4> QED
        BY <4>2, <4>3
    <3>3. next = 0 => builder = BuildId
      BY DEF Tasks
    <3>4. e[3] = "built_by" =>
            \/ e[2] = BuildId
            \/ \E u \in 1 .. next' - 1 : e = <<Chain(TaskRef(u)').cas, TaskId(u), "built_by">>
      BY <3>1, <3>2, <3>3
    <3>5. s \in Sources'
      BY <1>3
    <3>6. e[3] # "produces"
      BY <2>2 DEF ChainEdges
    <3>7. e[3] = "stored_in" => e = <<SourceId(s.package), RepoId(s.repo), "stored_in">>
      BY <2>2 DEF ChainEdges
    <3>8. e[3] = "points_to" => e = <<RepoId(s.repo), CommitId(s.package, s.commit), "points_to">>
      BY <2>2 DEF ChainEdges
    <3>9. e[3] = "authenticated_by" => e = <<CommitId(s.package, s.commit), Chain(s).cas, "authenticated_by">>
      BY <2>2 DEF ChainEdges
    <3> QED
      BY <3>4, <3>5, <3>6, <3>7, <3>8, <3>9
  <2>3. CASE e \in other
    BY <2>3
  <2> QED
    BY <2>1, <2>2, <2>3
<1> QED
  BY <1>5, <1>6, <1>7 DEF LinksInv

----------------------------------------------------------------------------
(* The steps *)

\* An edge that the schema of the graph has.
Fits(e) == e[3] \in DOMAIN Schema /\ <<Kind(e[1]), Kind(e[2])>> \in Schema[e[3]]

\* The edges of a chain join its nodes and what was built of it, each as its relation may.
LEMMA ChainFits ==
  ASSUME NEW s, NEW builder, Kind(builder) \in {"build", "task"},
         NEW e \in ChainEdges(s, builder)
  PROVE  {e[1], e[2]} \subseteq DOMAIN ChainNodes(s) \cup {builder} /\ Fits(e)
<1>1. /\ Kind(SourceId(s.package)) = "source" /\ Kind(RepoId(s.repo)) = "repo"
      /\ Kind(CommitId(s.package, s.commit)) = "commit" /\ Kind(Chain(s).cas) = "cas"
  BY ChainCas DEF Kind, SourceId, RepoId, CommitId
<1>2. {e[1], e[2]} \subseteq DOMAIN ChainNodes(s) \cup {builder}
  BY DEF ChainEdges, ChainNodes
<1>3. CASE e = <<SourceId(s.package), RepoId(s.repo), "stored_in">>
  BY <1>1, <1>2, <1>3 DEF Fits, Schema
<1>4. CASE e = <<RepoId(s.repo), CommitId(s.package, s.commit), "points_to">>
  BY <1>1, <1>2, <1>4 DEF Fits, Schema
<1>5. CASE e = <<CommitId(s.package, s.commit), Chain(s).cas, "authenticated_by">>
  BY <1>1, <1>2, <1>5 DEF Fits, Schema
<1>6. CASE e = <<Chain(s).cas, builder, "built_by">>
  BY <1>1, <1>2, <1>6 DEF Fits, Schema
<1> QED
  BY <1>3, <1>4, <1>5, <1>6 DEF ChainEdges

\* The build, its signatures and release, and its own chain.
LEMMA BuildStep ==
  ASSUME BuildInv, AddBuild
  PROVE  BuildInv'
<1> USE DEF BuildInv
<1> DEFINE n1 == [id \in {BuildId} \cup {<<"signature", s>> : s \in doc.signTasks}
                           \cup (IF doc.released THEN {ReleaseId} ELSE {}) |->
                    IF Kind(id) = "signature" THEN [verified |-> FALSE] ELSE Plain]
<1>1. PICK b : b = build
  OBVIOUS
<1>2. graph' = With(With(graph, n1, {}), ChainNodes(b), ChainEdges(b, BuildId))
  <2>1. graph' = WithChain(With(graph, n1, {}), Chain(b), b.cas, BuildId)
    BY <1>1 DEF AddBuild
  <2> HIDE DEF n1
  <2> QED
    BY <2>1, ChainAdds
<1>3. \A id \in DOMAIN n1 : Kind(id) \in {"build", "signature", "release"}
  BY DEF Kind, BuildId, ReleaseId
<1>4. Unmarked(n1)
  BY <1>3 DEF Unmarked, IsCas
<1>5. BuildId \in DOMAIN n1 /\ Kind(BuildId) = "build"
  BY DEF Kind, BuildId
<1> HIDE DEF n1
<1>6. Unmarked(ChainNodes(b)) /\ \A id \in DOMAIN ChainNodes(b) : Kind(id) \notin {"rpm", "srpm", "signature"}
  BY ChainAdds
<1>7. /\ Grown /\ DOMAIN graph'.nodes = DOMAIN graph.nodes \cup DOMAIN n1 \cup DOMAIN ChainNodes(b)
      /\ graph'.edges = graph.edges \cup {} \cup ChainEdges(b, BuildId)
      /\ \E nodes : /\ Unmarked(nodes)
                    /\ \A id \in DOMAIN graph'.nodes \ DOMAIN graph.nodes :
                         id \in DOMAIN nodes /\ graph'.nodes[id] = nodes[id]
  BY <1>2, <1>4, <1>6, TwoAdditions
<1>8. TypeOK'
  <2>1. doc.tasks \in Seq(Range(doc.tasks))
    BY DocumentsAssumption DEF DocumentInv
  <2>2. next' \in 0 .. Len(doc'.tasks) + 1 /\ steps' \in 0 .. MaxSteps
    <3>1. Len(doc.tasks) \in Nat /\ doc' = doc /\ next' = 1 /\ steps' = steps
      BY <2>1 DEF AddBuild, Elsewhere
    <3> QED
      BY <3>1 DEF TypeOK
  <2>3. \A e \in graph'.edges : {e[1], e[2]} \subseteq DOMAIN graph'.nodes /\ Fits(e)
    <3> TAKE e \in graph'.edges
    <3>1. CASE e \in graph.edges
      BY <1>7, <3>1 DEF TypeOK, Fits
    <3>2. CASE e \in ChainEdges(b, BuildId)
      <4>1. {e[1], e[2]} \subseteq DOMAIN ChainNodes(b) \cup {BuildId} /\ Fits(e)
        BY <1>5, <3>2, ChainFits
      <4> QED
        BY <1>5, <1>7, <4>1
    <3> QED
      BY <1>7, <3>1, <3>2
  <2> QED
    BY <2>2, <2>3 DEF TypeOK, Fits
<1>9. UNCHANGED <<doc, build, verifiedOnce, lastVerdict, hashesVerified>>
  BY DEF AddBuild, Elsewhere
<1>10. DocumentInv' /\ HeadInv'
  BY <1>7, <1>9 DEF DocumentInv, HeadInv, n1
<1>11. LinksInv'
  <2>1. next = 0 /\ next' = next + 1 /\ UNCHANGED <<doc, build>>
    BY <1>9 DEF AddBuild
  <2>2. PICK builder : builder = BuildId
    OBVIOUS
  <2>3. PICK other : other = {}
    OBVIOUS
  <2>4. graph'.edges = graph.edges \cup ChainEdges(b, builder) \cup other
    BY <1>7, <2>2, <2>3
  <2>5. \/ next = 0 /\ b = build /\ builder = BuildId
        \/ next \in Tasks /\ b = TaskRef(next) /\ builder = TaskId(next)
    BY <1>1, <2>1, <2>2
  <2>6. \A e \in other : /\ e[3] \notin {"stored_in", "points_to", "built_by"}
                         /\ e[3] = "authenticated_by" => Kind(e[2]) # "cas"
                         /\ e[3] = "produces" => e[1] = TaskId(e[2][2])
    BY <2>3
  <2> QED
    BY <2>1, <2>4, <2>5, <2>6, ChainKeepsLinks
<1>12. ArtifactsInv'
  <2>1. Artifacts(graph') = Artifacts(graph)
    BY <1>3, <1>6, <1>7 DEF Artifacts
  <2>2. Artifacts(graph) = {}
    <3>1. 1 .. next - 1 = {}
      BY DEF AddBuild
    <3> QED
      BY <3>1 DEF ArtifactsInv
  <2> QED
    BY <2>1, <2>2 DEF ArtifactsInv
<1>13. FieldsInv' /\ MarksAreEarned'
  BY <1>7, <1>8, <1>9, GrowthKeepsMarks
<1> QED
  BY <1>8, <1>10, <1>11, <1>12, <1>13

\* One round of the loop: a chain, the task and what it produced.
LEMMA TaskStep ==
  ASSUME BuildInv, AddTask
  PROVE  BuildInv'
<1> USE DEF BuildInv
<1> DEFINE t      == next
           s      == TaskRef(t)
           rpms   == RpmsOf(t)
           srpms  == SrpmsOf(t)
           cas    == Hashed(t)
           n2     == TaskNodes(t)
           e2     == TaskEdges(t)
<1>1. t = next /\ s = TaskRef(next)
  OBVIOUS
<1>2. /\ t \in Tasks /\ next' = next + 1 /\ steps' = steps
      /\ UNCHANGED <<doc, build, verifiedOnce, lastVerdict, hashesVerified>>
  BY <1>1 DEF AddTask, Elsewhere
<1>3. graph' = With(With(graph, ChainNodes(s), ChainEdges(s, TaskId(t))), n2, e2)
  <2>1. graph' = With(WithChain(graph, Chain(s), s.cas, TaskId(t)), n2, e2)
    BY DEF AddTask
  <2> HIDE DEF n2, e2, s, t
  <2> QED
    BY <2>1, ChainAdds
<1> HIDE DEF t, s
<1>4. /\ Kind(TaskId(t)) = "task" /\ Kind(BuildId) = "build" /\ Kind(ReleaseId) = "release"
      /\ \A r \in rpms : Kind(r) = "rpm" /\ r[2] = t
      /\ \A r \in srpms : Kind(r) = "srpm" /\ r[2] = t
      /\ \A k \in cas : Kind(ArtifactCasId(HashOf(t, k))) = "artifact cas"
      /\ \A x : Kind(<<"signature", x>>) = "signature"
  BY DEF Kind, TaskId, BuildId, ReleaseId, RpmId, SrpmId, ArtifactCasId, RpmsOf, SrpmsOf
<1>5. DOMAIN n2 = {TaskId(t)} \cup rpms \cup srpms \cup {ArtifactCasId(HashOf(t, k)) : k \in cas}
  BY DEF TaskNodes
<1>6. \A id \in DOMAIN n2 :
        /\ Kind(id) \in {"task", "rpm", "srpm", "artifact cas"}
        /\ Kind(id) \in {"rpm", "srpm"} => id \in rpms \cup srpms /\ id[2] = t
        /\ Kind(id) = "rpm" => n2[id] = [hash |-> HashOf(t, id[3]), signed |-> None, clean |-> FALSE]
        /\ Kind(id) = "artifact cas" => n2[id] = Cas(id[2])
  <2>1. \A id \in DOMAIN n2 :
          /\ Kind(id) \in {"task", "rpm", "srpm", "artifact cas"}
          /\ Kind(id) \in {"rpm", "srpm"} => id \in rpms \cup srpms /\ id[2] = t
    <3> HIDE DEF n2, rpms, srpms, cas
    <3> QED
      BY <1>4, <1>5
  <2>2. \A id \in DOMAIN n2 :
          n2[id] = CASE Kind(id) = "rpm" -> [hash |-> HashOf(t, id[3]), signed |-> None, clean |-> FALSE]
                     [] Kind(id) = "artifact cas" -> Cas(id[2])
                     [] OTHER -> Plain
    BY DEF TaskNodes
  <2> HIDE DEF n2
  <2> QED
    BY <2>1, <2>2
<1>7. \A e \in e2 :
        /\ {e[1], e[2]} \subseteq DOMAIN n2 \cup DOMAIN graph.nodes /\ Fits(e)
        /\ e[3] \notin {"stored_in", "points_to", "built_by"}
        /\ e[3] = "authenticated_by" => Kind(e[2]) # "cas"
        /\ e[3] = "produces" => e[1] = TaskId(e[2][2])
  <2> SUFFICES ASSUME NEW e \in e2
               PROVE  /\ {e[1], e[2]} \subseteq DOMAIN n2 \cup DOMAIN graph.nodes /\ Fits(e)
                      /\ e[3] \notin {"stored_in", "points_to", "built_by"}
                      /\ e[3] = "authenticated_by" => Kind(e[2]) # "cas"
                      /\ e[3] = "produces" => e[1] = TaskId(e[2][2])
    OBVIOUS
  <2>1. next # 0
    BY <1>1, <1>2 DEF Tasks
  <2>2. /\ BuildId \in DOMAIN graph.nodes
        /\ \A x \in doc.signTasks : <<"signature", x>> \in DOMAIN graph.nodes
        /\ doc.released => ReleaseId \in DOMAIN graph.nodes
    BY <2>1 DEF HeadInv
  <2>3. \/ e = <<BuildId, TaskId(t), "derived_from">>
        \/ \E a \in rpms \cup srpms : e = <<TaskId(t), a, "produces">>
        \/ \E k \in cas : e = <<RpmId(t, k), ArtifactCasId(HashOf(t, k)), "authenticated_by">> /\ RpmId(t, k) \in rpms
        \/ \E r \in rpms : doc.released /\ e = <<r, ReleaseId, "released_to">>
        \/ \E r \in rpms, x \in doc.signTasks : e = <<r, <<"signature", x>>, "signed_as">>
    BY DEF TaskEdges, RpmsOf, Hashed
  <2> HIDE DEF e2, n2, rpms, srpms, cas
  <2>4. CASE e = <<BuildId, TaskId(t), "derived_from">>
    BY <1>4, <1>5, <2>2, <2>4 DEF Fits, Schema
  <2>5. CASE \E a \in rpms \cup srpms : e = <<TaskId(t), a, "produces">>
    <3>1. PICK a \in rpms \cup srpms : e = <<TaskId(t), a, "produces">>
      BY <2>5
    <3>2. Kind(a) \in {"rpm", "srpm"} /\ a[2] = t
      BY <1>4
    <3>3. Fits(e)
      BY <1>4, <3>1, <3>2 DEF Fits, Schema
    <3> QED
      BY <1>5, <3>1, <3>2, <3>3
  <2>6. CASE \E k \in cas : e = <<RpmId(t, k), ArtifactCasId(HashOf(t, k)), "authenticated_by">> /\ RpmId(t, k) \in rpms
    <3>1. PICK k \in cas : e = <<RpmId(t, k), ArtifactCasId(HashOf(t, k)), "authenticated_by">> /\ RpmId(t, k) \in rpms
      BY <2>6
    <3>2. Kind(RpmId(t, k)) = "rpm" /\ Kind(ArtifactCasId(HashOf(t, k))) = "artifact cas"
      BY <1>4, <3>1
    <3>3. Fits(e)
      BY <3>1, <3>2 DEF Fits, Schema
    <3> QED
      BY <1>5, <3>1, <3>2, <3>3
  <2>7. CASE \E r \in rpms : doc.released /\ e = <<r, ReleaseId, "released_to">>
    <3>1. PICK r \in rpms : doc.released /\ e = <<r, ReleaseId, "released_to">>
      BY <2>7
    <3>2. Kind(r) = "rpm" /\ ReleaseId \in DOMAIN graph.nodes /\ r \in DOMAIN n2
      BY <1>4, <1>5, <2>2, <3>1
    <3>3. Fits(e)
      BY <1>4, <3>1, <3>2 DEF Fits, Schema
    <3> QED
      BY <3>1, <3>2, <3>3
  <2>8. CASE \E r \in rpms, x \in doc.signTasks : e = <<r, <<"signature", x>>, "signed_as">>
    <3>1. PICK r \in rpms, x \in doc.signTasks : e = <<r, <<"signature", x>>, "signed_as">>
      BY <2>8
    <3>2. Kind(r) = "rpm" /\ <<"signature", x>> \in DOMAIN graph.nodes /\ r \in DOMAIN n2
      BY <1>4, <1>5, <2>2
    <3>3. Fits(e)
      BY <1>4, <3>1, <3>2 DEF Fits, Schema
    <3> QED
      BY <3>1, <3>2, <3>3
  <2> QED
    BY <2>3, <2>4, <2>5, <2>6, <2>7, <2>8
<1>8. \A a \in rpms \cup srpms : <<TaskId(t), a, "produces">> \in e2
  BY DEF TaskEdges
<1> HIDE DEF n2, e2, rpms, srpms, cas
<1>9. Unmarked(n2)
  <2>1. \A id \in DOMAIN n2 : Kind(id) = "rpm" => \E h : n2[id] = [hash |-> h, signed |-> None, clean |-> FALSE]
    BY <1>6
  <2>2. \A id \in DOMAIN n2 : IsCas(id) => \E h : n2[id] = Cas(h)
    BY <1>6 DEF IsCas
  <2>3. \A id \in DOMAIN n2 : Kind(id) # "signature"
    BY <1>6
  <2> QED
    BY <2>1, <2>2, <2>3 DEF Unmarked
<1>10. Unmarked(ChainNodes(s)) /\ \A id \in DOMAIN ChainNodes(s) : Kind(id) \notin {"rpm", "srpm", "signature"}
  BY ChainAdds
<1>11. /\ Grown /\ DOMAIN graph'.nodes = DOMAIN graph.nodes \cup DOMAIN ChainNodes(s) \cup DOMAIN n2
       /\ graph'.edges = graph.edges \cup ChainEdges(s, TaskId(t)) \cup e2
       /\ \A id \in DOMAIN n2 \ (DOMAIN graph.nodes \cup DOMAIN ChainNodes(s)) : graph'.nodes[id] = n2[id]
       /\ \E nodes : /\ Unmarked(nodes)
                     /\ \A id \in DOMAIN graph'.nodes \ DOMAIN graph.nodes :
                          id \in DOMAIN nodes /\ graph'.nodes[id] = nodes[id]
  BY <1>3, <1>9, <1>10, TwoAdditions
<1>12. TypeOK'
  <2>1. doc.tasks \in Seq(Range(doc.tasks))
    BY DocumentsAssumption DEF DocumentInv
  <2>2. next' \in 0 .. Len(doc'.tasks) + 1 /\ steps' \in 0 .. MaxSteps
    <3>1. Len(doc.tasks) \in Nat /\ next \in 1 .. Len(doc.tasks)
      BY <1>1, <1>2, <2>1 DEF Tasks
    <3> QED
      BY <1>2, <3>1 DEF TypeOK
  <2>3. \A e \in graph'.edges : {e[1], e[2]} \subseteq DOMAIN graph'.nodes /\ Fits(e)
    <3> TAKE e \in graph'.edges
    <3>1. CASE e \in graph.edges
      BY <1>11, <3>1 DEF TypeOK, Fits
    <3>2. CASE e \in ChainEdges(s, TaskId(t))
      <4>1. PICK builder : builder = TaskId(t)
        OBVIOUS
      <4>2. Kind(builder) \in {"build", "task"} /\ e \in ChainEdges(s, builder)
        BY <1>4, <3>2, <4>1
      <4>3. {e[1], e[2]} \subseteq DOMAIN ChainNodes(s) \cup {builder} /\ Fits(e)
        BY <4>2, ChainFits
      <4> QED
        BY <1>5, <1>11, <4>1, <4>3
    <3>3. CASE e \in e2
      BY <1>7, <1>11, <3>3
    <3> QED
      BY <1>11, <3>1, <3>2, <3>3
  <2> QED
    BY <2>2, <2>3 DEF TypeOK, Fits
<1>13. DocumentInv' /\ HeadInv'
  <2>1. next # 0
    BY <1>1, <1>2 DEF Tasks
  <2> QED
    BY <1>2, <1>11, <2>1 DEF DocumentInv, HeadInv, Grown
<1>14. LinksInv'
  <2>1. PICK builder, other : builder = TaskId(t) /\ other = e2
    OBVIOUS
  <2>2. graph'.edges = graph.edges \cup ChainEdges(s, builder) \cup other
    BY <1>11, <2>1
  <2>3. \/ next = 0 /\ s = build /\ builder = BuildId
        \/ next \in Tasks /\ s = TaskRef(next) /\ builder = TaskId(next)
    BY <1>1, <1>2, <2>1
  <2>4. \A e \in other : /\ e[3] \notin {"stored_in", "points_to", "built_by"}
                         /\ e[3] = "authenticated_by" => Kind(e[2]) # "cas"
                         /\ e[3] = "produces" => e[1] = TaskId(e[2][2])
    BY <1>7, <2>1
  <2> QED
    BY <1>2, <2>2, <2>3, <2>4, ChainKeepsLinks
<1>15. ArtifactsInv'
  <2>1. t \in Nat /\ t = next /\ 1 .. next' - 1 = (1 .. next - 1) \cup {t}
    <3>1. t \in Nat /\ t >= 1
      BY <1>2 DEF Tasks
    <3> QED
      BY <1>1, <1>2, <3>1
  <2> SUFFICES ASSUME NEW a \in Artifacts(graph')
               PROVE  /\ a[2] \in 1 .. next' - 1
                      /\ <<TaskId(a[2]), a, "produces">> \in graph'.edges
                      /\ Kind(a) = "rpm" => graph'.nodes[a].hash = doc.tasks[a[2]].rpms[a[3]]
    BY <1>2 DEF ArtifactsInv
  <2>2. CASE a \in DOMAIN graph.nodes
    <3>1. a \in Artifacts(graph) /\ graph'.nodes[a] = graph.nodes[a] /\ graph.edges \subseteq graph'.edges
      BY <1>11, <2>2 DEF Artifacts, Grown
    <3> QED
      BY <2>1, <3>1 DEF ArtifactsInv
  <2>3. CASE a \notin DOMAIN graph.nodes
    <3>1. Kind(a) \in {"rpm", "srpm"}
      BY DEF Artifacts
    <3>2. a \in DOMAIN n2 \ (DOMAIN graph.nodes \cup DOMAIN ChainNodes(s))
      BY <1>10, <1>11, <2>3, <3>1 DEF Artifacts
    <3>3. a \in rpms \cup srpms /\ a[2] = t /\ graph'.nodes[a] = n2[a]
      BY <1>6, <1>11, <3>1, <3>2
    <3>4. ASSUME Kind(a) = "rpm"
          PROVE  graph'.nodes[a].hash = HashOf(t, a[3])
      <4>1. n2[a] = [hash |-> HashOf(t, a[3]), signed |-> None, clean |-> FALSE]
        BY <1>6, <3>2, <3>4
      <4> QED
        BY <3>3, <4>1
    <3>5. HashOf(t, a[3]) = doc.tasks[a[2]].rpms[a[3]]
      BY <3>3 DEF HashOf
    <3> QED
      BY <1>1, <1>8, <1>11, <2>1, <3>3, <3>4, <3>5
  <2> QED
    BY <2>2, <2>3
<1>16. FieldsInv' /\ MarksAreEarned'
  BY <1>2, <1>11, <1>12, GrowthKeepsMarks
<1> QED
  BY <1>12, <1>13, <1>14, <1>15, <1>16

\* The marks of nodes that have not changed stay earned when verdicts are added.
LEMMA CasStep ==
  ASSUME BuildInv, NEW verified, VerifyCas(verified)
  PROVE  BuildInv'
<1> USE DEF BuildInv
<1>1. /\ UNCHANGED <<doc, build, next, verifiedOnce, lastVerdict>> /\ steps' = steps + 1 /\ steps < MaxSteps
      /\ verified \subseteq DOMAIN graph.nodes /\ \A id \in verified : IsCas(id)
      /\ hashesVerified' = hashesVerified \cup {graph.nodes[id].hash : id \in verified}
  BY DEF VerifyCas, Step, HasCasEvidence
<1>2. /\ DOMAIN graph' = {"nodes", "edges"} /\ graph'.edges = graph.edges
      /\ graph'.nodes = [id \in DOMAIN graph.nodes |->
           IF id \in verified THEN [graph.nodes[id] EXCEPT !.verified = TRUE] ELSE graph.nodes[id]]
  BY DEF VerifyCas, FieldsInv
<1>3. /\ DOMAIN graph'.nodes = DOMAIN graph.nodes
      /\ \A id \in DOMAIN graph.nodes \ verified : graph'.nodes[id] = graph.nodes[id]
      /\ \A id \in verified : graph'.nodes[id] = [graph.nodes[id] EXCEPT !.verified = TRUE]
  BY <1>1, <1>2
<1>4. \A id \in verified : /\ DOMAIN graph'.nodes[id] = {"hash", "verified"}
                           /\ graph'.nodes[id].hash = graph.nodes[id].hash
                           /\ graph'.nodes[id].hash \in hashesVerified'
  <2> TAKE id \in verified
  <2>1. DOMAIN graph.nodes[id] = {"hash", "verified"}
    BY <1>1 DEF FieldsInv
  <2> QED
    BY <1>1, <1>3, <2>1
<1>5. \A id \in verified : Kind(id) \notin {"rpm", "srpm", "signature"}
  BY <1>1 DEF IsCas
<1>6. TypeOK'
  <2>1. steps' \in 0 .. MaxSteps
    BY <1>1, StepsAssumption DEF TypeOK
  <2> QED
    BY <1>1, <1>2, <1>3, <2>1 DEF TypeOK
<1>7. DocumentInv' /\ HeadInv' /\ LinksInv' /\ ArtifactsInv'
  <2>1. \A a \in Artifacts(graph') : a \in DOMAIN graph.nodes /\ (Kind(a) = "rpm" => graph'.nodes[a].hash = graph.nodes[a].hash)
    BY <1>3, <1>5 DEF Artifacts
  <2> QED
    BY <1>1, <1>2, <1>3, <2>1, EvidenceKeepsLinks
<1>8. FieldsInv'
  <2>1. Rpms(graph') = Rpms(graph)
    BY <1>3 DEF Rpms
  <2>2. \A id \in DOMAIN graph'.nodes :
          /\ Kind(id) = "rpm" => DOMAIN graph'.nodes[id] = {"hash", "signed", "clean"}
          /\ Kind(id) = "signature" => DOMAIN graph'.nodes[id] = {"verified"}
          /\ IsCas(id) => DOMAIN graph'.nodes[id] = {"hash", "verified"}
    BY <1>3, <1>4, <1>5 DEF FieldsInv
  <2> QED
    BY <1>1, <1>2, <2>1, <2>2 DEF FieldsInv
<1>9. MarksAreEarned'
  <2>1. ASSUME NEW rpm \in Rpms(graph')
        PROVE  graph'.nodes[rpm].signed = (IF rpm \in DOMAIN lastVerdict THEN lastVerdict[rpm] = "verified" ELSE None)
    <3>1. rpm \in Rpms(graph) /\ graph'.nodes[rpm] = graph.nodes[rpm]
      BY <1>3, <1>5 DEF Rpms
    <3> QED
      BY <3>1 DEF MarksAreEarned
  <2>2. ASSUME NEW id \in DOMAIN graph'.nodes
        PROVE  /\ Kind(id) = "signature" /\ graph'.nodes[id].verified =>
                    Incoming(graph', id, "signed_as") \cap verifiedOnce # {}
               /\ IsCas(id) /\ graph'.nodes[id].verified => graph'.nodes[id].hash \in hashesVerified'
    <3>1. Incoming(graph', id, "signed_as") = Incoming(graph, id, "signed_as")
      BY <1>2 DEF Incoming
    <3>2. CASE id \in verified
      BY <1>4, <1>5, <3>2
    <3>3. CASE id \notin verified
      BY <1>1, <1>3, <3>1, <3>3 DEF MarksAreEarned
    <3> QED
      BY <3>2, <3>3
  <2> QED
    BY <1>1, <1>6, <2>1, <2>2 DEF MarksAreEarned
<1> QED
  BY <1>6, <1>7, <1>8, <1>9

\* A verdict on an RPM is the last one on it; a signature that is marked signs an RPM
\* that has just been verified.
LEMMA SignatureStep ==
  ASSUME BuildInv, NEW verdict, DOMAIN verdict \subseteq Rpms(graph), VerifySignatures(verdict)
  PROVE  BuildInv'
<1> USE DEF BuildInv
<1> DEFINE told   == {r \in DOMAIN verdict : verdict[r] # "unavailable"}
           marked == MarkedSignatures(verdict)
<1>1. /\ UNCHANGED <<doc, build, next, hashesVerified>> /\ steps' = steps + 1 /\ steps < MaxSteps
      /\ verifiedOnce' = verifiedOnce \cup {r \in told : verdict[r] = "verified"}
      /\ lastVerdict' = [r \in DOMAIN lastVerdict \cup told |-> IF r \in told THEN verdict[r] ELSE lastVerdict[r]]
  BY DEF VerifySignatures, Step
<1>2. /\ DOMAIN graph' = {"nodes", "edges"} /\ graph'.edges = graph.edges
      /\ graph'.nodes = [id \in DOMAIN graph.nodes |->
           IF id \in told THEN [graph.nodes[id] EXCEPT !.signed = (verdict[id] = "verified")]
           ELSE IF id \in marked THEN [graph.nodes[id] EXCEPT !.verified = TRUE]
           ELSE graph.nodes[id]]
  BY DEF VerifySignatures, FieldsInv
<1>3. \A id \in told : id \in DOMAIN graph.nodes /\ Kind(id) = "rpm"
  BY DEF Rpms
<1>4. \A id \in marked : /\ id \in DOMAIN graph.nodes /\ Kind(id) = "signature"
                         /\ \E r \in Incoming(graph, id, "signed_as") : r \in told /\ verdict[r] = "verified"
  <2> SUFFICES ASSUME NEW id \in marked
               PROVE  /\ id \in DOMAIN graph.nodes /\ Kind(id) = "signature"
                      /\ \E r \in Incoming(graph, id, "signed_as") : r \in told /\ verdict[r] = "verified"
    OBVIOUS
  <2>1. PICK r \in DOMAIN verdict : verdict[r] = "verified" /\ id \in Outgoing(graph, r, "signed_as")
    BY DEF MarkedSignatures
  <2>2. PICK e \in graph.edges : e[1] = r /\ e[2] = id /\ e[3] = "signed_as"
    BY <2>1 DEF Outgoing
  <2>3. <<Kind(e[1]), Kind(e[2])>> \in Schema["signed_as"] /\ e[2] \in DOMAIN graph.nodes
    BY <2>2 DEF TypeOK
  <2>4. <<Kind(e[1]), Kind(e[2])>> = <<"rpm", "signature">>
    BY <2>3 DEF Schema
  <2>5. r \in told /\ r \in Incoming(graph, id, "signed_as")
    BY <2>1, <2>2 DEF Incoming
  <2> QED
    BY <2>1, <2>2, <2>3, <2>4, <2>5
<1>5. \A r \in told : r \in DOMAIN verdict
  OBVIOUS
<1> HIDE DEF told, marked
<1>6. /\ DOMAIN graph'.nodes = DOMAIN graph.nodes
      /\ \A id \in DOMAIN graph.nodes \ (told \cup marked) : graph'.nodes[id] = graph.nodes[id]
      /\ \A id \in told : graph'.nodes[id] = [graph.nodes[id] EXCEPT !.signed = (verdict[id] = "verified")]
      /\ \A id \in marked : graph'.nodes[id] = [graph.nodes[id] EXCEPT !.verified = TRUE]
  BY <1>2, <1>3, <1>4
<1>7. \A id \in told : /\ DOMAIN graph'.nodes[id] = {"hash", "signed", "clean"}
                       /\ graph'.nodes[id].hash = graph.nodes[id].hash
                       /\ graph'.nodes[id].signed = (verdict[id] = "verified")
  <2> TAKE id \in told
  <2>1. DOMAIN graph.nodes[id] = {"hash", "signed", "clean"}
    BY <1>3 DEF FieldsInv
  <2> QED
    BY <1>6, <2>1
<1>8. \A id \in marked : DOMAIN graph'.nodes[id] = {"verified"}
  <2> TAKE id \in marked
  <2>1. DOMAIN graph.nodes[id] = {"verified"}
    BY <1>4 DEF FieldsInv
  <2> QED
    BY <1>6, <2>1
<1>9. TypeOK'
  <2>1. steps' \in 0 .. MaxSteps
    BY <1>1, StepsAssumption DEF TypeOK
  <2> QED
    BY <1>1, <1>2, <1>6, <2>1 DEF TypeOK
<1>10. DocumentInv' /\ HeadInv' /\ LinksInv' /\ ArtifactsInv'
  <2>1. \A a \in Artifacts(graph') : a \in DOMAIN graph.nodes /\ (Kind(a) = "rpm" => graph'.nodes[a].hash = graph.nodes[a].hash)
    BY <1>4, <1>6, <1>7 DEF Artifacts
  <2> QED
    BY <1>1, <1>2, <1>6, <2>1, EvidenceKeepsLinks
<1>11. Rpms(graph') = Rpms(graph)
  BY <1>6 DEF Rpms
<1>12. FieldsInv'
  <2>1. \A id \in DOMAIN graph'.nodes :
          /\ Kind(id) = "rpm" => DOMAIN graph'.nodes[id] = {"hash", "signed", "clean"}
          /\ Kind(id) = "signature" => DOMAIN graph'.nodes[id] = {"verified"}
          /\ IsCas(id) => DOMAIN graph'.nodes[id] = {"hash", "verified"}
    <3> TAKE id \in DOMAIN graph'.nodes
    <3>1. CASE id \in told
      BY <1>3, <1>7, <3>1 DEF IsCas
    <3>2. CASE id \in marked
      BY <1>4, <1>8, <3>2 DEF IsCas
    <3>3. CASE id \notin told \cup marked
      BY <1>6, <3>3 DEF FieldsInv
    <3> QED
      BY <3>1, <3>2, <3>3
  <2>2. DOMAIN lastVerdict' \subseteq Rpms(graph)
    BY <1>1, <1>3 DEF FieldsInv, Rpms
  <2> QED
    BY <1>2, <1>11, <2>1, <2>2 DEF FieldsInv
<1>13. MarksAreEarned'
  <2>1. ASSUME NEW rpm \in Rpms(graph')
        PROVE  graph'.nodes[rpm].signed = (IF rpm \in DOMAIN lastVerdict' THEN lastVerdict'[rpm] = "verified" ELSE None)
    <3>1. rpm \in DOMAIN graph.nodes /\ Kind(rpm) = "rpm" /\ rpm \notin marked
      BY <1>4, <1>6 DEF Rpms
    <3>2. CASE rpm \in told
      <4>1. rpm \in DOMAIN lastVerdict' /\ lastVerdict'[rpm] = verdict[rpm]
        BY <1>1, <3>2
      <4> QED
        BY <1>7, <3>2, <4>1
    <3>3. CASE rpm \notin told
      <4>1. graph'.nodes[rpm] = graph.nodes[rpm]
        BY <1>6, <3>1, <3>3
      <4>2. rpm \in DOMAIN lastVerdict' <=> rpm \in DOMAIN lastVerdict
        BY <1>1, <3>3
      <4>3. rpm \in DOMAIN lastVerdict => lastVerdict'[rpm] = lastVerdict[rpm]
        BY <1>1, <3>3
      <4>4. graph.nodes[rpm].signed = (IF rpm \in DOMAIN lastVerdict THEN lastVerdict[rpm] = "verified" ELSE None)
        BY <3>1 DEF MarksAreEarned, Rpms
      <4> QED
        BY <4>1, <4>2, <4>3, <4>4
    <3> QED
      BY <3>2, <3>3
  <2>2. ASSUME NEW id \in DOMAIN graph'.nodes
        PROVE  /\ Kind(id) = "signature" /\ graph'.nodes[id].verified =>
                    Incoming(graph', id, "signed_as") \cap verifiedOnce' # {}
               /\ IsCas(id) /\ graph'.nodes[id].verified => graph'.nodes[id].hash \in hashesVerified'
    <3>1. Incoming(graph', id, "signed_as") = Incoming(graph, id, "signed_as")
      BY <1>2 DEF Incoming
    <3>2. CASE id \in told
      BY <1>3, <3>2 DEF IsCas
    <3>3. CASE id \in marked
      <4>1. PICK r \in Incoming(graph, id, "signed_as") : r \in told /\ verdict[r] = "verified"
        BY <1>4, <3>3
      <4>2. r \in verifiedOnce'
        BY <1>1, <4>1
      <4>3. ~ IsCas(id)
        BY <1>4, <3>3 DEF IsCas
      <4> QED
        BY <3>1, <4>1, <4>2, <4>3
    <3>4. CASE id \notin told \cup marked
      <4>1. graph'.nodes[id] = graph.nodes[id] /\ id \in DOMAIN graph.nodes
        BY <1>6, <3>4
      <4>2. verifiedOnce \subseteq verifiedOnce'
        BY <1>1
      <4> QED
        BY <1>1, <3>1, <4>1, <4>2 DEF MarksAreEarned
    <3> QED
      BY <3>2, <3>3, <3>4
  <2> QED
    BY <1>9, <2>1, <2>2 DEF MarksAreEarned
<1> QED
  BY <1>9, <1>10, <1>12, <1>13

\* A node and an edge more, wherever the edge leads.
LEMMA OneMore ==
  ASSUME NEW node, NEW edge, graph' = With(graph, [id \in {node} |-> Plain], {edge})
  PROVE  /\ DOMAIN graph' = {"nodes", "edges"}
         /\ DOMAIN graph'.nodes = DOMAIN graph.nodes \cup {node}
         /\ graph'.edges = graph.edges \cup {edge}
         /\ \A id \in DOMAIN graph.nodes : graph'.nodes[id] = graph.nodes[id]
         /\ \A id \in DOMAIN graph'.nodes \ DOMAIN graph.nodes : id = node /\ graph'.nodes[id] = Plain
  BY DEF With

\* Evidence beside the chains: a node, and an edge from an RPM to it.
LEMMA AttachStep ==
  ASSUME BuildInv, NEW rpm \in Rpms(graph), NEW node, NEW relation,
         \/ Kind(node) = "sbom" /\ relation = "described_by"
         \/ Kind(node) = "errata" /\ relation = "fixes",
         Step, UNCHANGED <<verifiedOnce, lastVerdict, hashesVerified>>,
         graph' = With(graph, [id \in {node} |-> Plain], {<<rpm, node, relation>>})
  PROVE  BuildInv'
<1> USE DEF BuildInv
<1>1. UNCHANGED <<doc, build, next>> /\ steps' = steps + 1 /\ steps < MaxSteps
  BY DEF Step
<1>2. PICK edge : edge = <<rpm, node, relation>>
  OBVIOUS
<1>3. edge[1] = rpm /\ edge[2] = node /\ edge[3] = relation
  BY <1>2
<1>4. graph' = With(graph, [id \in {node} |-> Plain], {edge})
  BY <1>2
<1>5. /\ DOMAIN graph' = {"nodes", "edges"}
      /\ DOMAIN graph'.nodes = DOMAIN graph.nodes \cup {node}
      /\ graph'.edges = graph.edges \cup {edge}
      /\ \A id \in DOMAIN graph.nodes : graph'.nodes[id] = graph.nodes[id]
      /\ \A id \in DOMAIN graph'.nodes \ DOMAIN graph.nodes : id = node /\ graph'.nodes[id] = Plain
  BY <1>4, OneMore
<1>6. Kind(rpm) = "rpm" /\ rpm \in DOMAIN graph.nodes
  BY DEF Rpms
<1>7. relation \in {"described_by", "fixes"} /\ Kind(node) \in {"sbom", "errata"}
  OBVIOUS
<1>8. Fits(edge)
  <2>1. CASE Kind(node) = "sbom" /\ relation = "described_by"
    BY <1>3, <1>6, <2>1 DEF Fits, Schema
  <2>2. CASE Kind(node) = "errata" /\ relation = "fixes"
    BY <1>3, <1>6, <2>2 DEF Fits, Schema
  <2> QED
    BY <2>1, <2>2
<1>9. TypeOK'
  <2>1. steps' \in 0 .. MaxSteps
    BY <1>1, StepsAssumption DEF TypeOK
  <2>2. \A e \in graph'.edges : {e[1], e[2]} \subseteq DOMAIN graph'.nodes /\ Fits(e)
    <3> TAKE e \in graph'.edges
    <3>1. CASE e \in graph.edges
      BY <1>5, <3>1 DEF TypeOK, Fits
    <3>2. CASE e = edge
      BY <1>3, <1>5, <1>6, <1>8, <3>2
    <3> QED
      BY <1>5, <3>1, <3>2
  <2> QED
    BY <1>1, <2>1, <2>2 DEF TypeOK, Fits
<1>10. DocumentInv' /\ HeadInv' /\ LinksInv' /\ ArtifactsInv'
  <2>1. \A a \in Artifacts(graph') : a \in DOMAIN graph.nodes /\ (Kind(a) = "rpm" => graph'.nodes[a].hash = graph.nodes[a].hash)
    <3> TAKE a \in Artifacts(graph')
    <3>1. a \in DOMAIN graph'.nodes /\ Kind(a) \in {"rpm", "srpm"}
      BY DEF Artifacts
    <3>2. a # node
      BY <1>7, <3>1
    <3>3. a \in DOMAIN graph.nodes
      BY <1>5, <3>1, <3>2
    <3> QED
      BY <1>5, <3>3
  <2>2. \A e \in graph'.edges \ graph.edges : e[3] \in {"described_by", "fixes"}
    BY <1>3, <1>5, <1>7
  <2> QED
    BY <1>1, <1>5, <2>1, <2>2, EvidenceKeepsLinks
<1>11. FieldsInv' /\ MarksAreEarned'
  <2>1. PICK nodes : nodes = [id \in {node} |-> Plain]
    OBVIOUS
  <2>2. Unmarked(nodes)
    BY <1>7, <2>1 DEF Unmarked, IsCas
  <2>3. \A id \in DOMAIN graph'.nodes \ DOMAIN graph.nodes : id \in DOMAIN nodes /\ graph'.nodes[id] = nodes[id]
    BY <1>5, <2>1
  <2>4. Grown
    BY <1>5 DEF Grown
  <2> QED
    BY <1>9, <2>2, <2>3, <2>4, GrowthKeepsMarks
<1> QED
  BY <1>9, <1>10, <1>11

\* A clean answer on an RPM is one of its fields, and no mark.
LEMMA CleanStep ==
  ASSUME BuildInv, NEW rpm \in Rpms(graph), Step, UNCHANGED <<verifiedOnce, lastVerdict, hashesVerified>>,
         graph' = [graph EXCEPT !.nodes[rpm].clean = TRUE]
  PROVE  BuildInv'
<1> USE DEF BuildInv
<1>1. UNCHANGED <<doc, build, next>> /\ steps' = steps + 1 /\ steps < MaxSteps
  BY DEF Step
<1>2. Kind(rpm) = "rpm" /\ rpm \in DOMAIN graph.nodes
  BY DEF Rpms
<1>3. /\ DOMAIN graph' = {"nodes", "edges"} /\ graph'.edges = graph.edges
      /\ graph'.nodes = [graph.nodes EXCEPT ![rpm] = [graph.nodes[rpm] EXCEPT !.clean = TRUE]]
  BY DEF FieldsInv
<1>4. /\ DOMAIN graph'.nodes = DOMAIN graph.nodes
      /\ \A id \in DOMAIN graph.nodes \ {rpm} : graph'.nodes[id] = graph.nodes[id]
      /\ graph'.nodes[rpm] = [graph.nodes[rpm] EXCEPT !.clean = TRUE]
  BY <1>2, <1>3
<1>5. /\ DOMAIN graph'.nodes[rpm] = {"hash", "signed", "clean"}
      /\ graph'.nodes[rpm].hash = graph.nodes[rpm].hash
      /\ graph'.nodes[rpm].signed = graph.nodes[rpm].signed
  <2>1. DOMAIN graph.nodes[rpm] = {"hash", "signed", "clean"}
    BY <1>2 DEF FieldsInv
  <2> QED
    BY <1>4, <2>1
<1>6. TypeOK'
  <2>1. steps' \in 0 .. MaxSteps
    BY <1>1, StepsAssumption DEF TypeOK
  <2> QED
    BY <1>1, <1>3, <1>4, <2>1 DEF TypeOK
<1>7. DocumentInv' /\ HeadInv' /\ LinksInv' /\ ArtifactsInv'
  <2>1. \A a \in Artifacts(graph') : a \in DOMAIN graph.nodes /\ (Kind(a) = "rpm" => graph'.nodes[a].hash = graph.nodes[a].hash)
    BY <1>4, <1>5 DEF Artifacts
  <2> QED
    BY <1>1, <1>3, <1>4, <2>1, EvidenceKeepsLinks
<1>8. FieldsInv'
  <2>1. \A id \in DOMAIN graph'.nodes :
          /\ Kind(id) = "rpm" => DOMAIN graph'.nodes[id] = {"hash", "signed", "clean"}
          /\ Kind(id) = "signature" => DOMAIN graph'.nodes[id] = {"verified"}
          /\ IsCas(id) => DOMAIN graph'.nodes[id] = {"hash", "verified"}
    BY <1>2, <1>4, <1>5 DEF FieldsInv, IsCas
  <2> QED
    BY <1>3, <1>4, <2>1 DEF FieldsInv, Rpms
<1>9. MarksAreEarned'
  <2>1. ASSUME NEW r \in Rpms(graph')
        PROVE  graph'.nodes[r].signed = (IF r \in DOMAIN lastVerdict THEN lastVerdict[r] = "verified" ELSE None)
    <3>1. r \in Rpms(graph) /\ graph'.nodes[r].signed = graph.nodes[r].signed
      BY <1>4, <1>5 DEF Rpms
    <3> QED
      BY <3>1 DEF MarksAreEarned
  <2>2. ASSUME NEW id \in DOMAIN graph'.nodes
        PROVE  /\ Kind(id) = "signature" /\ graph'.nodes[id].verified =>
                    Incoming(graph', id, "signed_as") \cap verifiedOnce # {}
               /\ IsCas(id) /\ graph'.nodes[id].verified => graph'.nodes[id].hash \in hashesVerified
    <3>1. Incoming(graph', id, "signed_as") = Incoming(graph, id, "signed_as")
      BY <1>3 DEF Incoming
    <3>2. CASE id = rpm
      BY <1>2, <3>2 DEF IsCas
    <3>3. CASE id # rpm
      BY <1>4, <3>1, <3>3 DEF MarksAreEarned
    <3> QED
      BY <3>2, <3>3
  <2> QED
    BY <1>6, <2>1, <2>2 DEF MarksAreEarned
<1> QED
  BY <1>6, <1>7, <1>8, <1>9

----------------------------------------------------------------------------
(* The theorems *)

\* Before the first step there is a document with a package, and no graph.
LEMMA InitStep == Init => BuildInv
<1> SUFFICES ASSUME Init
             PROVE  BuildInv
  OBVIOUS
<1> USE DEF BuildInv
<1>1. /\ doc \in Documents /\ build = ParseBuild(doc.tasks) /\ build.package # None
      /\ next = 0 /\ steps = 0 /\ verifiedOnce = {} /\ DOMAIN lastVerdict = {} /\ hashesVerified = {}
      /\ DOMAIN graph = {"nodes", "edges"} /\ DOMAIN graph.nodes = {} /\ graph.edges = {}
  BY DEF Init
<1>2. DocumentInv /\ HeadInv
  BY <1>1 DEF DocumentInv, HeadInv
<1>3. Len(doc.tasks) \in Nat
  BY <1>1, DocumentsAssumption
<1>4. TypeOK
  BY <1>1, <1>3, StepsAssumption DEF TypeOK
<1>5. Sources = {}
  BY <1>1 DEF Sources
<1>6. LinksInv
  BY <1>1, <1>5 DEF LinksInv
<1>7. ArtifactsInv /\ FieldsInv
  BY <1>1 DEF ArtifactsInv, FieldsInv, Artifacts
<1>8. MarksAreEarned
  BY <1>1, <1>4 DEF MarksAreEarned, Rpms
<1> QED
  BY <1>2, <1>4, <1>6, <1>7, <1>8

\* What the state reads of the variables is what BuildInv reads.
LEMMA StutterStep ==
  ASSUME BuildInv, UNCHANGED vars
  PROVE  BuildInv'
<1> USE DEF BuildInv
<1>1. /\ doc' = doc /\ build' = build /\ graph' = graph /\ next' = next /\ steps' = steps
      /\ verifiedOnce' = verifiedOnce /\ lastVerdict' = lastVerdict /\ hashesVerified' = hashesVerified
  BY DEF vars
<1>2. TypeOK'
  BY <1>1 DEF TypeOK
<1>3. DocumentInv' /\ HeadInv' /\ LinksInv' /\ ArtifactsInv'
  BY <1>1, EvidenceKeepsLinks DEF Artifacts
<1>4. FieldsInv' /\ MarksAreEarned'
  BY <1>1, <1>2 DEF FieldsInv, MarksAreEarned
<1> QED
  BY <1>2, <1>3, <1>4

\* Every step of the builder and of the evidence keeps the chains, the artifacts and the marks.
LEMMA EveryStep == BuildInv /\ [Next]_vars => BuildInv'
<1> SUFFICES ASSUME BuildInv, [Next]_vars
             PROVE  BuildInv'
  OBVIOUS
<1>1. CASE AddBuild
  BY <1>1, BuildStep
<1>2. CASE AddTask
  BY <1>2, TaskStep
<1>3. ASSUME NEW verified, VerifyCas(verified)
      PROVE  BuildInv'
  BY <1>3, CasStep
<1>4. ASSUME NEW rpms \in SUBSET Rpms(graph), NEW verdict \in [rpms -> Verdict], VerifySignatures(verdict)
      PROVE  BuildInv'
  <2>1. DOMAIN verdict \subseteq Rpms(graph)
    OBVIOUS
  <2> QED
    BY <1>4, <2>1, SignatureStep
<1>5. ASSUME NEW rpm \in Rpms(graph), AttachSbom(rpm)
      PROVE  BuildInv'
  <2>1. PICK node : node = <<"sbom">>
    OBVIOUS
  <2>2. Kind(node) = "sbom"
    BY <2>1 DEF Kind
  <2>3. /\ Step /\ UNCHANGED <<verifiedOnce, lastVerdict, hashesVerified>>
        /\ graph' = With(graph, [id \in {node} |-> Plain], {<<rpm, node, "described_by">>})
    BY <1>5, <2>1 DEF AttachSbom
  <2> QED
    BY <2>2, <2>3, AttachStep
<1>6. ASSUME NEW rpm \in Rpms(graph), AttachErrata(rpm, TRUE)
      PROVE  BuildInv'
  <2>1. PICK node : node = <<"errata">>
    OBVIOUS
  <2>2. Kind(node) = "errata"
    BY <2>1 DEF Kind
  <2>3. /\ Step /\ UNCHANGED <<verifiedOnce, lastVerdict, hashesVerified>>
        /\ graph' = With(graph, [id \in {node} |-> Plain], {<<rpm, node, "fixes">>})
    BY <1>6, <2>1 DEF AttachErrata
  <2> QED
    BY <2>2, <2>3, AttachStep
<1>7. ASSUME NEW rpm \in Rpms(graph), AttachErrata(rpm, FALSE)
      PROVE  BuildInv'
  <2>1. /\ Step /\ UNCHANGED <<verifiedOnce, lastVerdict, hashesVerified>>
        /\ graph' = [graph EXCEPT !.nodes[rpm].clean = TRUE]
    BY <1>7 DEF AttachErrata
  <2> QED
    BY <2>1, CleanStep
<1>8. CASE UNCHANGED vars
  BY <1>8, StutterStep
<1> QED
  BY <1>1, <1>2, <1>3, <1>4, <1>5, <1>6, <1>7, <1>8 DEF Next

\* In every state the graph of the build and its evidence satisfy BuildInv.
THEOREM Invariance == Spec => []BuildInv
  BY InitStep, EveryStep, PTL DEF Spec

\* Whatever the build, its path attributes an artifact to the source of its own task,
\* and its lineage to one source only (_graph_from_albs_api_build, source_to_artifact_path).
THEOREM OriginCorrect == Spec => []OriginIsOwn
<1>1. BuildInv => OriginIsOwn
  BY PathsAreOwn, LineageIsOne DEF OriginIsOwn
<1> QED
  BY <1>1, Invariance, PTL

\* Whatever order CAS and signatures are verified in, and however often, no mark is there
\* that a successful verification has not set (verify_graph_cas, verify_graph_signatures).
THEOREM MarksCorrect == Spec => []MarksAreEarned
<1>1. BuildInv => MarksAreEarned
  BY DEF BuildInv
<1> QED
  BY <1>1, Invariance, PTL

----------------------------------------------------------------------------
(* Sequences that are built step by step *)

\* What holds of 0, and of n if it holds of n - 1, holds of every number up to N.
LEMMA Upto ==
  ASSUME NEW N \in Nat, NEW S, 0 \in S, \A n \in 1 .. N : n - 1 \in S => n \in S
  PROVE  0 .. N \subseteq S
<1> DEFINE Out == (0 .. N) \ S
<1> SUFFICES ASSUME Out # {} PROVE FALSE
  OBVIOUS
<1>1. PICK m \in Out : \A n \in Out : m <= n
  <2>1. Out \in SUBSET Nat
    OBVIOUS
  <2> HIDE DEF Out
  <2> QED BY <2>1, Least
<1>2. m # 0 /\ m - 1 \in 0 .. N /\ m - 1 \notin Out
  BY <1>1
<1> QED BY <1>1, <1>2

\* A value that is carried from step to step: what a recursive function over 0 .. N is.
Carries(f, N, X, a, step) ==
  f \in [0 .. N -> X] /\ f[0] = a /\ \A n \in 1 .. N : f[n] = step[n][f[n - 1]]

LEMMA Carried ==
  ASSUME NEW N \in Nat, NEW X, NEW a \in X, NEW step \in [1 .. N -> [X -> X]]
  PROVE  \E f : Carries(f, N, X, a, step)
<1> DEFINE Is(f, n) == f[0] = a /\ \A k \in 1 .. n : f[k] = step[k][f[k - 1]]
           S == {n \in 0 .. N : \E f \in [0 .. n -> X] : Is(f, n)}
<1>1. 0 \in S
  <2> DEFINE f == [k \in 0 .. 0 |-> a]
  <2>1. f \in [0 .. 0 -> X] /\ f[0] = a /\ 1 .. 0 = {}
    OBVIOUS
  <2> HIDE DEF f
  <2>2. Is(f, 0)
    BY <2>1
  <2> QED BY <2>1, <2>2
<1>2. ASSUME NEW n \in 1 .. N, n - 1 \in S
      PROVE  n \in S
  <2>1. PICK f \in [0 .. n - 1 -> X] : Is(f, n - 1)
    BY <1>2
  <2> DEFINE g == [k \in 0 .. n |-> IF k = n THEN step[n][f[n - 1]] ELSE f[k]]
  <2>2. g \in [0 .. n -> X]
    <3>1. n - 1 \in 0 .. n - 1 /\ f[n - 1] \in X /\ step[n] \in [X -> X]
      BY <2>1
    <3>2. step[n][f[n - 1]] \in X
      BY <3>1
    <3>3. \A k \in 0 .. n : k # n => k \in 0 .. n - 1
      OBVIOUS
    <3> QED BY <2>1, <3>2, <3>3
  <2>3. Is(g, n)
    <3>1. g[0] = a
      BY <2>1
    <3>2. ASSUME NEW k \in 1 .. n
          PROVE  g[k] = step[k][g[k - 1]]
      <4>1. g[k - 1] = f[k - 1]
        <5>1. k - 1 \in 0 .. n /\ k - 1 # n
          OBVIOUS
        <5> QED BY <5>1
      <4>2. CASE k = n
        <5>1. g[n] = step[n][f[n - 1]]
          OBVIOUS
        <5> HIDE DEF g
        <5> QED BY <4>1, <4>2, <5>1
      <4>3. CASE k # n
        <5>1. k \in 1 .. n - 1 /\ g[k] = f[k]
          BY <4>3
        <5> QED BY <2>1, <4>1, <5>1
      <4> QED BY <4>2, <4>3
    <3> HIDE DEF g
    <3> QED BY <3>1, <3>2
  <2> HIDE DEF g, Is
  <2> QED BY <2>2, <2>3
<1>3. N \in S
  <2> HIDE DEF S
  <2>1. 0 .. N \subseteq S
    BY <1>1, <1>2, Upto
  <2> QED BY <2>1
<1> QED BY <1>3 DEF Carries

\* The numbers of a finite set, each once.
LEMMA AscendingIs ==
  ASSUME NEW ns \in SUBSET Nat, IsFiniteSet(ns)
  PROVE  /\ Ascending(ns) \in Seq(ns) /\ Len(Ascending(ns)) = Cardinality(ns)
         /\ \A n \in ns : \E k \in DOMAIN Ascending(ns) : Ascending(ns)[k] = n
<1> DEFINE N == Cardinality(ns)
           upto(n) == {m \in ns : m <= n}
           rank == [n \in ns |-> Cardinality(upto(n))]
<1>1. N \in Nat
  BY FS_CardinalityType
<1>2. ASSUME NEW n \in ns
      PROVE  IsFiniteSet(upto(n)) /\ rank[n] \in 1 .. N
  <2>1. upto(n) \in SUBSET ns /\ n \in upto(n)
    OBVIOUS
  <2>2. IsFiniteSet(upto(n)) /\ Cardinality(upto(n)) <= N
    BY <2>1, FS_Subset
  <2>3. Cardinality(upto(n)) \in Nat /\ Cardinality(upto(n)) # 0
    BY <2>1, <2>2, FS_CardinalityType, FS_EmptySet
  <2> QED BY <1>1, <2>2, <2>3
<1>3. ASSUME NEW n \in ns, NEW p \in ns, n < p
      PROVE  rank[n] # rank[p]
  <2>1. upto(n) \in SUBSET upto(p) /\ p \in upto(p) \ upto(n)
    <3>1. n \in Nat /\ p \in Nat /\ \A m \in ns : m \in Nat
      OBVIOUS
    <3>2. ~(p <= n) /\ p <= p /\ \A m \in ns : m <= n => m <= p
      BY <1>3, <3>1
    <3> QED BY <3>2
  <2>2. IsFiniteSet(upto(p))
    BY <1>2
  <2>3. Cardinality(upto(n)) # Cardinality(upto(p))
    BY <2>1, <2>2, FS_Subset
  <2> QED BY <2>3
<1>4. \A n, p \in ns : rank[n] = rank[p] => n = p
  <2> SUFFICES ASSUME NEW n \in ns, NEW p \in ns, n # p PROVE rank[n] # rank[p]
    OBVIOUS
  <2>1. n < p \/ p < n
    OBVIOUS
  <2> HIDE DEF rank
  <2> QED BY <1>3, <2>1
<1> HIDE DEF rank
<1>5. \A k \in 1 .. N : \E n \in ns : rank[n] = k
  <2>1. rank \in [ns -> 1 .. N]
    BY <1>2 DEF rank
  <2>2. rank \in Injection(ns, 1 .. N)
    BY <1>4, <2>1 DEF Injection, IsInjective
  <2>3. IsFiniteSet(1 .. N) /\ Cardinality(1 .. N) = N
    BY <1>1, FS_Interval
  <2>4. rank \in Surjection(ns, 1 .. N)
    BY <2>2, <2>3, FS_Injection
  <2> QED BY <2>4 DEF Surjection
<1>6. Ascending(ns) = [k \in 1 .. N |-> CHOOSE n \in ns : Cardinality(upto(n)) = k]
  BY DEF Ascending
<1>7. ASSUME NEW k \in 1 .. N
      PROVE  Ascending(ns)[k] \in ns /\ rank[Ascending(ns)[k]] = k
  <2>1. \A n \in ns : rank[n] = Cardinality(upto(n))
    BY DEF rank
  <2> HIDE DEF upto
  <2>2. \E n \in ns : Cardinality(upto(n)) = k
    BY <1>5, <2>1
  <2>3. Ascending(ns)[k] \in ns /\ Cardinality(upto(Ascending(ns)[k])) = k
    BY <1>6, <2>2
  <2> QED BY <2>1, <2>3
<1>8. Ascending(ns) \in [1 .. N -> ns]
  BY <1>6, <1>7
<1>9. \A n \in ns : rank[n] \in DOMAIN Ascending(ns) /\ Ascending(ns)[rank[n]] = n
  BY <1>2, <1>4, <1>7, <1>8
<1> QED BY <1>1, <1>8, <1>9

\* What is picked at some places of a sequence.
LEMMA PickedIs ==
  ASSUME NEW C, NEW seq \in Seq(C), NEW places \in SUBSET DOMAIN seq
  PROVE  /\ Picked(seq, places) \in Seq(C)
         /\ Range(Picked(seq, places)) = {seq[i] : i \in places}
<1>1. places \in SUBSET Nat /\ IsFiniteSet(places)
  <2>1. Len(seq) \in Nat /\ DOMAIN seq = 1 .. Len(seq)
    OBVIOUS
  <2>2. IsFiniteSet(1 .. Len(seq))
    BY <2>1, FS_Interval
  <2> QED BY <2>1, <2>2, FS_Subset
<1> DEFINE s == Ascending(places)
<1>2. s \in Seq(places) /\ \A n \in places : \E k \in DOMAIN s : s[k] = n
  BY <1>1, AscendingIs
<1> HIDE DEF s
<1>3. Picked(seq, places) = [k \in DOMAIN s |-> seq[s[k]]]
  BY DEF Picked, MapSeq, s
<1>4. DOMAIN s = 1 .. Len(s) /\ Len(s) \in Nat /\ \A k \in DOMAIN s : s[k] \in places /\ seq[s[k]] \in C
  BY <1>2
<1>5. Picked(seq, places) \in [1 .. Len(s) -> C]
  BY <1>3, <1>4
<1>6. Picked(seq, places) \in Seq(C)
  BY <1>4, <1>5
<1>7. Range(Picked(seq, places)) = {seq[i] : i \in places}
  BY <1>2, <1>3, <1>4 DEF Range
<1> QED BY <1>6, <1>7

\* Of the elements with one key the first stays.
LEMMA DedupedIs ==
  ASSUME NEW C, NEW seq \in Seq(C), NEW keys, DOMAIN keys = DOMAIN seq
  PROVE  /\ Deduped(seq, keys) \in Seq(C)
         /\ Range(Deduped(seq, keys)) \subseteq Range(seq)
         /\ \A i \in DOMAIN seq : \E j \in DOMAIN seq : keys[j] = keys[i] /\ seq[j] \in Range(Deduped(seq, keys))
<1> DEFINE places == {i \in DOMAIN seq : \A j \in 1 .. i - 1 : keys[j] # keys[i]}
<1>1. Deduped(seq, keys) \in Seq(C) /\ Range(Deduped(seq, keys)) = {seq[i] : i \in places}
  <2>1. places \in SUBSET DOMAIN seq
    OBVIOUS
  <2> HIDE DEF places
  <2>2. Deduped(seq, keys) = Picked(seq, places)
    BY DEF Deduped, places
  <2> QED BY <2>1, <2>2, PickedIs
<1>2. ASSUME NEW i \in DOMAIN seq
      PROVE  \E j \in places : keys[j] = keys[i]
  <2> DEFINE same == {j \in DOMAIN seq : keys[j] = keys[i]}
  <2>1. same \in SUBSET Nat /\ same # {}
    BY <1>2
  <2>2. PICK j \in same : \A k \in same : j <= k
    <3> HIDE DEF same
    <3> QED BY <2>1, Least
  <2>3. j \in places
    <3>1. \A k \in 1 .. j - 1 : k \in DOMAIN seq
      OBVIOUS
    <3> QED BY <2>2, <3>1
  <2> QED BY <2>3
<1>3. Range(Deduped(seq, keys)) \subseteq Range(seq)
  BY <1>1 DEF Range
<1> HIDE DEF places
<1>4. \A j \in places : j \in DOMAIN seq
  BY DEF places
<1> QED BY <1>1, <1>2, <1>3, <1>4

\* The elements of some sequences, one after the other.
LEMMA FlattenedIs ==
  ASSUME NEW C, NEW seqs \in Seq(Seq(C))
  PROVE  /\ FlattenSeq(seqs) \in Seq(C)
         /\ Range(FlattenSeq(seqs)) = UNION {Range(seqs[i]) : i \in DOMAIN seqs}
<1> DEFINE N == Len(seqs)
           flatten == CHOOSE f : f = [i \in 1 .. N |-> IF i = 1 THEN seqs[i] ELSE f[i - 1] \o seqs[i]]
           Is(f) == f = [i \in 1 .. N |-> IF i = 1 THEN seqs[i] ELSE f[i - 1] \o seqs[i]]
           X == Seq(C)
           step == [i \in 1 .. N |-> [s \in X |-> s \o seqs[i]]]
<1>1. N \in Nat /\ \A i \in 1 .. N : seqs[i] \in X
  OBVIOUS
<1>2. << >> \in X /\ step \in [1 .. N -> [X -> X]]
  <2>1. \A i \in 1 .. N : \A s \in X : s \o seqs[i] \in X
    OBVIOUS
  <2> HIDE DEF X
  <2>2. step \in [1 .. N -> [X -> X]]
    BY <2>1
  <2> QED BY <2>2 DEF X
<1>3. \E f : Carries(f, N, X, << >>, step)
  <2> HIDE DEF step, X
  <2> QED BY <1>1, <1>2, Carried
<1>4. PICK f : f \in [0 .. N -> X] /\ f[0] = << >> /\ \A i \in 1 .. N : f[i] = step[i][f[i - 1]]
  BY <1>3 DEF Carries
<1>5. ASSUME NEW i \in 1 .. N
      PROVE  f[i - 1] \in X /\ f[i] \in X /\ f[i] = f[i - 1] \o seqs[i]
  <2>1. i - 1 \in 0 .. N /\ i \in 0 .. N
    BY <1>1
  <2>2. f[i - 1] \in X /\ f[i] \in X
    BY <1>4, <2>1
  <2>3. step[i][f[i - 1]] = f[i - 1] \o seqs[i]
    BY <2>2
  <2> QED BY <1>4, <2>2, <2>3
<1>6. CASE N = 0
  <2>1. seqs = << >> /\ FlattenSeq(seqs) = << >> /\ DOMAIN seqs = {} /\ Range(<< >>) = {}
    BY <1>6 DEF FlattenSeq, Range
  <2>2. << >> \in Seq(C)
    OBVIOUS
  <2>3. UNION {Range(seqs[i]) : i \in DOMAIN seqs} = {}
    BY <2>1
  <2> QED BY <2>1, <2>2, <2>3
<1>7. CASE N # 0
  <2>1. FlattenSeq(seqs) = flatten[N]
    BY <1>7 DEF FlattenSeq
  <2> DEFINE h == [i \in 1 .. N |-> f[i]]
  <2>2. Is(h)
    <3>1. ASSUME NEW i \in 1 .. N, i # 1
          PROVE  h[i] = h[i - 1] \o seqs[i]
      <4>1. i - 1 \in 1 .. N
        BY <1>1, <3>1
      <4> QED BY <1>5, <4>1
    <3>2. 1 \in 1 .. N => h[1] = seqs[1]
      <4>1. ASSUME 1 \in 1 .. N PROVE f[1] = << >> \o seqs[1]
        <5>1. \A i \in 1 .. N : i = 1 => f[i - 1] = << >>
          BY <1>4
        <5> QED BY <1>5, <4>1, <5>1
      <4>2. ASSUME 1 \in 1 .. N PROVE << >> \o seqs[1] = seqs[1]
        BY <1>1, <4>2
      <4> QED BY <4>1, <4>2
    <3> HIDE DEF N
    <3> QED BY <3>1, <3>2
  <2>3. Is(flatten)
    <3> HIDE DEF h
    <3> QED BY <2>2
  <2> HIDE DEF flatten
  <2>4. \A i \in 1 .. N : flatten[i] = IF i = 1 THEN seqs[i] ELSE flatten[i - 1] \o seqs[i]
    BY <2>3
  <2> DEFINE Good(n) == /\ n # 0 => flatten[n] = f[n]
                        /\ Range(f[n]) = UNION {Range(seqs[i]) : i \in 1 .. n}
             S == {n \in 0 .. N : Good(n)}
  <2>5. Good(0)
    <3>1. Range(f[0]) = {} /\ {Range(seqs[i]) : i \in 1 .. 0} = {}
      BY <1>4 DEF Range
    <3> QED BY <3>1
  <2>6. ASSUME NEW n \in 1 .. N, Good(n - 1)
        PROVE  Good(n)
    <3>1. f[n] = f[n - 1] \o seqs[n] /\ f[n - 1] \in Seq(C) /\ seqs[n] \in Seq(C)
      BY <1>1, <1>5
    <3>2. flatten[n] = f[n]
      <4>1. CASE n = 1
        <5>1. f[n - 1] = << >>
          BY <1>4, <4>1
        <5>2. << >> \o seqs[n] = seqs[n]
          BY <3>1
        <5> QED BY <2>4, <3>1, <4>1, <5>1, <5>2
      <4>2. CASE n # 1
        <5>1. n - 1 # 0
          BY <4>2
        <5> QED BY <2>4, <2>6, <3>1, <4>2, <5>1
      <4> QED BY <4>1, <4>2
    <3>3. Range(f[n]) = Range(f[n - 1]) \cup Range(seqs[n])
      <4> DEFINE s == f[n - 1]
                 t == seqs[n]
      <4>1. s \in Seq(C) /\ t \in Seq(C)
        BY <3>1
      <4> HIDE DEF s, t
      <4>2. Range(s \o t) = Range(s) \cup Range(t)
        <5>1. /\ DOMAIN (s \o t) = 1 .. Len(s) + Len(t) /\ DOMAIN s = 1 .. Len(s) /\ DOMAIN t = 1 .. Len(t)
              /\ Len(s) \in Nat /\ Len(t) \in Nat
          BY <4>1
        <5>2. \A i \in 1 .. Len(s) : (s \o t)[i] = s[i]
          BY <4>1
        <5>3. \A i \in 1 .. Len(t) : (s \o t)[Len(s) + i] = t[i] /\ Len(s) + i \in 1 .. Len(s) + Len(t)
          BY <4>1
        <5>4. \A i \in 1 .. Len(s) + Len(t) : i \in 1 .. Len(s) \/ \E k \in 1 .. Len(t) : i = Len(s) + k
          <6>1. ASSUME NEW i \in 1 .. Len(s) + Len(t), i \notin 1 .. Len(s)
                PROVE  i - Len(s) \in 1 .. Len(t) /\ i = Len(s) + (i - Len(s))
            BY <5>1, <6>1
          <6> QED BY <6>1
        <5>5. \A i \in 1 .. Len(s) : i \in 1 .. Len(s) + Len(t)
          BY <5>1
        <5>6. ASSUME NEW x \in Range(s \o t)
              PROVE  x \in Range(s) \cup Range(t)
          <6>1. PICK i \in 1 .. Len(s) + Len(t) : x = (s \o t)[i]
            BY <5>1 DEF Range
          <6>2. CASE i \in 1 .. Len(s)
            BY <5>1, <5>2, <6>1, <6>2 DEF Range
          <6>3. CASE \E k \in 1 .. Len(t) : i = Len(s) + k
            <7>1. PICK k \in 1 .. Len(t) : i = Len(s) + k
              BY <6>3
            <7>2. x = t[k]
              BY <5>3, <6>1, <7>1
            <7> QED BY <5>1, <7>2 DEF Range
          <6> QED BY <5>4, <6>2, <6>3
        <5>7. ASSUME NEW x \in Range(s)
              PROVE  x \in Range(s \o t)
          <6>1. PICK i \in 1 .. Len(s) : x = s[i]
            BY <5>1 DEF Range
          <6>2. x = (s \o t)[i] /\ i \in 1 .. Len(s) + Len(t)
            BY <5>2, <5>5, <6>1
          <6> QED BY <5>1, <6>2 DEF Range
        <5>8. ASSUME NEW x \in Range(t)
              PROVE  x \in Range(s \o t)
          <6>1. PICK i \in 1 .. Len(t) : x = t[i]
            BY <5>1 DEF Range
          <6>2. x = (s \o t)[Len(s) + i] /\ Len(s) + i \in 1 .. Len(s) + Len(t)
            BY <5>3, <6>1
          <6> QED BY <5>1, <6>2 DEF Range
        <5> QED BY <5>6, <5>7, <5>8
      <4> QED BY <3>1, <4>2 DEF s, t
    <3>4. 1 .. n = (1 .. n - 1) \cup {n}
      OBVIOUS
    <3>5. UNION {Range(seqs[i]) : i \in 1 .. n} = (UNION {Range(seqs[i]) : i \in 1 .. n - 1}) \cup Range(seqs[n])
      BY <3>4
    <3> QED BY <2>6, <3>2, <3>3, <3>5
  <2>7. Good(N)
    <3>1. 0 \in S /\ \A n \in 1 .. N : n - 1 \in S => n \in S
      <4>1. 0 \in 0 .. N /\ \A n \in 1 .. N : n \in 0 .. N
        BY <1>1
      <4> HIDE DEF Good
      <4> QED BY <2>5, <2>6, <4>1
    <3>2. 0 .. N \subseteq S
      <4> HIDE DEF S
      <4> QED BY <1>1, <3>1, Upto
    <3>3. N \in 0 .. N
      BY <1>1
    <3> HIDE DEF Good
    <3> QED BY <3>2, <3>3
  <2>8. flatten[N] = f[N] /\ N \in 1 .. N
    BY <1>1, <1>7, <2>7
  <2>9. f[N] \in X
    BY <1>5, <2>8
  <2>10. 1 .. N = DOMAIN seqs
    OBVIOUS
  <2>11. Range(f[N]) = UNION {Range(seqs[i]) : i \in 1 .. N}
    BY <2>7
  <2> HIDE DEF N, Good
  <2> QED BY <2>1, <2>8, <2>9, <2>10, <2>11
<1> QED BY <1>6, <1>7

----------------------------------------------------------------------------
(* Adding claims *)

\* add_dependency_claim, of some claims in turn.  Claims that were added before stay, no
\* two have one id; what did not raise has added all; what is there is accepted again.
UniqueIds(cs) == \A i, j \in DOMAIN cs : ClaimNodeId(cs[i]) = ClaimNodeId(cs[j]) => i = j

States(C) == [claims : Seq(C), raised : BOOLEAN]

LEMMA OneIs ==
  ASSUME NEW C, NEW st \in States(C), NEW c \in C, NEW after, after = AddDependencyClaim(st, c)
  PROVE  /\ after \in States(C)
         /\ after.raised <=> \/ st.raised
                             \/ \E i \in DOMAIN st.claims : ClaimNodeId(st.claims[i]) = ClaimNodeId(c) /\ st.claims[i] # c
         /\ \/ after.claims = st.claims /\ (after.raised \/ c \in Range(st.claims))
            \/ /\ after.claims = Append(st.claims, c)
               /\ \A i \in DOMAIN st.claims : ClaimNodeId(st.claims[i]) # ClaimNodeId(c)
<1> DEFINE there == {i \in DOMAIN st.claims : ClaimNodeId(st.claims[i]) = ClaimNodeId(c)}
           differs == \E i \in there : st.claims[i] # c
<1>1. st = [claims |-> st.claims, raised |-> st.raised] /\ st.claims \in Seq(C) /\ st.raised \in BOOLEAN
  BY DEF States
<1>2. after = IF st.raised THEN st
              ELSE IF there = {} THEN [st EXCEPT !.claims = Append(@, c)]
              ELSE [st EXCEPT !.raised = differs]
  BY DEF AddDependencyClaim
<1>3. \A x : [st EXCEPT !.claims = x] = [claims |-> x, raised |-> st.raised]
  BY <1>1
<1>4. \A x : [st EXCEPT !.raised = x] = [claims |-> st.claims, raised |-> x]
  BY <1>1
<1>5. CASE st.raised
  <2>1. after = st
    BY <1>2, <1>5
  <2> QED BY <1>5, <2>1
<1>6. CASE ~st.raised /\ there = {}
  <2>1. after = [st EXCEPT !.claims = Append(@, c)]
    BY <1>2, <1>6
  <2>2. after = [claims |-> Append(st.claims, c), raised |-> st.raised]
    BY <1>3, <2>1, Zenon
  <2>3. Append(st.claims, c) \in Seq(C)
    BY <1>1
  <2> QED BY <1>1, <1>6, <2>2, <2>3 DEF States
<1>7. CASE ~st.raised /\ there # {}
  <2>1. after = [st EXCEPT !.raised = differs]
    BY <1>2, <1>7
  <2>2. after = [claims |-> st.claims, raised |-> differs]
    BY <1>4, <2>1, Zenon
  <2>3. differs \/ c \in Range(st.claims)
    BY <1>7 DEF Range
  <2>4. after.claims = st.claims /\ after.raised = differs /\ differs \in BOOLEAN
    BY <2>2
  <2>5. after \in States(C)
    <3> HIDE DEF differs
    <3> QED BY <1>1, <2>2, <2>4 DEF States
  <2> QED BY <1>7, <2>3, <2>4, <2>5
<1> QED BY <1>5, <1>6, <1>7

\* What stays of claims that were there.
Kept(cs, claimed) ==
  /\ Len(cs) <= Len(claimed) /\ \A i \in DOMAIN cs : claimed[i] = cs[i]
  /\ UniqueIds(claimed)

LEMMA OneKeeps ==
  ASSUME NEW C, NEW cs \in Seq(C), NEW st \in States(C), NEW c \in C, Kept(cs, st.claims),
         NEW after, after = AddDependencyClaim(st, c)
  PROVE  /\ Kept(cs, after.claims)
         /\ Range(st.claims) \subseteq Range(after.claims)
         /\ ~after.raised => ~st.raised /\ c \in Range(after.claims)
         /\ ~st.raised /\ c \in Range(cs) => ~after.raised
<1>1. st.claims \in Seq(C) /\ DOMAIN st.claims = 1 .. Len(st.claims) /\ DOMAIN cs = 1 .. Len(cs)
  BY DEF States
<1>2. ASSUME ~st.raised, c \in Range(cs)
      PROVE  ~after.raised
  <2>1. PICK i \in DOMAIN cs : cs[i] = c
    BY <1>2 DEF Range
  <2>2. i \in DOMAIN st.claims /\ st.claims[i] = c
    BY <1>1, <2>1 DEF Kept
  <2>3. ASSUME NEW j \in DOMAIN st.claims, ClaimNodeId(st.claims[j]) = ClaimNodeId(c)
        PROVE  st.claims[j] = c
    BY <2>2, <2>3 DEF Kept, UniqueIds
  <2> QED BY <1>2, <2>3, OneIs
<1>3. CASE after.claims = st.claims /\ (after.raised \/ c \in Range(st.claims))
  BY <1>2, <1>3, OneIs
<1>4. CASE /\ after.claims = Append(st.claims, c)
           /\ \A i \in DOMAIN st.claims : ClaimNodeId(st.claims[i]) # ClaimNodeId(c)
  <2>1. /\ Len(after.claims) = Len(st.claims) + 1 /\ after.claims[Len(st.claims) + 1] = c
        /\ DOMAIN after.claims = 1 .. Len(st.claims) + 1
        /\ \A i \in DOMAIN st.claims : after.claims[i] = st.claims[i]
    BY <1>1, <1>4
  <2>2. \A i \in DOMAIN after.claims : i \in DOMAIN st.claims \/ i = Len(st.claims) + 1
    BY <1>1, <2>1
  <2>3. UniqueIds(after.claims)
    BY <1>4, <2>1, <2>2 DEF Kept, UniqueIds
  <2>4. Kept(cs, after.claims)
    BY <1>1, <2>1, <2>3 DEF Kept
  <2>5. Range(st.claims) \subseteq Range(after.claims) /\ c \in Range(after.claims)
    BY <1>1, <2>1 DEF Range
  <2> QED BY <1>2, <2>4, <2>5, OneIs
<1> QED BY <1>3, <1>4, OneIs

LEMMA AddAllIs ==
  ASSUME NEW C, NEW cs \in Seq(C), NEW new \in Seq(C), UniqueIds(cs), NEW after, after = AddAll(cs, new)
  PROVE  /\ after \in States(C) /\ Kept(cs, after.claims)
         /\ ~after.raised => Range(new) \subseteq Range(after.claims)
         /\ Range(new) \subseteq Range(cs) => ~after.raised
<1> DEFINE N == Len(new)
           a == [claims |-> cs, raised |-> FALSE]
           step == [n \in 1 .. N |-> [st \in States(C) |-> AddDependencyClaim(st, new[n])]]
           Is(f) == f = [n \in 0 .. N |-> IF n = 0 THEN a ELSE AddDependencyClaim(f[n - 1], new[n])]
           added == CHOOSE f : f = [n \in 0 .. N |-> IF n = 0 THEN a ELSE AddDependencyClaim(f[n - 1], new[n])]
<1>1. after = added[N]
  BY DEF AddAll
<1>2. N \in Nat /\ a \in States(C) /\ \A n \in 1 .. N : new[n] \in C
  BY DEF States
<1> HIDE DEF N, a
<1>3. step \in [1 .. N -> [States(C) -> States(C)]]
  BY <1>2, OneIs
<1>4. \E f : Carries(f, N, States(C), a, step)
  <2> HIDE DEF step
  <2> QED BY <1>2, <1>3, Carried
<1>5. PICK f : f \in [0 .. N -> States(C)] /\ f[0] = a /\ \A n \in 1 .. N : f[n] = step[n][f[n - 1]]
  BY <1>4 DEF Carries
<1>6. \A n \in 1 .. N : f[n] = AddDependencyClaim(f[n - 1], new[n])
  <2>1. \A n \in 1 .. N : n - 1 \in 0 .. N
    BY <1>2
  <2> QED BY <1>5, <2>1
<1>7. \A n \in 0 .. N : n = 0 \/ n \in 1 .. N
  BY <1>2
<1>8. Is(f)
  BY <1>5, <1>6, <1>7
<1>9. Is(added)
  BY <1>8
<1> HIDE DEF added
<1>10. added[0] = a /\ \A n \in 1 .. N : added[n] = AddDependencyClaim(added[n - 1], new[n])
  <2>1. 0 \in 0 .. N /\ \A n \in 1 .. N : n \in 0 .. N /\ n # 0
    BY <1>2
  <2> QED BY <1>9, <2>1
<1> DEFINE Good(n) == /\ added[n] \in States(C) /\ Kept(cs, added[n].claims)
                      /\ ~added[n].raised => \A m \in 1 .. n : new[m] \in Range(added[n].claims)
                      /\ Range(new) \subseteq Range(cs) => ~added[n].raised
           S == {n \in 0 .. N : Good(n)}
<1>11. Good(0)
  <2>1. added[0].claims = cs /\ added[0].raised = FALSE /\ added[0] \in States(C)
    BY <1>2, <1>10 DEF a
  <2>2. Kept(cs, cs)
    BY DEF Kept
  <2> QED BY <2>1, <2>2
<1>12. ASSUME NEW n \in 1 .. N, Good(n - 1)
       PROVE  Good(n)
  <2>1. added[n] = AddDependencyClaim(added[n - 1], new[n]) /\ new[n] \in C
    BY <1>2, <1>10
  <2>2. added[n] \in States(C)
    BY <1>12, <2>1, OneIs
  <2>3. /\ Kept(cs, added[n].claims)
        /\ Range(added[n - 1].claims) \subseteq Range(added[n].claims)
        /\ ~added[n].raised => ~added[n - 1].raised /\ new[n] \in Range(added[n].claims)
        /\ ~added[n - 1].raised /\ new[n] \in Range(cs) => ~added[n].raised
    <3>1. added[n - 1] \in States(C) /\ Kept(cs, added[n - 1].claims)
      BY <1>12
    <3> DEFINE st == added[n - 1]
               new_n == new[n]
               then == added[n]
    <3>2. st \in States(C) /\ new_n \in C /\ Kept(cs, st.claims) /\ then = AddDependencyClaim(st, new_n)
      BY <2>1, <3>1
    <3> HIDE DEF Good, st, new_n, then
    <3>3. /\ Kept(cs, then.claims)
          /\ Range(st.claims) \subseteq Range(then.claims)
          /\ ~then.raised => ~st.raised /\ new_n \in Range(then.claims)
          /\ ~st.raised /\ new_n \in Range(cs) => ~then.raised
      BY <3>2, OneKeeps
    <3> QED BY <3>3 DEF st, new_n, then
  <2>4. \A m \in 1 .. n : m = n \/ m \in 1 .. n - 1
    OBVIOUS
  <2>5. new[n] \in Range(new)
    BY DEF Range, N
  <2> QED BY <1>12, <2>2, <2>3, <2>4, <2>5
<1>13. Good(N)
  <2>1. 0 \in S /\ \A n \in 1 .. N : n - 1 \in S => n \in S
    <3> HIDE DEF Good
    <3> QED BY <1>2, <1>11, <1>12
  <2>2. 0 .. N \subseteq S
    <3> HIDE DEF S
    <3> QED BY <1>2, <2>1, Upto
  <2>3. N \in 0 .. N
    BY <1>2
  <2> HIDE DEF Good
  <2> QED BY <2>2, <2>3
<1>14. ~added[N].raised => Range(new) \subseteq Range(added[N].claims)
  BY <1>13 DEF Range, N
<1> QED BY <1>1, <1>13, <1>14

----------------------------------------------------------------------------
(* What a step makes of the graph *)

StaticFields == {"name", "arch", "vr", "purl", "source", "hash", "signed", "debug", "elRelease"}

IsIdentity(id) == /\ DOMAIN id = {"cpe", "status", "backport", "candidates"}
                  /\ id.candidates \in Seq(CandidateType)
                  /\ \A i \in DOMAIN id.candidates : id.candidates[i].verified => id.cpe # None

\* An RPM is what it was in the graph that enrichment begins with.
IsRpmOf(node, base) ==
  /\ DOMAIN node = RpmFields /\ IsIdentity(node.identity)
  /\ \A f \in StaticFields : node[f] = base[f]

NewKinds == {"sbom", "errata", "cve"}
NewRelations == {"described_by", "fixes"}

GraphInv(g) ==
  /\ DOMAIN g = {"nodes", "edges"}
  /\ DOMAIN BaseGraph.nodes \subseteq DOMAIN g.nodes
  /\ \A id \in DOMAIN g.nodes \ DOMAIN BaseGraph.nodes : Kind(id) \in NewKinds
  /\ \A e \in g.edges : e[3] \in NewRelations \/ (e \in BaseGraph.edges /\ {e[1], e[2]} \subseteq DOMAIN g.nodes)
  /\ \A r \in Rpms(BaseGraph) : IsRpmOf(g.nodes[r], BaseGraph.nodes[r])

\* What a CPE may give way to.
IdentityGrows(old, new) ==
  /\ IsIdentity(new)
  /\ HasVerifiedCpe(old) => HasVerifiedCpe(new)
  /\ new.cpe = old.cpe \/ old.cpe = None \/ new.status = "verified"

NodeGrows(old, new) ==
  /\ DOMAIN new = RpmFields
  /\ \A f \in StaticFields : new[f] = old[f]
  /\ old.clean => new.clean
  /\ IdentityGrows(old.identity, new.identity)

GraphGrows(g, h) ==
  /\ DOMAIN h = {"nodes", "edges"}
  /\ DOMAIN g.nodes \subseteq DOMAIN h.nodes
  /\ \A id \in DOMAIN h.nodes \ DOMAIN g.nodes : Kind(id) \in NewKinds
  /\ g.edges \subseteq h.edges /\ \A e \in h.edges \ g.edges : e[3] \in NewRelations
  /\ \A id \in DOMAIN g.nodes \ Rpms(g) : h.nodes[id] = g.nodes[id]
  /\ \A r \in Rpms(g) : NodeGrows(g.nodes[r], h.nodes[r])

LEMMA RpmsStay ==
  ASSUME NEW g, GraphInv(g)
  PROVE  Rpms(g) = Rpms(BaseGraph) /\ Selected(g) = Selected(BaseGraph) /\ WorkList(g) = WorkList(BaseGraph)
<1>1. Rpms(g) = Rpms(BaseGraph)
  BY DEF GraphInv, Rpms, NewKinds
<1>2. \A r \in Rpms(BaseGraph) : g.nodes[r].arch = BaseGraph.nodes[r].arch /\ g.nodes[r].debug = BaseGraph.nodes[r].debug
  BY DEF GraphInv, IsRpmOf, StaticFields
<1>3. Selected(g) = Selected(BaseGraph)
  BY <1>1, <1>2 DEF Selected
<1>4. \A r \in Selected(BaseGraph) : r \in Rpms(BaseGraph)
  BY DEF Selected
<1> QED BY <1>1, <1>2, <1>3, <1>4 DEF WorkList

LEMMA GrownIsRight ==
  ASSUME NEW g, NEW h, GraphInv(g), GraphGrows(g, h)
  PROVE  GraphInv(h)
<1>1. DOMAIN h = {"nodes", "edges"} /\ DOMAIN BaseGraph.nodes \subseteq DOMAIN h.nodes
  BY DEF GraphInv, GraphGrows
<1>2. \A id \in DOMAIN h.nodes \ DOMAIN BaseGraph.nodes : Kind(id) \in NewKinds
  BY DEF GraphInv, GraphGrows
<1>3. \A e \in h.edges : e[3] \in NewRelations \/ (e \in BaseGraph.edges /\ {e[1], e[2]} \subseteq DOMAIN h.nodes)
  BY DEF GraphInv, GraphGrows
<1>4. ASSUME NEW r \in Rpms(BaseGraph)
      PROVE  IsRpmOf(h.nodes[r], BaseGraph.nodes[r])
  <2>1. r \in Rpms(g)
    BY RpmsStay
  <2> QED BY <2>1 DEF GraphInv, GraphGrows, NodeGrows, IdentityGrows, IsRpmOf
<1> QED BY <1>1, <1>2, <1>3, <1>4 DEF GraphInv

\* What stays as it is has grown as well.
LEMMA StaysGrown ==
  ASSUME NEW g, GraphInv(g)
  PROVE  GraphGrows(g, g)
<1>1. \A r \in Rpms(g) : IsRpmOf(g.nodes[r], BaseGraph.nodes[r])
  BY RpmsStay DEF GraphInv
<1>2. \A r \in Rpms(g) : NodeGrows(g.nodes[r], g.nodes[r])
  BY <1>1 DEF NodeGrows, IdentityGrows, IsRpmOf
<1> QED BY <1>2 DEF GraphInv, GraphGrows

\* add_node and add_edge, of some of each.
LEMMA AdditionGrows ==
  ASSUME NEW g, GraphInv(g), NEW ids, NEW edges,
         \A id \in ids : Kind(id) \in NewKinds, \A e \in edges : e[3] \in NewRelations,
         NEW h, h = AddEdges(AddNodes(g, ids), edges)
  PROVE  /\ GraphGrows(g, h) /\ h.edges = g.edges \cup edges
         /\ \A id \in DOMAIN g.nodes : h.nodes[id] = g.nodes[id]
<1> DEFINE added == [i \in DOMAIN g.nodes \cup ids |-> IF i \in DOMAIN g.nodes THEN g.nodes[i] ELSE [hash |-> None]]
           a == AddNodes(g, ids)
<1>1. DOMAIN g = {"nodes", "edges"}
  BY DEF GraphInv
<1>2. a = [g EXCEPT !.nodes = added]
  BY DEF AddNodes
<1>3. /\ DOMAIN added = DOMAIN g.nodes \cup ids
      /\ \A id \in DOMAIN g.nodes : added[id] = g.nodes[id]
  OBVIOUS
<1> HIDE DEF added
<1>4. a.nodes = added /\ a.edges = g.edges /\ DOMAIN a = {"nodes", "edges"}
  BY <1>1, <1>2
<1>5. h = [a EXCEPT !.edges = @ \cup edges]
  BY DEF AddEdges
<1> HIDE DEF a
<1>6. h.nodes = added /\ h.edges = g.edges \cup edges /\ DOMAIN h = {"nodes", "edges"}
  BY <1>4, <1>5
<1>7. \A r \in Rpms(g) : NodeGrows(g.nodes[r], h.nodes[r])
  <2>1. \A r \in Rpms(g) : r \in DOMAIN g.nodes
    BY DEF Rpms
  <2> QED BY <1>3, <1>6, <2>1, StaysGrown DEF GraphGrows
<1> QED BY <1>3, <1>6, <1>7 DEF GraphGrows

\* update_node_metadata, of some RPMs, of a graph that may have been added to.
LEMMA UpdateGrows ==
  ASSUME NEW g, GraphInv(g), NEW b, GraphGrows(g, b), \A id \in DOMAIN g.nodes : b.nodes[id] = g.nodes[id],
         NEW updated, DOMAIN updated \subseteq Rpms(g), \A r \in DOMAIN updated : NodeGrows(g.nodes[r], updated[r]),
         NEW h, h = UpdateMetadata(b, updated)
  PROVE  /\ GraphGrows(g, h) /\ h.edges = b.edges
         /\ \A id \in DOMAIN g.nodes : h.nodes[id] = IF id \in DOMAIN updated THEN updated[id] ELSE g.nodes[id]
<1> DEFINE all == [id \in DOMAIN b.nodes |-> IF id \in DOMAIN updated THEN updated[id] ELSE b.nodes[id]]
<1>1. h = [b EXCEPT !.nodes = all]
  BY DEF UpdateMetadata
<1>2. DOMAIN all = DOMAIN b.nodes
  OBVIOUS
<1>3. \A id \in DOMAIN g.nodes : all[id] = IF id \in DOMAIN updated THEN updated[id] ELSE g.nodes[id]
  BY DEF GraphGrows
<1> HIDE DEF all
<1>4. h.nodes = all /\ h.edges = b.edges /\ DOMAIN h = {"nodes", "edges"}
  BY <1>1 DEF GraphGrows
<1>5. \A r \in Rpms(g) : NodeGrows(g.nodes[r], h.nodes[r])
  <2>1. \A r \in Rpms(g) : r \in DOMAIN g.nodes
    BY DEF Rpms
  <2> QED BY <1>3, <1>4, <2>1, StaysGrown DEF GraphGrows
<1>6. \A id \in DOMAIN g.nodes \ Rpms(g) : h.nodes[id] = g.nodes[id]
  BY <1>3, <1>4
<1> QED BY <1>2, <1>3, <1>4, <1>5, <1>6 DEF GraphGrows

----------------------------------------------------------------------------
(* Whose CPE it is *)

\* What a component of a build SBOM has to be for an RPM to have its CPE.
IsComponentOf(components, i, node) ==
  LET c == components[i]
  IN  /\ c.name = node.name /\ c.arch \in {node.arch, None}
      /\ \/ c.vr = node.vr
         \/ \A j \in DOMAIN components :
              LET d == components[j]
              IN  <<d.name, d.arch, d.vr>> # <<node.name, node.arch, node.vr>>

LEMMA ComponentIs ==
  ASSUME NEW components, IsSeq(components), NEW node, ComponentFor(components, node) # None
  PROVE  \E i \in DOMAIN components : /\ ComponentFor(components, node) = components[i]
                                      /\ IsComponentOf(components, i, node)
<1> DEFINE named(arch) == {i \in DOMAIN components : components[i].name = node.name /\ components[i].arch = arch}
           exact == {i \in named(node.arch) : node.vr # None /\ components[i].vr = node.vr}
           loose == IF named(node.arch) # {} THEN named(node.arch) ELSE named(None)
<1>1. /\ Len(components) \in Nat /\ DOMAIN components = 1 .. Len(components)
      /\ IsFiniteSet(DOMAIN components) /\ DOMAIN components \subseteq Nat
  <2>1. Len(components) \in Nat /\ DOMAIN components = 1 .. Len(components)
    BY DEF IsSeq
  <2> QED BY <2>1, FS_Interval
<1>2. ComponentFor(components, node) =
        IF exact # {} THEN components[CHOOSE i \in exact : \A j \in exact : i <= j]
        ELSE IF Cardinality(loose) = 1 THEN components[CHOOSE i \in loose : TRUE] ELSE None
  BY DEF ComponentFor
<1>3. CASE exact # {}
  <2>1. exact \in SUBSET Nat
    BY <1>1
  <2>2. \E i \in exact : \A j \in exact : i <= j
    <3> HIDE DEF exact
    <3> QED BY <1>3, <2>1, Least
  <2>3. PICK i \in exact : ComponentFor(components, node) = components[i]
    BY <1>2, <1>3, <2>2
  <2> QED BY <2>3 DEF IsComponentOf
<1>4. CASE exact = {} /\ Cardinality(loose) = 1
  <2>1. IsFiniteSet(loose)
    BY <1>1, FS_Subset
  <2>2. PICK i : loose = {i}
    <3> HIDE DEF loose
    <3> QED BY <1>4, <2>1, FS_Singleton
  <2>3. ComponentFor(components, node) = components[i] /\ i \in loose
    BY <1>2, <1>4, <2>2
  <2>4. i \in DOMAIN components /\ components[i].name = node.name /\ components[i].arch \in {node.arch, None}
    BY <2>3
  <2>5. ASSUME NEW j \in DOMAIN components,
               <<components[j].name, components[j].arch, components[j].vr>> = <<node.name, node.arch, node.vr>>
        PROVE  components[i].vr = node.vr
    <3>1. j \in named(node.arch)
      BY <2>5
    <3>2. j \in loose
      BY <3>1
    <3>3. j = i
      BY <2>2, <3>2
    <3> QED BY <2>5, <3>3
  <2> QED BY <2>3, <2>4, <2>5 DEF IsComponentOf
<1> QED BY <1>2, <1>3, <1>4

LEMMA SbomIdentityIs ==
  ASSUME NEW id, IsIdentity(id), NEW cpe, cpe # None, NEW after, after = SbomIdentity(id, cpe)
  PROVE  /\ IdentityGrows(id, after)
         /\ after = id \/ (id.cpe = None /\ after.cpe = cpe /\ after.status = "vendor_asserted")
<1> DEFINE c == [product |-> None, version |-> None, verified |-> TRUE]
<1>1. CASE id.cpe # None
  BY <1>1 DEF SbomIdentity, IdentityGrows
<1>2. CASE id.cpe = None
  <2>1. after = [id EXCEPT !.cpe = cpe, !.status = "vendor_asserted", !.candidates = Append(@, c)]
    BY <1>2 DEF SbomIdentity
  <2>2. c \in CandidateType
    BY DEF CandidateType
  <2> DEFINE cs == id.candidates
  <2>3. cs \in Seq(CandidateType)
    BY DEF IsIdentity
  <2> HIDE DEF c, cs
  <2>4. /\ Append(cs, c) \in Seq(CandidateType) /\ DOMAIN cs \subseteq DOMAIN Append(cs, c)
        /\ \A i \in DOMAIN cs : Append(cs, c)[i] = cs[i]
    BY <2>2, <2>3
  <2>5. /\ DOMAIN after = DOMAIN id /\ after.cpe = cpe /\ after.status = "vendor_asserted"
        /\ after.candidates = Append(cs, c)
    BY <2>1 DEF IsIdentity, cs
  <2>6. HasVerifiedCpe(id) => HasVerifiedCpe(after)
    BY <1>2, <2>4, <2>5 DEF HasVerifiedCpe, cs
  <2> QED BY <1>2, <2>4, <2>5, <2>6 DEF IdentityGrows, IsIdentity
<1> QED BY <1>1, <1>2

\* A CPE that is verified has the one vendor a dictionary knows for its product.
IsKnown(cpe, dictionary) == cpe # None /\ VendorsFor(dictionary, cpe.product) = {cpe.vendor}

LEMMA VendorIs ==
  ASSUME NEW d \in DOMAIN Dictionaries, NEW product,
         VendorsFor(Dictionaries[d], product) # {}, ~(Cardinality(VendorsFor(Dictionaries[d], product)) > 1)
  PROVE  \E v \in Vendors : VendorsFor(Dictionaries[d], product) = {v}
<1> DEFINE vs == VendorsFor(Dictionaries[d], product)
<1>1. product \in DOMAIN Dictionaries[d] /\ vs = Dictionaries[d][product]
  BY DEF VendorsFor
<1>2. IsFiniteSet(vs)
  BY <1>1, CandidatesAssumption
<1>3. vs # {} /\ ~(Cardinality(vs) > 1)
  OBVIOUS
<1>4. \A v \in vs : v \in Vendors
  BY <1>1 DEF Vendors, Range
<1> HIDE DEF vs
<1>5. Cardinality(vs) = 1
  <2>1. Cardinality(vs) \in Nat /\ Cardinality(vs) # 0
    BY <1>2, <1>3, FS_CardinalityType, FS_EmptySet
  <2> QED BY <1>3, <2>1
<1>6. PICK v : vs = {v}
  BY <1>2, <1>5, FS_Singleton
<1> QED BY <1>4, <1>6 DEF vs

LEMMA VerifyIdentityIs ==
  ASSUME NEW id, IsIdentity(id), NEW d \in DOMAIN Dictionaries, NEW after, after = VerifyIdentity(id, Dictionaries[d])
  PROVE  /\ IdentityGrows(id, after)
         /\ \/ after.cpe = id.cpe /\ after.status \in {id.status, "ambiguous_vendor"}
            \/ after.status = "verified" /\ IsKnown(after.cpe, Dictionaries[d])
<1> DEFINE vendors(i) == VendorsFor(Dictionaries[d], id.candidates[i].product)
           asked == {i \in DOMAIN id.candidates : vendors(i) # {}}
           ambiguous == {i \in asked : Cardinality(vendors(i)) > 1}
           found == asked \ ambiguous
           first == CHOOSE k \in found : \A l \in found : k <= l
           cpe == [vendor |-> CHOOSE v \in vendors(first) : TRUE,
                   product |-> id.candidates[first].product, version |-> id.candidates[first].version]
<1> DEFINE cs == id.candidates
<1>1. cs \in Seq(CandidateType) /\ DOMAIN id = {"cpe", "status", "backport", "candidates"}
  BY DEF IsIdentity
<1>2. CASE found = {}
  <2> DEFINE status == IF ambiguous = {} THEN id.status ELSE "ambiguous_vendor"
  <2>1. after = [id EXCEPT !.status = IF ambiguous = {} THEN @ ELSE "ambiguous_vendor"]
    BY <1>2 DEF VerifyIdentity
  <2>2. after = [id EXCEPT !.status = status]
    BY <2>1
  <2>3. status \in {id.status, "ambiguous_vendor"}
    OBVIOUS
  <2> HIDE DEF status, found
  <2>4. DOMAIN after = DOMAIN id /\ after.cpe = id.cpe /\ after.status = status /\ after.candidates = id.candidates
    BY <1>1, <2>2
  <2> QED BY <1>1, <2>3, <2>4 DEF IdentityGrows, IsIdentity, HasVerifiedCpe
<1>3. CASE found # {}
  <2>1. first \in found
    <3>1. found \in SUBSET Nat
      BY <1>1
    <3> HIDE DEF found
    <3> QED BY <1>3, <3>1, Least
  <2>2. after = [id EXCEPT !.cpe = cpe, !.status = "verified", !.candidates[first].verified = TRUE]
    BY <1>3 DEF VerifyIdentity
  <2>3. PICK v \in Vendors : vendors(first) = {v}
    BY <2>1, VendorIs
  <2>4. cpe = [vendor |-> v, product |-> cs[first].product, version |-> cs[first].version]
    BY <2>3
  <2>5. first \in DOMAIN cs /\ cs[first] \in CandidateType
    BY <1>1, <2>1
  <2>6. cpe # None
    BY <2>4, <2>5, CandidatesAssumption
  <2>7. IsKnown(cpe, Dictionaries[d])
    BY <2>3, <2>4, <2>6 DEF IsKnown
  <2> HIDE DEF cpe, first, cs
  <2> DEFINE c == [cs[first] EXCEPT !.verified = TRUE]
             new == [cs EXCEPT ![first] = c]
  <2>8. c \in CandidateType
    BY <2>5 DEF CandidateType
  <2>9. new \in Seq(CandidateType)
    <3> HIDE DEF c
    <3> QED BY <1>1, <2>5, <2>8
  <2>10. after = [id EXCEPT !.cpe = cpe, !.status = "verified", !.candidates = new]
    BY <1>1, <2>2 DEF cs
  <2> HIDE DEF new
  <2>11. DOMAIN after = DOMAIN id /\ after.cpe = cpe /\ after.status = "verified" /\ after.candidates = new
    BY <1>1, <2>10
  <2> QED BY <1>1, <2>6, <2>7, <2>9, <2>11 DEF IdentityGrows, IsIdentity, HasVerifiedCpe
<1> QED BY <1>2, <1>3

----------------------------------------------------------------------------
(* The steps that write to the graph *)

\* A component of the SBOM speaks for the CPE of an RPM.
IsAsserted(identity, components, node) ==
  /\ identity.cpe # None /\ identity.status = "vendor_asserted"
  /\ \E i \in DOMAIN components : components[i].cpe = identity.cpe /\ IsComponentOf(components, i, node)

LEMMA NewIdentityGrows ==
  ASSUME NEW g, GraphInv(g), NEW r \in Rpms(g), NEW id, IdentityGrows(g.nodes[r].identity, id),
         NEW after, after = [g.nodes[r] EXCEPT !.identity = id]
  PROVE  NodeGrows(g.nodes[r], after) /\ after.identity = id
<1> DEFINE node == g.nodes[r]
<1>1. DOMAIN node = RpmFields
  BY RpmsStay DEF GraphInv, IsRpmOf
<1> HIDE DEF node
<1>2. after = [node EXCEPT !.identity = id]
  BY DEF node
<1>3. DOMAIN after = RpmFields /\ after.identity = id /\ after.clean = node.clean /\ \A f \in StaticFields : after[f] = node[f]
  BY <1>1, <1>2 DEF RpmFields, StaticFields
<1> QED BY <1>3 DEF NodeGrows, node

LEMMA BuildSbomGrows ==
  ASSUME NEW g, GraphInv(g), NEW document \in DOMAIN BuildSboms,
         NEW h, h = EnrichWithBuildSbom(g, document, BuildSboms[document])
  PROVE  /\ GraphGrows(g, h)
         /\ \A r \in Rpms(g) : \/ h.nodes[r].identity = g.nodes[r].identity
                               \/ IsAsserted(h.nodes[r].identity, BuildSboms[document], g.nodes[r])
<1> DEFINE components == BuildSboms[document]
           of(rpm) == ComponentFor(components, g.nodes[rpm])
           matched == {r \in Rpms(g) : of(r) # None}
           edges == {<<r, <<"sbom", document>>, "described_by">> : r \in matched}
           b == AddEdges(AddNodes(g, {<<"sbom", document>>}), edges)
           named == {m \in matched : of(m).cpe # None}
           updated == [r \in named |-> [g.nodes[r] EXCEPT !.identity = SbomIdentity(@, of(r).cpe)]]
<1>1. GraphGrows(g, b) /\ \A id \in DOMAIN g.nodes : b.nodes[id] = g.nodes[id]
  <2>1. /\ \A id \in {<<"sbom", document>>} : Kind(id) \in NewKinds
        /\ \A e \in edges : e[3] \in NewRelations
    BY DEF Kind, NewKinds, NewRelations
  <2> HIDE DEF edges
  <2> QED BY <2>1, AdditionGrows
<1>2. h = UpdateMetadata(b, updated)
  BY DEF EnrichWithBuildSbom
<1>3. \A r \in Rpms(g) : r \in DOMAIN g.nodes /\ IsIdentity(g.nodes[r].identity)
  BY RpmsStay DEF GraphInv, IsRpmOf, Rpms
<1>4. ASSUME NEW r \in named
      PROVE  /\ NodeGrows(g.nodes[r], updated[r])
             /\ \/ updated[r].identity = g.nodes[r].identity
                \/ IsAsserted(updated[r].identity, components, g.nodes[r])
  <2> DEFINE id == g.nodes[r].identity
             after == SbomIdentity(id, of(r).cpe)
  <2>1. r \in Rpms(g) /\ of(r) # None /\ of(r).cpe # None
    OBVIOUS
  <2>2. updated[r] = [g.nodes[r] EXCEPT !.identity = after]
    OBVIOUS
  <2>3. /\ IdentityGrows(id, after)
        /\ after = id \/ (after.cpe = of(r).cpe /\ after.status = "vendor_asserted")
    BY <1>3, <2>1, SbomIdentityIs
  <2>4. IsSeq(components)
    BY InputsAssumption
  <2>5. PICK i \in DOMAIN components : of(r) = components[i] /\ IsComponentOf(components, i, g.nodes[r])
    BY <2>1, <2>4, ComponentIs
  <2> HIDE DEF after, updated, of
  <2>6. NodeGrows(g.nodes[r], updated[r]) /\ updated[r].identity = after
    BY <2>1, <2>2, <2>3, NewIdentityGrows
  <2> QED BY <2>1, <2>3, <2>5, <2>6 DEF IsAsserted
<1>5. DOMAIN updated = named /\ named \subseteq Rpms(g)
  OBVIOUS
<1> HIDE DEF b, updated, named
<1>6. /\ GraphGrows(g, h)
      /\ \A id \in DOMAIN g.nodes : h.nodes[id] = IF id \in DOMAIN updated THEN updated[id] ELSE g.nodes[id]
  BY <1>1, <1>2, <1>4, <1>5, UpdateGrows
<1> QED BY <1>3, <1>4, <1>5, <1>6

LEMMA VerifyGrows ==
  ASSUME NEW g, GraphInv(g), NEW d \in DOMAIN Dictionaries, NEW h, h = VerifyGraphCpe(g, Dictionaries[d])
  PROVE  /\ GraphGrows(g, h)
         /\ \A r \in Rpms(g) :
              LET old == g.nodes[r].identity
                  new == h.nodes[r].identity
              IN  \/ new.cpe = old.cpe /\ new.status \in {old.status, "ambiguous_vendor"}
                  \/ new.status = "verified" /\ IsKnown(new.cpe, Dictionaries[d])
<1> DEFINE dictionary == Dictionaries[d]
           after(r) == [VerifyIdentity(g.nodes[r].identity, dictionary) EXCEPT !.backport = @ \/ g.nodes[r].elRelease]
           updated == [r \in Selected(g) |-> [g.nodes[r] EXCEPT !.identity = after(r)]]
           Verified(old, new) == \/ new.cpe = old.cpe /\ new.status \in {old.status, "ambiguous_vendor"}
                                 \/ new.status = "verified" /\ IsKnown(new.cpe, dictionary)
<1>1. h = UpdateMetadata(g, updated)
  BY DEF VerifyGraphCpe
<1>2. \A r \in Rpms(g) : r \in DOMAIN g.nodes /\ IsIdentity(g.nodes[r].identity)
  BY RpmsStay DEF GraphInv, IsRpmOf, Rpms
<1>3. ASSUME NEW r \in Selected(g)
      PROVE  NodeGrows(g.nodes[r], updated[r]) /\ Verified(g.nodes[r].identity, updated[r].identity)
  <2> DEFINE id == g.nodes[r].identity
             found == VerifyIdentity(id, dictionary)
             backport == found.backport \/ g.nodes[r].elRelease
             new == after(r)
  <2>1. r \in Rpms(g) /\ IsIdentity(id)
    BY <1>2 DEF Selected
  <2>2. IdentityGrows(id, found) /\ Verified(id, found)
    BY <2>1, VerifyIdentityIs
  <2>3. new = [found EXCEPT !.backport = backport]
    OBVIOUS
  <2>4. updated[r] = [g.nodes[r] EXCEPT !.identity = new]
    OBVIOUS
  <2> HIDE DEF found, backport, new, updated
  <2>5. DOMAIN new = DOMAIN found /\ new.cpe = found.cpe /\ new.status = found.status /\ new.candidates = found.candidates
    BY <2>2, <2>3 DEF IdentityGrows, IsIdentity
  <2>6. IdentityGrows(id, new) /\ Verified(id, new)
    BY <2>2, <2>5 DEF IdentityGrows, IsIdentity, HasVerifiedCpe
  <2>7. NodeGrows(g.nodes[r], updated[r]) /\ updated[r].identity = new
    BY <2>1, <2>4, <2>6, NewIdentityGrows
  <2> QED BY <2>6, <2>7
<1>4. DOMAIN updated = Selected(g) /\ Selected(g) \subseteq Rpms(g)
  BY DEF Selected
<1>5. GraphGrows(g, g)
  BY StaysGrown
<1> HIDE DEF updated
<1>6. /\ GraphGrows(g, h)
      /\ \A id \in DOMAIN g.nodes : h.nodes[id] = IF id \in DOMAIN updated THEN updated[id] ELSE g.nodes[id]
  BY <1>1, <1>3, <1>4, <1>5, UpdateGrows
<1>7. ASSUME NEW r \in Rpms(g)
      PROVE  Verified(g.nodes[r].identity, h.nodes[r].identity)
  BY <1>2, <1>3, <1>4, <1>6
<1> QED BY <1>6, <1>7

LEMMA ErrataGrow ==
  ASSUME NEW g, GraphInv(g), NEW pairs, NEW h, h = AttachAdvisories(g, pairs)
  PROVE  GraphGrows(g, h) /\ \A id \in DOMAIN g.nodes : h.nodes[id] = g.nodes[id]
<1> DEFINE erratum(p) == <<"errata", p[2].id>>
           cvesOf(p)  == {<<"cve", c>> : c \in p[2].cves}
           ids == {erratum(p) : p \in pairs} \cup UNION {cvesOf(p) : p \in pairs}
           edges == {<<p[1], erratum(p), "fixes">> : p \in pairs}
                      \cup UNION {{<<erratum(p), c, "fixes">> : c \in cvesOf(p)} : p \in pairs}
<1>1. h = AddEdges(AddNodes(g, ids), edges)
  BY DEF AttachAdvisories
<1>2. \A id \in ids : Kind(id) \in NewKinds
  <2>1. \A p \in pairs : Kind(erratum(p)) \in NewKinds /\ \A id \in cvesOf(p) : Kind(id) \in NewKinds
    BY DEF Kind, NewKinds
  <2> HIDE DEF erratum, cvesOf
  <2> QED BY <2>1
<1>3. \A e \in edges : e[3] \in NewRelations
  <2>1. \A p \in pairs : \A c \in cvesOf(p) : <<erratum(p), c, "fixes">>[3] \in NewRelations
    BY DEF NewRelations
  <2>2. \A p \in pairs : <<p[1], erratum(p), "fixes">>[3] \in NewRelations
    BY DEF NewRelations
  <2> HIDE DEF erratum, cvesOf
  <2> QED BY <2>1, <2>2
<1> HIDE DEF ids, edges
<1> QED BY <1>1, <1>2, <1>3, AdditionGrows

LEMMA ErrataSourceGrows ==
  ASSUME NEW g, GraphInv(g), NEW advisories, NEW h, h = AttachErrataFromSource(g, advisories)
  PROVE  GraphGrows(g, h) /\ \A r \in Rpms(g) : h.nodes[r].identity = g.nodes[r].identity
<1>1. CASE advisories = None
  BY <1>1, StaysGrown DEF AttachErrataFromSource
<1>2. CASE advisories # None
  <2> DEFINE b == AttachAdvisories(g, ReportedPairs(g, advisories))
             clean == Rpms(g) \ Reported(g, advisories)
             updated == [r \in clean |-> [g.nodes[r] EXCEPT !.clean = TRUE]]
  <2>1. h = UpdateMetadata(b, updated)
    BY <1>2 DEF AttachErrataFromSource
  <2>2. GraphGrows(g, b) /\ \A id \in DOMAIN g.nodes : b.nodes[id] = g.nodes[id]
    BY ErrataGrow
  <2>3. ASSUME NEW r \in clean
        PROVE  NodeGrows(g.nodes[r], updated[r]) /\ updated[r].identity = g.nodes[r].identity
    <3> DEFINE node == g.nodes[r]
    <3>1. NodeGrows(node, node)
      BY StaysGrown DEF GraphGrows
    <3>2. updated[r] = [node EXCEPT !.clean = TRUE]
      OBVIOUS
    <3> HIDE DEF node, updated
    <3>3. /\ DOMAIN updated[r] = RpmFields /\ updated[r].identity = node.identity /\ updated[r].clean = TRUE
          /\ \A f \in StaticFields : updated[r][f] = node[f]
      BY <3>1, <3>2 DEF NodeGrows, RpmFields, StaticFields
    <3> QED BY <3>1, <3>3 DEF NodeGrows, node
  <2>4. DOMAIN updated = clean /\ clean \subseteq Rpms(g)
    OBVIOUS
  <2>5. \A r \in Rpms(g) : r \in DOMAIN g.nodes
    BY DEF Rpms
  <2> HIDE DEF b, updated, clean
  <2>6. /\ GraphGrows(g, h)
        /\ \A id \in DOMAIN g.nodes : h.nodes[id] = IF id \in DOMAIN updated THEN updated[id] ELSE g.nodes[id]
    BY <2>1, <2>2, <2>3, <2>4, UpdateGrows
  <2> QED BY <2>3, <2>4, <2>5, <2>6
<1> QED BY <1>1, <1>2

HasPayloads(g, h, rpms, payloads) ==
  /\ GraphGrows(g, h)
  /\ \A r \in Rpms(g) : h.nodes[r].identity = g.nodes[r].identity
  /\ \A r \in rpms : h.nodes[r].files = payloads[r].files

LEMMA PayloadsGrow ==
  ASSUME NEW g, GraphInv(g), NEW rpms, rpms \subseteq Rpms(g), NEW payloads, NEW h, h = PayloadFacts(g, rpms, payloads)
  PROVE  HasPayloads(g, h, rpms, payloads)
<1> DEFINE elf(r) == [static |-> payloads[r].static, dlopen |-> payloads[r].dlopen]
           updated == [r \in rpms |-> [g.nodes[r] EXCEPT !.elf = elf(r), !.files = payloads[r].files]]
<1>1. h = UpdateMetadata(g, updated)
  BY DEF PayloadFacts
<1>2. ASSUME NEW r \in rpms
      PROVE  /\ NodeGrows(g.nodes[r], updated[r]) /\ updated[r].identity = g.nodes[r].identity
             /\ updated[r].files = payloads[r].files
  <2> DEFINE node == g.nodes[r]
  <2>1. NodeGrows(node, node)
    BY StaysGrown DEF GraphGrows
  <2>2. updated[r] = [node EXCEPT !.elf = elf(r), !.files = payloads[r].files]
    OBVIOUS
  <2> HIDE DEF node, updated, elf
  <2>3. /\ DOMAIN updated[r] = RpmFields /\ updated[r].identity = node.identity /\ updated[r].clean = node.clean
        /\ updated[r].files = payloads[r].files
        /\ \A f \in StaticFields : updated[r][f] = node[f]
    BY <2>1, <2>2 DEF NodeGrows, RpmFields, StaticFields
  <2> QED BY <2>1, <2>3 DEF NodeGrows, node
<1>3. DOMAIN updated = rpms
  OBVIOUS
<1>4. GraphGrows(g, g)
  BY StaysGrown
<1>5. \A r \in Rpms(g) : r \in DOMAIN g.nodes
  BY DEF Rpms
<1> HIDE DEF updated
<1>6. /\ GraphGrows(g, h)
      /\ \A id \in DOMAIN g.nodes : h.nodes[id] = IF id \in DOMAIN updated THEN updated[id] ELSE g.nodes[id]
  BY <1>1, <1>2, <1>3, <1>4, UpdateGrows
<1> QED BY <1>2, <1>3, <1>5, <1>6 DEF HasPayloads

----------------------------------------------------------------------------
(* The claims of a step *)

LEMMA SeqIs ==
  ASSUME NEW C, NEW s \in Seq(C)
  PROVE  IsSeq(s) /\ Range(s) \subseteq C
<1>1. Len(s) \in Nat /\ DOMAIN s = 1 .. Len(s) /\ s = [i \in 1 .. Len(s) |-> s[i]]
  OBVIOUS
<1>2. \A i \in 1 .. Len(s) : s[i] \in Range(s) /\ s[i] \in C
  BY <1>1 DEF Range
<1>3. s \in [1 .. Len(s) -> Range(s)]
  BY <1>1, <1>2
<1>4. s \in Seq(Range(s))
  BY <1>1, <1>3
<1> QED BY <1>1, <1>2, <1>4 DEF IsSeq, Range

\* A function of the places of a sequence is one.
LEMMA MapIs ==
  ASSUME NEW s, IsSeq(s), NEW f, f = [i \in DOMAIN s |-> f[i]]
  PROVE  IsSeq(f) /\ DOMAIN f = DOMAIN s
<1>1. Len(s) \in Nat /\ DOMAIN s = 1 .. Len(s)
  BY DEF IsSeq
<1>2. DOMAIN f = 1 .. Len(s) /\ f \in [1 .. Len(s) -> Range(f)]
  BY <1>1 DEF Range
<1>3. f \in Seq(Range(f))
  BY <1>1, <1>2
<1> QED BY <1>1, <1>2, <1>3 DEF IsSeq

LEMMA FlatIs ==
  ASSUME NEW seqs, IsSeq(seqs), \A i \in DOMAIN seqs : IsSeq(seqs[i])
  PROVE  /\ IsSeq(FlattenSeq(seqs))
         /\ \A i \in DOMAIN seqs : Range(seqs[i]) \subseteq Range(FlattenSeq(seqs))
<1> DEFINE C == UNION {Range(seqs[i]) : i \in DOMAIN seqs}
<1>1. ASSUME NEW i \in DOMAIN seqs
      PROVE  seqs[i] \in Seq(C)
  <2>1. seqs[i] \in Seq(Range(seqs[i])) /\ Range(seqs[i]) \subseteq C
    BY DEF IsSeq
  <2> HIDE DEF C
  <2> QED BY <2>1
<1>2. Len(seqs) \in Nat /\ DOMAIN seqs = 1 .. Len(seqs) /\ seqs = [i \in 1 .. Len(seqs) |-> seqs[i]]
  BY DEF IsSeq
<1> HIDE DEF C
<1>3. seqs \in [1 .. Len(seqs) -> Seq(C)]
  BY <1>1, <1>2
<1>4. seqs \in Seq(Seq(C))
  BY <1>2, <1>3
<1>5. FlattenSeq(seqs) \in Seq(C) /\ Range(FlattenSeq(seqs)) = C
  BY <1>4, FlattenedIs DEF C
<1> QED BY <1>5, SeqIs DEF C

LEMMA DistinctIs ==
  ASSUME NEW s, IsSeq(s), NEW keys, DOMAIN keys = DOMAIN s
  PROVE  /\ IsSeq(Deduped(s, keys))
         /\ \A i \in DOMAIN s : \E j \in DOMAIN s : keys[j] = keys[i] /\ s[j] \in Range(Deduped(s, keys))
<1>1. s \in Seq(Range(s))
  BY DEF IsSeq
<1>2. Deduped(s, keys) \in Seq(Range(s))
  BY <1>1, DedupedIs
<1>3. IsSeq(Deduped(s, keys))
  BY <1>2, SeqIs
<1> QED BY <1>1, <1>3, DedupedIs

LEMMA InOrderIs ==
  ASSUME NEW rpms, rpms \subseteq Rpms(BaseGraph)
  PROVE  IsSeq(InOrder(rpms)) /\ Range(InOrder(rpms)) = rpms
<1> DEFINE ns == {r[2] : r \in rpms}
           s == Ascending(ns)
<1>1. \A r \in rpms : r[2] \in Nat /\ r = <<"rpm", r[2]>>
  BY RpmsAssumption
<1>2. ns \in SUBSET Nat /\ IsFiniteSet(ns)
  <2>1. IsFiniteSet(rpms)
    BY RpmsAssumption, FS_Subset DEF Rpms
  <2>2. [r \in rpms |-> r[2]] \in Surjection(rpms, ns)
    BY DEF Surjection
  <2>3. IsFiniteSet(ns)
    <3> HIDE DEF ns
    <3> QED BY <2>1, <2>2, FS_Surjection
  <2> QED BY <1>1, <2>3
<1>3. \A n \in ns : <<"rpm", n>> \in rpms
  BY <1>1
<1> HIDE DEF ns
<1>4. s \in Seq(ns) /\ \A n \in ns : \E k \in DOMAIN s : s[k] = n
  BY <1>2, AscendingIs
<1> HIDE DEF s
<1>5. InOrder(rpms) = [k \in DOMAIN s |-> <<"rpm", s[k]>>]
  BY DEF InOrder, MapSeq, s, ns
<1>6. IsSeq(InOrder(rpms)) /\ DOMAIN InOrder(rpms) = DOMAIN s
  <2>1. IsSeq(s)
    BY <1>4, SeqIs
  <2>2. InOrder(rpms) = [k \in DOMAIN s |-> InOrder(rpms)[k]]
    BY <1>5
  <2> QED BY <2>1, <2>2, MapIs
<1>7. \A k \in DOMAIN s : s[k] \in ns
  BY <1>4
<1>8. \A r \in rpms : \E k \in DOMAIN s : <<"rpm", s[k]>> = r
  <2>1. \A r \in rpms : r[2] \in ns
    BY DEF ns
  <2> QED BY <1>1, <1>4, <2>1
<1> QED BY <1>3, <1>5, <1>6, <1>7, <1>8 DEF Range

\* add_dependency_claim, of the claims of a step.
LEMMA ClaimsStay ==
  ASSUME NEW cs, IsSeq(cs), UniqueIds(cs), NEW new, IsSeq(new), NEW after, after = AddAll(cs, new)
  PROVE  /\ IsSeq(after.claims) /\ Kept(cs, after.claims) /\ after.raised \in BOOLEAN
         /\ ~after.raised => Range(new) \subseteq Range(after.claims)
         /\ Range(new) \subseteq Range(cs) => ~after.raised
<1> DEFINE C == Range(cs) \cup Range(new)
<1>1. cs \in Seq(Range(cs)) /\ new \in Seq(Range(new)) /\ Range(cs) \subseteq C /\ Range(new) \subseteq C
  BY DEF IsSeq
<1> HIDE DEF C
<1>2. cs \in Seq(C) /\ new \in Seq(C)
  BY <1>1
<1>3. /\ after \in States(C) /\ Kept(cs, after.claims)
      /\ ~after.raised => Range(new) \subseteq Range(after.claims)
      /\ Range(new) \subseteq Range(cs) => ~after.raised
  BY <1>2, AddAllIs
<1>4. after.claims \in Seq(C) /\ after.raised \in BOOLEAN
  BY <1>3 DEF States
<1> QED BY <1>3, <1>4, SeqIs

LEMMA KeptStay ==
  ASSUME NEW cs, IsSeq(cs), NEW after, IsSeq(after), Kept(cs, after)
  PROVE  Range(cs) \subseteq Range(after)
<1>1. /\ Len(cs) \in Nat /\ DOMAIN cs = 1 .. Len(cs) /\ Len(after) \in Nat /\ DOMAIN after = 1 .. Len(after)
      /\ Len(cs) <= Len(after)
  BY DEF IsSeq, Kept
<1>2. \A i \in DOMAIN cs : i \in DOMAIN after /\ after[i] = cs[i]
  BY <1>1 DEF Kept
<1> QED BY <1>2 DEF Range

\* A package that is claimed of an RPM by some evidence.
Has(new, r, evidence, name, version) ==
  \E c \in Range(new) : c.subject = r /\ c.evidence = evidence /\ c.package[3] = name /\ c.version = version

BaseNodesOf(edges) ==
  [name \in {edge.source : edge \in Range(edges)} |-> InOrder({r \in Selected(BaseGraph) : BaseGraph.nodes[r].name = name})]

RepographNew(dot) == RpmgraphClaims(Repographs[dot], BaseNodesOf(Repographs[dot]))

LEMMA RepographNewIs ==
  ASSUME NEW dot \in DOMAIN Repographs
  PROVE  /\ IsSeq(RepographNew(dot))
         /\ \A e \in Range(Repographs[dot]) : \A r \in Range(BaseNodesOf(Repographs[dot])[e.source]) :
              Has(RepographNew(dot), r, "repograph", e.name, e.version)
<1> DEFINE edges == Repographs[dot]
           nodesOf == BaseNodesOf(edges)
           claim(i, rpm) == [Dep(rpm, AlmaLinuxRpm(edges[i].name), "repograph", edges[i].version)
                               EXCEPT !.state = "resolved", !.raw = [of |-> i]]
           of(i) == [k \in DOMAIN nodesOf[edges[i].source] |-> claim(i, nodesOf[edges[i].source][k])]
           seqs == [i \in DOMAIN edges |-> of(i)]
           found == FlattenSeq(seqs)
           keys == [k \in DOMAIN found |-> ClaimNodeId(found[k])]
<1>1. RepographNew(dot) = Deduped(found, keys)
  BY DEF RepographNew, RpmgraphClaims, MapSeq
<1>2. \A i \in DOMAIN edges : edges[i] \in Range(edges)
  BY DEF Range
<1>3. ASSUME NEW i \in DOMAIN edges
      PROVE  IsSeq(nodesOf[edges[i].source])
  <2> DEFINE rpms == {r \in Selected(BaseGraph) : BaseGraph.nodes[r].name = edges[i].source}
  <2>1. nodesOf[edges[i].source] = InOrder(rpms)
    BY <1>2 DEF BaseNodesOf
  <2>2. rpms \subseteq Rpms(BaseGraph)
    BY DEF Selected
  <2> HIDE DEF rpms
  <2> QED BY <2>1, <2>2, InOrderIs
<1> HIDE DEF nodesOf, claim
<1>4. ASSUME NEW i \in DOMAIN edges
      PROVE  IsSeq(of(i))
  <2>1. of(i) = [k \in DOMAIN nodesOf[edges[i].source] |-> of(i)[k]]
    OBVIOUS
  <2> HIDE DEF of
  <2> QED BY <1>3, <2>1, MapIs
<1>5. IsSeq(edges)
  BY InputsAssumption
<1> HIDE DEF of, edges
<1>6. IsSeq(found) /\ \A i \in DOMAIN edges : Range(of(i)) \subseteq Range(found)
  <2>1. seqs = [i \in DOMAIN edges |-> seqs[i]] /\ \A i \in DOMAIN edges : seqs[i] = of(i)
    OBVIOUS
  <2> HIDE DEF seqs
  <2>2. IsSeq(seqs) /\ DOMAIN seqs = DOMAIN edges
    BY <1>5, <2>1, MapIs
  <2> QED BY <1>4, <2>1, <2>2, FlatIs
<1> HIDE DEF found
<1>7. DOMAIN keys = DOMAIN found /\ \A k \in DOMAIN found : keys[k] = ClaimNodeId(found[k])
  OBVIOUS
<1> HIDE DEF keys
<1>8. /\ IsSeq(Deduped(found, keys))
      /\ \A k \in DOMAIN found : \E j \in DOMAIN found : keys[j] = keys[k] /\ found[j] \in Range(Deduped(found, keys))
  BY <1>6, <1>7, DistinctIs
<1>9. ASSUME NEW e \in Range(edges), NEW r \in Range(nodesOf[e.source])
      PROVE  Has(RepographNew(dot), r, "repograph", e.name, e.version)
  <2>1. PICK i \in DOMAIN edges : edges[i] = e
    BY DEF Range
  <2>2. PICK n \in DOMAIN nodesOf[e.source] : nodesOf[e.source][n] = r
    BY DEF Range
  <2>3. claim(i, r) \in Range(of(i))
    BY <2>1, <2>2 DEF of, Range
  <2>4. PICK k \in DOMAIN found : found[k] = claim(i, r)
    BY <1>6, <2>3 DEF Range
  <2>5. PICK j \in DOMAIN found : keys[j] = keys[k] /\ found[j] \in Range(Deduped(found, keys))
    BY <1>8
  <2> DEFINE c == found[j]
             d == claim(i, r)
  <2>6. ClaimNodeId(c) = ClaimNodeId(d)
    BY <1>7, <2>4, <2>5
  <2> HIDE DEF c, d
  <2>7. c.subject = d.subject /\ c.package = d.package /\ c.evidence = d.evidence /\ c.version = d.version
    BY <2>6 DEF ClaimNodeId
  <2>8. d.subject = r /\ d.package[3] = e.name /\ d.evidence = "repograph" /\ d.version = e.version
    BY <2>1 DEF d, claim, Dep, AlmaLinuxRpm
  <2>9. c \in Range(RepographNew(dot))
    BY <1>1, <2>5 DEF c
  <2> QED BY <2>7, <2>8, <2>9 DEF Has
<1> QED BY <1>1, <1>8, <1>9 DEF edges, nodesOf

LEMMA DnfClaimsAre ==
  ASSUME NEW a \in DOMAIN DnfAnswers, NEW r \in Rpms(BaseGraph)
  PROVE  LET answer == DnfAnswers[a][r]
         IN  /\ IsSeq(DnfClaims(r, answer))
             /\ ~DnfFails(answer) => \A i \in 1 .. 3 : \A p \in Range(answer[DnfRelations[i]]) :
                                       Has(DnfClaims(r, answer), r, DnfEvidence[i], p.name, p.version)
<1> DEFINE answer == DnfAnswers[a][r]
           fails(i) == answer[DnfRelations[i]] = None
           asked == {i \in 1 .. 3 : \A j \in 1 .. i : ~fails(j)}
           claim(i, p) == [Dep(r, AlmaLinuxRpm(p.name), DnfEvidence[i], p.version)
                             EXCEPT !.state = "resolved", !.scope = IF i = 1 THEN "runtime" ELSE "optional"]
           of(i) == [k \in DOMAIN answer[DnfRelations[i]] |-> claim(i, answer[DnfRelations[i]][k])]
           seqs == [i \in 1 .. Cardinality(asked) |-> of(i)]
           found == FlattenSeq(seqs)
<1>1. DnfClaims(r, answer) = Deduped(found, found)
  BY DEF DnfClaims, MapSeq
<1>2. \A i \in 1 .. 3 : DnfRelations[i] \in {"requires", "recommends", "suggests"}
  BY DEF DnfRelations
<1>3. \A i \in 1 .. 3 : fails(i) \/ IsSeq(answer[DnfRelations[i]])
  BY <1>2, InputsAssumption
<1>4. \E n \in 0 .. 3 : asked = 1 .. n /\ Cardinality(asked) = n
  <2>1. ASSUME NEW n \in 0 .. 3 PROVE Cardinality(1 .. n) = n
    <3>1. n \in Nat
      OBVIOUS
    <3>2. Cardinality(1 .. n) = IF 1 > n THEN 0 ELSE n - 1 + 1
      BY <3>1, FS_Interval
    <3> QED BY <3>1, <3>2
  <2>2. \E n \in 0 .. 3 : asked = 1 .. n
    <3> HIDE DEF fails
    <3>1. CASE fails(1)
      <4>1. asked = 1 .. 0
        BY <3>1
      <4> QED BY <4>1
    <3>2. CASE ~fails(1) /\ fails(2)
      <4>1. asked = 1 .. 1
        BY <3>2
      <4> QED BY <4>1
    <3>3. CASE ~fails(1) /\ ~fails(2) /\ fails(3)
      <4>1. asked = 1 .. 2
        BY <3>3
      <4> QED BY <4>1
    <3>4. CASE ~fails(1) /\ ~fails(2) /\ ~fails(3)
      <4>1. asked = 1 .. 3
        BY <3>4
      <4> QED BY <4>1
    <3> QED BY <3>1, <3>2, <3>3, <3>4
  <2> HIDE DEF asked
  <2> QED BY <2>1, <2>2
<1>5. PICK n \in 0 .. 3 : asked = 1 .. n /\ Cardinality(asked) = n
  BY <1>4
<1>6. \A i \in 1 .. n : i \in 1 .. 3 /\ ~fails(i)
  <2>1. \A i \in 1 .. n : i \in asked
    BY <1>5
  <2> QED BY <2>1
<1>7. ~DnfFails(answer) => n = 3
  <2> SUFFICES ASSUME ~DnfFails(answer) PROVE n = 3
    OBVIOUS
  <2>1. \A i \in 1 .. 3 : ~fails(i)
    BY <1>2, InputsAssumption DEF DnfFails
  <2>2. 3 \in asked
    <3> HIDE DEF fails
    <3> QED BY <2>1
  <2> HIDE DEF asked
  <2> QED BY <1>5, <2>2
<1> HIDE DEF asked, fails, claim
<1>8. ASSUME NEW i \in 1 .. n
      PROVE  IsSeq(of(i))
  <2>1. IsSeq(answer[DnfRelations[i]])
    BY <1>3, <1>6
  <2>2. of(i) = [k \in DOMAIN answer[DnfRelations[i]] |-> of(i)[k]]
    OBVIOUS
  <2> HIDE DEF of
  <2> QED BY <2>1, <2>2, MapIs
<1> HIDE DEF of
<1>9. IsSeq(seqs) /\ DOMAIN seqs = 1 .. n /\ \A i \in 1 .. n : seqs[i] = of(i)
  <2>1. seqs = [i \in 1 .. n |-> of(i)]
    BY <1>5
  <2> HIDE DEF seqs
  <2>2. seqs \in [1 .. n -> Range(seqs)] /\ DOMAIN seqs = 1 .. n /\ n \in Nat
    BY <2>1 DEF Range
  <2>3. seqs \in Seq(Range(seqs))
    BY <2>2
  <2> QED BY <2>1, <2>2, <2>3 DEF IsSeq
<1> HIDE DEF seqs
<1>10. IsSeq(found) /\ \A i \in 1 .. n : Range(of(i)) \subseteq Range(found)
  BY <1>8, <1>9, FlatIs
<1> HIDE DEF found
<1>11. /\ IsSeq(Deduped(found, found))
       /\ \A k \in DOMAIN found : \E j \in DOMAIN found : found[j] = found[k] /\ found[j] \in Range(Deduped(found, found))
  BY <1>10, DistinctIs
<1>12. ASSUME ~DnfFails(answer), NEW i \in 1 .. 3, NEW p \in Range(answer[DnfRelations[i]])
       PROVE  Has(DnfClaims(r, answer), r, DnfEvidence[i], p.name, p.version)
  <2>1. PICK k \in DOMAIN answer[DnfRelations[i]] : answer[DnfRelations[i]][k] = p
    BY DEF Range
  <2>2. claim(i, p) \in Range(of(i))
    BY <2>1 DEF of, Range
  <2>3. claim(i, p) \in Range(found)
    BY <1>7, <1>10, <1>12, <2>2
  <2>4. claim(i, p) \in Range(DnfClaims(r, answer))
    BY <1>1, <1>11, <2>3 DEF Range
  <2>5. /\ claim(i, p).subject = r /\ claim(i, p).evidence = DnfEvidence[i]
        /\ claim(i, p).package[3] = p.name /\ claim(i, p).version = p.version
    BY DEF claim, Dep, AlmaLinuxRpm
  <2> QED BY <2>4, <2>5 DEF Has
<1> HIDE DEF answer
<1>13. IsSeq(DnfClaims(r, answer))
  BY <1>1, <1>11
<1> QED BY <1>12, <1>13 DEF answer

\* The claims of each of some RPMs, in the order of their ids.
LEMMA EachIs ==
  ASSUME NEW rpms, rpms \subseteq Rpms(BaseGraph), NEW of, \A r \in rpms : IsSeq(of[r]),
         NEW flat, flat = FlattenSeq([i \in DOMAIN InOrder(rpms) |-> of[InOrder(rpms)[i]]])
  PROVE  IsSeq(flat) /\ \A r \in rpms : Range(of[r]) \subseteq Range(flat)
<1> DEFINE ids == InOrder(rpms)
           seqs == [i \in DOMAIN ids |-> of[ids[i]]]
<1>1. IsSeq(ids) /\ Range(ids) = rpms
  BY InOrderIs
<1>2. flat = FlattenSeq(seqs)
  OBVIOUS
<1> HIDE DEF ids
<1>3. (\A i \in DOMAIN ids : ids[i] \in rpms) /\ \A r \in rpms : \E i \in DOMAIN ids : ids[i] = r
  BY <1>1 DEF Range
<1>4. IsSeq(seqs) /\ DOMAIN seqs = DOMAIN ids /\ \A i \in DOMAIN ids : seqs[i] = of[ids[i]]
  <2>1. seqs = [i \in DOMAIN ids |-> seqs[i]] /\ \A i \in DOMAIN ids : seqs[i] = of[ids[i]]
    OBVIOUS
  <2> HIDE DEF seqs
  <2> QED BY <1>1, <2>1, MapIs
<1> HIDE DEF seqs
<1>5. IsSeq(flat) /\ \A i \in DOMAIN ids : Range(of[ids[i]]) \subseteq Range(flat)
  BY <1>2, <1>3, <1>4, FlatIs
<1> QED BY <1>3, <1>5

DnfAll(a) ==
  LET asked == InOrder(Selected(BaseGraph))
  IN  FlattenSeq([i \in DOMAIN asked |-> DnfClaims(asked[i], DnfAnswers[a][asked[i]])])

DnfNew(a) == IF a = None THEN << >> ELSE DnfAll(a)

LEMMA EmptyIs == IsSeq(<< >>) /\ Range(<< >>) = {}
  BY DEF IsSeq, Range

LEMMA SelectedAre == Selected(BaseGraph) \subseteq Rpms(BaseGraph) /\ WorkList(BaseGraph) \subseteq Rpms(BaseGraph)
  BY DEF Selected, WorkList

LEMMA DnfNewIs ==
  ASSUME NEW a \in DOMAIN DnfAnswers
  PROVE  /\ IsSeq(DnfAll(a))
         /\ \A r \in Selected(BaseGraph) : ~DnfFails(DnfAnswers[a][r]) =>
              \A i \in 1 .. 3 : \A p \in Range(DnfAnswers[a][r][DnfRelations[i]]) :
                Has(DnfAll(a), r, DnfEvidence[i], p.name, p.version)
<1> DEFINE rpms == Selected(BaseGraph)
           of == [r \in rpms |-> DnfClaims(r, DnfAnswers[a][r])]
<1>1. rpms \subseteq Rpms(BaseGraph) /\ \A r \in rpms : IsSeq(of[r])
  BY SelectedAre, DnfClaimsAre
<1>2. DnfAll(a) = FlattenSeq([i \in DOMAIN InOrder(rpms) |-> of[InOrder(rpms)[i]]])
  <2>1. \A i \in DOMAIN InOrder(rpms) : InOrder(rpms)[i] \in rpms
    BY <1>1, InOrderIs DEF Range
  <2> QED BY <2>1 DEF DnfAll
<1> HIDE DEF of
<1>3. IsSeq(DnfAll(a)) /\ \A r \in rpms : Range(of[r]) \subseteq Range(DnfAll(a))
  BY <1>1, <1>2, EachIs
<1>4. ASSUME NEW r \in rpms, ~DnfFails(DnfAnswers[a][r]),
             NEW i \in 1 .. 3, NEW p \in Range(DnfAnswers[a][r][DnfRelations[i]])
      PROVE  Has(DnfAll(a), r, DnfEvidence[i], p.name, p.version)
  <2>1. Has(of[r], r, DnfEvidence[i], p.name, p.version)
    BY <1>1, <1>4, DnfClaimsAre DEF of
  <2> QED BY <1>3, <2>1 DEF Has
<1> QED BY <1>3, <1>4

\* Two sequences one after the other.
LEMMA JoinedIs ==
  ASSUME NEW s, IsSeq(s), NEW t, IsSeq(t)
  PROVE  IsSeq(s \o t) /\ Range(s) \subseteq Range(s \o t) /\ Range(t) \subseteq Range(s \o t)
<1> DEFINE C == Range(s) \cup Range(t)
<1>1. s \in Seq(C) /\ t \in Seq(C)
  <2>1. s \in Seq(Range(s)) /\ t \in Seq(Range(t)) /\ Range(s) \subseteq C /\ Range(t) \subseteq C
    BY DEF IsSeq
  <2> HIDE DEF C
  <2> QED BY <2>1
<1> HIDE DEF C
<1>2. IsSeq(s \o t)
  <2>1. s \o t \in Seq(C)
    BY <1>1
  <2> QED BY <2>1, SeqIs
<1>3. /\ Len(s) \in Nat /\ Len(t) \in Nat /\ DOMAIN s = 1 .. Len(s) /\ DOMAIN t = 1 .. Len(t)
      /\ DOMAIN (s \o t) = 1 .. Len(s) + Len(t)
  BY <1>1
<1>4. ASSUME NEW x \in Range(s)
      PROVE  x \in Range(s \o t)
  <2>1. PICK k \in 1 .. Len(s) : s[k] = x
    BY <1>3 DEF Range
  <2>2. (s \o t)[k] = x /\ k \in 1 .. Len(s) + Len(t)
    BY <1>1, <1>3, <2>1
  <2> QED BY <1>3, <2>2 DEF Range
<1>5. ASSUME NEW x \in Range(t)
      PROVE  x \in Range(s \o t)
  <2>1. PICK k \in 1 .. Len(t) : t[k] = x
    BY <1>3 DEF Range
  <2>2. (s \o t)[Len(s) + k] = x /\ Len(s) + k \in 1 .. Len(s) + Len(t)
    BY <1>1, <1>3, <2>1
  <2> QED BY <1>3, <2>2 DEF Range
<1> QED BY <1>2, <1>4, <1>5

LEMMA HeaderClaimsAre ==
  ASSUME NEW r \in Rpms(BaseGraph)
  PROVE  /\ IsSeq(HeaderClaims(r, HeaderOf[r]))
         /\ \A q \in Range(HeaderOf[r].requires) : \E c \in Range(HeaderClaims(r, HeaderOf[r])) :
              /\ c.subject = r /\ c.evidence = "rpm_header_requires"
              /\ c.package[3] = q.name /\ c.version = q.version /\ c.requested = q.requested
         /\ \A soname \in Range(HeaderOf[r].sonames) : Has(HeaderClaims(r, HeaderOf[r]), r, "rpm_header_soname", soname, None)
<1> DEFINE header == HeaderOf[r]
           claim(q) == [Dep(r, Rpm(q.name), "rpm_header_requires", q.version) EXCEPT !.requested = q.requested]
           sonameClaim(n) == [Dep(r, Rpm(n), "rpm_header_soname", None) EXCEPT !.linkage = "dynamic"]
           required == [k \in DOMAIN header.requires |-> claim(header.requires[k])]
           linked == [k \in DOMAIN header.sonames |-> sonameClaim(header.sonames[k])]
           distinct == Deduped(required, required)
<1>1. HeaderClaims(r, header) = linked \o distinct
  BY DEF HeaderClaims, MapSeq
<1>2. IsSeq(header.requires) /\ IsSeq(header.sonames)
  BY InputsAssumption
<1> HIDE DEF header, claim, sonameClaim
<1>3. /\ IsSeq(required) /\ DOMAIN required = DOMAIN header.requires
      /\ \A k \in DOMAIN header.requires : required[k] = claim(header.requires[k])
  <2>1. /\ required = [k \in DOMAIN header.requires |-> required[k]]
        /\ \A k \in DOMAIN header.requires : required[k] = claim(header.requires[k])
    OBVIOUS
  <2> HIDE DEF required
  <2> QED BY <1>2, <2>1, MapIs
<1>4. /\ IsSeq(linked) /\ DOMAIN linked = DOMAIN header.sonames
      /\ \A k \in DOMAIN header.sonames : linked[k] = sonameClaim(header.sonames[k])
  <2>1. /\ linked = [k \in DOMAIN header.sonames |-> linked[k]]
        /\ \A k \in DOMAIN header.sonames : linked[k] = sonameClaim(header.sonames[k])
    OBVIOUS
  <2> HIDE DEF linked
  <2> QED BY <1>2, <2>1, MapIs
<1> HIDE DEF required, linked
<1>5. IsSeq(distinct) /\ \A k \in DOMAIN required : required[k] \in Range(distinct)
  BY <1>3, DistinctIs
<1> HIDE DEF distinct
<1>6. /\ IsSeq(HeaderClaims(r, header))
      /\ Range(linked) \subseteq Range(HeaderClaims(r, header)) /\ Range(distinct) \subseteq Range(HeaderClaims(r, header))
  BY <1>1, <1>4, <1>5, JoinedIs
<1>7. ASSUME NEW q \in Range(header.requires)
      PROVE  \E c \in Range(HeaderClaims(r, header)) :
               /\ c.subject = r /\ c.evidence = "rpm_header_requires"
               /\ c.package[3] = q.name /\ c.version = q.version /\ c.requested = q.requested
  <2>1. PICK k \in DOMAIN header.requires : header.requires[k] = q
    BY DEF Range
  <2>2. claim(q) \in Range(HeaderClaims(r, header))
    BY <1>3, <1>5, <1>6, <2>1
  <2>3. /\ claim(q).subject = r /\ claim(q).evidence = "rpm_header_requires"
        /\ claim(q).package[3] = q.name /\ claim(q).version = q.version /\ claim(q).requested = q.requested
    BY DEF claim, Dep, Rpm
  <2> QED BY <2>2, <2>3
<1>8. ASSUME NEW n \in Range(header.sonames)
      PROVE  Has(HeaderClaims(r, header), r, "rpm_header_soname", n, None)
  <2>1. PICK k \in DOMAIN header.sonames : header.sonames[k] = n
    BY DEF Range
  <2>2. sonameClaim(n) \in Range(linked)
    BY <1>4, <2>1 DEF Range
  <2>3. /\ sonameClaim(n).subject = r /\ sonameClaim(n).evidence = "rpm_header_soname"
        /\ sonameClaim(n).package[3] = n /\ sonameClaim(n).version = None
    BY DEF sonameClaim, Dep, Rpm
  <2> QED BY <1>6, <2>2, <2>3 DEF Has
<1> QED BY <1>6, <1>7, <1>8 DEF header

LEMMA PayloadClaimsAre ==
  ASSUME NEW r \in Rpms(BaseGraph)
  PROVE  /\ IsSeq(PayloadClaims(r, PayloadOf[r]))
         /\ \A soname \in Range(PayloadOf[r].needed) : Has(PayloadClaims(r, PayloadOf[r]), r, "elf_dt_needed", soname, None)
<1> DEFINE payload == PayloadOf[r]
           claim(n) == [Dep(r, Rpm(n), "elf_dt_needed", None) EXCEPT !.linkage = "dynamic"]
           moduleClaim(m) == [Dep(r, <<"go", None, m.name>>, "go_buildinfo", m.version)
                                EXCEPT !.linkage = "static", !.state = "resolved"]
           needed == [k \in DOMAIN payload.needed |-> claim(payload.needed[k])]
           modules == [k \in DOMAIN payload.goModules |-> moduleClaim(payload.goModules[k])]
<1>1. PayloadClaims(r, payload) = needed \o modules
  BY DEF PayloadClaims, MapSeq
<1>2. IsSeq(payload.needed) /\ IsSeq(payload.goModules)
  BY InputsAssumption
<1> HIDE DEF payload, claim, moduleClaim
<1>3. /\ IsSeq(needed) /\ DOMAIN needed = DOMAIN payload.needed
      /\ \A k \in DOMAIN payload.needed : needed[k] = claim(payload.needed[k])
  <2>1. /\ needed = [k \in DOMAIN payload.needed |-> needed[k]]
        /\ \A k \in DOMAIN payload.needed : needed[k] = claim(payload.needed[k])
    OBVIOUS
  <2> HIDE DEF needed
  <2> QED BY <1>2, <2>1, MapIs
<1>4. IsSeq(modules)
  <2>1. modules = [k \in DOMAIN payload.goModules |-> modules[k]]
    OBVIOUS
  <2> HIDE DEF modules
  <2> QED BY <1>2, <2>1, MapIs
<1> HIDE DEF needed, modules
<1>5. IsSeq(PayloadClaims(r, payload)) /\ Range(needed) \subseteq Range(PayloadClaims(r, payload))
  BY <1>1, <1>3, <1>4, JoinedIs
<1>6. ASSUME NEW n \in Range(payload.needed)
      PROVE  Has(PayloadClaims(r, payload), r, "elf_dt_needed", n, None)
  <2>1. PICK k \in DOMAIN payload.needed : payload.needed[k] = n
    BY DEF Range
  <2>2. claim(n) \in Range(needed)
    BY <1>3, <2>1 DEF Range
  <2>3. /\ claim(n).subject = r /\ claim(n).evidence = "elf_dt_needed"
        /\ claim(n).package[3] = n /\ claim(n).version = None
    BY DEF claim, Dep, Rpm
  <2> QED BY <1>5, <2>2, <2>3 DEF Has
<1> QED BY <1>5, <1>6 DEF payload

There(fetched) == {r \in DOMAIN fetched : fetched[r] = "there"}

HeadersNew(fetched) ==
  LET rpms == InOrder(There(fetched))
  IN  FlattenSeq([i \in DOMAIN rpms |-> HeaderClaims(rpms[i], HeaderOf[rpms[i]])])

PayloadsNew(fetched) ==
  LET rpms == InOrder(There(fetched))
  IN  FlattenSeq([i \in DOMAIN rpms |-> PayloadClaims(rpms[i], PayloadOf[rpms[i]])])

LEMMA HeadersNewIs ==
  ASSUME NEW fetched, DOMAIN fetched = WorkList(BaseGraph)
  PROVE  /\ IsSeq(HeadersNew(fetched))
         /\ \A r \in There(fetched) : Range(HeaderClaims(r, HeaderOf[r])) \subseteq Range(HeadersNew(fetched))
<1> DEFINE rpms == There(fetched)
           of == [r \in rpms |-> HeaderClaims(r, HeaderOf[r])]
<1>1. rpms \subseteq Rpms(BaseGraph) /\ \A r \in rpms : IsSeq(of[r])
  BY SelectedAre, HeaderClaimsAre DEF There
<1>2. HeadersNew(fetched) = FlattenSeq([i \in DOMAIN InOrder(rpms) |-> of[InOrder(rpms)[i]]])
  <2>1. \A i \in DOMAIN InOrder(rpms) : InOrder(rpms)[i] \in rpms
    BY <1>1, InOrderIs DEF Range
  <2> QED BY <2>1 DEF HeadersNew
<1>3. \A r \in rpms : of[r] = HeaderClaims(r, HeaderOf[r])
  OBVIOUS
<1> HIDE DEF of
<1> QED BY <1>1, <1>2, <1>3, EachIs

LEMMA PayloadsNewIs ==
  ASSUME NEW fetched, DOMAIN fetched = WorkList(BaseGraph)
  PROVE  /\ IsSeq(PayloadsNew(fetched))
         /\ \A r \in There(fetched) : Range(PayloadClaims(r, PayloadOf[r])) \subseteq Range(PayloadsNew(fetched))
<1> DEFINE rpms == There(fetched)
           of == [r \in rpms |-> PayloadClaims(r, PayloadOf[r])]
<1>1. rpms \subseteq Rpms(BaseGraph) /\ \A r \in rpms : IsSeq(of[r])
  BY SelectedAre, PayloadClaimsAre DEF There
<1>2. PayloadsNew(fetched) = FlattenSeq([i \in DOMAIN InOrder(rpms) |-> of[InOrder(rpms)[i]]])
  <2>1. \A i \in DOMAIN InOrder(rpms) : InOrder(rpms)[i] \in rpms
    BY <1>1, InOrderIs DEF Range
  <2> QED BY <2>1 DEF PayloadsNew
<1>3. \A r \in rpms : of[r] = PayloadClaims(r, PayloadOf[r])
  OBVIOUS
<1> HIDE DEF of
<1> QED BY <1>1, <1>2, <1>3, EachIs

LEMMA SbomNewIs ==
  ASSUME NEW document \in DOMAIN DepSboms
  PROVE  LET new == SbomClaims(DepSboms[document].subject, DepSboms[document].components)
         IN  /\ IsSeq(new)
             /\ \A p \in Range(DepSboms[document].components) : \E c \in Range(new) :
                  /\ c.subject = DepSboms[document].subject /\ c.evidence = "sbom" /\ c.package[3] = p.name
                  /\ c.raw.of = p.ref /\ c.raw.licenses = p.licenses
<1> DEFINE subject == DepSboms[document].subject
           components == DepSboms[document].components
           claim(p) == [Dep(subject, AlmaLinuxRpm(p.name), "sbom", p.version)
                          EXCEPT !.purl = p.purl, !.scope = p.scope, !.raw = [of |-> p.ref, licenses |-> p.licenses]]
           new == [k \in DOMAIN components |-> claim(components[k])]
<1>1. SbomClaims(subject, components) = new
  BY DEF SbomClaims, MapSeq
<1>2. IsSeq(components)
  BY InputsAssumption
<1>3. ASSUME NEW p
      PROVE  /\ claim(p).subject = subject /\ claim(p).evidence = "sbom" /\ claim(p).package[3] = p.name
             /\ claim(p).raw.of = p.ref /\ claim(p).raw.licenses = p.licenses
  BY DEF Dep, AlmaLinuxRpm
<1> HIDE DEF components, subject, claim
<1>4. new = [k \in DOMAIN components |-> new[k]] /\ \A k \in DOMAIN components : new[k] = claim(components[k])
  OBVIOUS
<1> HIDE DEF new
<1>5. IsSeq(new) /\ DOMAIN new = DOMAIN components
  BY <1>2, <1>4, MapIs
<1>6. ASSUME NEW p \in Range(components)
      PROVE  claim(p) \in Range(new)
  BY <1>4, <1>5 DEF Range
<1> QED BY <1>1, <1>3, <1>5, <1>6 DEF components, subject

LEMMA DocumentNewIs ==
  /\ \A file \in DOMAIN Requirements : IsSeq(RequirementClaims(Requirements[file].subject, Requirements[file].lines))
  /\ \A file \in DOMAIN Imports : IsSeq(ImportClaims(Imports[file].subject, Imports[file].modules, PackageOf))
  /\ \A r \in DOMAIN Resolved :
       IsSeq(ResolverClaims(Resolved[r].subject, Resolved[r].evidence, Resolved[r].ecosystem, Resolved[r].resolved))
  /\ \A tree \in DOMAIN SourceTrees : IsSeq(SourceImportClaims(SourceTrees[tree].subject, SourceTrees[tree].languages))
<1>1. ASSUME NEW s, IsSeq(s), NEW f, f = [k \in DOMAIN s |-> f[k]]
      PROVE  IsSeq(f)
  BY <1>1, MapIs
<1>2. ASSUME NEW file \in DOMAIN Requirements
      PROVE  IsSeq(RequirementClaims(Requirements[file].subject, Requirements[file].lines))
  <2> DEFINE new == RequirementClaims(Requirements[file].subject, Requirements[file].lines)
  <2>1. new = [k \in DOMAIN Requirements[file].lines |-> new[k]]
    BY DEF RequirementClaims, MapSeq
  <2>2. IsSeq(Requirements[file].lines)
    BY InputsAssumption
  <2> HIDE DEF new
  <2>3. IsSeq(new)
    BY <1>1, <2>1, <2>2
  <2> QED BY <2>3 DEF new
<1>3. ASSUME NEW file \in DOMAIN Imports
      PROVE  IsSeq(ImportClaims(Imports[file].subject, Imports[file].modules, PackageOf))
  <2> DEFINE new == ImportClaims(Imports[file].subject, Imports[file].modules, PackageOf)
  <2>1. new = [k \in DOMAIN Imports[file].modules |-> new[k]]
    BY DEF ImportClaims, MapSeq
  <2>2. IsSeq(Imports[file].modules)
    BY InputsAssumption
  <2> HIDE DEF new
  <2>3. IsSeq(new)
    BY <1>1, <2>1, <2>2
  <2> QED BY <2>3 DEF new
<1>4. ASSUME NEW r \in DOMAIN Resolved
      PROVE  IsSeq(ResolverClaims(Resolved[r].subject, Resolved[r].evidence, Resolved[r].ecosystem, Resolved[r].resolved))
  <2> DEFINE new == ResolverClaims(Resolved[r].subject, Resolved[r].evidence, Resolved[r].ecosystem, Resolved[r].resolved)
  <2>1. new = [k \in DOMAIN Resolved[r].resolved |-> new[k]]
    BY DEF ResolverClaims, MapSeq
  <2>2. IsSeq(Resolved[r].resolved)
    BY InputsAssumption
  <2> HIDE DEF new
  <2>3. IsSeq(new)
    BY <1>1, <2>1, <2>2
  <2> QED BY <2>3 DEF new
<1>5. ASSUME NEW tree \in DOMAIN SourceTrees
      PROVE  IsSeq(SourceImportClaims(SourceTrees[tree].subject, SourceTrees[tree].languages))
  <2> DEFINE languages == SourceTrees[tree].languages
             claim(l, m) == [Dep(SourceTrees[tree].subject, <<l.ecosystem, None, m>>, l.evidence, None)
                               EXCEPT !.state = "declared", !.raw = [of |-> m]]
             of(l) == [k \in DOMAIN l.modules |-> claim(l, l.modules[k])]
             seqs == [i \in DOMAIN languages |-> of(languages[i])]
  <2>1. SourceImportClaims(SourceTrees[tree].subject, languages) = FlattenSeq(seqs)
    BY DEF SourceImportClaims, MapSeq
  <2>2. IsSeq(languages) /\ \A i \in DOMAIN languages : IsSeq(languages[i].modules)
    BY InputsAssumption DEF Range
  <2> HIDE DEF languages, claim
  <2>3. ASSUME NEW i \in DOMAIN languages
        PROVE  IsSeq(of(languages[i]))
    <3> DEFINE new == of(languages[i])
    <3>1. new = [k \in DOMAIN languages[i].modules |-> new[k]]
      OBVIOUS
    <3>2. IsSeq(languages[i].modules)
      BY <2>2
    <3> HIDE DEF new
    <3>3. IsSeq(new)
      BY <1>1, <3>1, <3>2
    <3> QED BY <3>3 DEF new
  <2> HIDE DEF of
  <2>4. IsSeq(seqs) /\ DOMAIN seqs = DOMAIN languages /\ \A i \in DOMAIN languages : seqs[i] = of(languages[i])
    <3>1. seqs = [i \in DOMAIN languages |-> seqs[i]] /\ \A i \in DOMAIN languages : seqs[i] = of(languages[i])
      OBVIOUS
    <3> HIDE DEF seqs
    <3> QED BY <2>2, <3>1, MapIs
  <2> HIDE DEF seqs
  <2>5. IsSeq(FlattenSeq(seqs))
    BY <2>3, <2>4, FlatIs
  <2> QED BY <2>1, <2>5 DEF languages
<1> QED BY <1>2, <1>3, <1>4, <1>5

LEMMA SonameNewIs ==
  ASSUME NEW cs, IsSeq(cs), NEW index
  PROVE  IsSeq(SonameClaims(Bridged(cs, index), index))
<1> DEFINE bridged == Bridged(cs, index)
           provider(c) == index[c.package[3]]
           claim(c) == [Dep(c.subject, AlmaLinuxRpm(provider(c).name), "soname_provider", provider(c).version)
                          EXCEPT !.linkage = "dynamic", !.state = "resolved", !.raw = [of |-> c.package[3]]]
           found == [k \in DOMAIN bridged |-> claim(bridged[k])]
           keys == [k \in DOMAIN found |-> ClaimNodeId(found[k])]
<1>1. IsSeq(bridged)
  <2> DEFINE places == {i \in DOMAIN cs : cs[i].package[3] \in DOMAIN index}
  <2>1. bridged = Picked(cs, places) /\ places \in SUBSET DOMAIN cs /\ cs \in Seq(Range(cs))
    BY DEF Bridged, IsSeq
  <2> HIDE DEF bridged, places
  <2>2. bridged \in Seq(Range(cs))
    BY <2>1, PickedIs
  <2> QED BY <2>2, SeqIs
<1>2. SonameClaims(bridged, index) = Deduped(found, keys)
  BY DEF SonameClaims, MapSeq
<1> HIDE DEF bridged, claim
<1>3. IsSeq(found)
  <2>1. found = [k \in DOMAIN bridged |-> found[k]]
    OBVIOUS
  <2> HIDE DEF found
  <2> QED BY <1>1, <2>1, MapIs
<1> HIDE DEF found
<1>4. DOMAIN keys = DOMAIN found
  OBVIOUS
<1> HIDE DEF keys
<1> QED BY <1>2, <1>3, <1>4, DistinctIs DEF bridged

----------------------------------------------------------------------------
(* The invariant *)

\* The claims of a step and what it was given: the same at any time.
NewOf(step, input) ==
  CASE step = "repograph"      -> RepographNew(input)
    [] step = "dnf"            -> DnfNew(input)
    [] step = "sbom"           -> SbomClaims(DepSboms[input].subject, DepSboms[input].components)
    [] step = "python"         -> RequirementClaims(Requirements[input].subject, Requirements[input].lines)
    [] step = "python_imports" -> ImportClaims(Imports[input].subject, Imports[input].modules, PackageOf)
    [] step = "rpm_headers"    -> HeadersNew(input)
    [] step = "rpm_payloads"   -> PayloadsNew(input)
    [] step = "soname"         -> SonameClaims(input[2], input[1])
    [] step = "resolve"        -> ResolverClaims(Resolved[input].subject, Resolved[input].evidence,
                                                 Resolved[input].ecosystem, Resolved[input].resolved)
    [] step = "scan"           -> SourceImportClaims(SourceTrees[input].subject, SourceTrees[input].languages)
    [] OTHER                   -> << >>

\* What was accepted is still there; no headers were accepted of a network that broke.
IsKept(a, cs) ==
  /\ Range(NewOf(a[1], a[2])) \subseteq Range(cs)
  /\ a[1] = "rpm_headers" => \A r \in DOMAIN a[2] : a[2][r] # "broken"

EnrichmentInv ==
  /\ GraphInv(enriched)
  /\ IsSeq(claims) /\ UniqueIds(claims)
  /\ \A a \in accepted : IsKept(a, claims)

\* What a step leaves, of the graph and of the claims.
StepIsRight ==
  /\ EnrichmentInv' /\ GraphGrows(enriched, enriched') /\ Kept(claims, claims')
  /\ last'.again => ~last'.raised

LEMMA EndIs ==
  ASSUME NEW step, NEW input, NEW failures, NEW raised \in BOOLEAN, Ended(step, input, failures, raised)
  PROVE  /\ accepted' = IF raised THEN accepted ELSE accepted \cup {<<step, input>>}
         /\ last'.step = step /\ last'.input = input /\ last'.failures = failures /\ last'.raised = raised
         /\ last'.again = (<<step, input>> \in accepted)
  BY DEF Ended

\* A step that adds claims.
Adds(step, input, new, failures) ==
  LET added == AddAll(claims, new)
  IN  claims' = added.claims /\ Ended(step, input, failures, added.raised)

LEMMA AfterClaims ==
  ASSUME EnrichmentInv, GraphGrows(enriched, enriched'),
         NEW step, NEW input, NEW new, new = NewOf(step, input), IsSeq(new),
         step # "rpm_headers" \/ \A r \in DOMAIN input : input[r] # "broken",
         NEW failures, Adds(step, input, new, failures)
  PROVE  /\ StepIsRight /\ (~last'.raised => Range(new) \subseteq Range(claims'))
         /\ accepted \subseteq accepted' /\ last'.step = step /\ last'.input = input /\ last'.failures = failures
<1> DEFINE added == AddAll(claims, new)
<1>0. claims' = added.claims /\ Ended(step, input, failures, added.raised)
  BY DEF Adds
<1> HIDE DEF added
<1>1. /\ IsSeq(claims') /\ Kept(claims, claims') /\ added.raised \in BOOLEAN
      /\ ~added.raised => Range(new) \subseteq Range(claims')
      /\ Range(new) \subseteq Range(claims) => ~added.raised
  BY <1>0, ClaimsStay DEF EnrichmentInv, added
<1>2. Range(claims) \subseteq Range(claims')
  BY <1>1, KeptStay DEF EnrichmentInv
<1>3. /\ accepted' = IF added.raised THEN accepted ELSE accepted \cup {<<step, input>>}
      /\ last'.raised = added.raised /\ last'.again = (<<step, input>> \in accepted)
      /\ last'.step = step /\ last'.input = input /\ last'.failures = failures
  BY <1>0, <1>1, EndIs
<1>4. GraphInv(enriched')
  BY GrownIsRight DEF EnrichmentInv
<1>5. UniqueIds(claims')
  BY <1>1 DEF Kept
<1>6. ASSUME NEW a \in accepted'
      PROVE  IsKept(a, claims')
  <2>1. CASE a \in accepted
    BY <1>2, <2>1 DEF EnrichmentInv, IsKept
  <2>2. CASE ~added.raised /\ a = <<step, input>>
    <3>1. a[1] = step /\ a[2] = input
      BY <2>2
    <3> QED BY <1>1, <2>2, <3>1 DEF IsKept
  <2> QED BY <1>3, <2>1, <2>2
<1>7. last'.again => ~last'.raised
  <2> SUFFICES ASSUME <<step, input>> \in accepted PROVE ~added.raised
    BY <1>3
  <2>1. IsKept(<<step, input>>, claims)
    BY DEF EnrichmentInv
  <2>2. Range(new) \subseteq Range(claims)
    BY <2>1 DEF IsKept
  <2> QED BY <1>1, <2>2
<1>8. EnrichmentInv'
  BY <1>1, <1>4, <1>5, <1>6 DEF EnrichmentInv
<1> QED BY <1>1, <1>3, <1>7, <1>8 DEF StepIsRight

\* A step that writes only to the graph.
LEMMA AfterGraph ==
  ASSUME EnrichmentInv, NEW step, step \in {"build_sbom", "errata", "errata_source", "verify_cpe"},
         NEW input, NEW after, GraphGrows(enriched, after), GraphStep(step, input, after)
  PROVE  StepIsRight /\ enriched' = after /\ accepted' = accepted \cup {<<step, input>>} /\ last'.step = step
<1>1. enriched' = after /\ claims' = claims /\ Ended(step, input, {}, FALSE)
  BY DEF GraphStep, RunStep
<1>2. /\ accepted' = accepted \cup {<<step, input>>}
      /\ last'.step = step /\ last'.raised = FALSE
  BY <1>1, EndIs
<1>3. GraphInv(enriched')
  BY <1>1, GrownIsRight DEF EnrichmentInv
<1>4. NewOf(step, input) = << >> /\ step # "rpm_headers"
  BY DEF NewOf
<1>5. IsKept(<<step, input>>, claims)
  BY <1>4, EmptyIs DEF IsKept
<1>6. EnrichmentInv'
  BY <1>1, <1>2, <1>3, <1>5 DEF EnrichmentInv
<1>7. Kept(claims, claims')
  BY <1>1 DEF EnrichmentInv, Kept, IsSeq
<1> QED BY <1>1, <1>2, <1>6, <1>7 DEF StepIsRight

\* A claim of a step, by what it says of whom.
LEMMA HasClaimed ==
  ASSUME NEW new, Range(new) \subseteq Range(claims'), NEW r, NEW evidence, NEW name, NEW version,
         Has(new, r, evidence, name, version)
  PROVE  \E i \in Claimed(r, evidence, name)' : claims'[i].version = version
<1>1. PICK c \in Range(claims') : c.subject = r /\ c.evidence = evidence /\ c.package[3] = name /\ c.version = version
  BY DEF Has
<1>2. PICK i \in DOMAIN claims' : claims'[i] = c
  BY DEF Range
<1> QED BY <1>1, <1>2 DEF Claimed

\* What a step that adds claims has done.
ClaimsAreRight ==
  /\ StepIsRight /\ NothingIsLostQuietly' /\ accepted \subseteq accepted'
  /\ \A r \in Rpms(enriched) : enriched'.nodes[r].identity = enriched.nodes[r].identity

LEMMA AfterRepograph ==
  ASSUME EnrichmentInv, RepographStep
  PROVE  ClaimsAreRight
<1>1. PICK dot \in DOMAIN Repographs :
        /\ ClaimStep("repograph", dot, RpmgraphClaims(Repographs[dot], NodesOfSources(Repographs[dot])), {})
        /\ enriched' = enriched
  BY DEF RepographStep
<1> DEFINE edges == Repographs[dot]
           new == RpmgraphClaims(edges, NodesOfSources(edges))
<1>2. GraphInv(enriched) /\ GraphGrows(enriched, enriched')
  BY <1>1, StaysGrown DEF EnrichmentInv
<1>3. \A name : SelectedNodesOf(name) = InOrder({r \in Selected(BaseGraph) : BaseGraph.nodes[r].name = name})
  <2>1. \A r \in Selected(BaseGraph) : enriched.nodes[r].name = BaseGraph.nodes[r].name
    BY <1>2, SelectedAre DEF GraphInv, IsRpmOf, StaticFields
  <2>2. Selected(enriched) = Selected(BaseGraph)
    BY <1>2, RpmsStay
  <2>3. \A name : {r \in Selected(enriched) : enriched.nodes[r].name = name}
                    = {r \in Selected(BaseGraph) : BaseGraph.nodes[r].name = name}
    BY <2>1, <2>2
  <2> QED BY <2>3 DEF SelectedNodesOf
<1>4. NodesOfSources(edges) = BaseNodesOf(edges)
  BY <1>3 DEF NodesOfSources, BaseNodesOf
<1>5. new = NewOf("repograph", dot) /\ new = RepographNew(dot)
  BY <1>4 DEF NewOf, RepographNew
<1>6. IsSeq(new)
  BY <1>5, RepographNewIs
<1>7. Adds("repograph", dot, new, {}) /\ "repograph" # "rpm_headers"
  BY <1>1 DEF ClaimStep, RunStep, Adds
<1> HIDE DEF new
<1>8. /\ StepIsRight /\ (~last'.raised => Range(new) \subseteq Range(claims'))
      /\ accepted \subseteq accepted' /\ last'.step = "repograph" /\ last'.input = dot
  BY <1>2, <1>5, <1>6, <1>7, AfterClaims
<1>9. ASSUME ~last'.raised, NEW e \in Range(edges), NEW r \in Range(SelectedNodesOf(e.source))
       PROVE  \E i \in Claimed(r, "repograph", e.name)' : claims'[i].version = e.version
  <2>1. e.source \in {edge.source : edge \in Range(edges)}
    OBVIOUS
  <2>2. BaseNodesOf(edges)[e.source] = SelectedNodesOf(e.source)
    BY <1>3, <2>1 DEF BaseNodesOf
  <2>3. Has(new, r, "repograph", e.name, e.version)
    BY <1>5, <2>2, <1>9, RepographNewIs
  <2> QED BY <1>8, <1>9, <2>3, HasClaimed
<1>10. \A name : SelectedNodesOf(name)' = SelectedNodesOf(name)
  BY <1>1 DEF SelectedNodesOf
<1>11. NothingIsLostQuietly'
  BY <1>8, <1>9, <1>10 DEF NothingIsLostQuietly
<1> QED BY <1>1, <1>8, <1>11 DEF ClaimsAreRight

LEMMA AfterDnf ==
  ASSUME EnrichmentInv, DnfStep
  PROVE  ClaimsAreRight
<1> DEFINE asked == InOrder(Selected(enriched))
           all(a) == FlattenSeq([i \in DOMAIN asked |-> DnfClaims(asked[i], DnfAnswers[a][asked[i]])])
           failing(a) == {r \in Selected(enriched) : DnfFails(DnfAnswers[a][r])}
           failures(a) == IF a = None THEN Selected(enriched) ELSE failing(a)
<1>1. PICK a \in DOMAIN DnfAnswers \cup {None} :
        /\ IF a = None THEN ClaimStep("dnf", None, << >>, Selected(enriched))
           ELSE ClaimStep("dnf", a, all(a), failing(a))
        /\ enriched' = enriched
  BY DEF DnfStep
<1>2. GraphInv(enriched) /\ GraphGrows(enriched, enriched')
  BY <1>1, StaysGrown DEF EnrichmentInv
<1>3. Selected(enriched) = Selected(BaseGraph) /\ Selected(enriched)' = Selected(BaseGraph)
  BY <1>1, <1>2, RpmsStay
<1>4. a # None => all(a) = DnfAll(a)
  BY <1>3 DEF DnfAll
<1> HIDE DEF all
<1> DEFINE new == DnfNew(a)
<1>5. new = NewOf("dnf", a) /\ IsSeq(new)
  BY EmptyIs, DnfNewIs DEF NewOf, DnfNew
<1>6. Adds("dnf", a, new, failures(a)) /\ "dnf" # "rpm_headers"
  BY <1>1, <1>4 DEF ClaimStep, RunStep, Adds, DnfNew
<1> HIDE DEF new, failures
<1>7. /\ StepIsRight /\ (~last'.raised => Range(new) \subseteq Range(claims'))
      /\ accepted \subseteq accepted' /\ last'.step = "dnf" /\ last'.input = a /\ last'.failures = failures(a)
  BY <1>2, <1>5, <1>6, AfterClaims
<1>8. ASSUME ~last'.raised, NEW r \in Selected(enriched)' \ last'.failures, NEW i \in 1 .. 3,
             NEW p \in Range(DnfAnswers[last'.input][r][DnfRelations[i]])
      PROVE  \E k \in Claimed(r, DnfEvidence[i], p.name)' : claims'[k].version = p.version
  <2>1. a # None /\ r \in Selected(BaseGraph) /\ ~DnfFails(DnfAnswers[a][r])
    BY <1>3, <1>7, <1>8 DEF failures
  <2>2. Has(new, r, DnfEvidence[i], p.name, p.version)
    BY <1>7, <1>8, <2>1, DnfNewIs DEF new, DnfNew
  <2> QED BY <1>7, <1>8, <2>2, HasClaimed
<1>9. NothingIsLostQuietly'
  BY <1>7, <1>8 DEF NothingIsLostQuietly
<1> QED BY <1>1, <1>7, <1>9 DEF ClaimsAreRight

LEMMA AfterSbom ==
  ASSUME EnrichmentInv, SbomStep
  PROVE  ClaimsAreRight
<1>1. PICK document \in DOMAIN DepSboms :
        LET sbom == DepSboms[document]
        IN  /\ enriched' = AddEdges(AddNodes(enriched, {<<"sbom", document>>}), {<<sbom.subject, <<"sbom", document>>, "described_by">>})
            /\ ClaimStep("sbom", document, SbomClaims(sbom.subject, sbom.components), {})
  BY DEF SbomStep
<1> DEFINE sbom == DepSboms[document]
           new == SbomClaims(sbom.subject, sbom.components)
<1>2. /\ GraphGrows(enriched, enriched')
      /\ \A r \in Rpms(enriched) : enriched'.nodes[r] = enriched.nodes[r]
  <2> DEFINE edges == {<<sbom.subject, <<"sbom", document>>, "described_by">>}
  <2>1. /\ \A id \in {<<"sbom", document>>} : Kind(id) \in NewKinds
        /\ \A e \in edges : e[3] \in NewRelations
    BY DEF Kind, NewKinds, NewRelations
  <2>2. enriched' = AddEdges(AddNodes(enriched, {<<"sbom", document>>}), edges) /\ GraphInv(enriched)
    BY <1>1 DEF EnrichmentInv
  <2> HIDE DEF edges
  <2>3. GraphGrows(enriched, enriched') /\ \A id \in DOMAIN enriched.nodes : enriched'.nodes[id] = enriched.nodes[id]
    BY <2>1, <2>2, AdditionGrows
  <2> QED BY <2>3 DEF Rpms
<1>3. new = NewOf("sbom", document) /\ IsSeq(new)
  BY SbomNewIs DEF NewOf
<1>4. Adds("sbom", document, new, {}) /\ "sbom" # "rpm_headers"
  BY <1>1 DEF ClaimStep, RunStep, Adds
<1> HIDE DEF new
<1>5. /\ StepIsRight /\ (~last'.raised => Range(new) \subseteq Range(claims'))
      /\ accepted \subseteq accepted' /\ last'.step = "sbom" /\ last'.input = document
  BY <1>2, <1>3, <1>4, AfterClaims
<1>6. ASSUME ~last'.raised, NEW p \in Range(sbom.components)
      PROVE  \E i \in DOMAIN claims' : /\ i \in Claimed(sbom.subject, "sbom", p.name)' /\ claims'[i].evidence = "sbom"
                                       /\ claims'[i].raw.of = p.ref /\ claims'[i].raw.licenses = p.licenses
  <2>1. PICK c \in Range(new) : /\ c.subject = sbom.subject /\ c.evidence = "sbom" /\ c.package[3] = p.name
                                /\ c.raw.of = p.ref /\ c.raw.licenses = p.licenses
    BY SbomNewIs DEF new
  <2>2. PICK i \in DOMAIN claims' : claims'[i] = c
    BY <1>5, <1>6 DEF Range
  <2> QED BY <2>1, <2>2 DEF Claimed
<1>7. NothingIsLostQuietly'
  <2> SUFFICES ASSUME ~last'.raised PROVE NothingIsLostQuietly'
    BY DEF NothingIsLostQuietly
  <2>1. \A p \in Range(sbom.components) : \E i \in Claimed(sbom.subject, "sbom", p.name)' : claims'[i].raw.of = p.ref
    BY <1>6
  <2>2. {p.ref : p \in {q \in Range(sbom.components) : q.licenses = {}}}
          \subseteq {claims'[i].raw.of : i \in LicenseReport(claims').unlicensed}
    <3>1. LicenseReport(claims').unlicensed = {i \in DOMAIN claims' : claims'[i].evidence = "sbom" /\ claims'[i].raw.licenses = {}}
      BY DEF LicenseReport
    <3> QED BY <1>6, <3>1
  <2> QED BY <1>5, <2>1, <2>2 DEF NothingIsLostQuietly
<1> QED BY <1>2, <1>5, <1>7 DEF ClaimsAreRight

\* The steps of which no report says that they are complete.
LEMMA AfterOther ==
  ASSUME EnrichmentInv, enriched' = enriched,
         NEW step \in {"python", "python_imports", "soname", "resolve", "scan"}, NEW input, NEW new,
         new = NewOf(step, input), IsSeq(new), Adds(step, input, new, {})
  PROVE  ClaimsAreRight
<1>1. GraphGrows(enriched, enriched')
  BY StaysGrown DEF EnrichmentInv
<1>2. step # "rpm_headers"
  OBVIOUS
<1>3. StepIsRight /\ accepted \subseteq accepted' /\ last'.step = step
  BY <1>1, <1>2, AfterClaims
<1>4. NothingIsLostQuietly'
  BY <1>3 DEF NothingIsLostQuietly
<1> QED BY <1>3, <1>4 DEF ClaimsAreRight

LEMMA AfterDocument ==
  ASSUME EnrichmentInv, RequirementsStep \/ ImportsStep \/ Resolve \/ ScanImports
  PROVE  ClaimsAreRight
<1>1. CASE RequirementsStep
  <2>1. PICK file \in DOMAIN Requirements :
          /\ ClaimStep("python", file, RequirementClaims(Requirements[file].subject, Requirements[file].lines), {})
          /\ enriched' = enriched
    BY <1>1 DEF RequirementsStep
  <2> DEFINE new == RequirementClaims(Requirements[file].subject, Requirements[file].lines)
  <2>2. /\ "python" \in {"python", "python_imports", "soname", "resolve", "scan"} /\ new = NewOf("python", file)
        /\ IsSeq(new) /\ Adds("python", file, new, {})
    BY <2>1, DocumentNewIs DEF NewOf, ClaimStep, RunStep, Adds
  <2> HIDE DEF new
  <2> QED BY <2>1, <2>2, AfterOther
<1>2. CASE ImportsStep
  <2>1. PICK file \in DOMAIN Imports :
          /\ ClaimStep("python_imports", file, ImportClaims(Imports[file].subject, Imports[file].modules, PackageOf), {})
          /\ enriched' = enriched
    BY <1>2 DEF ImportsStep
  <2> DEFINE new == ImportClaims(Imports[file].subject, Imports[file].modules, PackageOf)
  <2>2. /\ "python_imports" \in {"python", "python_imports", "soname", "resolve", "scan"}
        /\ new = NewOf("python_imports", file) /\ IsSeq(new) /\ Adds("python_imports", file, new, {})
    BY <2>1, DocumentNewIs DEF NewOf, ClaimStep, RunStep, Adds
  <2> HIDE DEF new
  <2> QED BY <2>1, <2>2, AfterOther
<1>3. CASE Resolve
  <2> DEFINE New(r) == ResolverClaims(Resolved[r].subject, Resolved[r].evidence, Resolved[r].ecosystem, Resolved[r].resolved)
  <2>1. PICK r \in DOMAIN Resolved :
          /\ claims' = AddAll(claims, New(r)).claims /\ Ended("resolve", r, {}, AddAll(claims, New(r)).raised)
          /\ enriched' = enriched
    BY <1>3 DEF Resolve
  <2> DEFINE new == New(r)
  <2>2. /\ "resolve" \in {"python", "python_imports", "soname", "resolve", "scan"}
        /\ new = NewOf("resolve", r) /\ IsSeq(new) /\ Adds("resolve", r, new, {})
    BY <2>1, DocumentNewIs DEF NewOf, Adds
  <2> HIDE DEF new
  <2> QED BY <2>1, <2>2, AfterOther
<1>4. CASE ScanImports
  <2> DEFINE New(tree) == SourceImportClaims(SourceTrees[tree].subject, SourceTrees[tree].languages)
  <2>1. PICK tree \in DOMAIN SourceTrees :
          /\ claims' = AddAll(claims, New(tree)).claims /\ Ended("scan", tree, {}, AddAll(claims, New(tree)).raised)
          /\ enriched' = enriched
    BY <1>4 DEF ScanImports
  <2> DEFINE new == New(tree)
  <2>2. /\ "scan" \in {"python", "python_imports", "soname", "resolve", "scan"}
        /\ new = NewOf("scan", tree) /\ IsSeq(new) /\ Adds("scan", tree, new, {})
    BY <2>1, DocumentNewIs DEF NewOf, Adds
  <2> HIDE DEF new
  <2> QED BY <2>1, <2>2, AfterOther
<1> QED BY <1>1, <1>2, <1>3, <1>4

LEMMA AfterSoname ==
  ASSUME EnrichmentInv, SonameStep
  PROVE  ClaimsAreRight
<1>1. PICK index :
        /\ ClaimStep("soname", <<index, Bridged(claims, index)>>, SonameClaims(Bridged(claims, index), index), {})
        /\ enriched' = enriched
  BY DEF SonameStep
<1> DEFINE input == <<index, Bridged(claims, index)>>
           new == SonameClaims(Bridged(claims, index), index)
<1>2. /\ "soname" \in {"python", "python_imports", "soname", "resolve", "scan"}
      /\ new = NewOf("soname", input) /\ IsSeq(new) /\ Adds("soname", input, new, {})
  BY <1>1, SonameNewIs DEF NewOf, ClaimStep, RunStep, Adds, EnrichmentInv
<1> HIDE DEF new, input
<1> QED BY <1>1, <1>2, AfterOther

LEMMA AfterHeaders ==
  ASSUME EnrichmentInv, HeadersStep
  PROVE  ClaimsAreRight
<1>1. PICK fetched \in Fetches :
        LET rpms == InOrder({r \in DOMAIN fetched : fetched[r] = "there"})
        IN  /\ IF \E r \in DOMAIN fetched : fetched[r] = "broken"
               THEN claims' = claims /\ RunStep("rpm_headers", fetched, {}, TRUE)
               ELSE ClaimStep("rpm_headers", fetched,
                              FlattenSeq([i \in DOMAIN rpms |-> HeaderClaims(rpms[i], HeaderOf[rpms[i]])]),
                              {r \in DOMAIN fetched : fetched[r] # "there"})
            /\ enriched' = enriched
  BY DEF HeadersStep
<1>2. DOMAIN fetched = WorkList(BaseGraph)
  BY DEF Fetches
<1>3. GraphInv(enriched) /\ GraphGrows(enriched, enriched')
  BY <1>1, StaysGrown DEF EnrichmentInv
<1>4. CASE \E r \in DOMAIN fetched : fetched[r] = "broken"
  <2>1. claims' = claims /\ Ended("rpm_headers", fetched, {}, TRUE)
    BY <1>1, <1>4 DEF RunStep
  <2>2. accepted' = accepted /\ last'.raised = TRUE /\ last'.again = (<<"rpm_headers", fetched>> \in accepted)
    BY <2>1, EndIs
  <2>3. <<"rpm_headers", fetched>> \notin accepted
    BY <1>4 DEF EnrichmentInv, IsKept
  <2>4. EnrichmentInv' /\ Kept(claims, claims')
    BY <1>1, <2>1, <2>2 DEF EnrichmentInv, Kept, IsSeq
  <2> QED BY <1>1, <1>3, <2>2, <2>3, <2>4 DEF ClaimsAreRight, StepIsRight, NothingIsLostQuietly
<1>5. CASE \A r \in DOMAIN fetched : fetched[r] # "broken"
  <2> DEFINE new == HeadersNew(fetched)
             failures == DOMAIN fetched \ There(fetched)
  <2>1. new = NewOf("rpm_headers", fetched) /\ IsSeq(new)
    BY <1>2, HeadersNewIs DEF NewOf
  <2>2. Adds("rpm_headers", fetched, new, failures)
    <3>1. failures = {r \in DOMAIN fetched : fetched[r] # "there"}
      BY DEF There
    <3>2. ClaimStep("rpm_headers", fetched, new, failures)
      BY <1>1, <1>5, <3>1 DEF HeadersNew, There
    <3> QED BY <3>2 DEF ClaimStep, RunStep, Adds
  <2> HIDE DEF new
  <2>3. /\ StepIsRight /\ (~last'.raised => Range(new) \subseteq Range(claims'))
        /\ accepted \subseteq accepted' /\ last'.step = "rpm_headers" /\ last'.failures = failures
    BY <1>3, <1>5, <2>1, <2>2, AfterClaims
  <2>4. ASSUME ~last'.raised, NEW r \in WorkList(enriched)' \ last'.failures
        PROVE  /\ \A q \in Range(HeaderOf[r].requires) : \E i \in Claimed(r, "rpm_header_requires", q.name)' :
                    claims'[i].version = q.version /\ claims'[i].requested = q.requested
               /\ \A s \in Range(HeaderOf[r].sonames) : Claimed(r, "rpm_header_soname", s)' # {}
    <3>1. r \in There(fetched) /\ r \in Rpms(BaseGraph)
      BY <1>1, <1>2, <1>3, <2>3, <2>4, RpmsStay, SelectedAre
    <3>2. Range(HeaderClaims(r, HeaderOf[r])) \subseteq Range(claims')
      BY <1>2, <2>3, <2>4, <3>1, HeadersNewIs DEF new
    <3>3. ASSUME NEW q \in Range(HeaderOf[r].requires)
          PROVE  \E i \in Claimed(r, "rpm_header_requires", q.name)' :
                   claims'[i].version = q.version /\ claims'[i].requested = q.requested
      <4>1. PICK c \in Range(claims') :
              /\ c.subject = r /\ c.evidence = "rpm_header_requires"
              /\ c.package[3] = q.name /\ c.version = q.version /\ c.requested = q.requested
        BY <3>1, <3>2, HeaderClaimsAre
      <4>2. PICK i \in DOMAIN claims' : claims'[i] = c
        BY DEF Range
      <4> QED BY <4>1, <4>2 DEF Claimed
    <3>4. ASSUME NEW s \in Range(HeaderOf[r].sonames)
          PROVE  Claimed(r, "rpm_header_soname", s)' # {}
      <4>1. Has(HeaderClaims(r, HeaderOf[r]), r, "rpm_header_soname", s, None)
        BY <3>1, HeaderClaimsAre
      <4>2. \E i \in Claimed(r, "rpm_header_soname", s)' : claims'[i].version = None
        BY <3>2, <4>1, HasClaimed
      <4> QED BY <4>2
    <3> QED BY <3>3, <3>4
  <2>5. NothingIsLostQuietly'
    BY <2>3, <2>4 DEF NothingIsLostQuietly
  <2> QED BY <1>1, <2>3, <2>5 DEF ClaimsAreRight
<1> QED BY <1>4, <1>5

\* A file of a package that was read is found (identify_file).
LEMMA LeastRpm ==
  ASSUME NEW rpms, rpms \subseteq Rpms(BaseGraph), rpms # {}
  PROVE  \E a \in rpms : \A b \in rpms : a[2] <= b[2]
<1> DEFINE ns == {r[2] : r \in rpms}
<1>1. ns \in SUBSET Nat /\ ns # {}
  BY RpmsAssumption
<1>2. PICK n \in ns : \A m \in ns : n <= m
  <2> HIDE DEF ns
  <2> QED BY <1>1, Least
<1> QED BY <1>2

LEMMA IdentifyIs ==
  ASSUME NEW g, GraphInv(g), NEW r \in Rpms(BaseGraph), NEW file \in g.nodes[r].files, g.nodes[r].files # None
  PROVE  Identify(g, file) # None
<1> DEFINE listed == {s \in Rpms(g) : g.nodes[s].files # None /\ file \in g.nodes[s].files}
           objects == {s \in Rpms(g) : g.nodes[s].elf # None /\ file \in g.nodes[s].elf.static \cup g.nodes[s].elf.dlopen}
           first == CHOOSE a \in listed : \A b \in listed : a[2] <= b[2]
           owner == g.nodes[first].name
           named == {s \in Rpms(g) : g.nodes[s].name = owner}
           main == {s \in named : g.nodes[s].arch = "x86_64"}
           from == IF main # {} THEN main ELSE named
<1>1. Rpms(g) = Rpms(BaseGraph)
  BY RpmsStay
<1>2. r \in listed
  BY <1>1
<1>3. Owner(g, file) = owner
  BY <1>2 DEF Owner
<1>4. listed \subseteq Rpms(BaseGraph) /\ listed # {}
  BY <1>1, <1>2
<1>5. first \in listed
  <2> HIDE DEF listed
  <2> QED BY <1>4, LeastRpm
<1>6. owner # None
  <2>1. first \in Rpms(BaseGraph)
    BY <1>4, <1>5
  <2> HIDE DEF first
  <2>2. g.nodes[first].name = BaseGraph.nodes[first].name
    BY <2>1 DEF GraphInv, IsRpmOf, StaticFields
  <2> QED BY <2>1, <2>2, RpmsAssumption
<1>7. first \in named
  BY <1>1, <1>4, <1>5
<1> HIDE DEF first, owner, listed, objects
<1>8. Identify(g, file) = CHOOSE a \in from : \A b \in from : a[2] <= b[2]
  BY <1>3, <1>6 DEF Identify
<1>9. from \subseteq Rpms(BaseGraph) /\ from # {}
  BY <1>1, <1>7
<1> HIDE DEF from
<1>10. Identify(g, file) \in from
  BY <1>8, <1>9, LeastRpm
<1> QED BY <1>9, <1>10, RpmsAssumption

LEMMA AfterPayloads ==
  ASSUME EnrichmentInv, PayloadStep
  PROVE  ClaimsAreRight
<1>1. PICK fetched \in [WorkList(BaseGraph) -> {"there", "refused"}] :
        LET there == {r \in DOMAIN fetched : fetched[r] = "there"}
            rpms  == InOrder(there)
        IN  /\ enriched' = PayloadFacts(enriched, there, PayloadOf)
            /\ ClaimStep("rpm_payloads", fetched,
                         FlattenSeq([i \in DOMAIN rpms |-> PayloadClaims(rpms[i], PayloadOf[rpms[i]])]),
                         DOMAIN fetched \ there)
  BY DEF PayloadStep
<1> DEFINE new == PayloadsNew(fetched)
           there == There(fetched)
           failures == DOMAIN fetched \ there
<1>2. DOMAIN fetched = WorkList(BaseGraph)
  OBVIOUS
<1>3. /\ GraphInv(enriched) /\ Rpms(enriched) = Rpms(BaseGraph)
      /\ there \subseteq Rpms(BaseGraph) /\ there \subseteq Rpms(enriched)
  BY <1>2, RpmsStay, SelectedAre DEF EnrichmentInv, There
<1>4. enriched' = PayloadFacts(enriched, there, PayloadOf) /\ ClaimStep("rpm_payloads", fetched, new, failures)
  BY <1>1 DEF There, PayloadsNew
<1> HIDE DEF there
<1>5. /\ GraphGrows(enriched, enriched')
      /\ \A r \in Rpms(enriched) : enriched'.nodes[r].identity = enriched.nodes[r].identity
      /\ \A r \in there : enriched'.nodes[r].files = PayloadOf[r].files
  <2> DEFINE after == PayloadFacts(enriched, there, PayloadOf)
  <2>1. after = PayloadFacts(enriched, there, PayloadOf)
    OBVIOUS
  <2>2. enriched' = after
    BY <1>4
  <2> HIDE DEF after
  <2>3. HasPayloads(enriched, after, there, PayloadOf)
    BY <1>3, <2>1, PayloadsGrow
  <2> QED BY <2>2, <2>3 DEF HasPayloads
<1>6. new = NewOf("rpm_payloads", fetched) /\ IsSeq(new)
  BY <1>2, PayloadsNewIs DEF NewOf
<1>7. Adds("rpm_payloads", fetched, new, failures) /\ "rpm_payloads" # "rpm_headers"
  BY <1>4 DEF ClaimStep, RunStep, Adds
<1> HIDE DEF new
<1>8. /\ StepIsRight /\ (~last'.raised => Range(new) \subseteq Range(claims'))
      /\ accepted \subseteq accepted' /\ last'.step = "rpm_payloads" /\ last'.failures = failures
  BY <1>5, <1>6, <1>7, AfterClaims
<1>9. GraphInv(enriched')
  BY <1>3, <1>5, GrownIsRight
<1>10. ASSUME ~last'.raised, NEW r \in WorkList(enriched)' \ last'.failures
       PROVE  /\ \A s \in Range(PayloadOf[r].needed) : Claimed(r, "elf_dt_needed", s)' # {}
              /\ \A f \in PayloadOf[r].files : Identify(enriched', f) # None
  <2>1. WorkList(enriched') = WorkList(BaseGraph)
    BY <1>9, RpmsStay
  <2>2. r \in there /\ r \in Rpms(BaseGraph)
    BY <1>2, <1>3, <1>8, <1>10, <2>1
  <2>3. Range(PayloadClaims(r, PayloadOf[r])) \subseteq Range(claims')
    BY <1>2, <1>8, <1>10, <2>2, PayloadsNewIs DEF new, there
  <2>4. ASSUME NEW s \in Range(PayloadOf[r].needed)
        PROVE  Claimed(r, "elf_dt_needed", s)' # {}
    <3>1. Has(PayloadClaims(r, PayloadOf[r]), r, "elf_dt_needed", s, None)
      BY <2>2, PayloadClaimsAre
    <3>2. \E i \in Claimed(r, "elf_dt_needed", s)' : claims'[i].version = None
      BY <2>3, <3>1, HasClaimed
    <3> QED BY <3>2
  <2>5. ASSUME NEW f \in PayloadOf[r].files
        PROVE  Identify(enriched', f) # None
    <3>1. enriched'.nodes[r].files = PayloadOf[r].files /\ PayloadOf[r].files # None
      BY <1>5, <2>2, InputsAssumption
    <3> QED BY <1>9, <2>2, <3>1, IdentifyIs
  <2> QED BY <2>4, <2>5
<1>11. NothingIsLostQuietly'
  BY <1>8, <1>10 DEF NothingIsLostQuietly
<1> QED BY <1>5, <1>8, <1>11 DEF ClaimsAreRight

\* Whether an RPM's CPE is earned, by the SBOMs and the dictionaries that were used.
IsEarned(node, sboms, dictionaries) ==
  LET cpe == node.identity.cpe
      Asserted == \E document \in sboms : \E i \in DOMAIN BuildSboms[document] :
                    BuildSboms[document][i].cpe = cpe /\ IsComponentOf(BuildSboms[document], i, node)
      Known == \E d \in dictionaries : VendorsFor(Dictionaries[d], cpe.product) = {cpe.vendor}
  IN  /\ cpe # None => Asserted \/ Known
      /\ node.identity.status = "verified" => cpe # None /\ Known
      /\ node.identity.status = "vendor_asserted" => cpe # None /\ Asserted

LEMMA EarnedIs ==
  IdentityIsEarned <=> \A r \in Rpms(enriched) : IsEarned(enriched.nodes[r], Given("build_sbom"), Given("verify_cpe"))
  BY DEF IdentityIsEarned, IsEarned, IsComponentOf

LEMMA EarnedIsAfter ==
  IdentityIsEarned' <=> \A r \in Rpms(enriched') : IsEarned(enriched'.nodes[r], Given("build_sbom")', Given("verify_cpe")')
  BY DEF IdentityIsEarned, IsEarned, IsComponentOf

\* It stays earned while the CPE does not change and no status is claimed for it.
LEMMA EarnedStays ==
  ASSUME NEW old, NEW new, NEW s1, NEW s2, NEW d1, NEW d2, IsEarned(old, s1, d1), s1 \subseteq s2, d1 \subseteq d2,
         NodeGrows(old, new), new.identity.cpe = old.identity.cpe,
         new.identity.status \in {old.identity.status, "ambiguous_vendor"}
  PROVE  IsEarned(new, s2, d2)
<1>1. new.name = old.name /\ new.arch = old.arch /\ new.vr = old.vr
  BY DEF NodeGrows, StaticFields
<1> QED BY <1>1 DEF IsEarned, IsComponentOf

LEMMA RpmsAreSame ==
  ASSUME NEW g, NEW h, GraphInv(g), GraphInv(h)
  PROVE  Rpms(h) = Rpms(g)
  BY RpmsStay

LEMMA GivenGrows ==
  ASSUME accepted \subseteq accepted'
  PROVE  Given("build_sbom") \subseteq Given("build_sbom")' /\ Given("verify_cpe") \subseteq Given("verify_cpe")'
  BY DEF Given

LEMMA AfterClaimsEarned ==
  ASSUME EnrichmentInv, IdentityIsEarned, ClaimsAreRight
  PROVE  IdentityIsEarned'
<1>1. ASSUME NEW r \in Rpms(enriched')
      PROVE  IsEarned(enriched'.nodes[r], Given("build_sbom")', Given("verify_cpe")')
  <2>1. r \in Rpms(enriched)
    BY RpmsAreSame DEF EnrichmentInv, ClaimsAreRight, StepIsRight
  <2>2. /\ NodeGrows(enriched.nodes[r], enriched'.nodes[r])
        /\ enriched'.nodes[r].identity = enriched.nodes[r].identity
    BY <2>1 DEF ClaimsAreRight, StepIsRight, GraphGrows
  <2>3. IsEarned(enriched.nodes[r], Given("build_sbom"), Given("verify_cpe"))
    BY <2>1, EarnedIs
  <2>4. Given("build_sbom") \subseteq Given("build_sbom")' /\ Given("verify_cpe") \subseteq Given("verify_cpe")'
    BY GivenGrows DEF ClaimsAreRight
  <2> QED BY <2>2, <2>3, <2>4, EarnedStays
<1> QED BY <1>1, EarnedIsAfter

\* What a step that writes to the graph alone has done.
GraphIsRight ==
  /\ StepIsRight /\ NothingIsLostQuietly'
  /\ IdentityIsEarned => IdentityIsEarned'

\* Of the other steps nothing is asked.
LEMMA NothingIsAsked ==
  ASSUME last'.step \in {"build_sbom", "verify_cpe", "errata", "errata_source", "reconcile"}
  PROVE  NothingIsLostQuietly'
  BY DEF NothingIsLostQuietly

LEMMA GivenHas ==
  ASSUME NEW step, NEW input, input # None, <<step, input>> \in accepted'
  PROVE  input \in Given(step)'
<1> DEFINE a == <<step, input>>
<1>1. a \in {b \in accepted' : b[1] = step} /\ a[2] = input
  OBVIOUS
<1> HIDE DEF a
<1> QED BY <1>1 DEF Given

LEMMA AfterBuildSbom ==
  ASSUME EnrichmentInv, BuildSbomStep
  PROVE  GraphIsRight
<1>1. PICK document \in DOMAIN BuildSboms : GraphStep("build_sbom", document, EnrichWithBuildSbom(enriched, document, BuildSboms[document]))
  BY DEF BuildSbomStep
<1> DEFINE after == EnrichWithBuildSbom(enriched, document, BuildSboms[document])
<1>2. GraphInv(enriched) /\ GraphStep("build_sbom", document, after)
  BY <1>1 DEF EnrichmentInv
<1>3. /\ GraphGrows(enriched, after)
      /\ \A r \in Rpms(enriched) : \/ after.nodes[r].identity = enriched.nodes[r].identity
                                   \/ IsAsserted(after.nodes[r].identity, BuildSboms[document], enriched.nodes[r])
  BY <1>2, BuildSbomGrows
<1> HIDE DEF after
<1>4. /\ StepIsRight /\ enriched' = after
      /\ accepted' = accepted \cup {<<"build_sbom", document>>} /\ last'.step = "build_sbom"
  BY <1>2, <1>3, AfterGraph
<1>5. NothingIsLostQuietly'
  <2>1. last'.step = "build_sbom"
    BY <1>4
  <2> QED BY <2>1, NothingIsAsked
<1>6. document \in Given("build_sbom")'
  <2>1. document # None /\ <<"build_sbom", document>> \in accepted'
    BY <1>4, InputsAssumption
  <2> QED BY <2>1, GivenHas
<1>7. Given("build_sbom") \subseteq Given("build_sbom")' /\ Given("verify_cpe") \subseteq Given("verify_cpe")'
  BY <1>4, GivenGrows
<1>8. ASSUME IdentityIsEarned, NEW r \in Rpms(enriched')
      PROVE  IsEarned(enriched'.nodes[r], Given("build_sbom")', Given("verify_cpe")')
  <2>1. r \in Rpms(enriched)
    BY <1>4, RpmsAreSame DEF EnrichmentInv, StepIsRight
  <2> DEFINE old == enriched.nodes[r]
             new == after.nodes[r]
  <2>2. NodeGrows(old, new) /\ IsEarned(old, Given("build_sbom"), Given("verify_cpe"))
    BY <1>3, <1>8, <2>1, EarnedIs DEF GraphGrows
  <2>3. CASE new.identity = old.identity
    <3> HIDE DEF old, new
    <3>1. IsEarned(new, Given("build_sbom")', Given("verify_cpe")')
      BY <1>7, <2>2, <2>3, EarnedStays
    <3> QED BY <1>4, <3>1 DEF new
  <2>4. CASE IsAsserted(new.identity, BuildSboms[document], old)
    <3> HIDE DEF old, new
    <3>1. new.name = old.name /\ new.arch = old.arch /\ new.vr = old.vr
      BY <2>2 DEF NodeGrows, StaticFields
    <3>2. IsEarned(new, Given("build_sbom")', Given("verify_cpe")')
      BY <1>6, <2>4, <3>1 DEF IsAsserted, IsEarned, IsComponentOf
    <3> QED BY <1>4, <3>2 DEF new
  <2> QED BY <1>3, <2>1, <2>3, <2>4
<1>9. IdentityIsEarned => IdentityIsEarned'
  BY <1>8, EarnedIsAfter
<1> QED BY <1>4, <1>5, <1>9 DEF GraphIsRight

LEMMA AfterVerify ==
  ASSUME EnrichmentInv, VerifyCpeStep
  PROVE  GraphIsRight
<1>1. PICK d \in DOMAIN Dictionaries \cup {None} :
        GraphStep("verify_cpe", d, IF d = None THEN enriched ELSE VerifyGraphCpe(enriched, Dictionaries[d]))
  BY DEF VerifyCpeStep
<1> DEFINE after == IF d = None THEN enriched ELSE VerifyGraphCpe(enriched, Dictionaries[d])
<1>2. GraphInv(enriched) /\ GraphStep("verify_cpe", d, after)
  BY <1>1 DEF EnrichmentInv
<1>3. /\ GraphGrows(enriched, after)
      /\ \A r \in Rpms(enriched) :
           LET old == enriched.nodes[r].identity
               new == after.nodes[r].identity
           IN  \/ new.cpe = old.cpe /\ new.status \in {old.status, "ambiguous_vendor"}
               \/ d # None /\ new.status = "verified" /\ IsKnown(new.cpe, Dictionaries[d])
  <2>1. CASE d = None
    BY <1>2, <2>1, StaysGrown
  <2>2. CASE d # None
    <3>1. d \in DOMAIN Dictionaries /\ after = VerifyGraphCpe(enriched, Dictionaries[d])
      BY <2>2
    <3> HIDE DEF after
    <3> QED BY <1>2, <2>2, <3>1, VerifyGrows
  <2> QED BY <2>1, <2>2
<1> HIDE DEF after
<1>4. /\ StepIsRight /\ enriched' = after
      /\ accepted' = accepted \cup {<<"verify_cpe", d>>} /\ last'.step = "verify_cpe"
  BY <1>2, <1>3, AfterGraph
<1>5. NothingIsLostQuietly'
  <2>1. last'.step = "verify_cpe"
    BY <1>4
  <2> QED BY <2>1, NothingIsAsked
<1>6. d # None => d \in Given("verify_cpe")'
  <2>1. <<"verify_cpe", d>> \in accepted'
    BY <1>4
  <2> QED BY <2>1, GivenHas
<1>7. Given("build_sbom") \subseteq Given("build_sbom")' /\ Given("verify_cpe") \subseteq Given("verify_cpe")'
  BY <1>4, GivenGrows
<1>8. ASSUME IdentityIsEarned, NEW r \in Rpms(enriched')
      PROVE  IsEarned(enriched'.nodes[r], Given("build_sbom")', Given("verify_cpe")')
  <2>1. r \in Rpms(enriched)
    BY <1>4, RpmsAreSame DEF EnrichmentInv, StepIsRight
  <2> DEFINE old == enriched.nodes[r]
             new == after.nodes[r]
  <2>2. NodeGrows(old, new) /\ IsEarned(old, Given("build_sbom"), Given("verify_cpe"))
    BY <1>3, <1>8, <2>1, EarnedIs DEF GraphGrows
  <2>3. CASE new.identity.cpe = old.identity.cpe /\ new.identity.status \in {old.identity.status, "ambiguous_vendor"}
    <3> HIDE DEF old, new
    <3>1. IsEarned(new, Given("build_sbom")', Given("verify_cpe")')
      BY <1>7, <2>2, <2>3, EarnedStays
    <3> QED BY <1>4, <3>1 DEF new
  <2>4. CASE d # None /\ new.identity.status = "verified" /\ IsKnown(new.identity.cpe, Dictionaries[d])
    <3> HIDE DEF old, new
    <3>1. IsEarned(new, Given("build_sbom")', Given("verify_cpe")')
      BY <1>6, <2>4 DEF IsKnown, IsEarned
    <3> QED BY <1>4, <3>1 DEF new
  <2> QED BY <1>3, <2>1, <2>3, <2>4
<1>9. IdentityIsEarned => IdentityIsEarned'
  BY <1>8, EarnedIsAfter
<1> QED BY <1>4, <1>5, <1>9 DEF GraphIsRight

LEMMA AfterErrata ==
  ASSUME EnrichmentInv, ErrataStep \/ ErrataSourceStep
  PROVE  GraphIsRight
<1>1. \E step \in {"errata", "errata_source"} : \E input, after :
        /\ GraphStep(step, input, after) /\ GraphGrows(enriched, after)
        /\ \A r \in Rpms(enriched) : after.nodes[r].identity = enriched.nodes[r].identity
  <2>1. GraphInv(enriched)
    BY DEF EnrichmentInv
  <2>2. CASE ErrataStep
    <3>1. PICK file \in DOMAIN ErrataFiles :
            GraphStep("errata", file, AttachAdvisories(enriched, {<<ErrataFiles[file].subject, ErrataFiles[file].advisory>>}))
      BY <2>2 DEF ErrataStep
    <3> DEFINE pairs == {<<ErrataFiles[file].subject, ErrataFiles[file].advisory>>}
               after == AttachAdvisories(enriched, pairs)
    <3>2. GraphStep("errata", file, after)
      BY <3>1
    <3>3. GraphGrows(enriched, after) /\ \A id \in DOMAIN enriched.nodes : after.nodes[id] = enriched.nodes[id]
      BY <2>1, ErrataGrow
    <3> HIDE DEF after
    <3> QED BY <3>2, <3>3 DEF Rpms
  <2>3. CASE ErrataSourceStep
    <3>1. PICK source : GraphStep("errata_source", source,
            AttachErrataFromSource(enriched, IF source = None THEN None ELSE Advisories[source]))
      BY <2>3 DEF ErrataSourceStep
    <3> DEFINE advisories == IF source = None THEN None ELSE Advisories[source]
               after == AttachErrataFromSource(enriched, advisories)
    <3>2. GraphStep("errata_source", source, after)
      BY <3>1
    <3> HIDE DEF advisories
    <3>3. GraphGrows(enriched, after) /\ \A r \in Rpms(enriched) : after.nodes[r].identity = enriched.nodes[r].identity
      BY <2>1, ErrataSourceGrows
    <3> HIDE DEF after
    <3> QED BY <3>2, <3>3
  <2> QED BY <2>2, <2>3
<1>2. PICK step, input, after :
        /\ step \in {"errata", "errata_source"}
        /\ GraphStep(step, input, after) /\ GraphGrows(enriched, after)
        /\ \A r \in Rpms(enriched) : after.nodes[r].identity = enriched.nodes[r].identity
  BY <1>1
<1>3. /\ StepIsRight /\ enriched' = after
      /\ accepted' = accepted \cup {<<step, input>>} /\ last'.step = step
  BY <1>2, AfterGraph
<1>4. NothingIsLostQuietly'
  <2>1. last'.step = step /\ step \in {"errata", "errata_source"}
    BY <1>2, <1>3
  <2> QED BY <2>1, NothingIsAsked
<1>5. ClaimsAreRight
  BY <1>2, <1>3, <1>4 DEF ClaimsAreRight
<1> QED BY <1>3, <1>4, <1>5, AfterClaimsEarned DEF GraphIsRight

LEMMA AfterFinish ==
  ASSUME EnrichmentInv, Finish
  PROVE  GraphIsRight
<1>1. /\ enriched' = enriched /\ claims' = claims /\ accepted' = accepted
      /\ last' = [step |-> "reconcile", input |-> None, failures |-> {}, raised |-> FALSE, again |-> FALSE]
  BY DEF Finish
<1>2. last'.step = "reconcile" /\ last'.again = FALSE
  BY <1>1
<1>3. EnrichmentInv' /\ Kept(claims, claims')
  BY <1>1 DEF EnrichmentInv, Kept, IsSeq
<1>4. GraphGrows(enriched, enriched')
  BY <1>1, StaysGrown DEF EnrichmentInv
<1>5. NothingIsLostQuietly'
  BY <1>2, NothingIsAsked
<1>6. IdentityIsEarned => IdentityIsEarned'
  BY <1>1, EarnedIs, EarnedIsAfter DEF Given
<1> QED BY <1>2, <1>3, <1>4, <1>5, <1>6 DEF GraphIsRight, StepIsRight

LEMMA AfterFailure ==
  ASSUME EnrichmentInv, ReadingFails
  PROVE  GraphIsRight
<1>1. /\ enriched' = enriched /\ claims' = claims /\ accepted' = accepted
      /\ last'.raised = TRUE /\ last'.again = FALSE
  BY DEF ReadingFails
<1>2. EnrichmentInv' /\ Kept(claims, claims')
  BY <1>1 DEF EnrichmentInv, Kept, IsSeq
<1>3. GraphGrows(enriched, enriched')
  BY <1>1, StaysGrown DEF EnrichmentInv
<1>4. NothingIsLostQuietly'
  BY <1>1 DEF NothingIsLostQuietly
<1>5. IdentityIsEarned => IdentityIsEarned'
  BY <1>1, EarnedIs, EarnedIsAfter DEF Given
<1> QED BY <1>1, <1>2, <1>3, <1>4, <1>5 DEF GraphIsRight, StepIsRight

LEMMA EveryEnrichment ==
  ASSUME EnrichmentInv, EnrichmentNext
  PROVE  GraphIsRight
<1>1. ASSUME ClaimsAreRight
      PROVE  GraphIsRight
  <2>1. IdentityIsEarned => IdentityIsEarned'
    BY <1>1, AfterClaimsEarned
  <2> QED BY <1>1, <2>1 DEF ClaimsAreRight, GraphIsRight
<1>2. CASE BuildSbomStep
  BY <1>2, AfterBuildSbom
<1>3. CASE RepographStep
  BY <1>1, <1>3, AfterRepograph
<1>4. CASE DnfStep
  BY <1>1, <1>4, AfterDnf
<1>5. CASE SbomStep
  BY <1>1, <1>5, AfterSbom
<1>6. CASE RequirementsStep \/ ImportsStep \/ Resolve \/ ScanImports
  BY <1>1, <1>6, AfterDocument
<1>7. CASE ErrataStep \/ ErrataSourceStep
  BY <1>7, AfterErrata
<1>8. CASE VerifyCpeStep
  BY <1>8, AfterVerify
<1>9. CASE HeadersStep
  BY <1>1, <1>9, AfterHeaders
<1>10. CASE PayloadStep
  BY <1>1, <1>10, AfterPayloads
<1>11. CASE SonameStep
  BY <1>1, <1>11, AfterSoname
<1>12. CASE Finish
  BY <1>12, AfterFinish
<1>13. CASE ReadingFails
  BY <1>13, AfterFailure
<1> QED BY <1>2, <1>3, <1>4, <1>5, <1>6, <1>7, <1>8, <1>9, <1>10, <1>11, <1>12, <1>13 DEF EnrichmentNext

LEMMA BaseIsRight == GraphInv(BaseGraph)
<1>1. \A r \in Rpms(BaseGraph) : IsRpmOf(BaseGraph.nodes[r], BaseGraph.nodes[r])
  BY RpmsAssumption, CandidatesAssumption DEF IsRpmOf, IsIdentity
<1> QED BY <1>1, RpmsAssumption DEF GraphInv

LEMMA EnrichmentBegins ==
  ASSUME EnrichmentInit
  PROVE  EnrichmentInv /\ IdentityIsEarned /\ RepeatsAreSafe /\ NothingIsLostQuietly
<1>1. enriched = BaseGraph /\ claims = << >> /\ accepted = {}
  BY DEF EnrichmentInit
<1>2. last = [step |-> "none", input |-> None, failures |-> {}, raised |-> FALSE, again |-> FALSE]
  BY DEF EnrichmentInit
<1>3. ASSUME NEW r \in Rpms(BaseGraph)
      PROVE  /\ BaseGraph.nodes[r].identity.cpe = None
             /\ BaseGraph.nodes[r].identity.status \notin {"verified", "vendor_asserted"}
  BY CandidatesAssumption
<1>4. GraphInv(BaseGraph)
  BY BaseIsRight
<1>5. IsSeq(<< >>) /\ UniqueIds(<< >>)
  BY EmptyIs DEF UniqueIds
<1>6. EnrichmentInv
  BY <1>1, <1>4, <1>5 DEF EnrichmentInv
<1>7. IdentityIsEarned
  BY <1>1, <1>3, EarnedIs DEF IsEarned
<1>8. last.step = "none" /\ last.again = FALSE
  BY <1>2
<1>9. NothingIsLostQuietly
  BY <1>8 DEF NothingIsLostQuietly
<1> QED BY <1>6, <1>7, <1>8, <1>9 DEF RepeatsAreSafe

LEMMA NothingIsLostThen ==
  ASSUME enriched' = enriched, claims' = claims, last' = last, NothingIsLostQuietly
  PROVE  NothingIsLostQuietly'
  BY SMTT(120) DEF NothingIsLostQuietly, Claimed, SelectedNodesOf, LicenseReport

LEMMA EnrichmentGoesOn ==
  ASSUME EnrichmentInv, IdentityIsEarned, RepeatsAreSafe, NothingIsLostQuietly, [EnrichmentNext]_enrichmentVars
  PROVE  EnrichmentInv' /\ IdentityIsEarned' /\ RepeatsAreSafe' /\ NothingIsLostQuietly'
<1>1. CASE EnrichmentNext
  BY <1>1, EveryEnrichment DEF GraphIsRight, StepIsRight, RepeatsAreSafe
<1>2. CASE UNCHANGED enrichmentVars
  <2>1. enriched' = enriched /\ claims' = claims /\ accepted' = accepted /\ last' = last
    BY <1>2 DEF enrichmentVars
  <2>2. EnrichmentInv'
    BY <2>1 DEF EnrichmentInv
  <2>3. IdentityIsEarned'
    BY <2>1, EarnedIs, EarnedIsAfter DEF Given
  <2>4. RepeatsAreSafe'
    BY <2>1 DEF RepeatsAreSafe
  <2>5. NothingIsLostQuietly'
    BY <2>1, NothingIsLostThen
  <2> QED BY <2>2, <2>3, <2>4, <2>5
<1> QED BY <1>1, <1>2

\* Whatever the steps were given, in whatever order and however often: what is there was
\* earned, and what was accepted is there.
LEMMA EnrichmentHolds == EnrichmentSpec => [](EnrichmentInv /\ IdentityIsEarned /\ RepeatsAreSafe /\ NothingIsLostQuietly)
<1> DEFINE All == EnrichmentInv /\ IdentityIsEarned /\ RepeatsAreSafe /\ NothingIsLostQuietly
<1>1. EnrichmentInit => All
  BY EnrichmentBegins
<1>2. All /\ [EnrichmentNext]_enrichmentVars => All'
  BY EnrichmentGoesOn
<1> HIDE DEF All
<1>3. EnrichmentSpec => []All
  BY <1>1, <1>2, PTL DEF EnrichmentSpec
<1> QED BY <1>3 DEF All

\* Every graph that the steps of the enrichment make holds all that was in the graph of
\* the build, its RPMs as they were built; no two claims have one id; and all that a step
\* which was accepted claimed is still claimed.
THEOREM EnrichmentInvariance == EnrichmentSpec => []EnrichmentInv
  BY EnrichmentHolds, PTL

\* An RPM has the CPE that a build SBOM asserts of it or that a dictionary knows as the
\* only one, and the status says which of them it was (_sbom_cpe_identity,
\* verify_security_identity): in every order of the steps, whatever was found before.
THEOREM IdentitiesAreEarned == EnrichmentSpec => []IdentityIsEarned
  BY EnrichmentHolds, PTL

\* What add_dependency_claim accepted of a step it accepts of that step again, whatever was
\* claimed since: the enrichment can be run again on the graph it made.
THEOREM StepsRepeat == EnrichmentSpec => []RepeatsAreSafe
  BY EnrichmentHolds, PTL

\* A step that comes to its end has claimed all its evidence says of each RPM that is not
\* among its failures, whatever number of RPMs, constraints, sonames, edges and components.
THEOREM NothingIsLost == EnrichmentSpec => []NothingIsLostQuietly
  BY EnrichmentHolds, PTL

----------------------------------------------------------------------------
(* What a step may not take away *)

LEMMA CvesStay ==
  ASSUME NEW g, NEW h, GraphGrows(g, h), NEW r \in Rpms(g),
         NEW cve \in Assessment(g, r).potential \ Assessment(h, r).potential
  PROVE  cve \in Assessment(h, r).addressed \/ h.nodes[r].identity.status = "verified"
<1> DEFINE old == g.nodes[r].identity
           new == h.nodes[r].identity
<1>1. new.cpe = old.cpe \/ old.cpe = None \/ new.status = "verified"
  BY DEF GraphGrows, NodeGrows, IdentityGrows
<1>2. cve \in FeedMatches(old.cpe, AddressedCves(g, r)) /\ cve \notin FeedMatches(new.cpe, AddressedCves(h, r))
  BY DEF Assessment
<1>3. Assessment(h, r).addressed = AddressedCves(h, r)
  BY DEF Assessment
<1> HIDE DEF old, new
<1>4. old.cpe # None
  BY <1>2 DEF FeedMatches
<1>5. new.cpe = old.cpe => cve \in AddressedCves(h, r)
  BY <1>2 DEF FeedMatches
<1> QED BY <1>1, <1>3, <1>4, <1>5 DEF new

LEMMA EveryGrowth ==
  ASSUME EnrichmentInv, [EnrichmentNext]_enrichmentVars
  PROVE  GraphInv(enriched') /\ GraphGrows(enriched, enriched') /\ IsSeq(claims') /\ Kept(claims, claims')
<1>1. CASE EnrichmentNext
  BY <1>1, EveryEnrichment DEF GraphIsRight, StepIsRight, EnrichmentInv
<1>2. CASE UNCHANGED enrichmentVars
  <2>1. enriched' = enriched /\ claims' = claims
    BY <1>2 DEF enrichmentVars
  <2> QED BY <2>1, StaysGrown DEF EnrichmentInv, Kept, IsSeq
<1> QED BY <1>1, <1>2

\* A CVE that may affect an RPM does so until an advisory addresses it or a dictionary has
\* replaced the CPE (vuln.py): no step makes it vanish, of whatever feed and dictionaries.
THEOREM CvesDoNotVanish == EnrichmentSpec => NoCveVanishes
<1>1. ASSUME EnrichmentInv, [EnrichmentNext]_enrichmentVars,
             NEW r \in Rpms(enriched), NEW cve \in Assessment(enriched, r).potential \ Assessment(enriched', r).potential
      PROVE  cve \in Assessment(enriched', r).addressed \/ enriched'.nodes[r].identity.status = "verified"
  <2>1. GraphGrows(enriched, enriched')
    BY <1>1, EveryGrowth
  <2> QED BY <1>1, <2>1, CvesStay
<1> DEFINE NoneVanishes == \A r \in Rpms(enriched) :
       \A cve \in Assessment(enriched, r).potential \ Assessment(enriched', r).potential :
         \/ cve \in Assessment(enriched', r).addressed
         \/ enriched'.nodes[r].identity.status = "verified"
<1>2. EnrichmentInv /\ [EnrichmentNext]_enrichmentVars => NoneVanishes
  BY <1>1
<1> HIDE DEF NoneVanishes
<1>3. EnrichmentSpec => [][NoneVanishes]_enrichmentVars
  BY <1>2, EnrichmentInvariance, PTL DEF EnrichmentSpec
<1> QED BY <1>3 DEF NoneVanishes, NoCveVanishes

\* Of some RPMs one is the last.
LEMMA LastIs ==
  ASSUME NEW rpms, rpms \subseteq Rpms(BaseGraph), rpms # {}
  PROVE  LastOf(rpms) \in rpms /\ \A b \in rpms : b[2] <= LastOf(rpms)[2]
<1> DEFINE above(a) == {b \in rpms : ~(b[2] <= a[2])}
           ns == {Cardinality(above(a)) : a \in rpms}
<1>1. IsFiniteSet(rpms) /\ \A a \in rpms : a[2] \in Nat
  <2>1. IsFiniteSet(DOMAIN BaseGraph.nodes) /\ Rpms(BaseGraph) \subseteq DOMAIN BaseGraph.nodes
    BY RpmsAssumption DEF Rpms
  <2> QED BY <2>1, FS_Subset, RpmsAssumption
<1>2. \A a \in rpms : IsFiniteSet(above(a))
  BY <1>1, FS_Subset
<1>3. ns \in SUBSET Nat /\ ns # {}
  <2> HIDE DEF above
  <2> QED BY <1>2, FS_CardinalityType
<1>4. PICK n \in ns : \A m \in ns : n <= m
  <2> HIDE DEF ns
  <2> QED BY <1>3, Least
<1>5. PICK a \in rpms : n = Cardinality(above(a))
  BY <1>4
<1>6. ASSUME NEW b \in rpms, ~(b[2] <= a[2])
      PROVE  FALSE
  <2>1. above(b) \in SUBSET above(a) /\ b \in above(a) /\ b \notin above(b)
    BY <1>1, <1>6
  <2>2. Cardinality(above(b)) < Cardinality(above(a))
    <3>1. IsFiniteSet(above(a)) /\ Cardinality(above(a)) \in Nat /\ Cardinality(above(b)) \in Nat
      BY <1>2, <1>5, FS_CardinalityType
    <3> HIDE DEF above
    <3>2. Cardinality(above(b)) <= Cardinality(above(a)) /\ Cardinality(above(b)) # Cardinality(above(a))
      BY <2>1, <3>1, FS_Subset
    <3> QED BY <3>1, <3>2
  <2>3. Cardinality(above(b)) \in ns
    OBVIOUS
  <2> HIDE DEF above, ns
  <2>4. Cardinality(above(a)) <= Cardinality(above(b))
    BY <1>4, <1>5, <2>3
  <2>5. Cardinality(above(a)) \in Nat /\ Cardinality(above(b)) \in Nat
    BY <1>2, <1>6, FS_CardinalityType
  <2> QED BY <2>2, <2>4, <2>5
<1> QED BY <1>6 DEF LastOf

LEMMA RepresentativesAre ==
  ASSUME NEW g, GraphInv(g)
  PROVE  /\ Representatives(g) \subseteq Rpms(g)
         /\ \A r \in Rpms(g) : \E a \in Representatives(g) : Key(g, a) = Key(g, r)
<1>1. Rpms(g) = Rpms(BaseGraph)
  BY RpmsStay
<1>2. ASSUME NEW r \in Rpms(g)
      PROVE  LastOf(Namesakes(g, r)) \in Namesakes(g, r)
  <2>1. Namesakes(g, r) \subseteq Rpms(BaseGraph) /\ Namesakes(g, r) # {}
    BY <1>1 DEF Namesakes
  <2> QED BY <2>1, LastIs
<1> QED BY <1>2 DEF Namesakes, Representatives

\* The last RPM of a name and an architecture has them.
LEMMA NamesakesAre ==
  ASSUME NEW g, GraphInv(g), NEW k \in {Key(g, r) : r \in Rpms(g)}
  PROVE  ByKey(g)[k] \in Rpms(g) /\ Key(g, ByKey(g)[k]) = k
<1>1. \E a \in Representatives(g) : Key(g, a) = k
  BY RepresentativesAre
<1>2. Representatives(g) \subseteq Rpms(g)
  BY RepresentativesAre
<1>3. ByKey(g)[k] = CHOOSE a \in Representatives(g) : Key(g, a) = k
  BY DEF ByKey
<1> QED BY <1>1, <1>2, <1>3

\* No step changes what the RPMs are called.
LEMMA SameKeys ==
  ASSUME NEW g, NEW h, GraphInv(g), GraphInv(h)
  PROVE  /\ Rpms(h) = Rpms(g) /\ ByKey(h) = ByKey(g)
         /\ \A r \in Rpms(g) : Key(h, r) = Key(g, r) /\ Fingerprint(h.nodes[r]) = Fingerprint(g.nodes[r])
<1>1. Rpms(h) = Rpms(g)
  BY RpmsAreSame
<1>2. \A r \in Rpms(g) : \A f \in StaticFields : h.nodes[r][f] = g.nodes[r][f]
  <2>1. Rpms(g) = Rpms(BaseGraph)
    BY RpmsStay
  <2> QED BY <2>1 DEF GraphInv, IsRpmOf
<1>3. \A r \in Rpms(g) : Key(h, r) = Key(g, r) /\ Fingerprint(h.nodes[r]) = Fingerprint(g.nodes[r])
  BY <1>2 DEF Key, Fingerprint, StaticFields
<1>4. \A r \in Rpms(g) : Namesakes(h, r) = Namesakes(g, r)
  BY <1>1, <1>3 DEF Namesakes
<1>5. Representatives(h) = Representatives(g)
  BY <1>1, <1>4 DEF Representatives
<1>6. Representatives(g) \subseteq Rpms(g)
  BY RepresentativesAre
<1> DEFINE keys(k) == {Key(k, r) : r \in Rpms(k)}
           of(k, key) == CHOOSE r \in Representatives(k) : Key(k, r) = key
<1>7. keys(h) = keys(g)
  BY <1>1, <1>3
<1>8. ASSUME NEW key
      PROVE  of(h, key) = of(g, key)
  <2>1. \A r : (r \in Representatives(h) /\ Key(h, r) = key) <=> (r \in Representatives(g) /\ Key(g, r) = key)
    BY <1>3, <1>5, <1>6
  <2> QED BY <2>1
<1>9. ByKey(h) = [key \in keys(h) |-> of(h, key)] /\ ByKey(g) = [key \in keys(g) |-> of(g, key)]
  BY DEF ByKey
<1> HIDE DEF keys, of
<1>10. ByKey(h) = ByKey(g)
  BY <1>7, <1>8, <1>9
<1> QED BY <1>1, <1>3, <1>10

\* The artifacts are those that were built.
LEMMA ArtifactsStay ==
  ASSUME NEW g, NEW h, GraphInv(g), GraphInv(h)
  PROVE  Range(CompareArtifacts(g, h)) = {{}}
<1> DEFINE of == ByKey(g)
           changed == {k \in DOMAIN of : Fingerprint(g.nodes[of[k]]) # Fingerprint(h.nodes[of[k]])}
<1>1. ByKey(h) = of /\ \A r \in Rpms(g) : Fingerprint(h.nodes[r]) = Fingerprint(g.nodes[r])
  BY SameKeys
<1>2. \A k \in DOMAIN of : of[k] \in Rpms(g)
  <2>1. DOMAIN of = {Key(g, r) : r \in Rpms(g)}
    BY DEF ByKey
  <2> QED BY <2>1, NamesakesAre
<1>3. CompareArtifacts(g, h) = [ removed |-> DOMAIN of \ DOMAIN of, added |-> DOMAIN of \ DOMAIN of, changed |-> changed ]
  BY <1>1 DEF CompareArtifacts
<1>4. changed = {}
  BY <1>1, <1>2
<1> HIDE DEF of, changed
<1>5. CompareArtifacts(g, h) = [removed |-> {}, added |-> {}, changed |-> {}]
  BY <1>3, <1>4
<1> QED BY <1>5 DEF Range

\* When nothing is missing of an RPM, in either group of checks.
IsProven(g, r) ==
  /\ Incoming(g, r, "produces") # {} /\ Outgoing(g, r, "signed_as") # {} /\ Outgoing(g, r, "released_to") # {}
  /\ HasSourceCas(g, r) /\ \E cas \in Outgoing(g, r, "authenticated_by") : HasCasEvidence(g, cas)

IsSecured(g, r) ==
  /\ Outgoing(g, r, "described_by") # {}
  /\ Outgoing(g, r, "fixes") # {} \/ Outgoing(g, r, "affected_by") # {} \/ g.nodes[r].clean

LEMMA ReportIs ==
  ASSUME NEW g, NEW r
  PROVE  /\ TrustPathReport(g, r).provenance = {} <=> IsProven(g, r)
         /\ TrustPathReport(g, r).security = {} <=> IsSecured(g, r)
<1> DEFINE passes(check) == CASE check = "build task"   -> Incoming(g, r, "produces") # {}
                              [] check = "signature"    -> Outgoing(g, r, "signed_as") # {}
                              [] check = "release"      -> Outgoing(g, r, "released_to") # {}
                              [] check = "source CAS"   -> HasSourceCas(g, r)
                              [] check = "artifact CAS" -> \E cas \in Outgoing(g, r, "authenticated_by") :
                                                             HasCasEvidence(g, cas)
           secures(check) == CASE check = "sbom"   -> Outgoing(g, r, "described_by") # {}
                               [] check = "errata" -> ErrataStatus(g, r) # "not_checked"
           failed == {check \in {"build task", "signature", "release", "source CAS", "artifact CAS"} : ~passes(check)}
           open == {check \in {"sbom", "errata"} : ~secures(check)}
<1>1. TrustPathReport(g, r).provenance = failed /\ TrustPathReport(g, r).security = open
  BY DEF TrustPathReport
<1>2. /\ passes("build task") <=> Incoming(g, r, "produces") # {}
      /\ passes("signature") <=> Outgoing(g, r, "signed_as") # {}
      /\ passes("release") <=> Outgoing(g, r, "released_to") # {}
      /\ passes("source CAS") <=> HasSourceCas(g, r)
      /\ passes("artifact CAS") <=> \E cas \in Outgoing(g, r, "authenticated_by") : HasCasEvidence(g, cas)
  OBVIOUS
<1>3. /\ secures("sbom") <=> Outgoing(g, r, "described_by") # {}
      /\ secures("errata") <=> ErrataStatus(g, r) # "not_checked"
  OBVIOUS
<1>4. ErrataStatus(g, r) # "not_checked"
        <=> Outgoing(g, r, "fixes") # {} \/ Outgoing(g, r, "affected_by") # {} \/ g.nodes[r].clean
  BY DEF ErrataStatus
<1> HIDE DEF passes, secures
<1>5. failed = {} <=> IsProven(g, r)
  BY <1>2 DEF IsProven
<1>6. open = {} <=> IsSecured(g, r)
  BY <1>3, <1>4 DEF IsSecured
<1> QED BY <1>1, <1>5, <1>6

\* An edge that was there is there, and CAS evidence is on nodes that do not change.
LEMMA LinksGrow ==
  ASSUME NEW g, NEW h, GraphInv(g), GraphGrows(g, h)
  PROVE  /\ \A id, relation : /\ Outgoing(g, id, relation) \subseteq Outgoing(h, id, relation)
                              /\ Incoming(g, id, relation) \subseteq Incoming(h, id, relation)
         /\ \A cas \in DOMAIN g.nodes : HasCasEvidence(g, cas) => HasCasEvidence(h, cas)
<1>1. g.edges \subseteq h.edges
  BY DEF GraphGrows
<1>2. ASSUME NEW cas \in DOMAIN g.nodes, HasCasEvidence(g, cas)
      PROVE  HasCasEvidence(h, cas)
  <2>1. cas \in DOMAIN g.nodes \ Rpms(g)
    BY <1>2 DEF HasCasEvidence, IsCas, Rpms
  <2> QED BY <1>2, <2>1 DEF HasCasEvidence, GraphGrows
<1> QED BY <1>1, <1>2 DEF Outgoing, Incoming

LEMMA ProofsGrow ==
  ASSUME NEW g, NEW h, GraphInv(g), GraphGrows(g, h), NEW r \in Rpms(g)
  PROVE  /\ IsProven(g, r) => IsProven(h, r)
         /\ IsSecured(g, r) => IsSecured(h, r)
<1>1. /\ \A id, relation : /\ Outgoing(g, id, relation) \subseteq Outgoing(h, id, relation)
                           /\ Incoming(g, id, relation) \subseteq Incoming(h, id, relation)
      /\ \A cas \in DOMAIN g.nodes : HasCasEvidence(g, cas) => HasCasEvidence(h, cas)
  BY LinksGrow
<1>2. g.nodes[r].clean => h.nodes[r].clean
  BY DEF GraphGrows, NodeGrows
<1>3. ASSUME NEW cas, NEW id, NEW relation \in {"authenticated_by", "built_by"},
             cas \in Outgoing(g, id, relation) \/ cas \in Incoming(g, id, relation)
      PROVE  cas \in DOMAIN g.nodes
  <2>1. PICK e \in g.edges : e[3] = relation /\ cas \in {e[1], e[2]}
    BY <1>3 DEF Outgoing, Incoming
  <2>2. e[3] \notin NewRelations
    BY <2>1 DEF NewRelations
  <2> QED BY <2>1, <2>2 DEF GraphInv
<1>4. ASSUME NEW id, NEW cas \in Outgoing(g, id, "authenticated_by"), HasCasEvidence(g, cas)
      PROVE  cas \in Outgoing(h, id, "authenticated_by") /\ HasCasEvidence(h, cas)
  BY <1>1, <1>3, <1>4
<1>5. HasSourceCas(g, r) => HasSourceCas(h, r)
  <2> SUFFICES ASSUME NEW task \in Incoming(g, r, "produces"), NEW cas \in Incoming(g, task, "built_by"),
                      HasCasEvidence(g, cas), Incoming(g, cas, "authenticated_by") # {}
               PROVE  HasSourceCas(h, r)
    BY DEF HasSourceCas
  <2>1. HasCasEvidence(h, cas)
    BY <1>1, <1>3
  <2>2. task \in Incoming(h, r, "produces") /\ cas \in Incoming(h, task, "built_by")
    BY <1>1
  <2>3. Incoming(h, cas, "authenticated_by") # {}
    BY <1>1
  <2> QED BY <2>1, <2>2, <2>3 DEF HasSourceCas
<1>6. IsProven(g, r) => IsProven(h, r)
  BY <1>1, <1>4, <1>5 DEF IsProven
<1>7. IsSecured(g, r) => IsSecured(h, r)
  BY <1>1, <1>2 DEF IsSecured
<1> QED BY <1>6, <1>7

LEMMA AxesGrow ==
  ASSUME NEW g, NEW h, GraphInv(g), GraphInv(h), GraphGrows(g, h),
         NEW cs, NEW ds, IsSeq(cs), IsSeq(ds), Kept(cs, ds)
  PROVE  Grows(CoverageReport(g, cs, << >>), CoverageReport(h, ds, << >>))
<1> DEFINE linked(k) == {r \in Rpms(BaseGraph) : \E i \in DOMAIN k : k[i].subject = r /\ k[i].linkage # "unknown"}
           identified(k) == {r \in Rpms(BaseGraph) : HasVerifiedCpe(k.nodes[r].identity)}
           proven(k) == {r \in Rpms(BaseGraph) : TrustPathReport(k, r).provenance = {}}
           secured(k) == {r \in Rpms(BaseGraph) : TrustPathReport(k, r).security = {}}
<1>1. Rpms(g) = Rpms(BaseGraph) /\ Rpms(h) = Rpms(BaseGraph)
  BY RpmsStay
<1>2. linked(cs) \subseteq linked(ds)
  <2>1. \A i \in DOMAIN cs : i \in DOMAIN ds /\ ds[i] = cs[i]
    <3>1. DOMAIN cs = 1 .. Len(cs) /\ DOMAIN ds = 1 .. Len(ds) /\ Len(cs) \in Nat /\ Len(ds) \in Nat
      BY DEF IsSeq
    <3> QED BY <3>1 DEF Kept
  <2> QED BY <2>1
<1>3. identified(g) \subseteq identified(h)
  BY <1>1 DEF GraphGrows, NodeGrows, IdentityGrows
<1>4. \A r \in Rpms(BaseGraph) : /\ TrustPathReport(g, r).provenance = {} => TrustPathReport(h, r).provenance = {}
                                 /\ TrustPathReport(g, r).security = {} => TrustPathReport(h, r).security = {}
  BY <1>1, ReportIs, ProofsGrow
<1>5. proven(g) \subseteq proven(h) /\ secured(g) \subseteq secured(h)
  BY <1>4
<1>6. ASSUME NEW k, Rpms(k) = Rpms(BaseGraph), NEW es
      PROVE  LET report == CoverageReport(k, es, << >>)
             IN  /\ report["linkage"].covered = linked(es) /\ report["identity"].covered = identified(k)
                 /\ report["provenance"].covered = proven(k) /\ report["security"].covered = secured(k)
  BY <1>6 DEF CoverageReport, Axis
<1> HIDE DEF linked, identified, proven, secured
<1> DEFINE old == CoverageReport(g, cs, << >>)
           new == CoverageReport(h, ds, << >>)
<1>7. /\ old["linkage"].covered = linked(cs) /\ old["identity"].covered = identified(g)
      /\ old["provenance"].covered = proven(g) /\ old["security"].covered = secured(g)
  BY <1>1, <1>6
<1>8. /\ new["linkage"].covered = linked(ds) /\ new["identity"].covered = identified(h)
      /\ new["provenance"].covered = proven(h) /\ new["security"].covered = secured(h)
  BY <1>1, <1>6
<1> HIDE DEF old, new
<1>9. Grows(old, new)
  BY <1>2, <1>3, <1>5, <1>7, <1>8 DEF Grows, CoveredAxes
<1> QED BY <1>9 DEF old, new

LEMMA KeptIsPrefix ==
  ASSUME NEW cs, NEW ds, IsSeq(cs), IsSeq(ds), Kept(cs, ds)
  PROVE  IsPrefix(cs, ds)
<1>1. DOMAIN cs = 1 .. Len(cs) /\ Len(cs) \in Nat /\ Len(ds) \in Nat /\ Len(cs) <= Len(ds)
  BY DEF IsSeq, Kept
<1>2. cs \in Seq(Range(ds)) /\ ds \in Seq(Range(ds))
  <2>1. \A i \in DOMAIN cs : cs[i] = ds[i] /\ i \in DOMAIN ds
    BY <1>1 DEF Kept, IsSeq
  <2>2. \A i \in DOMAIN cs : cs[i] \in Range(ds)
    BY <2>1 DEF Range
  <2>3. cs \in [1 .. Len(cs) -> Range(ds)]
    BY <1>1, <2>2 DEF IsSeq
  <2> QED BY <1>1, <2>3 DEF IsSeq
<1>3. SubSeq(cs, 1, Len(cs)) = SubSeq(ds, 1, Len(cs))
  <2>1. /\ SubSeq(cs, 1, Len(cs)) = [i \in 1 .. Len(cs) |-> cs[i]]
        /\ SubSeq(ds, 1, Len(cs)) = [i \in 1 .. Len(cs) |-> ds[i]]
    BY <1>1, <1>2
  <2> QED BY <1>1, <2>1 DEF Kept
<1> QED BY <1>1, <1>3 DEF IsPrefix

\* No step takes evidence away, of any graph and of any inputs: what an axis of coverage.py
\* counts stays counted, an artifact stays what was built, the claims only get longer.
THEOREM EvidenceGrows == EnrichmentSpec => EvidenceOnlyGrows
<1> DEFINE Longer == /\ Grows(CoverageReport(enriched, claims, << >>), CoverageReport(enriched', claims', << >>))
                    /\ Range(CompareArtifacts(enriched, enriched')) = {{}}
                    /\ IsPrefix(claims, claims')
<1>1. EnrichmentInv /\ [EnrichmentNext]_enrichmentVars => Longer
  <2> SUFFICES ASSUME EnrichmentInv, [EnrichmentNext]_enrichmentVars PROVE Longer
    OBVIOUS
  <2>1. /\ GraphInv(enriched) /\ GraphInv(enriched') /\ GraphGrows(enriched, enriched')
        /\ IsSeq(claims) /\ IsSeq(claims') /\ Kept(claims, claims')
    BY EveryGrowth DEF EnrichmentInv
  <2>2. Grows(CoverageReport(enriched, claims, << >>), CoverageReport(enriched', claims', << >>))
    BY <2>1, AxesGrow
  <2>3. Range(CompareArtifacts(enriched, enriched')) = {{}}
    BY <2>1, ArtifactsStay
  <2>4. IsPrefix(claims, claims')
    BY <2>1, KeptIsPrefix
  <2> QED BY <2>2, <2>3, <2>4
<1> HIDE DEF Longer
<1>2. EnrichmentSpec => [][Longer]_enrichmentVars
  BY <1>1, EnrichmentInvariance, PTL DEF EnrichmentSpec
<1> QED BY <1>2, PTL DEF Longer, EvidenceOnlyGrows

----------------------------------------------------------------------------
(* What the reports say of one graph *)

\* What the reports ask of a verdict.
IsVerdict(v) == \/ v.kinds # {} /\ v.agreement = "conflict"
                \/ v.kinds = {} /\ v.agreement \in {"insufficient_evidence", "consensus", "compatible"}

AreVerdicts(vs) == \A k \in DOMAIN vs : IsVerdict(vs[k])

\* A group is in conflict if a rule says so, and never otherwise.
LEMMA VerdictIs ==
  ASSUME NEW cs, NEW members, NEW declaring
  PROVE  IsVerdict(Rules(cs)!EvaluateGroup(members, declaring))
<1> DEFINE kinds == Rules(cs)!ConflictKinds(members, declaring)
           classes == Rules(cs)!VersionClasses(members)
           chosen == IF kinds # {} \/ classes = {} THEN None ELSE CHOOSE r \in classes : TRUE
           agreement == CASE kinds # {} -> "conflict"
                          [] kinds = {} /\ classes = {} -> "insufficient_evidence"
                          [] kinds = {} /\ classes # {} ->
                               IF Rules(cs)!SourcesAgreeing(members, chosen) >= 2 THEN "consensus" ELSE "compatible"
           v == Rules(cs)!EvaluateGroup(members, declaring)
<1>1. v = [kinds |-> kinds, crossDistro |-> Rules(cs)!CrossDistro(members), chosen |-> chosen, agreement |-> agreement]
  BY DEF Rules!EvaluateGroup
<1>2. kinds # {} => agreement = "conflict"
  OBVIOUS
<1>3. kinds = {} /\ classes = {} => agreement = "insufficient_evidence"
  OBVIOUS
<1>4. kinds = {} /\ classes # {} => agreement \in {"consensus", "compatible"}
  <2> HIDE DEF kinds, classes, chosen
  <2> SUFFICES ASSUME kinds = {}, classes # {}
               PROVE  agreement \in {"consensus", "compatible"}
    OBVIOUS
  <2>1. agreement = IF Rules(cs)!SourcesAgreeing(members, chosen) >= 2 THEN "consensus" ELSE "compatible"
    OBVIOUS
  <2> HIDE DEF agreement
  <2> QED BY <2>1
<1> HIDE DEF kinds, classes, chosen, agreement, v
<1>5. v.kinds = kinds /\ v.agreement = agreement
  BY <1>1
<1> QED BY <1>2, <1>3, <1>4, <1>5 DEF IsVerdict, v

LEMMA ReconcileIs ==
  ASSUME NEW cs
  PROVE  AreVerdicts(Reconcile(cs))
<1> DEFINE group(k) == {i \in DOMAIN cs : GroupKey(cs[i]) = k}
           declaring == Rules(cs)!SubjectsWithDeclarations(DOMAIN cs)
           verdict(k) == Rules(cs)!EvaluateGroup(group(k), declaring)
           keys == {GroupKey(cs[i]) : i \in DOMAIN cs}
           all == [k \in keys |-> [ agreement |-> verdict(k).agreement, kinds |-> verdict(k).kinds,
                                    crossDistro |-> verdict(k).crossDistro, members |-> group(k) ]]
<1>1. Reconcile(cs) = all
  BY DEF Reconcile
<1>2. ASSUME NEW k \in keys
      PROVE  IsVerdict(all[k])
  <2>1. IsVerdict(verdict(k))
    <3> HIDE DEF group, declaring
    <3> QED BY VerdictIs
  <2> HIDE DEF verdict, group, keys
  <2>2. all[k].agreement = verdict(k).agreement /\ all[k].kinds = verdict(k).kinds
    BY <1>2
  <2> HIDE DEF all
  <2> QED BY <2>1, <2>2 DEF IsVerdict
<1>3. DOMAIN all = keys
  OBVIOUS
<1> HIDE DEF all, keys
<1> QED BY <1>1, <1>2, <1>3 DEF AreVerdicts

\* Verdicts are written by a reconciliation alone.
LEMMA VerdictsAfter ==
  ASSUME [EnrichmentNext]_enrichmentVars
  PROVE  verdicts' = verdicts \/ verdicts' = Reconcile(claims')
<1>1. CASE BuildSbomStep
  BY <1>1 DEF BuildSbomStep, GraphStep, RunStep
<1>2. CASE RepographStep
  BY <1>2 DEF RepographStep, ClaimStep, RunStep
<1>3. CASE DnfStep
  BY <1>3 DEF DnfStep, ClaimStep, RunStep
<1>4. CASE SbomStep
  BY <1>4 DEF SbomStep, ClaimStep, RunStep
<1>5. CASE RequirementsStep \/ ImportsStep
  BY <1>5 DEF RequirementsStep, ImportsStep, ClaimStep, RunStep
<1>6. CASE ErrataStep \/ ErrataSourceStep
  BY <1>6 DEF ErrataStep, ErrataSourceStep, GraphStep, RunStep
<1>7. CASE VerifyCpeStep
  BY <1>7 DEF VerifyCpeStep, GraphStep, RunStep
<1>8. CASE HeadersStep
  BY <1>8 DEF HeadersStep, ClaimStep, RunStep
<1>9. CASE PayloadStep
  BY <1>9 DEF PayloadStep, ClaimStep, RunStep
<1>10. CASE SonameStep
  BY <1>10 DEF SonameStep, ClaimStep, RunStep
<1>11. CASE Finish
  BY <1>11 DEF Finish
<1>12. CASE Resolve
  BY <1>12 DEF Resolve
<1>13. CASE ScanImports
  BY <1>13 DEF ScanImports
<1>14. CASE UNCHANGED enrichmentVars
  BY <1>14 DEF enrichmentVars
<1>15. CASE ReadingFails
  BY <1>15 DEF ReadingFails
<1> QED BY <1>1, <1>2, <1>3, <1>4, <1>5, <1>6, <1>7, <1>8, <1>9, <1>10, <1>11, <1>12, <1>13, <1>14, <1>15 DEF EnrichmentNext

\* Each verdict is one of the rules'.
LEMMA VerdictsHold == EnrichmentSpec => []AreVerdicts(verdicts)
<1>1. EnrichmentInit => AreVerdicts(verdicts)
  BY DEF EnrichmentInit, AreVerdicts
<1>2. AreVerdicts(verdicts) /\ [EnrichmentNext]_enrichmentVars => AreVerdicts(verdicts')
  BY VerdictsAfter, ReconcileIs
<1>3. AreVerdicts(verdicts)' <=> AreVerdicts(verdicts')
  BY DEF AreVerdicts, IsVerdict
<1> QED BY <1>1, <1>2, <1>3, PTL DEF EnrichmentSpec

\* The first so many RPMs of some: all, or as many.
FirstOf(rpms, cap) == {r \in rpms : Cardinality({s \in rpms : s[2] < r[2]}) < cap}

LEMMA FirstAre ==
  ASSUME NEW rpms, rpms \subseteq Rpms(BaseGraph), NEW cap \in Nat \ {0}
  PROVE  /\ FirstOf(rpms, cap) \subseteq rpms
         /\ FirstOf(rpms, cap) = rpms \/ Cardinality(FirstOf(rpms, cap)) = cap
<1> DEFINE shown == FirstOf(rpms, cap)
           before(r) == {s \in rpms : s[2] < r[2]}
<1>1. /\ IsFiniteSet(rpms) /\ \A r \in rpms : r[2] \in Nat
      /\ \A r, s \in rpms : r[2] = s[2] => r = s
  <2>1. IsFiniteSet(DOMAIN BaseGraph.nodes) /\ Rpms(BaseGraph) \subseteq DOMAIN BaseGraph.nodes
    BY RpmsAssumption DEF Rpms
  <2>2. \A r \in Rpms(BaseGraph) : r[2] \in Nat /\ r = <<"rpm", r[2]>>
    BY RpmsAssumption
  <2>3. \A r, s \in Rpms(BaseGraph) : r[2] = s[2] => r = s
    BY <2>2
  <2> QED BY <2>1, <2>2, <2>3, FS_Subset
<1>2. \A r \in rpms : IsFiniteSet(before(r)) /\ Cardinality(before(r)) \in Nat
  BY <1>1, FS_Subset, FS_CardinalityType
<1>3. shown \subseteq rpms /\ \A r \in rpms : r \in shown <=> Cardinality(before(r)) < cap
  BY DEF FirstOf
<1> HIDE DEF shown
<1> SUFFICES ASSUME shown # rpms
             PROVE  Cardinality(shown) = cap
  BY <1>3 DEF shown
<1>4. PICK r \in rpms \ shown : \A s \in rpms \ shown : r[2] <= s[2]
  <2>1. rpms \ shown # {} /\ rpms \ shown \subseteq Rpms(BaseGraph)
    BY <1>3
  <2> QED BY <2>1, LeastRpm
<1>5. ~(Cardinality(before(r)) < cap)
  BY <1>3, <1>4
<1>6. before(r) = shown
  <2>1. ASSUME NEW s \in before(r)
        PROVE  s \in shown
    BY <1>1, <1>4
  <2>2. ASSUME NEW s \in shown, s \notin before(r)
        PROVE  FALSE
    <3>1. s \in rpms /\ Cardinality(before(s)) < cap
      BY <1>3
    <3>2. before(r) \in SUBSET before(s)
      BY <1>1, <1>4, <2>2, <3>1
    <3>3. IsFiniteSet(before(s)) /\ Cardinality(before(s)) \in Nat /\ Cardinality(before(r)) \in Nat
      BY <1>2, <1>4, <3>1
    <3> HIDE DEF before
    <3>4. Cardinality(before(r)) <= Cardinality(before(s))
      BY <3>2, <3>3, FS_Subset
    <3> QED BY <1>5, <3>1, <3>3, <3>4
  <2> QED BY <2>1, <2>2
<1>7. before(r) # {}
  <2>1. before(r) = {} => Cardinality(before(r)) = 0
    <3> HIDE DEF before
    <3> QED BY FS_EmptySet
  <2> HIDE DEF before
  <2> QED BY <1>5, <2>1
<1> DEFINE p == LastOf(before(r))
<1>8. p \in before(r) /\ \A s \in before(r) : s[2] <= p[2]
  <2>1. before(r) \subseteq Rpms(BaseGraph)
    OBVIOUS
  <2> HIDE DEF before
  <2> QED BY <1>7, <2>1, LastIs
<1>9. before(p) = before(r) \ {p}
  <2> HIDE DEF p
  <2>1. p \in rpms /\ p[2] < r[2] /\ r \in rpms
    BY <1>4, <1>8
  <2>2. ASSUME NEW s \in before(p)
        PROVE  s \in before(r) \ {p}
    BY <1>1, <2>1
  <2>3. ASSUME NEW s \in before(r), s # p
        PROVE  s \in before(p)
    <3>1. s \in rpms /\ s[2] <= p[2] /\ s[2] # p[2] /\ s[2] \in Nat /\ p[2] \in Nat
      BY <1>1, <1>8, <2>1, <2>3
    <3> QED BY <3>1
  <2> QED BY <2>2, <2>3
<1>10. Cardinality(before(p)) = Cardinality(before(r)) - 1
  <2>1. IsFiniteSet(before(r))
    BY <1>2, <1>4
  <2> HIDE DEF before, p
  <2> QED BY <1>8, <1>9, <2>1, FS_RemoveElement
<1>11. Cardinality(before(p)) < cap
  <2>1. p \in shown
    BY <1>6, <1>8
  <2> HIDE DEF p, before
  <2> QED BY <1>3, <2>1
<1>12. Cardinality(before(r)) \in Nat
  BY <1>2, <1>4
<1> DEFINE n == Cardinality(before(r))
<1>13. n \in Nat /\ ~(n < cap) /\ n - 1 < cap
  BY <1>5, <1>10, <1>11, <1>12
<1> HIDE DEF n
<1>14. n = cap
  BY <1>13
<1> QED BY <1>6, <1>14 DEF n

\* A row of the matrix, of what its RPM is missing.
LEMMA RowIs ==
  ASSUME NEW g, NEW r \in Rpms(g)
  PROVE  LET row == EvidenceMatrixRows(g)[r]
         IN  /\ row.provenance = (TrustPathReport(g, r).provenance = {})
             /\ row.security = (TrustPathReport(g, r).security = {})
             /\ row.errata = ErrataCell(ErrataStatus(g, r))
             /\ row.missing = Missing(g, r) \cup (IF HasTests(g, r) THEN {} ELSE {"tests"})
             /\ Missing(g, r) \subseteq TrustChecks
<1> DEFINE report == TrustPathReport(g, r)
<1>1. EvidenceMatrixRows(g)[r] = MatrixRow(report, HasTests(g, r))
  BY DEF EvidenceMatrixRows
<1>2. report.errata = ErrataStatus(g, r) /\ report.provenance \cup report.security \subseteq TrustChecks
  BY DEF TrustPathReport, TrustChecks
<1>3. Missing(g, r) = report.provenance \cup report.security
  BY DEF Missing, Failed
<1> HIDE DEF report
<1>4. LET row == MatrixRow(report, HasTests(g, r))
      IN  /\ row.provenance = (report.provenance = {}) /\ row.security = (report.security = {})
          /\ row.errata = ErrataCell(report.errata)
          /\ row.missing = report.provenance \cup report.security \cup (IF HasTests(g, r) THEN {} ELSE {"tests"})
  BY DEF MatrixRow
<1> QED BY <1>1, <1>2, <1>3, <1>4 DEF report

MissingOf(g) == [r \in Rpms(g) |-> Missing(g, r)]

LEMMA ChecksAreOne ==
  ASSUME NEW g, GraphInv(g), g = enriched, NEW report
  PROVE  ChecksAgree(MissingOf(g), EvidenceMatrixRows(g), Findings(report, MissingOf(g), verdicts))
<1> DEFINE missing == MissingOf(g)
           matrix == EvidenceMatrixRows(g)
           found == Findings(report, missing, verdicts)
<1>1. Rpms(g) = Rpms(BaseGraph) /\ DOMAIN missing = Rpms(g) /\ DOMAIN matrix = Rpms(g)
  BY RpmsStay DEF MissingOf, EvidenceMatrixRows
<1>2. found.trust = [check \in UNION Range(missing) |-> {r \in DOMAIN missing : check \in missing[r]}]
  BY DEF Findings
<1>3. \A r \in Rpms(g) : /\ missing[r] = Missing(g, r)
                         /\ matrix[r].missing = Missing(g, r) \cup (IF HasTests(g, r) THEN {} ELSE {"tests"})
  BY RowIs DEF MissingOf
<1> HIDE DEF missing, matrix, found
<1> SUFFICES ASSUME NEW check \in TrustChecks
             PROVE  LET without == {r \in Rpms(enriched) : check \in matrix[r].missing}
                        shown == DrillDownCheck(enriched, found, check)
                    IN  /\ QueryMissingCheck(missing, check) = without
                        /\ without # {} <=> check \in DOMAIN found.trust
                        /\ without # {} => /\ shown \subseteq without
                                           /\ shown = without \/ Cardinality(shown) = DrillDownCap
                        /\ without \subseteq CoverageGaps(matrix)
  BY DEF ChecksAgree, missing, matrix, found
<1> DEFINE without == {r \in Rpms(g) : check \in matrix[r].missing}
           shown == DrillDownCheck(g, found, check)
<1>4. check # "tests"
  BY DEF TrustChecks
<1>5. \A r \in Rpms(g) : check \in matrix[r].missing <=> check \in missing[r]
  BY <1>3, <1>4
<1>6. QueryMissingCheck(missing, check) = without
  BY <1>1, <1>5 DEF QueryMissingCheck
<1>7. without # {} <=> check \in DOMAIN found.trust
  BY <1>1, <1>2, <1>5 DEF Range
<1>8. without \subseteq CoverageGaps(matrix)
  BY <1>1 DEF CoverageGaps
<1>9. ASSUME without # {}
      PROVE  shown \subseteq without /\ (shown = without \/ Cardinality(shown) = DrillDownCap)
  <2>1. found.trust[check] \cap Rpms(g) = without
    BY <1>1, <1>2, <1>5, <1>7, <1>9
  <2>2. without \subseteq Rpms(BaseGraph)
    BY <1>1
  <2> HIDE DEF without
  <2>3. shown = FirstOf(without, DrillDownCap)
    BY <2>1 DEF DrillDownCheck, FirstOf
  <2>4. DrillDownCap \in Nat \ {0}
    BY DEF DrillDownCap
  <2> HIDE DEF shown
  <2>5. /\ FirstOf(without, DrillDownCap) \subseteq without
        /\ FirstOf(without, DrillDownCap) = without \/ Cardinality(FirstOf(without, DrillDownCap)) = DrillDownCap
    BY <2>2, <2>4, FirstAre
  <2> QED BY <2>3, <2>5
<1> QED BY <1>6, <1>7, <1>8, <1>9

LEMMA AxesAreOne ==
  ASSUME EnrichmentInv, IdentityIsEarned
  PROVE  AxesAgree(CoverageReport(enriched, claims, verdicts), EvidenceMatrixRows(enriched), SecurityRows(enriched))
<1> DEFINE g == enriched
           report == CoverageReport(g, claims, verdicts)
           matrix == EvidenceMatrixRows(g)
           security == SecurityRows(g)
           strength == IdentityStrength(g)
<1>1. Rpms(g) = Rpms(BaseGraph) /\ \A r \in Rpms(g) : IsIdentity(g.nodes[r].identity)
  BY RpmsStay DEF EnrichmentInv, GraphInv, IsRpmOf
<1>2. /\ report.identity.covered = {r \in Rpms(g) : HasVerifiedCpe(g.nodes[r].identity)}
      /\ report.provenance.covered = {r \in Rpms(g) : TrustPathReport(g, r).provenance = {}}
      /\ report.security.covered = {r \in Rpms(g) : TrustPathReport(g, r).security = {}}
  BY DEF CoverageReport, Axis
<1>3. \A r \in Rpms(g) : /\ matrix[r].provenance = (TrustPathReport(g, r).provenance = {})
                         /\ matrix[r].security = (TrustPathReport(g, r).security = {})
                         /\ matrix[r].errata = ErrataCell(ErrataStatus(g, r))
  BY RowIs
<1>4. \A r \in Rpms(g) : security[r].errata = ErrataCell(ErrataStatus(g, r))
  BY DEF SecurityRows
<1>5. \A r \in Rpms(g) : /\ HasVerifiedCpe(g.nodes[r].identity) <=> g.nodes[r].identity.cpe # None
                         /\ Assessment(g, r).established <=> g.nodes[r].identity.cpe # None
  BY <1>1 DEF HasVerifiedCpe, Assessment, IsIdentity
<1>6. UNION Range(strength) \subseteq report.identity.covered
  <2>1. \A r \in Rpms(g) : g.nodes[r].identity.status \in {"verified", "vendor_asserted"} => g.nodes[r].identity.cpe # None
    BY EarnedIs DEF IsEarned
  <2>2. \A status \in DOMAIN strength : strength[status] \subseteq report.identity.covered
    <3> SUFFICES ASSUME NEW status \in {"verified", "vendor_asserted"}, NEW r \in Rpms(g), g.nodes[r].identity.status = status
                 PROVE  r \in report.identity.covered
      BY DEF IdentityStrength
    <3>1. g.nodes[r].identity.cpe # None
      BY <2>1
    <3> HIDE DEF report
    <3> QED BY <1>2, <1>5, <3>1
  <2> HIDE DEF strength, report
  <2> QED BY <2>2 DEF Range
<1> HIDE DEF report, matrix, security, strength
<1>7. \A r \in Rpms(g) :
        /\ matrix[r].provenance <=> r \in report.provenance.covered
        /\ matrix[r].security <=> r \in report.security.covered
        /\ matrix[r].errata = security[r].errata
        /\ Assessment(g, r).established <=> r \in report.identity.covered
  BY <1>2, <1>3, <1>4, <1>5
<1> QED BY <1>6, <1>7 DEF AxesAgree, report, matrix, security, strength

\* Which verdicts a row, a finding or the axis stands for.
LEMMA DependenciesAreOne ==
  ASSUME EnrichmentInv, AreVerdicts(verdicts)
  PROVE  LET report == CoverageReport(enriched, claims, verdicts)
         IN  DependenciesAgree(report, EvidenceMatrixRows(enriched), Findings(report, MissingOf(enriched), verdicts))
<1> DEFINE g == enriched
           report == CoverageReport(g, claims, verdicts)
           matrix == EvidenceMatrixRows(g)
           found == Findings(report, MissingOf(g), verdicts)
           conflicts == Rows(TRUE, FALSE)
           unresolved == Rows(FALSE, TRUE)
<1>1. /\ found.coverage = {a \in DOMAIN report : Incomplete(report[a])}
      /\ found.conflicts = {k \in DOMAIN verdicts : verdicts[k].kinds # {}}
      /\ found.crossDistro = {k \in DOMAIN verdicts : verdicts[k].crossDistro}
  BY DEF Findings
<1>2. report.resolution = ResolutionAxis(claims, verdicts)
  BY DEF CoverageReport
<1>3. /\ conflicts = {k \in DOMAIN verdicts : verdicts[k].kinds # {}}
      /\ \A k \in DOMAIN verdicts : verdicts[k].agreement = "insufficient_evidence" => k \in unresolved
  BY DEF Rows, DependencyRows, FacetMatch, IsUnresolved
<1> HIDE DEF report, found, conflicts, unresolved
<1>4. ASSUME DOMAIN verdicts # {}
      PROVE  /\ report.resolution.covered \cap (found.conflicts \cup found.crossDistro) = {}
             /\ report.resolution.total \ report.resolution.covered \subseteq conflicts \cup unresolved \cup found.crossDistro
  <2>1. /\ report.resolution.covered = {k \in DOMAIN verdicts : /\ verdicts[k].agreement \in {"consensus", "compatible"}
                                                                /\ ~verdicts[k].crossDistro}
        /\ report.resolution.total = DOMAIN verdicts
    BY <1>2, <1>4 DEF ResolutionAxis, Axis
  <2>2. \A k \in DOMAIN verdicts : IsVerdict(verdicts[k])
    BY DEF AreVerdicts
  <2> QED BY <1>1, <1>3, <2>1, <2>2 DEF IsVerdict
<1>5. ASSUME NEW k \in conflicts, k[1] \in Rpms(g)
      PROVE  {c \in TrustChecks : ~DrillDownSubject(g, k)[c]} = matrix[k[1]].missing \ {"tests"}
  <2>1. DrillDownSubject(g, k) = [check \in TrustChecks |-> check \notin Missing(g, k[1])]
    BY <1>5 DEF DrillDownSubject
  <2>2. /\ matrix[k[1]].missing = Missing(g, k[1]) \cup (IF HasTests(g, k[1]) THEN {} ELSE {"tests"})
        /\ Missing(g, k[1]) \subseteq TrustChecks
    BY <1>5, RowIs
  <2>3. "tests" \notin TrustChecks
    BY DEF TrustChecks
  <2> HIDE DEF matrix
  <2> QED BY <2>1, <2>2, <2>3
<1>6. "first_finding" \in Recipes(g, found) <=> conflicts # {}
  BY <1>1, <1>3 DEF Recipes
<1>7. "coverage_gaps" \in Recipes(g, found) <=> "incomplete" \in Range(CoverageRows(report))
  <2>1. "coverage_gaps" \in Recipes(g, found) <=> \E a \in DOMAIN report : Incomplete(report[a])
    BY <1>1 DEF Recipes
  <2>2. "incomplete" \in Range(CoverageRows(report)) <=> \E a \in DOMAIN report : Incomplete(report[a])
    BY DEF Range, CoverageRows
  <2> QED BY <2>1, <2>2
<1>8. found.conflicts = conflicts
  BY <1>1, <1>3
<1>9. DependenciesAgree(report, matrix, found)
  <2> HIDE DEF matrix
  <2> QED BY <1>4, <1>5, <1>6, <1>7, <1>8 DEF DependenciesAgree, conflicts, unresolved
<1> QED BY <1>9 DEF report, found

LEMMA ComparisonIsOne ==
  ASSUME EnrichmentInv
  PROVE  ComparisonAgrees(EvidenceMatrixRows(BaseGraph), EvidenceMatrixRows(enriched))
<1> DEFINE before == EvidenceMatrixRows(BaseGraph)
           matrix == EvidenceMatrixRows(enriched)
           of == ByKey(enriched)
<1>1. GraphInv(enriched)
  BY DEF EnrichmentInv
<1>2. ByKey(BaseGraph) = of /\ DOMAIN of = {Key(enriched, r) : r \in Rpms(enriched)}
  <2>1. ByKey(BaseGraph) = of
    BY <1>1, BaseIsRight, SameKeys
  <2> QED BY <2>1 DEF ByKey
<1> HIDE DEF before, matrix
<1> SUFFICES ASSUME NEW k \in CompareEvidence(BaseGraph, enriched, before, matrix)
             PROVE  \E r \in Rpms(enriched) : Key(enriched, r) = k /\ before[r] # matrix[r]
  BY DEF ComparisonAgrees, before, matrix
<1>3. k \in DOMAIN of /\ before[of[k]] # matrix[of[k]]
  BY <1>2 DEF CompareEvidence
<1>4. of[k] \in Rpms(enriched) /\ Key(enriched, of[k]) = k
  BY <1>1, <1>2, <1>3, NamesakesAre
<1> QED BY <1>3, <1>4

\* A tree that is shown and is not on the path is of a source that is, or of another source
\* where those have none.
LEMMA TreesAre ==
  ASSUME EnrichmentInv
  PROVE  TreesAreOwn
<1> DEFINE g == enriched
<1> SUFFICES ASSUME NEW r \in Rpms(g),
                    NEW t \in SourceEvidenceRows(g, r) \ Range(SourceToArtifactPath(g, r)), Kind(t) = "tree"
             PROVE  LET own == {s \in Range(SourceToArtifactPath(g, r)) : Kind(s) = "source"}
                    IN  \/ Incoming(g, t, "described_by") \cap own # {}
                        \/ \A s \in own : \A d \in Outgoing(g, s, "described_by") : Kind(d) # "tree"
  BY DEF TreesAreOwn
<1> DEFINE path == Range(SourceToArtifactPath(g, r))
           onPath == {id \in SourcePath(g, r) : Kind(id) \in SourceKinds}
           sources == {id \in onPath : Kind(id) = "source"}
           trees(ss) == {d \in UNION {Outgoing(g, s, "described_by") : s \in ss} : Kind(d) = "tree"}
           own == trees(sources)
           shown == IF own # {} THEN own ELSE {id \in DOMAIN g.nodes : Kind(id) = "tree"}
           files == {f \in UNION {Outgoing(g, s, "contains") : s \in shown} : Kind(f) \in {"manifest", "spec"}}
           meant == UNION {Outgoing(g, f, "declares_dependency") \cup Outgoing(g, f, "references") : f \in files}
           rows == onPath \cup shown \cup files \cup meant
<1>1. SourceEvidenceRows(g, r) = IF rows # {} THEN rows ELSE {id \in DOMAIN g.nodes : Kind(id) = "source"}
  BY DEF SourceEvidenceRows
<1>2. SourcePath(g, r) = path
  BY DEF SourcePath, TrustPathReport
<1>3. sources = {s \in path : Kind(s) = "source"} /\ onPath \subseteq path
  BY <1>2 DEF SourceKinds
<1>4. \A d \in meant : Kind(d) # "tree"
  <2> SUFFICES ASSUME NEW f, NEW relation \in {"declares_dependency", "references"}, NEW d \in Outgoing(g, f, relation)
               PROVE  Kind(d) # "tree"
    OBVIOUS
  <2>1. PICK e \in g.edges : e[3] = relation /\ e[2] = d
    BY DEF Outgoing
  <2>2. e \in BaseGraph.edges
    BY <2>1 DEF EnrichmentInv, GraphInv, NewRelations
  <2> QED BY <2>1, <2>2, RpmsAssumption
<1>5. \A f \in files : Kind(f) # "tree"
  OBVIOUS
<1> HIDE DEF path, onPath, files, meant, own, sources
<1>6. t \in shown
  <2>1. t \in rows
    BY <1>1
  <2> QED BY <1>3, <1>4, <1>5, <2>1 DEF path
<1>7. CASE own # {}
  <2>1. t \in own
    BY <1>6, <1>7
  <2>2. PICK s \in sources : t \in Outgoing(g, s, "described_by")
    BY <2>1 DEF own
  <2>3. s \in Incoming(g, t, "described_by")
    BY <2>2 DEF Incoming, Outgoing
  <2> QED BY <1>3, <2>2, <2>3 DEF path
<1>8. CASE own = {}
  <2>1. \A s \in sources : \A d \in Outgoing(g, s, "described_by") : Kind(d) # "tree"
    BY <1>8 DEF own
  <2> QED BY <1>3, <2>1 DEF path
<1> QED BY <1>7, <1>8

LEMMA StoryIs ==
  ASSUME EnrichmentInv, IdentityIsEarned, AreVerdicts(verdicts)
  PROVE  ReportsTellOneStory
<1> DEFINE g == enriched
           report == CoverageReport(g, claims, verdicts)
           matrix == EvidenceMatrixRows(g)
           missing == MissingOf(g)
           found == Findings(report, missing, verdicts)
<1>1. GraphInv(g)
  BY DEF EnrichmentInv
<1>2. DependenciesAgree(report, matrix, found)
  BY DependenciesAreOne
<1>3. AxesAgree(report, matrix, SecurityRows(g)) /\ ComparisonAgrees(EvidenceMatrixRows(BaseGraph), matrix)
  BY AxesAreOne, ComparisonIsOne
<1>4. TreesAreOwn
  BY TreesAre
<1>5. [r \in Rpms(g) |-> Missing(g, r)] = missing
  BY DEF MissingOf
<1> HIDE DEF report
<1>6. ChecksAgree(missing, matrix, found)
  <2>1. ChecksAgree(MissingOf(g), EvidenceMatrixRows(g), Findings(report, MissingOf(g), verdicts))
    <3> HIDE DEF g
    <3> QED BY <1>1, ChecksAreOne DEF g
  <2> QED BY <2>1
<1> HIDE DEF matrix, missing, found
<1>7. StoryOfReport(report, missing, matrix)
  BY <1>2, <1>3, <1>6 DEF StoryOf, StoryOfReport, found
<1> QED BY <1>4, <1>5, <1>7 DEF ReportsTellOneStory, report, matrix

\* After every step, whatever it was given: the matrix, the queries, the findings and what
\* they list, the axes, the recipes, the security rows, the comparison with the build as it
\* was and the source rows name the same RPMs and the same dependencies.
THEOREM StoryIsOne == EnrichmentSpec => []ReportsTellOneStory
<1>1. EnrichmentInv /\ IdentityIsEarned /\ AreVerdicts(verdicts) => ReportsTellOneStory
  BY StoryIs
<1> QED BY <1>1, EnrichmentHolds, VerdictsHold, PTL

----------------------------------------------------------------------------
(* The trust report of a part of the graph *)

\* What is first of some ids is first of any of them it is among.
LEMMA FirstOfFewer ==
  ASSUME NEW ids, NEW few \in SUBSET ids, NEW id \in few, IsFirst(id, ids),
         (\E kind : AreNamed(ids, kind)) \/ \E package : AreCommits(ids, package)
  PROVE  FirstId(few) = id
<1>1. IsFirst(id, few)
  BY DEF IsFirst
<1>2. ASSUME NEW a \in few, NEW b \in few, IsFirst(a, few), IsFirst(b, few), a # b
      PROVE  FALSE
  <2>1. CASE \E kind : AreNamed(ids, kind)
    <3>1. PICK kind : AreNamed(ids, kind)
      BY <2>1
    <3>2. PICK m \in Nat : a = <<kind, m>>
      BY <3>1 DEF AreNamed
    <3>3. PICK n \in Nat : b = <<kind, n>>
      BY <3>1 DEF AreNamed
    <3>4. Len(a) = 2 /\ Len(b) = 2 /\ a[2] = m /\ b[2] = n
      BY <3>2, <3>3
    <3>5. PICK i \in 2 .. 2 : a[i] < b[i]
      BY <1>2, <3>4 DEF IsFirst
    <3>6. PICK j \in 2 .. 2 : b[j] < a[j]
      BY <1>2, <3>4 DEF IsFirst
    <3>7. i = 2 /\ j = 2
      OBVIOUS
    <3>8. m < n /\ n < m
      BY <3>4, <3>5, <3>6, <3>7
    <3> QED
      BY <3>8
  <2>2. CASE \E package : AreCommits(ids, package)
    <3>1. PICK package \in Nat : AreCommits(ids, package)
      BY <2>2 DEF AreCommits
    <3>2. PICK m \in Nat : a = <<"commit", package, m>>
      BY <3>1 DEF AreCommits
    <3>3. PICK n \in Nat : b = <<"commit", package, n>>
      BY <3>1 DEF AreCommits
    <3>4. Len(a) = 3 /\ Len(b) = 3 /\ a[2] = package /\ b[2] = package /\ a[3] = m /\ b[3] = n
      BY <3>2, <3>3
    <3>5. PICK i \in 2 .. 3 : a[i] < b[i]
      BY <1>2, <3>4 DEF IsFirst
    <3>6. PICK j \in 2 .. 3 : b[j] < a[j]
      BY <1>2, <3>4 DEF IsFirst
    <3>7. i \in {2, 3} /\ j \in {2, 3}
      OBVIOUS
    <3>8. m < n /\ n < m
      BY <3>4, <3>5, <3>6, <3>7
    <3> QED
      BY <3>8
  <2> QED
    BY <2>1, <2>2
<1> DEFINE Before(a, b) == \E i \in 2 .. Len(a) : a[i] < b[i] /\ \A j \in 2 .. i - 1 : a[j] = b[j]
           Leads(a) == \A b \in few \ {a} : Before(a, b)
<1>3. IsFirst(FirstId(few), few)
  <2>1. FirstId(few) = CHOOSE a \in few : Leads(a)
    BY DEF FirstId
  <2>2. \A a : IsFirst(a, few) <=> a \in few /\ Leads(a)
    BY DEF IsFirst
  <2> HIDE DEF Leads, Before
  <2>3. id \in few /\ Leads(id)
    BY <1>1, <2>2
  <2>4. FirstId(few) \in few /\ Leads(FirstId(few))
    BY <2>1, <2>3
  <2> QED
    BY <2>2, <2>4
<1> HIDE DEF Leads, Before
<1>4. FirstId(few) \in few
  BY <1>3 DEF IsFirst
<1> QED
  BY <1>1, <1>2, <1>3, <1>4

\* The links of a part are those of the whole between nodes of the part.
LEMMA PartLinks ==
  ASSUME NEW g, NEW ids, NEW id \in ids, NEW relation
  PROVE  /\ Incoming(Subgraph(g, ids), id, relation) = Incoming(g, id, relation) \cap ids
         /\ Outgoing(Subgraph(g, ids), id, relation) = Outgoing(g, id, relation) \cap ids
  BY DEF Incoming, Outgoing, Subgraph

\* Of one CAS node, evident or not, that one is taken.
LEMMA PreferredOfOne ==
  ASSUME NEW g, NEW cas
  PROVE  Preferred(g, {cas}) = cas
<1> DEFINE evident == {id \in {cas} : HasCasEvidence(g, id)}
<1>1. evident = {} \/ evident = {cas}
  OBVIOUS
<1>2. Preferred(g, {cas}) = FirstId(IF evident # {} THEN evident ELSE {cas})
  BY DEF Preferred
<1> HIDE DEF evident
<1>3. Preferred(g, {cas}) = FirstId({cas})
  <2>1. CASE evident = {}
    BY <1>2, <2>1
  <2>2. CASE evident = {cas}
    BY <1>2, <2>2
  <2> QED
    BY <1>1, <2>1, <2>2
<1> QED
  BY <1>3, FirstOfOne

\* A trail is the path.
LEMMA TrailIsPath ==
  ASSUME NEW g, NEW a, NEW source, NEW repo, NEW commit, NEW cas, NEW task,
         Trail(g, a, source, repo, commit, cas, task)
  PROVE  SourceToArtifactPath(g, a) = <<source, repo, commit, cas, task, a>>
<1>1. /\ FirstId(Incoming(g, a, "produces")) = task
      /\ Preferred(g, Incoming(g, task, "built_by")) = cas
  BY FirstOfOne, PreferredOfOne DEF Trail
<1>2. /\ Incoming(g, a, "produces") # {} /\ Incoming(g, task, "built_by") # {}
      /\ Incoming(g, cas, "authenticated_by") # {} /\ Incoming(g, commit, "points_to") # {}
      /\ Incoming(g, repo, "stored_in") # {}
  BY DEF Trail, IsFirst
<1>3. /\ FirstId(Incoming(g, cas, "authenticated_by")) = commit
      /\ FirstId(Incoming(g, commit, "points_to")) = repo
      /\ FirstId(Incoming(g, repo, "stored_in")) = source
  BY DEF Trail
<1> QED
  BY <1>1, <1>2, <1>3, WholePath

\* A part that has the nodes of a trail has the trail.
LEMMA TrailStays ==
  ASSUME NEW g, NEW ids, NEW a, NEW source, NEW repo, NEW commit, NEW cas, NEW task,
         {source, repo, commit, cas, task, a} \subseteq ids,
         Trail(g, a, source, repo, commit, cas, task)
  PROVE  Trail(Subgraph(g, ids), a, source, repo, commit, cas, task)
<1> DEFINE part == Subgraph(g, ids)
<1> HIDE DEF part
<1>1. \A id \in ids : \A relation : Incoming(part, id, relation) = Incoming(g, id, relation) \cap ids
  BY PartLinks DEF part
<1>2. Incoming(part, a, "produces") = {task} /\ Incoming(part, task, "built_by") = {cas}
  BY <1>1 DEF Trail
<1>3. ASSUME NEW id \in ids, NEW few, NEW all, few = all \cap ids, IsFirst(id, all),
             (\E kind : AreNamed(all, kind)) \/ \E package : AreCommits(all, package)
      PROVE  IsFirst(id, few) /\ FirstId(few) = id
  <2>1. id \in few /\ few \in SUBSET all
    BY <1>3 DEF IsFirst
  <2>2. IsFirst(id, few)
    BY <1>3, <2>1 DEF IsFirst
  <2> QED
    BY <1>3, <2>1, <2>2, FirstOfFewer
<1>4. /\ IsFirst(commit, Incoming(part, cas, "authenticated_by"))
      /\ FirstId(Incoming(part, cas, "authenticated_by")) = commit
      /\ \E package : AreCommits(Incoming(part, cas, "authenticated_by"), package)
  <2>1. Incoming(part, cas, "authenticated_by") = Incoming(g, cas, "authenticated_by") \cap ids
    BY <1>1
  <2>2. IsFirst(commit, Incoming(g, cas, "authenticated_by"))
        /\ \E package : AreCommits(Incoming(g, cas, "authenticated_by"), package)
    BY DEF Trail
  <2>3. \E package : AreCommits(Incoming(part, cas, "authenticated_by"), package)
    BY <2>1, <2>2 DEF AreCommits
  <2> QED
    BY <1>3, <2>1, <2>2, <2>3
<1>5. /\ IsFirst(repo, Incoming(part, commit, "points_to"))
      /\ FirstId(Incoming(part, commit, "points_to")) = repo
      /\ AreNamed(Incoming(part, commit, "points_to"), "repo")
  <2>1. Incoming(part, commit, "points_to") = Incoming(g, commit, "points_to") \cap ids
    BY <1>1
  <2>2. IsFirst(repo, Incoming(g, commit, "points_to")) /\ AreNamed(Incoming(g, commit, "points_to"), "repo")
    BY DEF Trail
  <2>3. AreNamed(Incoming(part, commit, "points_to"), "repo")
    BY <2>1, <2>2 DEF AreNamed
  <2> QED
    BY <1>3, <2>1, <2>2, <2>3
<1>6. /\ IsFirst(source, Incoming(part, repo, "stored_in"))
      /\ FirstId(Incoming(part, repo, "stored_in")) = source
      /\ AreNamed(Incoming(part, repo, "stored_in"), "source")
  <2>1. Incoming(part, repo, "stored_in") = Incoming(g, repo, "stored_in") \cap ids
    BY <1>1
  <2>2. IsFirst(source, Incoming(g, repo, "stored_in")) /\ AreNamed(Incoming(g, repo, "stored_in"), "source")
    BY DEF Trail
  <2>3. AreNamed(Incoming(part, repo, "stored_in"), "source")
    BY <2>1, <2>2 DEF AreNamed
  <2> QED
    BY <1>3, <2>1, <2>2, <2>3
<1> QED
  BY <1>2, <1>4, <1>5, <1>6 DEF Trail, part

\* Where a trail is, the source CAS is that of the trail.
LEMMA SourceCasOfTrail ==
  ASSUME NEW g, NEW a, NEW source, NEW repo, NEW commit, NEW cas, NEW task,
         Trail(g, a, source, repo, commit, cas, task)
  PROVE  HasSourceCas(g, a) <=> HasCasEvidence(g, cas)
<1>1. Incoming(g, cas, "authenticated_by") # {}
  BY DEF Trail, IsFirst
<1> QED
  BY <1>1 DEF Trail, HasSourceCas

\* A part with the trail of an RPM and its evidence gives it the report the whole gives.
LEMMA ReportOfPart ==
  ASSUME NEW g, NEW ids, NEW a, NEW source, NEW repo, NEW commit, NEW cas, NEW task,
         {source, repo, commit, cas, task, a} \subseteq ids, Evidence(g, a) \subseteq ids,
         Trail(g, a, source, repo, commit, cas, task)
  PROVE  TrustPathReport(Subgraph(g, ids), a) = TrustPathReport(g, a)
<1> DEFINE part == Subgraph(g, ids)
<1>1. \A id \in ids : part.nodes[id] = g.nodes[id]
  BY DEF Subgraph
<1> HIDE DEF part
<1>2. Trail(part, a, source, repo, commit, cas, task)
  BY TrailStays DEF part
<1>3. SourceToArtifactPath(part, a) = SourceToArtifactPath(g, a)
  BY <1>2, TrailIsPath
<1>4. \A relation \in EvidenceRelations : Outgoing(part, a, relation) = Outgoing(g, a, relation)
  <2> TAKE relation \in EvidenceRelations
  <2>1. Outgoing(g, a, relation) \subseteq ids
    BY DEF Evidence
  <2>2. Outgoing(part, a, relation) = Outgoing(g, a, relation) \cap ids
    BY PartLinks DEF part
  <2> QED
    BY <2>1, <2>2
<1>5. /\ Outgoing(part, a, "authenticated_by") = Outgoing(g, a, "authenticated_by")
      /\ Outgoing(part, a, "signed_as") = Outgoing(g, a, "signed_as")
      /\ Outgoing(part, a, "released_to") = Outgoing(g, a, "released_to")
      /\ Outgoing(part, a, "described_by") = Outgoing(g, a, "described_by")
      /\ Outgoing(part, a, "fixes") = Outgoing(g, a, "fixes")
      /\ Outgoing(part, a, "affected_by") = Outgoing(g, a, "affected_by")
  BY <1>4 DEF EvidenceRelations
<1>6. Incoming(part, a, "produces") = Incoming(g, a, "produces")
  BY <1>2 DEF Trail
<1>7. HasSourceCas(part, a) <=> HasSourceCas(g, a)
  <2>1. HasCasEvidence(part, cas) <=> HasCasEvidence(g, cas)
    BY <1>1 DEF HasCasEvidence
  <2> QED
    BY <1>2, <2>1, SourceCasOfTrail
<1>8. (\E c \in Outgoing(part, a, "authenticated_by") : HasCasEvidence(part, c))
        <=> \E c \in Outgoing(g, a, "authenticated_by") : HasCasEvidence(g, c)
  <2>1. \A c \in Outgoing(g, a, "authenticated_by") : c \in ids
    BY DEF Evidence, EvidenceRelations
  <2>2. \A c \in Outgoing(g, a, "authenticated_by") : HasCasEvidence(part, c) <=> HasCasEvidence(g, c)
    BY <1>1, <2>1 DEF HasCasEvidence
  <2> QED
    BY <1>5, <2>2
<1>9. ErrataStatus(part, a) = ErrataStatus(g, a)
  BY <1>1, <1>5 DEF ErrataStatus
<1>10. TrustPathReport(part, a) = TrustPathReport(g, a)
  BY <1>3, <1>5, <1>6, <1>7, <1>8, <1>9 DEF TrustPathReport
<1> QED
  BY <1>10 DEF part

\* The nodes of a path of six.
LEMMA RangeOfSix ==
  ASSUME NEW s, NEW r, NEW c, NEW h, NEW t, NEW a
  PROVE  Range(<<s, r, c, h, t, a>>) = {s, r, c, h, t, a}
<1> DEFINE path == <<s, r, c, h, t, a>>
<1>1. DOMAIN path = {1, 2, 3, 4, 5, 6}
  <2>1. DOMAIN path = 1 .. 6
    OBVIOUS
  <2>2. 1 .. 6 = {1, 2, 3, 4, 5, 6}
    OBVIOUS
  <2> HIDE DEF path
  <2> QED
    BY <2>1, <2>2
<1>2. path[1] = s /\ path[2] = r /\ path[3] = c /\ path[4] = h /\ path[5] = t /\ path[6] = a
  OBVIOUS
<1> HIDE DEF path
<1>3. Range(path) = {s, r, c, h, t, a}
  BY <1>1, <1>2 DEF Range
<1> QED
  BY <1>3 DEF path

\* The three views of an RPM agree.
LEMMA ViewsAgree ==
  ASSUME BuildInv
  PROVE  TrustReportsAgree
<1> SUFFICES ASSUME NEW rpm \in Rpms(graph)
             PROVE  ReportAgrees(TrustPathReport(graph, rpm), rpm)
  BY DEF TrustReportsAgree
<1>1. rpm \in Artifacts(graph)
  BY DEF Rpms, Artifacts
<1>2. PICK source, repo, commit, cas, task : Trail(graph, rpm, source, repo, commit, cas, task)
  BY <1>1, PathOfArtifact
<1> DEFINE path == <<source, repo, commit, cas, task, rpm>>
<1>3. SourceToArtifactPath(graph, rpm) = path
  BY <1>2, TrailIsPath
<1>4. Range(path) = {source, repo, commit, cas, task, rpm}
  BY RangeOfSix
<1>5. Len(path) = 6 /\ path[1] = source /\ path[4] = cas
  OBVIOUS
<1> HIDE DEF path
<1>6. {source, repo, commit, cas, task, rpm} \subseteq FocusedIds(graph, rpm)
      /\ Evidence(graph, rpm) \subseteq FocusedIds(graph, rpm)
  BY <1>3, <1>4 DEF FocusedIds, AroundPath
<1>7. TrustPathReport(FocusedTrustGraph(graph, rpm), rpm) = TrustPathReport(graph, rpm)
  BY <1>2, <1>6, ReportOfPart DEF FocusedTrustGraph
<1>8. TrustPathReport(SourceBuildSubgraph(graph, source), rpm) = TrustPathReport(graph, rpm)
  <2>1. rpm \in ArtifactsFromSource(graph, source)
    BY <1>1, <1>3, <1>5 DEF ArtifactsFromSource
  <2> DEFINE ids == UNION {FocusedIds(graph, r) : r \in ArtifactsFromSource(graph, source) \cap Rpms(graph)}
  <2>2. FocusedIds(graph, rpm) \subseteq ids
    BY <2>1
  <2>3. SourceBuildSubgraph(graph, source) = Subgraph(graph, ids)
    BY DEF SourceBuildSubgraph
  <2> HIDE DEF ids
  <2>4. {source, repo, commit, cas, task, rpm} \subseteq ids /\ Evidence(graph, rpm) \subseteq ids
    BY <1>6, <2>2
  <2> QED
    BY <1>2, <2>3, <2>4, ReportOfPart
<1> DEFINE report == TrustPathReport(graph, rpm)
<1>9. report.path = path
  BY <1>3 DEF TrustPathReport
<1>10. report.provenance = {} => HasCasEvidence(graph, cas)
  <2>1. "source CAS" \notin report.provenance => HasSourceCas(graph, rpm)
    BY DEF TrustPathReport
  <2> QED
    BY <1>2, <2>1, SourceCasOfTrail
<1> HIDE DEF report
<1>11. ReportAgrees(report, rpm)
  BY <1>5, <1>7, <1>8, <1>9, <1>10 DEF ReportAgrees, report
<1> QED
  BY <1>11 DEF report

\* trust.py, lineage.py: what a user sees of an RPM in the focused graph or in that of its
\* source is what the whole graph says of it, in any order of the steps.
THEOREM TrustReportsCorrect == Spec => []TrustReportsAgree
<1>1. BuildInv => TrustReportsAgree
  BY ViewsAgree
<1> QED
  BY <1>1, Invariance, PTL

----------------------------------------------------------------------------
(* Sums over finite sets *)

\* What is true of the empty set, and of a subset if it is true of the subset without
\* any one of its members, is true of every subset of a finite set.
LEMMA SubsetsUp ==
  ASSUME NEW S, IsFiniteSet(S), NEW True, {} \in True,
         \A s \in SUBSET S : s # {} /\ (\A x \in s : s \ {x} \in True) => s \in True
  PROVE  \A s \in SUBSET S : s \in True
<1> SUFFICES ASSUME NEW bad \in SUBSET S, bad \notin True  PROVE FALSE
  OBVIOUS
<1> DEFINE Bad == {s \in SUBSET S : s \notin True}
<1>1. IsWellFoundedOn(StrictSubsetOrdering(S), FiniteSubsetsOf(S))
  BY FS_StrictSubsetOrderingWellFounded
<1>2. FiniteSubsetsOf(S) = SUBSET S
  BY FS_FiniteSubsetsOfFinite
<1>3. PICK s \in Bad : \A t \in Bad : <<t, s>> \notin StrictSubsetOrdering(S)
  <2>1. Bad \subseteq FiniteSubsetsOf(S) /\ Bad # {}
    BY <1>2
  <2> HIDE DEF Bad
  <2> QED
    BY <1>1, <2>1, WFMin, Zenon
<1>4. s \in SUBSET S /\ s \notin True /\ s # {}
  OBVIOUS
<1>5. ASSUME NEW x \in s, s \ {x} \notin True
      PROVE  FALSE
  <2>1. s \ {x} \in Bad
    BY <1>4, <1>5
  <2>2. s \ {x} \subseteq s /\ s \ {x} # s
    OBVIOUS
  <2>3. <<s \ {x}, s>> \in StrictSubsetOrdering(S)
    BY <1>4, <2>2 DEF StrictSubsetOrdering
  <2> QED
    BY <1>3, <2>1, <2>3
<1> QED
  BY <1>4, <1>5

\* Each member of S, as often as its value says: a sum of naturals counts these.
Units(f, s) == UNION {{x} \X (1 .. f[x]) : x \in s}

LEMMA UnitsOfOne ==
  ASSUME NEW x, NEW n \in Nat
  PROVE  IsFiniteSet({x} \X (1 .. n)) /\ Cardinality({x} \X (1 .. n)) = n
<1>1. IsFiniteSet(1 .. n) /\ Cardinality(1 .. n) = n
  BY FS_Interval
<1>2. IsFiniteSet({x}) /\ Cardinality({x}) = 1
  BY FS_Singleton
<1>3. IsFiniteSet({x} \X (1 .. n)) /\ Cardinality({x} \X (1 .. n)) = 1 * n
  BY <1>1, <1>2, FS_Product
<1> QED
  BY <1>3

AreNaturals(f, S) == \A x \in S : f[x] \in Nat

LEMMA UnitsCount ==
  ASSUME NEW S, IsFiniteSet(S), NEW f, AreNaturals(f, S), NEW s \in SUBSET S
  PROVE  /\ IsFiniteSet(Units(f, s)) /\ Cardinality(Units(f, s)) \in Nat
         /\ \A x \in s : Cardinality(Units(f, s)) = f[x] + Cardinality(Units(f, s \ {x}))
<1> DEFINE True == {t \in SUBSET S : IsFiniteSet(Units(f, t))}
<1>1. \A t, x : x \in t => Units(f, t) = Units(f, t \ {x}) \cup ({x} \X (1 .. f[x]))
                           /\ Units(f, t \ {x}) \cap ({x} \X (1 .. f[x])) = {}
  <2> TAKE t, x
  <2> HAVE x \in t
  <2>1. Units(f, t) = Units(f, t \ {x}) \cup ({x} \X (1 .. f[x]))
    BY DEF Units
  <2>2. \A u \in Units(f, t \ {x}) : u[1] # x
    BY DEF Units
  <2> QED
    BY <2>1, <2>2
<1>2. {} \in True
  <2>1. Units(f, {}) = {}
    BY DEF Units
  <2> QED
    BY <2>1, FS_EmptySet
<1>3. ASSUME NEW t \in SUBSET S, t # {}, \A x \in t : t \ {x} \in True
      PROVE  t \in True
  <2>1. PICK x \in t : t \ {x} \in True
    BY <1>3
  <2>2. IsFiniteSet(Units(f, t \ {x})) /\ IsFiniteSet({x} \X (1 .. f[x]))
    BY <2>1, UnitsOfOne DEF AreNaturals
  <2>3. IsFiniteSet(Units(f, t \ {x}) \cup ({x} \X (1 .. f[x])))
    BY <2>2, FS_Union
  <2> QED
    BY <1>1, <2>3
<1>4. \A t \in SUBSET S : t \in True
  <2> HIDE DEF True
  <2> QED
    BY <1>2, <1>3, SubsetsUp
<1>5. \A t \in SUBSET S : IsFiniteSet(Units(f, t)) /\ Cardinality(Units(f, t)) \in Nat
  BY <1>4, FS_CardinalityType
<1>6. ASSUME NEW x \in s
      PROVE  Cardinality(Units(f, s)) = f[x] + Cardinality(Units(f, s \ {x}))
  <2> DEFINE A == Units(f, s \ {x})
             B == {x} \X (1 .. f[x])
  <2>1. f[x] \in Nat
    BY DEF AreNaturals
  <2>2. IsFiniteSet(A) /\ Cardinality(A) \in Nat
    <3>1. s \ {x} \in SUBSET S
      OBVIOUS
    <3> QED
      BY <1>5, <3>1
  <2>3. IsFiniteSet(B) /\ Cardinality(B) = f[x]
    BY <2>1, UnitsOfOne
  <2>4. Units(f, s) = A \cup B /\ A \cap B = {}
    BY <1>1
  <2> HIDE DEF A, B
  <2>5. Cardinality(A \cup B) = Cardinality(A) + Cardinality(B) - Cardinality(A \cap B)
    BY <2>2, <2>3, FS_Union
  <2>6. Cardinality(A \cap B) = 0
    BY <2>4, FS_EmptySet
  <2> QED
    BY <2>1, <2>2, <2>3, <2>4, <2>5, <2>6 DEF A
<1> QED
  BY <1>5, <1>6

\* The recursion of MapThenSumSet.
Adding(level, f, S) ==
  [s \in SUBSET S |-> IF s = {} THEN 0
                      ELSE f[CHOOSE x \in s : TRUE] + level[s \ {CHOOSE x \in s : TRUE}]]

LEMMA SumExists ==
  ASSUME NEW S, IsFiniteSet(S), NEW f, AreNaturals(f, S)
  PROVE  \E level : level = Adding(level, f, S)
<1> DEFINE level == [s \in SUBSET S |-> Cardinality(Units(f, s))]
<1>1. level[{}] = 0
  <2>1. Units(f, {}) = {}
    BY DEF Units
  <2> QED
    BY <2>1, FS_EmptySet
<1>2. \A s \in SUBSET S : \A x \in s : level[s] = f[x] + level[s \ {x}]
  <2> TAKE s \in SUBSET S
  <2> TAKE x \in s
  <2>1. level[s] = Cardinality(Units(f, s)) /\ level[s \ {x}] = Cardinality(Units(f, s \ {x}))
    OBVIOUS
  <2> HIDE DEF level
  <2> QED
    BY <2>1, UnitsCount
<1>3. level = [s \in SUBSET S |-> level[s]]
  OBVIOUS
<1> HIDE DEF level
<1>4. \A s \in SUBSET S : level[s] = IF s = {} THEN 0
                      ELSE f[CHOOSE x \in s : TRUE] + level[s \ {CHOOSE x \in s : TRUE}]
  <2> TAKE s \in SUBSET S
  <2>1. s # {} => (CHOOSE x \in s : TRUE) \in s
    OBVIOUS
  <2> QED
    BY <1>1, <1>2, <2>1
<1>5. level = Adding(level, f, S)
  BY <1>3, <1>4 DEF Adding
<1> QED
  BY <1>5

LEMMA SumIs ==
  ASSUME NEW S, IsFiniteSet(S), NEW f, AreNaturals(f, S), NEW level, level = Adding(level, f, S)
  PROVE  level[S] = Cardinality(Units(f, S))
<1> DEFINE True == {s \in SUBSET S : level[s] = Cardinality(Units(f, s))}
<1>1. level[{}] = 0
  BY DEF Adding
<1>2. {} \in True
  <2>1. Units(f, {}) = {}
    BY DEF Units
  <2> QED
    BY <1>1, <2>1, FS_EmptySet
<1>3. ASSUME NEW s \in SUBSET S, s # {}, \A x \in s : s \ {x} \in True
      PROVE  s \in True
  <2>1. PICK x \in s : x = CHOOSE y \in s : TRUE
    BY <1>3
  <2>2. level[s] = f[x] + level[s \ {x}]
    BY <1>3, <2>1 DEF Adding
  <2>3. level[s \ {x}] = Cardinality(Units(f, s \ {x}))
    BY <1>3
  <2>4. Cardinality(Units(f, s)) = f[x] + Cardinality(Units(f, s \ {x}))
    BY UnitsCount
  <2> QED
    BY <2>2, <2>3, <2>4
<1>4. \A s \in SUBSET S : s \in True
  <2> HIDE DEF True
  <2> QED
    BY <1>2, <1>3, SubsetsUp
<1> QED
  BY <1>4

\* A sum may be taken over other names of the same things.
LEMMA SumRenamed ==
  ASSUME NEW S, IsFiniteSet(S), NEW f, AreNaturals(f, S),
         NEW T, NEW h, NEW b \in Bijection(S, T), \A x \in S : h[b[x]] = f[x]
  PROVE  /\ IsFiniteSet(T) /\ AreNaturals(h, T)
         /\ Cardinality(Units(h, T)) = Cardinality(Units(f, S))
<1>1. /\ b \in [S -> T] /\ \A y \in T : \E x \in S : b[x] = y
      /\ \A x, y \in S : b[x] = b[y] => x = y
  BY DEF Bijection, Injection, Surjection, IsInjective
<1>2. IsFiniteSet(T)
  BY FS_Bijection DEF ExistsBijection
<1>3. AreNaturals(h, T)
  BY <1>1 DEF AreNaturals
<1> DEFINE A == Units(f, S)
           B == Units(h, T)
           c == [u \in A |-> <<b[u[1]], u[2]>>]
<1>4. \A u : u \in A <=> \E x \in S : \E k \in 1 .. f[x] : u = <<x, k>>
  BY DEF Units
<1>5. \A u : u \in B <=> \E y \in T : \E k \in 1 .. h[y] : u = <<y, k>>
  BY DEF Units
<1> HIDE DEF A, B
<1>6. c \in [A -> B]
  <2> SUFFICES ASSUME NEW u \in A  PROVE <<b[u[1]], u[2]>> \in B
    OBVIOUS
  <2>0. PICK x \in S : \E k \in 1 .. f[x] : u = <<x, k>>
    BY <1>4
  <2>1. PICK k \in 1 .. f[x] : u = <<x, k>>
    BY <2>0
  <2>2. u[1] = x /\ u[2] = k /\ b[x] \in T /\ h[b[x]] = f[x]
    BY <1>1, <2>1
  <2> QED
    BY <1>5, <2>2
<1>7. ASSUME NEW u \in A, NEW v \in A, c[u] = c[v]  PROVE u = v
  <2>0. PICK x \in S : \E k \in 1 .. f[x] : u = <<x, k>>
    BY <1>4
  <2>1. PICK k \in 1 .. f[x] : u = <<x, k>>
    BY <2>0
  <2>b. PICK y \in S : \E n \in 1 .. f[y] : v = <<y, n>>
    BY <1>4
  <2>2. PICK n \in 1 .. f[y] : v = <<y, n>>
    BY <2>b
  <2>3. <<b[x], k>> = <<b[y], n>>
    BY <1>7, <2>1, <2>2
  <2>4. b[x] = b[y] /\ k = n
    BY <2>3
  <2> QED
    BY <1>1, <2>1, <2>2, <2>4
<1>8. ASSUME NEW v \in B  PROVE \E u \in A : c[u] = v
  <2>0. PICK y \in T : \E k \in 1 .. h[y] : v = <<y, k>>
    BY <1>5
  <2>1. PICK k \in 1 .. h[y] : v = <<y, k>>
    BY <2>0
  <2>2. PICK x \in S : b[x] = y
    BY <1>1
  <2>3. k \in 1 .. f[x]
    BY <2>1, <2>2
  <2>4. <<x, k>> \in A
    BY <1>4, <2>3
  <2>5. c[<<x, k>>] = v
    BY <2>1, <2>2, <2>4
  <2> QED
    BY <2>4, <2>5
<1> HIDE DEF c
<1>9. c \in Bijection(A, B)
  BY <1>6, <1>7, <1>8 DEF Bijection, Injection, Surjection, IsInjective
<1>10. IsFiniteSet(A)
  BY UnitsCount DEF A
<1>11. Cardinality(B) = Cardinality(A)
  BY <1>9, <1>10, FS_Bijection DEF ExistsBijection
<1> QED
  BY <1>2, <1>3, <1>11 DEF A, B

\* _totals: the tasks' times, summed up.
LEMMA WallSumIs ==
  ASSUME NEW tasks, IsFiniteSet(DOMAIN tasks), \A t \in DOMAIN tasks : Seconds(Wall(tasks[t])) \in Nat
  PROVE  MapThenSumSet(LAMBDA t : Seconds(Wall(tasks[t])), DOMAIN tasks)
           = Cardinality(Units([t \in DOMAIN tasks |-> Seconds(Wall(tasks[t]))], DOMAIN tasks))
<1> DEFINE S == DOMAIN tasks
           f == [t \in S |-> Seconds(Wall(tasks[t]))]
           Body(g) == [s \in SUBSET S |-> IF s = {} THEN 0
                         ELSE LET x == CHOOSE x \in s : TRUE IN Seconds(Wall(tasks[x])) + g[s \ {x}]]
           level == CHOOSE g : g = Body(g)
<1>1. MapThenSumSet(LAMBDA t : Seconds(Wall(tasks[t])), DOMAIN tasks) = level[S]
  BY DEF MapThenSumSet, MapThenFoldSet
<1>2. \A g : Body(g) = Adding(g, f, S)
  <2> TAKE g
  <2>1. \A s \in SUBSET S : s # {} => (CHOOSE x \in s : TRUE) \in S
    OBVIOUS
  <2>2. \A s \in SUBSET S : s # {} => f[CHOOSE x \in s : TRUE] = Seconds(Wall(tasks[CHOOSE x \in s : TRUE]))
    BY <2>1
  <2> HIDE DEF f, S
  <2> QED
    BY <2>2 DEF Adding
<1>3. AreNaturals(f, S)
  BY DEF AreNaturals
<1> HIDE DEF f, S
<1>4. \E g : g = Adding(g, f, S)
  BY <1>3, SumExists DEF S
<1>5. level = Body(level)
  <2> HIDE DEF Body
  <2> QED
    BY <1>2, <1>4
<1>6. level = Adding(level, f, S)
  BY <1>2, <1>5
<1> HIDE DEF level
<1> QED
  BY <1>1, <1>3, <1>6, SumIs DEF f, S

\* The Gantt rows' durations, summed up.
LEMMA RowSumIs ==
  ASSUME NEW rows, NEW ids, IsFiniteSet(ids), \A id \in ids : rows[id].duration \in Nat
  PROVE  MapThenSumSet(LAMBDA id : rows[id].duration, ids)
           = Cardinality(Units([id \in ids |-> rows[id].duration], ids))
<1> DEFINE f == [id \in ids |-> rows[id].duration]
           Body(g) == [s \in SUBSET ids |-> IF s = {} THEN 0
                         ELSE LET x == CHOOSE x \in s : TRUE IN rows[x].duration + g[s \ {x}]]
           level == CHOOSE g : g = Body(g)
<1>1. MapThenSumSet(LAMBDA id : rows[id].duration, ids) = level[ids]
  BY DEF MapThenSumSet, MapThenFoldSet
<1>2. \A g : Body(g) = Adding(g, f, ids)
  <2> TAKE g
  <2>1. \A s \in SUBSET ids : s # {} => (CHOOSE x \in s : TRUE) \in ids
    OBVIOUS
  <2>2. \A s \in SUBSET ids : s # {} => f[CHOOSE x \in s : TRUE] = rows[CHOOSE x \in s : TRUE].duration
    BY <2>1
  <2> HIDE DEF f
  <2> QED
    BY <2>2 DEF Adding
<1>3. AreNaturals(f, ids)
  BY DEF AreNaturals
<1> HIDE DEF f
<1>4. \E g : g = Adding(g, f, ids)
  BY <1>3, SumExists
<1>5. level = Body(level)
  <2> HIDE DEF Body
  <2> QED
    BY <1>2, <1>4
<1>6. level = Adding(level, f, ids)
  BY <1>2, <1>5
<1> HIDE DEF level
<1> QED
  BY <1>1, <1>3, <1>6, SumIs DEF f

\* The times of one step in some trees, summed up.
LEMMA StepSumIs ==
  ASSUME NEW trees, NEW name, NEW S, IsFiniteSet(S), \A i \in S : trees[i][name].delta \in Nat
  PROVE  MapThenSumSet(LAMBDA i : trees[i][name].delta, S)
           = Cardinality(Units([i \in S |-> trees[i][name].delta], S))
<1> DEFINE f == [i \in S |-> trees[i][name].delta]
           Body(g) == [s \in SUBSET S |-> IF s = {} THEN 0
                         ELSE LET x == CHOOSE x \in s : TRUE IN trees[x][name].delta + g[s \ {x}]]
           level == CHOOSE g : g = Body(g)
<1>1. MapThenSumSet(LAMBDA i : trees[i][name].delta, S) = level[S]
  BY DEF MapThenSumSet, MapThenFoldSet
<1>2. \A g : Body(g) = Adding(g, f, S)
  <2> TAKE g
  <2>1. \A s \in SUBSET S : s # {} => (CHOOSE x \in s : TRUE) \in S
    OBVIOUS
  <2>2. \A s \in SUBSET S : s # {} => f[CHOOSE x \in s : TRUE] = trees[CHOOSE x \in s : TRUE][name].delta
    BY <2>1
  <2> HIDE DEF f
  <2> QED
    BY <2>2 DEF Adding
<1>3. AreNaturals(f, S)
  BY DEF AreNaturals
<1> HIDE DEF f
<1>4. \E g : g = Adding(g, f, S)
  BY <1>3, SumExists
<1>5. level = Body(level)
  <2> HIDE DEF Body
  <2> QED
    BY <1>2, <1>4
<1>6. level = Adding(level, f, S)
  BY <1>2, <1>5
<1> HIDE DEF level
<1> QED
  BY <1>1, <1>3, <1>6, SumIs DEF f

----------------------------------------------------------------------------
(* Least and greatest *)

\* A finite set of numbers has a least one and a greatest one.
LEMMA MinIs ==
  ASSUME NEW S \in SUBSET Int, IsFiniteSet(S), S # {}
  PROVE  Min(S) \in S /\ \A n \in S : Min(S) <= n
<1> DEFINE True == {s \in SUBSET S : s # {} => \E m \in s : \A n \in s : m <= n}
<1>1. {} \in True
  OBVIOUS
<1>2. ASSUME NEW s \in SUBSET S, s # {}, \A x \in s : s \ {x} \in True
      PROVE  s \in True
  <2>1. PICK x \in s : s \ {x} \in True
    BY <1>2
  <2>2. CASE s \ {x} = {}
    BY <2>2
  <2>3. CASE s \ {x} # {}
    <3>1. PICK m \in s \ {x} : \A n \in s \ {x} : m <= n
      BY <2>1, <2>3
    <3>2. m \in Int /\ x \in Int /\ s \subseteq Int
      OBVIOUS
    <3>3. CASE m <= x
      BY <3>1, <3>3
    <3>4. CASE x < m
      <4>1. \A n \in s : x <= n
        BY <3>1, <3>2, <3>4
      <4> QED
        BY <4>1
    <3> QED
      BY <3>2, <3>3, <3>4
  <2> QED
    BY <2>2, <2>3
<1>3. \A s \in SUBSET S : s \in True
  <2> HIDE DEF True
  <2> QED
    BY <1>1, <1>2, SubsetsUp
<1>4. \E m \in S : \A n \in S : m <= n
  BY <1>3
<1> QED
  BY <1>4 DEF Min

LEMMA MaxIs ==
  ASSUME NEW S \in SUBSET Int, IsFiniteSet(S), S # {}
  PROVE  Max(S) \in S /\ \A n \in S : Max(S) >= n
<1> DEFINE True == {s \in SUBSET S : s # {} => \E m \in s : \A n \in s : m >= n}
<1>1. {} \in True
  OBVIOUS
<1>2. ASSUME NEW s \in SUBSET S, s # {}, \A x \in s : s \ {x} \in True
      PROVE  s \in True
  <2>1. PICK x \in s : s \ {x} \in True
    BY <1>2
  <2>2. CASE s \ {x} = {}
    BY <2>2
  <2>3. CASE s \ {x} # {}
    <3>1. PICK m \in s \ {x} : \A n \in s \ {x} : m >= n
      BY <2>1, <2>3
    <3>2. m \in Int /\ x \in Int /\ s \subseteq Int
      OBVIOUS
    <3>3. CASE m >= x
      BY <3>1, <3>3
    <3>4. CASE x > m
      <4>1. \A n \in s : x >= n
        BY <3>1, <3>2, <3>4
      <4> QED
        BY <4>1
    <3> QED
      BY <3>2, <3>3, <3>4
  <2> QED
    BY <2>2, <2>3
<1>3. \A s \in SUBSET S : s \in True
  <2> HIDE DEF True
  <2> QED
    BY <1>1, <1>2, SubsetsUp
<1>4. \E m \in S : \A n \in S : m >= n
  BY <1>3
<1> QED
  BY <1>4 DEF Max

\* The image of a finite set is finite.
LEMMA ImageIsFinite ==
  ASSUME NEW f, IsFiniteSet(DOMAIN f), f = [x \in DOMAIN f |-> f[x]]
  PROVE  IsFiniteSet({f[x] : x \in DOMAIN f})
<1> DEFINE T == {f[x] : x \in DOMAIN f}
<1>1. f \in Surjection(DOMAIN f, T)
  BY DEF Surjection
<1> QED
  BY <1>1, FS_Surjection

----------------------------------------------------------------------------
(* What a document says of times *)

\* The stats of a task, as the document has them.
IsStats(stats) ==
  /\ IsFiniteSet(DOMAIN stats)
  /\ \A p \in DOMAIN stats : p \in Seq(Range(p)) /\ {stats[p].delta, stats[p].start} \subseteq Nat \cup {None}

\* A task, as the document has it.
IsTimed(task) ==
  /\ task.rpms \in Seq(Range(task.rpms))
  /\ {task.started, task.finished} \subseteq Nat \cup {None}
  /\ None \notin {task.started, task.finished} => task.started <= task.finished
  /\ IsStats(task.stats)

AreTimed(tasks) ==
  /\ Len(tasks) \in Nat /\ DOMAIN tasks = 1 .. Len(tasks) /\ 1 \in DOMAIN tasks
  /\ \A t \in DOMAIN tasks : IsTimed(tasks[t])

LEMMA DocumentsAreTimed ==
  ASSUME NEW d \in Documents
  PROVE  AreTimed(d.tasks)
<1>1. d.tasks \in Seq(Range(d.tasks)) /\ d.tasks # << >>
  BY DocumentsAssumption
<1>2. Len(d.tasks) \in Nat /\ DOMAIN d.tasks = 1 .. Len(d.tasks) /\ 1 \in DOMAIN d.tasks
  BY <1>1
<1>3. \A t \in DOMAIN d.tasks : IsTimed(d.tasks[t])
  BY TimesAssumption DEF IsTimed, IsStats
<1> QED
  BY <1>2, <1>3 DEF AreTimed

\* A prefix, entry by entry.
LEMMA PrefixIs ==
  ASSUME NEW U, NEW s \in Seq(U), NEW t \in Seq(U)
  PROVE  IsPrefix(s, t) <=> Len(s) <= Len(t) /\ \A i \in 1 .. Len(s) : s[i] = t[i]
<1>1. ASSUME Len(s) <= Len(t)
      PROVE  SubSeq(s, 1, Len(s)) = SubSeq(t, 1, Len(s)) <=> \A i \in 1 .. Len(s) : s[i] = t[i]
  <2>1. /\ SubSeq(s, 1, Len(s)) = [i \in 1 .. Len(s) |-> s[i]]
        /\ SubSeq(t, 1, Len(s)) = [i \in 1 .. Len(s) |-> t[i]]
    BY <1>1
  <2>2. ASSUME SubSeq(s, 1, Len(s)) = SubSeq(t, 1, Len(s)), NEW i \in 1 .. Len(s)
        PROVE  s[i] = t[i]
    <3>1. [j \in 1 .. Len(s) |-> s[j]][i] = s[i] /\ [j \in 1 .. Len(s) |-> t[j]][i] = t[i]
      OBVIOUS
    <3> QED
      BY <2>1, <2>2, <3>1
  <2>3. ASSUME \A i \in 1 .. Len(s) : s[i] = t[i]
        PROVE  SubSeq(s, 1, Len(s)) = SubSeq(t, 1, Len(s))
    BY <2>1, <2>3
  <2> QED
    BY <2>2, <2>3
<1> QED
  BY <1>1 DEF IsPrefix

\* Prefixes of one path: the shorter one is a prefix of the longer one, and as long as
\* it only if it is it.
LEMMA PrefixesNest ==
  ASSUME NEW p, NEW q, NEW r, p \in Seq(Range(p)), q \in Seq(Range(q)), r \in Seq(Range(r)),
         IsPrefix(q, p), IsPrefix(r, p), Len(q) <= Len(r)
  PROVE  IsPrefix(q, r) /\ (Len(q) = Len(r) => q = r)
<1> DEFINE U == Range(p) \cup Range(q) \cup Range(r)
<1>1. p \in Seq(U) /\ q \in Seq(U) /\ r \in Seq(U)
  <2>1. \A X : X \subseteq U => Seq(X) \subseteq Seq(U)
    OBVIOUS
  <2> HIDE DEF U
  <2>2. Range(p) \subseteq U /\ Range(q) \subseteq U /\ Range(r) \subseteq U
    BY DEF U
  <2> QED
    BY <2>1, <2>2
<1> HIDE DEF U
<1>2. /\ Len(q) <= Len(p) /\ \A i \in 1 .. Len(q) : q[i] = p[i]
      /\ Len(r) <= Len(p) /\ \A i \in 1 .. Len(r) : r[i] = p[i]
  BY <1>1, PrefixIs
<1>3. \A i \in 1 .. Len(q) : i \in 1 .. Len(r)
  BY <1>1
<1>4. \A i \in 1 .. Len(q) : q[i] = r[i]
  BY <1>2, <1>3
<1>5. IsPrefix(q, r)
  BY <1>1, <1>4, PrefixIs
<1>6. ASSUME Len(q) = Len(r)  PROVE q = r
  BY <1>1, <1>4, <1>6
<1> QED
  BY <1>5, <1>6

\* _iter_timing_steps: an entry that has a time is counted in one step.
LEMMA OneOutermost ==
  ASSUME NEW stats, IsStats(stats), NEW p \in DOMAIN stats, stats[p].delta # None
  PROVE  Cardinality({q \in TimingSteps(stats) : IsPrefix(q, p)}) = 1
<1> DEFINE Above == {q \in DOMAIN stats : stats[q].delta # None /\ IsPrefix(q, p)}
           Lengths == {n \in Nat : \E q \in Above : n = Len(q)}
<1>1. \A q \in DOMAIN stats : q \in Seq(Range(q)) /\ Len(q) \in Nat
  <2>1. \A q \in DOMAIN stats : q \in Seq(Range(q))
    BY DEF IsStats
  <2> QED
    BY <2>1
<1>2. p \in Above
  BY <1>1 DEF IsPrefix
<1>3. PICK q \in Above : \A r \in Above : Len(q) <= Len(r)
  <2>1. Lengths \in SUBSET Nat /\ Lengths # {}
    <3>1. Len(p) \in Lengths
      BY <1>1, <1>2
    <3> QED
      BY <3>1
  <2>2. PICK n \in Lengths : \A m \in Lengths : n <= m
    <3> HIDE DEF Lengths
    <3> QED
      BY <2>1, Least
  <2>3. PICK q \in Above : n = Len(q)
    OBVIOUS
  <2>4. \A r \in Above : Len(r) \in Lengths
    BY <1>1
  <2> QED
    BY <2>2, <2>3, <2>4
<1>4. \A r \in Above : r = q \/ IsStrictPrefix(q, r)
  <2> TAKE r \in Above
  <2>1. Len(q) <= Len(r) /\ p \in Seq(Range(p)) /\ q \in Seq(Range(q)) /\ r \in Seq(Range(r))
    BY <1>1, <1>3
  <2>2. IsPrefix(q, r)
    BY <2>1, PrefixesNest
  <2> QED
    BY <2>2 DEF IsStrictPrefix
<1>5. q \in TimingSteps(stats)
  <2> SUFFICES ASSUME NEW r \in DOMAIN stats, IsStrictPrefix(r, q), stats[r].delta # None
               PROVE  FALSE
    BY DEF TimingSteps
  <2>1. p \in Seq(Range(p)) /\ q \in Seq(Range(q)) /\ r \in Seq(Range(r))
    BY <1>1
  <2>2. IsPrefix(r, q) /\ r # q /\ IsPrefix(q, p)
    BY DEF IsStrictPrefix
  <2>3. IsPrefix(r, p)
    <3> DEFINE U == Range(p) \cup Range(q) \cup Range(r)
    <3>1. \A X : X \subseteq U => Seq(X) \subseteq Seq(U)
      OBVIOUS
    <3>2. Range(p) \subseteq U /\ Range(q) \subseteq U /\ Range(r) \subseteq U
      OBVIOUS
    <3> HIDE DEF U
    <3>3. p \in Seq(U) /\ q \in Seq(U) /\ r \in Seq(U)
      BY <2>1, <3>1, <3>2
    <3>4. /\ Len(r) <= Len(q) /\ \A i \in 1 .. Len(r) : r[i] = q[i]
          /\ Len(q) <= Len(p) /\ \A i \in 1 .. Len(q) : q[i] = p[i]
      BY <2>2, <3>3, PrefixIs
    <3>5. Len(r) <= Len(p) /\ \A i \in 1 .. Len(r) : i \in 1 .. Len(q)
      BY <3>3, <3>4
    <3> QED
      BY <3>3, <3>4, <3>5, PrefixIs
  <2>4. r \in Above
    BY <2>3
  <2>5. Len(q) <= Len(r)
    BY <1>3, <2>4
  <2>6. Len(r) <= Len(q)
    BY <2>2 DEF IsPrefix
  <2>7. Len(r) = Len(q) /\ IsPrefix(q, p) /\ IsPrefix(r, p)
    BY <1>1, <2>2, <2>3, <2>5, <2>6
  <2> QED
    BY <2>1, <2>2, <2>7, PrefixesNest
<1>6. ASSUME NEW r \in TimingSteps(stats), IsPrefix(r, p)  PROVE r = q
  <2>1. r \in Above /\ \A x \in DOMAIN stats : IsStrictPrefix(x, r) => stats[x].delta = None
    BY <1>6 DEF TimingSteps
  <2> QED
    BY <1>4, <2>1
<1>7. {r \in TimingSteps(stats) : IsPrefix(r, p)} = {q}
  BY <1>5, <1>6
<1> QED
  BY <1>7, FS_Singleton

----------------------------------------------------------------------------
(* The timeline and its rows *)

\* A row is of the task itself, of a step of it, or has no start of its own.
LEMMA TimelineIdIs ==
  ASSUME NEW t, NEW task, NEW id \in TimelineIds(t, task)
  PROVE  \/ id = <<t>> /\ Len(id) = 1
         \/ Len(id) = 3 /\ id[2] = "step" /\ \E p \in TimingSteps(task.stats) : id = <<t, "step", p>>
         \/ id[1] = t /\ Len(id) \in {2, 3} /\ ~(Len(id) = 3 /\ id[2] = "step")
<1> DEFINE totals == StepTotals(task.tests)
           groups == {g \in {"tests", "artifacts"} : \/ g = "tests" /\ DOMAIN totals # {}
                                                     \/ g = "artifacts" /\ Produced(task) > 0}
<1>1. \/ id = <<t>>
      \/ \E p \in TimingSteps(task.stats) : id = <<t, "step", p>>
      \/ \E g \in groups : id = <<t, g>>
      \/ \E p \in DOMAIN totals : id = <<t, "tests", p>>
  BY DEF TimelineIds
<1> HIDE DEF totals, groups
<1>2. CASE id = <<t>>
  BY <1>2
<1>3. CASE \E p \in TimingSteps(task.stats) : id = <<t, "step", p>>
  BY <1>3
<1>4. CASE \E g \in groups : id = <<t, g>>
  BY <1>4
<1>5. CASE \E p \in DOMAIN totals : id = <<t, "tests", p>>
  BY <1>5
<1> QED
  BY <1>1, <1>2, <1>3, <1>4, <1>5

\* The row of a task and those of its steps.
LEMMA TaskRow ==
  ASSUME NEW tasks, NEW t \in DOMAIN tasks
  PROVE  <<t>> \in DOMAIN Timeline(tasks) /\ Timeline(tasks)[<<t>>] = Item(tasks[t].started, Wall(tasks[t]))
<1>1. PICK id : id = <<t>>
  OBVIOUS
<1>2. id[1] = t /\ Len(id) = 1
  BY <1>1
<1>3. id \in TimelineIds(t, tasks[t])
  BY <1>1 DEF TimelineIds
<1>4. id \in DOMAIN Timeline(tasks) /\ Timeline(tasks)[id] = TaskTimelineItem(tasks[id[1]], id)
  BY <1>3 DEF Timeline
<1>5. TaskTimelineItem(tasks[t], id) = Item(tasks[t].started, Wall(tasks[t]))
  BY <1>2 DEF TaskTimelineItem
<1> QED
  BY <1>1, <1>2, <1>4, <1>5

LEMMA StepRow ==
  ASSUME NEW tasks, NEW t \in DOMAIN tasks, NEW p \in TimingSteps(tasks[t].stats)
  PROVE  /\ <<t, "step", p>> \in DOMAIN Timeline(tasks)
         /\ Timeline(tasks)[<<t, "step", p>>] = Item(tasks[t].stats[p].start, tasks[t].stats[p].delta)
<1>1. PICK id : id = <<t, "step", p>>
  OBVIOUS
<1>2. id[1] = t /\ Len(id) = 3 /\ id[2] = "step" /\ id[3] = p
  BY <1>1
<1>3. id \in TimelineIds(t, tasks[t])
  BY <1>1 DEF TimelineIds
<1>4. id \in DOMAIN Timeline(tasks) /\ Timeline(tasks)[id] = TaskTimelineItem(tasks[id[1]], id)
  BY <1>3 DEF Timeline
<1>5. TaskTimelineItem(tasks[t], id) = Item(tasks[t].stats[id[3]].start, tasks[t].stats[id[3]].delta)
  BY <1>2 DEF TaskTimelineItem
<1> QED
  BY <1>1, <1>2, <1>4, <1>5

\* Every row is one of these, or has no start.
LEMMA TimelineRowIs ==
  ASSUME NEW tasks, NEW id \in DOMAIN Timeline(tasks)
  PROVE  \E t \in DOMAIN tasks :
           \/ id = <<t>>
           \/ \E p \in TimingSteps(tasks[t].stats) : id = <<t, "step", p>>
           \/ Timeline(tasks)[id].started = None /\ Len(id) # 1 /\ ~(Len(id) = 3 /\ id[2] = "step")
<1>1. PICK t \in DOMAIN tasks : id \in TimelineIds(t, tasks[t])
  BY DEF Timeline
<1>2. Timeline(tasks)[id] = TaskTimelineItem(tasks[id[1]], id)
  BY DEF Timeline
<1>3. CASE id[1] = t /\ Len(id) \in {2, 3} /\ ~(Len(id) = 3 /\ id[2] = "step")
  <2>1. TaskTimelineItem(tasks[t], id).started = None
    BY <1>3 DEF TaskTimelineItem, Item
  <2> QED
    BY <1>2, <1>3, <2>1
<1> QED
  BY <1>1, <1>3, TimelineIdIs

\* The steps of a task are among its stats.
LEMMA StepsAre ==
  ASSUME NEW stats, IsStats(stats), NEW p \in TimingSteps(stats)
  PROVE  p \in DOMAIN stats /\ stats[p].delta \in Nat /\ stats[p].start \in Nat \cup {None}
  BY DEF IsStats, TimingSteps

LEMMA WallIs ==
  ASSUME NEW task, IsTimed(task)
  PROVE  Seconds(Wall(task)) \in Nat
<1>1. CASE None \in {task.started, task.finished}
  BY <1>1 DEF Wall, Seconds
<1>2. CASE None \notin {task.started, task.finished}
  <2>1. task.started \in Nat /\ task.finished \in Nat /\ task.started <= task.finished
    BY <1>2 DEF IsTimed
  <2>2. task.finished - task.started \in Nat
    BY <2>1
  <2>3. Wall(task) = task.finished - task.started
    BY <1>2 DEF Wall
  <2> QED
    BY <2>2, <2>3, NamesAssumption DEF Seconds
<1> QED
  BY <1>1, <1>2

\* A duration that is not negative is shown as it is.
LEMMA DurationIs ==
  ASSUME NEW items, NEW id \in DOMAIN items, Seconds(items[id].duration) \in Nat
  PROVE  id \in DOMAIN GanttRows(items) /\ GanttRows(items)[id].duration = Seconds(items[id].duration)
<1>1. PICK n \in Nat : n = Seconds(items[id].duration)
  OBVIOUS
<1>2. Max({0, n}) = n
  BY DEF Max
<1>3. id \in DOMAIN GanttRows(items) /\ GanttRows(items)[id].duration = Max({0, Seconds(items[id].duration)})
  BY DEF GanttRows
<1> QED
  BY <1>1, <1>2, <1>3

LEMMA TaskDuration ==
  ASSUME NEW tasks, AreTimed(tasks), NEW t \in DOMAIN tasks
  PROVE  /\ <<t>> \in DOMAIN GanttRows(Timeline(tasks))
         /\ GanttRows(Timeline(tasks))[<<t>>].duration = Seconds(Wall(tasks[t]))
<1>1. Seconds(Wall(tasks[t])) \in Nat
  BY WallIs DEF AreTimed
<1>2. Timeline(tasks)[<<t>>] = Item(tasks[t].started, Wall(tasks[t])) /\ <<t>> \in DOMAIN Timeline(tasks)
  BY TaskRow
<1>3. Timeline(tasks)[<<t>>].duration = Wall(tasks[t])
  BY <1>2 DEF Item
<1> QED
  BY <1>1, <1>2, <1>3, DurationIs

LEMMA StepDuration ==
  ASSUME NEW tasks, AreTimed(tasks), NEW t \in DOMAIN tasks, NEW p \in TimingSteps(tasks[t].stats)
  PROVE  /\ <<t, "step", p>> \in DOMAIN GanttRows(Timeline(tasks))
         /\ GanttRows(Timeline(tasks))[<<t, "step", p>>].duration = tasks[t].stats[p].delta
<1>1. tasks[t].stats[p].delta \in Nat
  BY StepsAre DEF AreTimed, IsTimed
<1>2. Seconds(tasks[t].stats[p].delta) = tasks[t].stats[p].delta
  BY <1>1, NamesAssumption DEF Seconds
<1>3. /\ Timeline(tasks)[<<t, "step", p>>] = Item(tasks[t].stats[p].start, tasks[t].stats[p].delta)
      /\ <<t, "step", p>> \in DOMAIN Timeline(tasks)
  BY StepRow
<1>4. Timeline(tasks)[<<t, "step", p>>].duration = tasks[t].stats[p].delta
  BY <1>3 DEF Item
<1> QED
  BY <1>1, <1>2, <1>3, <1>4, DurationIs

----------------------------------------------------------------------------
(* The totals are those of the rows *)

LEMMA StepTotalIs ==
  ASSUME NEW tasks, AreTimed(tasks), NEW name \in DOMAIN Totals(tasks).steps
  PROVE  LET rows == GanttRows(Timeline(tasks))
         IN  Totals(tasks).steps[name] = MapThenSumSet(LAMBDA id : rows[id].duration,
               {id \in DOMAIN rows : Len(id) = 3 /\ id[2] = "step" /\ id[3] = name})
<1> DEFINE rows  == GanttRows(Timeline(tasks))
           trees == [t \in DOMAIN tasks |-> tasks[t].stats]
           S     == {t \in DOMAIN tasks : name \in TimingSteps(tasks[t].stats)}
           ids   == {id \in DOMAIN rows : Len(id) = 3 /\ id[2] = "step" /\ id[3] = name}
           f     == [t \in S |-> trees[t][name].delta]
           h     == [id \in ids |-> rows[id].duration]
           b     == [t \in S |-> <<t, "step", name>>]
<1>1. Totals(tasks).steps[name] = MapThenSumSet(LAMBDA t : trees[t][name].delta, S)
  <2>1. DOMAIN trees = DOMAIN tasks /\ \A t \in DOMAIN tasks : trees[t] = tasks[t].stats
    OBVIOUS
  <2>2. Totals(tasks).steps = StepTotals(trees)
    BY DEF Totals
  <2>3. name \in DOMAIN StepTotals(trees)
    BY <2>2
  <2>4. {i \in DOMAIN trees : name \in TimingSteps(trees[i])} = S
    BY <2>1
  <2>5. StepTotals(trees)[name] =
          MapThenSumSet(LAMBDA i : trees[i][name].delta, {i \in DOMAIN trees : name \in TimingSteps(trees[i])})
    <3> HIDE DEF trees
    <3> QED
      BY <2>3 DEF StepTotals
  <2> HIDE DEF trees, S
  <2> QED
    BY <2>2, <2>4, <2>5
<1>2. IsFiniteSet(S)
  <2>1. IsFiniteSet(DOMAIN tasks)
    BY FS_Interval DEF AreTimed
  <2> QED
    BY <2>1, FS_Subset
<1>3. \A t \in S : trees[t][name].delta = tasks[t].stats[name].delta /\ tasks[t].stats[name].delta \in Nat
  BY StepsAre DEF AreTimed, IsTimed
<1>4. \A t \in S : <<t, "step", name>> \in ids /\ rows[<<t, "step", name>>].duration = tasks[t].stats[name].delta
  <2> TAKE t \in S
  <2>1. PICK id : id = <<t, "step", name>>
    OBVIOUS
  <2>2. Len(id) = 3 /\ id[2] = "step" /\ id[3] = name
    BY <2>1
  <2>3. id \in DOMAIN rows /\ rows[id].duration = tasks[t].stats[name].delta
    BY <2>1, StepDuration
  <2> HIDE DEF rows
  <2> QED
    BY <2>1, <2>2, <2>3
<1>5. \A id \in ids : \E t \in S : id = <<t, "step", name>>
  <2> TAKE id \in ids
  <2>1. id \in DOMAIN Timeline(tasks) /\ Len(id) = 3 /\ id[2] = "step" /\ id[3] = name
    BY DEF GanttRows
  <2>2. PICK t \in DOMAIN tasks :
          \/ id = <<t>>
          \/ \E p \in TimingSteps(tasks[t].stats) : id = <<t, "step", p>>
          \/ Timeline(tasks)[id].started = None /\ Len(id) # 1 /\ ~(Len(id) = 3 /\ id[2] = "step")
    BY <2>1, TimelineRowIs
  <2>3. id # <<t>>
    BY <2>1
  <2>4. PICK p \in TimingSteps(tasks[t].stats) : id = <<t, "step", p>>
    BY <2>1, <2>2, <2>3
  <2>5. p = name
    BY <2>1, <2>4
  <2> QED
    BY <2>4, <2>5
<1> HIDE DEF trees, S, ids, rows
<1>6. b \in Bijection(S, ids)
  <2>1. b \in [S -> ids]
    BY <1>4
  <2>2. \A t, u \in S : b[t] = b[u] => t = u
    <3> TAKE t, u \in S
    <3> HAVE b[t] = b[u]
    <3>1. <<t, "step", name>> = <<u, "step", name>>
      OBVIOUS
    <3> QED
      BY <3>1
  <2>3. \A id \in ids : \E t \in S : b[t] = id
    BY <1>5
  <2> HIDE DEF b
  <2> QED
    BY <2>1, <2>2, <2>3 DEF Bijection, Injection, Surjection, IsInjective
<1>7. AreNaturals(f, S)
  BY <1>3 DEF AreNaturals
<1>8. \A t \in S : h[b[t]] = f[t]
  BY <1>3, <1>4
<1> HIDE DEF b
<1>9. IsFiniteSet(ids) /\ AreNaturals(h, ids) /\ Cardinality(Units(h, ids)) = Cardinality(Units(f, S))
  <2> HIDE DEF f, h
  <2> QED
    BY <1>2, <1>6, <1>7, <1>8, SumRenamed
<1>10. \A id \in ids : rows[id].duration \in Nat
  BY <1>9 DEF AreNaturals
<1>11. MapThenSumSet(LAMBDA id : rows[id].duration, ids) = Cardinality(Units(h, ids))
  BY <1>9, <1>10, RowSumIs
<1>12. MapThenSumSet(LAMBDA t : trees[t][name].delta, S) = Cardinality(Units(f, S))
  BY <1>2, <1>3, StepSumIs
<1> HIDE DEF f, h
<1>13. Totals(tasks).steps[name] = MapThenSumSet(LAMBDA id : rows[id].duration, ids)
  BY <1>1, <1>9, <1>11, <1>12
<1> QED
  BY <1>13 DEF rows, ids

LEMMA AggregateIs ==
  ASSUME NEW tasks, AreTimed(tasks)
  PROVE  LET rows == GanttRows(Timeline(tasks))
         IN  Totals(tasks).aggregate = MapThenSumSet(LAMBDA id : rows[id].duration, {<<t>> : t \in DOMAIN tasks})
<1> DEFINE rows == GanttRows(Timeline(tasks))
           S    == DOMAIN tasks
           ids  == {<<t>> : t \in S}
           f    == [t \in S |-> Seconds(Wall(tasks[t]))]
           h    == [id \in ids |-> rows[id].duration]
           b    == [t \in S |-> <<t>>]
<1>1. IsFiniteSet(S)
  BY FS_Interval DEF AreTimed
<1>2. \A t \in S : Seconds(Wall(tasks[t])) \in Nat
  BY WallIs DEF AreTimed
<1>3. \A t \in S : rows[<<t>>].duration = Seconds(Wall(tasks[t]))
  BY TaskDuration
<1> HIDE DEF rows, S
<1>4. b \in Bijection(S, ids)
  <2>1. \A t, u \in S : b[t] = b[u] => t = u
    <3> TAKE t, u \in S
    <3> HAVE b[t] = b[u]
    <3>1. <<t>> = <<u>>
      OBVIOUS
    <3> QED
      BY <3>1
  <2>2. b \in [S -> ids] /\ \A id \in ids : \E t \in S : b[t] = id
    OBVIOUS
  <2> HIDE DEF b, ids
  <2> QED
    BY <2>1, <2>2 DEF Bijection, Injection, Surjection, IsInjective
<1>5. AreNaturals(f, S)
  BY <1>2 DEF AreNaturals
<1>6. \A t \in S : h[b[t]] = f[t]
  BY <1>3
<1> HIDE DEF b, ids
<1>7. IsFiniteSet(ids) /\ AreNaturals(h, ids) /\ Cardinality(Units(h, ids)) = Cardinality(Units(f, S))
  <2> HIDE DEF f, h
  <2> QED
    BY <1>1, <1>4, <1>5, <1>6, SumRenamed
<1>8. \A id \in ids : rows[id].duration \in Nat
  BY <1>7 DEF AreNaturals
<1>9. MapThenSumSet(LAMBDA id : rows[id].duration, ids) = Cardinality(Units(h, ids))
  BY <1>7, <1>8, RowSumIs
<1>10. MapThenSumSet(LAMBDA t : Seconds(Wall(tasks[t])), DOMAIN tasks) = Cardinality(Units(f, S))
  BY <1>1, <1>2, WallSumIs DEF S
<1>11. Totals(tasks).aggregate = MapThenSumSet(LAMBDA t : Seconds(Wall(tasks[t])), DOMAIN tasks)
  BY DEF Totals
<1> HIDE DEF f, h
<1>12. Totals(tasks).aggregate = MapThenSumSet(LAMBDA id : rows[id].duration, ids)
  BY <1>7, <1>9, <1>10, <1>11
<1> QED
  BY <1>12 DEF rows, ids, S

\* The critical path is as long as the row of some task.
LEMMA CriticalIs ==
  ASSUME NEW tasks, AreTimed(tasks)
  PROVE  \E t \in DOMAIN tasks : Totals(tasks).critical = GanttRows(Timeline(tasks))[<<t>>].duration
<1> DEFINE f == [t \in DOMAIN tasks |-> Seconds(Wall(tasks[t]))]
           S == {f[t] : t \in DOMAIN f}
           V == {0} \cup S
<1>1. \A t \in DOMAIN tasks : f[t] \in Nat /\ f[t] = GanttRows(Timeline(tasks))[<<t>>].duration
  BY WallIs, TaskDuration DEF AreTimed
<1>2. IsFiniteSet(S)
  <2>1. IsFiniteSet(DOMAIN tasks)
    BY FS_Interval DEF AreTimed
  <2>2. DOMAIN f = DOMAIN tasks /\ f = [t \in DOMAIN f |-> f[t]]
    OBVIOUS
  <2> HIDE DEF f
  <2> QED
    BY <2>1, <2>2, ImageIsFinite
<1>3. Totals(tasks).critical = Max(V)
  <2>1. S = {Seconds(Wall(tasks[t])) : t \in DOMAIN tasks}
    OBVIOUS
  <2> HIDE DEF S
  <2> QED
    BY <2>1 DEF Totals
<1>4. 1 \in DOMAIN tasks
  BY DEF AreTimed
<1>d. DOMAIN f = DOMAIN tasks
  OBVIOUS
<1> HIDE DEF f
<1>5. Max(V) \in V /\ \A n \in V : Max(V) >= n
  <2>0. ASSUME NEW v \in S  PROVE v \in Int
    <3>1. PICK t \in DOMAIN tasks : v = f[t]
      BY <1>d
    <3>2. f[t] \in Nat
      BY <1>1
    <3> QED
      BY <3>1, <3>2
  <2>1. V \in SUBSET Int /\ V # {}
    <3> HIDE DEF S
    <3> QED
      BY <2>0
  <2>2. IsFiniteSet(V)
    <3>1. IsFiniteSet({0})
      BY FS_Singleton
    <3> HIDE DEF S
    <3> QED
      BY <1>2, <3>1, FS_Union
  <2> HIDE DEF V
  <2> QED
    BY <2>1, <2>2, MaxIs
<1>6. PICK max : max = Max(V)
  OBVIOUS
<1>7. max \in V /\ \A n \in V : max >= n
  BY <1>5, <1>6
<1>8. \E t \in DOMAIN tasks : max = f[t]
  <2>1. CASE max = 0
    <3>1. f[1] \in V /\ f[1] \in Nat
      BY <1>1, <1>4, <1>d
    <3>2. f[1] = 0
      BY <1>7, <2>1, <3>1
    <3> QED
      BY <1>4, <2>1, <3>2
  <2>2. CASE max \in S
    BY <1>d, <2>2
  <2> QED
    BY <1>7, <2>1, <2>2
<1> QED
  BY <1>1, <1>3, <1>6, <1>8

----------------------------------------------------------------------------
(* Where the rows lie *)

\* The rows that have a start of their own.
Dated(items) == {id \in DOMAIN items : items[id].started # None}

\* They are sequences, and start at a number.
LEMMA DatedAre ==
  ASSUME NEW tasks, AreTimed(tasks), NEW id \in Dated(Timeline(tasks))
  PROVE  /\ id \in {<<t>> : t \in DOMAIN tasks}
                     \cup UNION {{<<t, "step", p>> : p \in DOMAIN tasks[t].stats} : t \in DOMAIN tasks}
         /\ Timeline(tasks)[id].started \in Nat
         /\ Len(id) \in DOMAIN id /\ DOMAIN id = 1 .. Len(id) /\ SubSeq(id, 1, Len(id)) = id
<1>1. id \in DOMAIN Timeline(tasks) /\ Timeline(tasks)[id].started # None
  BY DEF Dated
<1>2. PICK t \in DOMAIN tasks : id = <<t>> \/ \E p \in TimingSteps(tasks[t].stats) : id = <<t, "step", p>>
  BY <1>1, TimelineRowIs
<1>3. IsTimed(tasks[t])
  BY DEF AreTimed
<1>4. CASE id = <<t>>
  <2>1. Timeline(tasks)[id] = Item(tasks[t].started, Wall(tasks[t]))
    BY <1>4, TaskRow
  <2>2. Timeline(tasks)[id].started = tasks[t].started
    BY <2>1 DEF Item
  <2>3. tasks[t].started \in Nat
    BY <1>1, <1>3, <2>2 DEF IsTimed
  <2>4. Len(id) \in DOMAIN id /\ DOMAIN id = 1 .. Len(id) /\ SubSeq(id, 1, Len(id)) = id
    <3>1. id \in Seq({t}) /\ Len(id) = 1
      BY <1>4
    <3>2. SubSeq(id, 1, Len(id)) = [i \in 1 .. 1 |-> id[i]]
      BY <3>1
    <3>3. id = [i \in 1 .. 1 |-> id[i]]
      BY <3>1
    <3> QED
      BY <3>1, <3>2, <3>3
  <2> QED
    BY <1>4, <2>2, <2>3, <2>4
<1>5. CASE \E p \in TimingSteps(tasks[t].stats) : id = <<t, "step", p>>
  <2>1. PICK p \in TimingSteps(tasks[t].stats) : id = <<t, "step", p>>
    BY <1>5
  <2>2. Timeline(tasks)[id] = Item(tasks[t].stats[p].start, tasks[t].stats[p].delta)
    BY <2>1, StepRow
  <2>3. Timeline(tasks)[id].started = tasks[t].stats[p].start
    BY <2>2 DEF Item
  <2>4. p \in DOMAIN tasks[t].stats /\ tasks[t].stats[p].start \in Nat
    BY <1>1, <1>3, <2>3, StepsAre DEF IsTimed
  <2>5. Len(id) \in DOMAIN id /\ DOMAIN id = 1 .. Len(id) /\ SubSeq(id, 1, Len(id)) = id
    <3>1. id \in Seq({t, "step", p}) /\ Len(id) = 3
      BY <2>1
    <3>2. SubSeq(id, 1, Len(id)) = [i \in 1 .. 3 |-> id[i]]
      BY <3>1
    <3>3. id = [i \in 1 .. 3 |-> id[i]]
      BY <3>1
    <3> QED
      BY <3>1, <3>2, <3>3
  <2> QED
    BY <2>1, <2>3, <2>4, <2>5
<1> QED
  BY <1>2, <1>4, <1>5

\* There are finitely many of them.
LEMMA DatedAreFew ==
  ASSUME NEW tasks, AreTimed(tasks)
  PROVE  IsFiniteSet(Dated(Timeline(tasks)))
<1> DEFINE own   == [t \in DOMAIN tasks |-> <<t>>]
           steps_of == [t \in DOMAIN tasks |-> {<<t, "step", p>> : p \in DOMAIN tasks[t].stats}]
           A     == {own[t] : t \in DOMAIN own}
           B     == {steps_of[t] : t \in DOMAIN steps_of}
<1>1. IsFiniteSet(DOMAIN tasks)
  BY FS_Interval DEF AreTimed
<1>2. IsFiniteSet(A) /\ IsFiniteSet(B)
  <2>1. /\ DOMAIN own = DOMAIN tasks /\ own = [t \in DOMAIN own |-> own[t]]
        /\ DOMAIN steps_of = DOMAIN tasks /\ steps_of = [t \in DOMAIN steps_of |-> steps_of[t]]
    OBVIOUS
  <2> HIDE DEF own, steps_of
  <2> QED
    BY <1>1, <2>1, ImageIsFinite
<1>3. \A X \in B : IsFiniteSet(X)
  <2> SUFFICES ASSUME NEW t \in DOMAIN tasks
               PROVE  IsFiniteSet({<<t, "step", p>> : p \in DOMAIN tasks[t].stats})
    OBVIOUS
  <2> DEFINE f == [p \in DOMAIN tasks[t].stats |-> <<t, "step", p>>]
  <2>1. IsFiniteSet(DOMAIN tasks[t].stats)
    BY DEF AreTimed, IsTimed, IsStats
  <2>2. DOMAIN f = DOMAIN tasks[t].stats /\ f = [p \in DOMAIN f |-> f[p]]
    OBVIOUS
  <2>3. {f[p] : p \in DOMAIN f} = {<<t, "step", p>> : p \in DOMAIN tasks[t].stats}
    OBVIOUS
  <2>4. IsFiniteSet({f[p] : p \in DOMAIN f})
    <3> HIDE DEF f
    <3> QED
      BY <2>1, <2>2, ImageIsFinite
  <2> QED
    BY <2>3, <2>4
<1>4. A = {<<t>> : t \in DOMAIN tasks}
      /\ B = {{<<t, "step", p>> : p \in DOMAIN tasks[t].stats} : t \in DOMAIN tasks}
  OBVIOUS
<1> HIDE DEF A, B
<1>5. IsFiniteSet(A \cup UNION B)
  BY <1>2, <1>3, FS_UNION, FS_Union
<1>6. Dated(Timeline(tasks)) \subseteq A \cup UNION B
  BY <1>4, DatedAre
<1> QED
  BY <1>5, <1>6, FS_Subset

\* timeline_gantt_rows: each of them lies as far from the first as it started after it.
LEMMA OffsetsAre ==
  ASSUME NEW tasks, AreTimed(tasks), Dated(Timeline(tasks)) # {}
  PROVE  LET items == Timeline(tasks)
         IN  \E first \in Dated(items) :
               \A id \in Dated(items) : GanttRows(items)[id].offset = items[id].started - items[first].started
<1> DEFINE items == Timeline(tasks)
           dated == Dated(items)
           f     == [id \in dated |-> items[id].started]
           S     == {f[id] : id \in DOMAIN f}
<1>1. \A id \in dated : f[id] \in Nat /\ f[id] = items[id].started
  BY DatedAre
<1>2. IsFiniteSet(S) /\ S \in SUBSET Int /\ S # {}
  <2>1. DOMAIN f = dated /\ f = [id \in DOMAIN f |-> f[id]]
    OBVIOUS
  <2>2. IsFiniteSet(dated)
    BY DatedAreFew
  <2> HIDE DEF f, dated
  <2> QED
    BY <1>1, <2>1, <2>2, ImageIsFinite DEF dated
<1>3. S = {items[id].started : id \in dated}
  OBVIOUS
<1>4. Min(S) \in S
  <2> HIDE DEF S
  <2> QED
    BY <1>2, MinIs
<1>5. PICK first \in dated : Min(S) = items[first].started
  BY <1>4
<1>6. ASSUME NEW id \in dated
      PROVE  GanttRows(items)[id].offset = items[id].started - items[first].started
  <2> DEFINE own == {n \in DOMAIN id : SubSeq(id, 1, n) \in dated}
  <2>1. Len(id) \in own /\ DOMAIN id = 1 .. Len(id) /\ Len(id) \in DOMAIN id /\ SubSeq(id, 1, Len(id)) = id
    BY DatedAre
  <2>2. Max(own) = Len(id)
    <3>1. own \subseteq 1 .. Len(id) /\ Len(id) \in own
      BY <2>1
    <3> HIDE DEF own
    <3>2. Len(id) \in 1 .. Len(id)
      BY <2>1
    <3>3. \A n \in own : Len(id) >= n
      BY <3>1
    <3>4. \A m \in own : (\A n \in own : m >= n) => m = Len(id)
      <4> TAKE m \in own
      <4> HAVE \A n \in own : m >= n
      <4>1. m \in 1 .. Len(id) /\ m >= Len(id) /\ Len(id) >= m
        BY <3>1, <3>3
      <4> QED
        BY <3>2, <4>1
    <3> QED
      BY <3>1, <3>3, <3>4 DEF Max
  <2>3. id \in DOMAIN items /\ dated = {x \in DOMAIN items : items[x].started # None}
    BY DEF Dated
  <2>4. GanttRows(items)[id].offset = IF own = {} THEN 0 ELSE items[SubSeq(id, 1, Max(own))].started - Min(S)
    <3> HIDE DEF items, S, dated
    <3> QED
      BY <1>3, <2>3 DEF GanttRows
  <2> HIDE DEF own, items, S
  <2>5. GanttRows(items)[id].offset = items[id].started - Min(S)
    BY <2>1, <2>2, <2>4
  <2> QED
    BY <1>5, <2>5
<1> QED
  BY <1>5, <1>6

----------------------------------------------------------------------------
(* Two builds compared *)

\* _compare_build_timings: what one build has more the other has less.
LEMMA CompareIsMutual ==
  ASSUME NEW left, NEW right
  PROVE  LET changes == CompareBuildTimings(left, right)
         IN  CompareBuildTimings(right, left)
               = [removed |-> changes.added, added |-> changes.removed, changed |-> changes.changed]
<1> DEFINE l == LastOfArch(left)
           r == LastOfArch(right)
<1> HIDE DEF l, r
<1>1. /\ CompareBuildTimings(left, right) =
           [ removed |-> DOMAIN l \ DOMAIN r, added |-> DOMAIN r \ DOMAIN l,
             changed |-> {a \in DOMAIN l \cap DOMAIN r : TaskTimingState(l[a]) # TaskTimingState(r[a])} ]
      /\ CompareBuildTimings(right, left) =
           [ removed |-> DOMAIN r \ DOMAIN l, added |-> DOMAIN l \ DOMAIN r,
             changed |-> {a \in DOMAIN r \cap DOMAIN l : TaskTimingState(r[a]) # TaskTimingState(l[a])} ]
  BY DEF CompareBuildTimings, l, r
<1>2. {a \in DOMAIN l \cap DOMAIN r : TaskTimingState(l[a]) # TaskTimingState(r[a])}
        = {a \in DOMAIN r \cap DOMAIN l : TaskTimingState(r[a]) # TaskTimingState(l[a])}
  OBVIOUS
<1> QED
  BY <1>1, <1>2

\* A build with one task for each arch.
OneForEachArch(tasks) == \A t, u \in DOMAIN tasks : tasks[t].arch = tasks[u].arch => t = u

\* Each of its tasks stands for its arch.
LEMMA LastIsOnly ==
  ASSUME NEW tasks, AreTimed(tasks), OneForEachArch(tasks)
  PROVE  /\ DOMAIN LastOfArch(tasks) = {tasks[t].arch : t \in DOMAIN tasks}
         /\ \A t \in DOMAIN tasks : LastOfArch(tasks)[tasks[t].arch] = tasks[t]
<1>1. DOMAIN LastOfArch(tasks) = {tasks[t].arch : t \in DOMAIN tasks}
  BY DEF LastOfArch
<1>2. ASSUME NEW t \in DOMAIN tasks
      PROVE  LastOfArch(tasks)[tasks[t].arch] = tasks[t]
  <2>1. {u \in DOMAIN tasks : tasks[u].arch = tasks[t].arch} = {t}
    BY DEF OneForEachArch
  <2>2. Max({t}) = t
    <3>1. t \in Nat
      BY DEF AreTimed
    <3> QED
      BY <3>1 DEF Max
  <2>3. LastOfArch(tasks)[tasks[t].arch] = tasks[Max({u \in DOMAIN tasks : tasks[u].arch = tasks[t].arch})]
    BY DEF LastOfArch
  <2> QED
    BY <2>1, <2>2, <2>3
<1> QED
  BY <1>1, <1>2

TimesOf(tasks) == {<<tasks[t].arch, TaskTimingState(tasks[t])>> : t \in DOMAIN tasks}

\* Two of these that compare as equal took as long, arch by arch.
LEMMA EqualTookAsLong ==
  ASSUME NEW left, NEW right, AreTimed(left), AreTimed(right), OneForEachArch(left), OneForEachArch(right),
         Range(CompareBuildTimings(left, right)) = {{}}
  PROVE  TimesOf(left) = TimesOf(right)
<1> DEFINE l == LastOfArch(left)
           r == LastOfArch(right)
           changed == {a \in DOMAIN l \cap DOMAIN r : TaskTimingState(l[a]) # TaskTimingState(r[a])}
<1>1. /\ DOMAIN l = {left[t].arch : t \in DOMAIN left} /\ \A t \in DOMAIN left : l[left[t].arch] = left[t]
      /\ DOMAIN r = {right[t].arch : t \in DOMAIN right} /\ \A t \in DOMAIN right : r[right[t].arch] = right[t]
  BY LastIsOnly
<1> HIDE DEF l, r
<1>2. CompareBuildTimings(left, right) =
        [removed |-> DOMAIN l \ DOMAIN r, added |-> DOMAIN r \ DOMAIN l, changed |-> changed]
  BY DEF CompareBuildTimings, l, r
<1>3. DOMAIN l \ DOMAIN r = {} /\ DOMAIN r \ DOMAIN l = {} /\ changed = {}
  <2> DEFINE c == [removed |-> DOMAIN l \ DOMAIN r, added |-> DOMAIN r \ DOMAIN l, changed |-> changed]
  <2>1. c.removed \in Range(c) /\ c.added \in Range(c) /\ c.changed \in Range(c)
    BY DEF Range
  <2>2. Range(c) = {{}}
    BY <1>2
  <2> QED
    BY <2>1, <2>2
<1>4. DOMAIN l = DOMAIN r /\ \A a \in DOMAIN l : TaskTimingState(l[a]) = TaskTimingState(r[a])
  BY <1>3
<1>5. ASSUME NEW t \in DOMAIN left
      PROVE  <<left[t].arch, TaskTimingState(left[t])>> \in TimesOf(right)
  <2>1. PICK u \in DOMAIN right : right[u].arch = left[t].arch
    BY <1>1, <1>4
  <2>2. TaskTimingState(left[t]) = TaskTimingState(right[u])
    BY <1>1, <1>4, <2>1
  <2> QED
    BY <2>1, <2>2 DEF TimesOf
<1>6. ASSUME NEW u \in DOMAIN right
      PROVE  <<right[u].arch, TaskTimingState(right[u])>> \in TimesOf(left)
  <2>1. PICK t \in DOMAIN left : left[t].arch = right[u].arch
    BY <1>1, <1>4
  <2>2. TaskTimingState(left[t]) = TaskTimingState(right[u])
    BY <1>1, <1>4, <2>1
  <2> QED
    BY <2>1, <2>2 DEF TimesOf
<1>7. TimesOf(left) \subseteq TimesOf(right) /\ TimesOf(right) \subseteq TimesOf(left)
  BY <1>5, <1>6 DEF TimesOf
<1> QED
  BY <1>7

----------------------------------------------------------------------------
(* What the tasks produced *)

Products(t) == RpmsOf(t) \cup SrpmsOf(t)

\* The graph has what the tasks that were added produced, and nothing else.
ProductsInv ==
  /\ \A t \in 1 .. next - 1 : \A a \in Products(t) : <<TaskId(t), a, "produces">> \in graph.edges
  /\ \A e \in graph.edges :
       e[3] = "produces" => \E t \in 1 .. next - 1 : e[1] = TaskId(t) /\ e[2] \in Products(t)

\* A step that adds no such edge and no task leaves that as it is.
LEMMA ProductsStay ==
  ASSUME ProductsInv, UNCHANGED <<doc, next>>, graph.edges \subseteq graph'.edges,
         \A e \in graph'.edges \ graph.edges : e[3] # "produces"
  PROVE  ProductsInv'
<1>1. \A t : Products(t)' = Products(t)
  BY DEF Products, RpmsOf, SrpmsOf
<1> QED
  BY <1>1 DEF ProductsInv

\* The loop adds what the task produced, and the chains lead to no artifact.
LEMMA TaskProducts ==
  ASSUME BuildInv, ProductsInv, AddTask
  PROVE  ProductsInv'
<1> DEFINE t == next
           s == TaskRef(t)
<1>1. t \in Tasks /\ next' = t + 1 /\ doc' = doc
  BY DEF AddTask, Elsewhere
<1>2. 1 .. next' - 1 = (1 .. next - 1) \cup {t}
  <2>1. t \in Nat /\ t >= 1
    BY <1>1 DEF Tasks
  <2> QED
    BY <1>1, <2>1
<1>3. graph'.edges = graph.edges \cup ChainEdges(s, TaskId(t)) \cup TaskEdges(t)
  <2>1. graph' = With(WithChain(graph, Chain(s), s.cas, TaskId(t)), TaskNodes(t), TaskEdges(t))
    BY DEF AddTask
  <2>2. graph' = With(With(graph, ChainNodes(s), ChainEdges(s, TaskId(t))), TaskNodes(t), TaskEdges(t))
    <3> HIDE DEF s, t
    <3> QED
      BY <2>1, ChainAdds
  <2> HIDE DEF s, t
  <2> QED
    BY <2>2 DEF With
<1>4. \A e \in ChainEdges(s, TaskId(t)) : e[3] # "produces"
  BY DEF ChainEdges
<1>5. \A e \in TaskEdges(t) : e[3] = "produces" => e[1] = TaskId(t) /\ e[2] \in Products(t)
  <2> TAKE e \in TaskEdges(t)
  <2>1. \/ e = <<BuildId, TaskId(t), "derived_from">>
        \/ \E a \in Products(t) : e = <<TaskId(t), a, "produces">>
        \/ \E k \in Hashed(t) : e = <<RpmId(t, k), ArtifactCasId(HashOf(t, k)), "authenticated_by">>
        \/ \E r \in RpmsOf(t) : e = <<r, ReleaseId, "released_to">>
        \/ \E r \in RpmsOf(t), x \in doc.signTasks : e = <<r, <<"signature", x>>, "signed_as">>
    BY DEF TaskEdges, Products
  <2> HIDE DEF t
  <2> QED
    BY <2>1
<1>6. \A a \in Products(t) : <<TaskId(t), a, "produces">> \in TaskEdges(t)
  BY DEF TaskEdges, Products
<1>7. \A u : Products(u)' = Products(u)
  BY <1>1 DEF Products, RpmsOf, SrpmsOf
<1> HIDE DEF s, t
<1>8. \A u \in 1 .. next' - 1 : \A a \in Products(u) : <<TaskId(u), a, "produces">> \in graph'.edges
  BY <1>2, <1>3, <1>6 DEF ProductsInv
<1>9. \A e \in graph'.edges :
        e[3] = "produces" => \E u \in 1 .. next' - 1 : e[1] = TaskId(u) /\ e[2] \in Products(u)
  <2> TAKE e \in graph'.edges
  <2>1. CASE e \in graph.edges
    BY <1>2, <2>1 DEF ProductsInv
  <2>2. CASE e \in ChainEdges(s, TaskId(t))
    BY <1>4, <2>2
  <2>3. CASE e \in TaskEdges(t)
    BY <1>2, <1>5, <2>3
  <2> QED
    BY <1>3, <2>1, <2>2, <2>3
<1> QED
  BY <1>7, <1>8, <1>9 DEF ProductsInv

LEMMA BuildProducts ==
  ASSUME BuildInv, ProductsInv, AddBuild
  PROVE  ProductsInv'
<1> DEFINE n1 == [id \in {BuildId} \cup {<<"signature", s>> : s \in doc.signTasks}
                           \cup (IF doc.released THEN {ReleaseId} ELSE {}) |->
                    IF Kind(id) = "signature" THEN [verified |-> FALSE] ELSE Plain]
<1>1. next = 0 /\ next' = 1 /\ doc' = doc
  BY DEF AddBuild, Elsewhere
<1>2. 1 .. next' - 1 = {} /\ 1 .. next - 1 = {}
  BY <1>1
<1>3. graph'.edges = graph.edges \cup ChainEdges(build, BuildId)
  <2>1. graph' = WithChain(With(graph, n1, {}), Chain(build), build.cas, BuildId)
    BY DEF AddBuild
  <2> HIDE DEF n1
  <2>2. graph' = With(With(graph, n1, {}), ChainNodes(build), ChainEdges(build, BuildId))
    BY <2>1, ChainAdds
  <2>3. graph'.edges = (graph.edges \cup {}) \cup ChainEdges(build, BuildId)
    BY <2>2 DEF With
  <2> QED
    BY <2>3
<1>4. \A e \in ChainEdges(build, BuildId) : e[3] # "produces"
  BY DEF ChainEdges
<1>5. \A e \in graph.edges : e[3] # "produces"
  BY <1>2 DEF ProductsInv
<1>6. \A e \in graph'.edges : e[3] # "produces"
  BY <1>3, <1>4, <1>5
<1> QED
  BY <1>2, <1>6 DEF ProductsInv

LEMMA EveryProducts == BuildInv /\ ProductsInv /\ [Next]_vars => ProductsInv'
<1> SUFFICES ASSUME BuildInv, ProductsInv, [Next]_vars
             PROVE  ProductsInv'
  OBVIOUS
<1>1. CASE AddBuild
  BY <1>1, BuildProducts
<1>2. CASE AddTask
  BY <1>2, TaskProducts
<1>3. ASSUME NEW verified, VerifyCas(verified)
      PROVE  ProductsInv'
  <2>1. UNCHANGED <<doc, next>> /\ graph'.edges = graph.edges
    BY <1>3 DEF VerifyCas, Step, BuildInv, FieldsInv
  <2> QED
    BY <2>1, ProductsStay
<1>4. ASSUME NEW rpms \in SUBSET Rpms(graph), NEW verdict \in [rpms -> Verdict], VerifySignatures(verdict)
      PROVE  ProductsInv'
  <2>1. UNCHANGED <<doc, next>> /\ graph'.edges = graph.edges
    BY <1>4 DEF VerifySignatures, Step, BuildInv, FieldsInv
  <2> QED
    BY <2>1, ProductsStay
<1>5. ASSUME NEW rpm \in Rpms(graph), AttachSbom(rpm)
      PROVE  ProductsInv'
  <2>1. UNCHANGED <<doc, next>> /\ graph'.edges = graph.edges \cup {<<rpm, <<"sbom">>, "described_by">>}
    BY <1>5 DEF AttachSbom, Step, With
  <2> QED
    BY <2>1, ProductsStay
<1>6. ASSUME NEW rpm \in Rpms(graph), AttachErrata(rpm, TRUE)
      PROVE  ProductsInv'
  <2>1. UNCHANGED <<doc, next>> /\ graph'.edges = graph.edges \cup {<<rpm, <<"errata">>, "fixes">>}
    BY <1>6 DEF AttachErrata, Step, With
  <2> QED
    BY <2>1, ProductsStay
<1>7. ASSUME NEW rpm \in Rpms(graph), AttachErrata(rpm, FALSE)
      PROVE  ProductsInv'
  <2>1. UNCHANGED <<doc, next>> /\ graph'.edges = graph.edges
    BY <1>7 DEF AttachErrata, Step, BuildInv, FieldsInv
  <2> QED
    BY <2>1, ProductsStay
<1>8. CASE UNCHANGED vars
  BY <1>8, ProductsStay DEF vars
<1> QED
  BY <1>1, <1>2, <1>3, <1>4, <1>5, <1>6, <1>7, <1>8 DEF Next

LEMMA ProductsHold == Spec => []ProductsInv
<1>1. Init => ProductsInv
  <2> SUFFICES ASSUME Init  PROVE ProductsInv
    OBVIOUS
  <2>1. 1 .. next - 1 = {} /\ graph.edges = {}
    BY DEF Init
  <2> QED
    BY <2>1 DEF ProductsInv
<1> QED
  BY <1>1, EveryProducts, Invariance, PTL DEF Spec

----------------------------------------------------------------------------
(* The inventory *)

\* A set under other names is as large.
LEMMA SameSize ==
  ASSUME NEW S, IsFiniteSet(S), NEW T, NEW b, b = [x \in S |-> b[x]],
         \A x \in S : b[x] \in T, \A y \in T : \E x \in S : b[x] = y, \A x, y \in S : b[x] = b[y] => x = y
  PROVE  IsFiniteSet(T) /\ Cardinality(T) = Cardinality(S)
<1>1. b \in Bijection(S, T)
  <2>1. b \in [S -> T]
    OBVIOUS
  <2> QED
    BY <2>1 DEF Bijection, Injection, Surjection, IsInjective
<1> QED
  BY <1>1, FS_Bijection DEF ExistsBijection

\* Each RPM, and the SRPM, has an id of its own.
LEMMA ProductsCount ==
  ASSUME DocumentInv, NEW t \in Tasks
  PROVE  IsFiniteSet(Products(t)) /\ Cardinality(Products(t)) = Produced(doc.tasks[t])
<1> DEFINE n == Len(doc.tasks[t].rpms)
           b == [k \in 1 .. n |-> RpmId(t, k)]
<1>1. n \in Nat /\ DOMAIN doc.tasks[t].rpms = 1 .. n
  <2>1. t \in DOMAIN doc.tasks
    BY DocumentsAssumption DEF DocumentInv, Tasks
  <2>2. doc.tasks[t].rpms \in Seq(Range(doc.tasks[t].rpms))
    BY <2>1, TimesAssumption DEF DocumentInv
  <2> QED
    BY <2>2
<1> HIDE DEF n
<1>2. IsFiniteSet(1 .. n) /\ Cardinality(1 .. n) = n
  BY <1>1, FS_Interval
<1>3. IsFiniteSet(RpmsOf(t)) /\ Cardinality(RpmsOf(t)) = n
  <2>1. \A k \in 1 .. n : b[k] \in RpmsOf(t)
    BY <1>1 DEF RpmsOf
  <2>2. \A r \in RpmsOf(t) : \E k \in 1 .. n : b[k] = r
    BY <1>1 DEF RpmsOf
  <2>3. \A j, k \in 1 .. n : b[j] = b[k] => j = k
    <3> TAKE j, k \in 1 .. n
    <3> HAVE b[j] = b[k]
    <3>1. <<"rpm", t, j>> = <<"rpm", t, k>>
      BY DEF RpmId
    <3> QED
      BY <3>1
  <2>4. b = [k \in 1 .. n |-> b[k]]
    OBVIOUS
  <2>5. PICK S : S = 1 .. n
    OBVIOUS
  <2> HIDE DEF b
  <2>6. /\ \A k \in S : b[k] \in RpmsOf(t)
        /\ \A r \in RpmsOf(t) : \E j \in S : b[j] = r
        /\ \A j, k \in S : b[j] = b[k] => j = k
        /\ b = [k \in S |-> b[k]] /\ IsFiniteSet(S) /\ Cardinality(S) = n
    BY <1>2, <2>1, <2>2, <2>3, <2>4, <2>5
  <2> QED
    BY <2>6, SameSize
<1>4. RpmsOf(t) \cap SrpmsOf(t) = {}
  <2>1. \A r \in RpmsOf(t) : r[1] = "rpm"
    BY DEF RpmsOf, RpmId
  <2>2. \A s \in SrpmsOf(t) : s[1] = "srpm"
    BY DEF SrpmsOf, SrpmId
  <2> QED
    BY <2>1, <2>2
<1>5. IsFiniteSet(SrpmsOf(t)) /\ Cardinality(SrpmsOf(t)) = (IF doc.tasks[t].srpm = None THEN 0 ELSE 1)
  BY FS_EmptySet, FS_Singleton DEF SrpmsOf
<1>6. Cardinality(Products(t)) = Cardinality(RpmsOf(t)) + Cardinality(SrpmsOf(t)) - Cardinality(RpmsOf(t) \cap SrpmsOf(t))
      /\ IsFiniteSet(Products(t))
  BY <1>3, <1>5, FS_Union DEF Products
<1>7. Cardinality(RpmsOf(t) \cap SrpmsOf(t)) = 0
  BY <1>4, FS_EmptySet
<1>8. Produced(doc.tasks[t]) = n + (IF doc.tasks[t].srpm = None THEN 0 ELSE 1)
  BY DEF Produced, n
<1> QED
  BY <1>1, <1>3, <1>5, <1>6, <1>7, <1>8

\* What a task produced is in the inventory beside its task.
LEMMA InventoryIs ==
  ASSUME BuildInv, NEW t, NEW a, <<TaskId(t), a, "produces">> \in graph.edges
  PROVE  <<TaskId(t), a>> \in Inventory(graph)
<1>1. PICK e \in graph.edges : e = <<TaskId(t), a, "produces">>
  OBVIOUS
<1>2. e[1] = TaskId(t) /\ e[2] = a /\ e[3] = "produces"
  BY <1>1
<1>3. {e[1], e[2]} \subseteq DOMAIN graph.nodes /\ <<Kind(e[1]), Kind(e[2])>> \in {<<"task", "rpm">>, <<"task", "srpm">>}
  BY <1>2 DEF BuildInv, TypeOK, Schema
<1>4. Kind(TaskId(t)) = "task" /\ Kind(a) \in {"rpm", "srpm"}
  BY <1>2, <1>3
<1>5. a \in Outgoing(graph, TaskId(t), "produces")
  BY <1>2 DEF Outgoing
<1>6. a \in Artifacts(graph) /\ TaskId(t) \in {id \in DOMAIN graph.nodes : Kind(id) = "task"}
  BY <1>2, <1>3, <1>4 DEF Artifacts
<1> QED
  BY <1>5, <1>6 DEF Inventory

\* An entry of the inventory is an edge.
LEMMA InventoryEdge ==
  ASSUME NEW g, NEW i \in Inventory(g)
  PROVE  /\ i = <<i[1], i[2]>> /\ i[2] \in Artifacts(g)
         /\ \E e \in g.edges : e[1] = i[1] /\ e[2] = i[2] /\ e[3] = "produces"
  BY DEF Inventory, Outgoing

\* rpm_artifact_inventory shows as many artifacts of a task as the task produced.
LEMMA InventoryCounts ==
  ASSUME BuildInv, ProductsInv, NEW t \in 1 .. next - 1
  PROVE  Cardinality({i \in Inventory(graph) : i[1] = TaskId(t)}) = Produced(doc.tasks[t])
<1> DEFINE I == {i \in Inventory(graph) : i[1] = TaskId(t)}
           b == [a \in Products(t) |-> <<TaskId(t), a>>]
<1>1. t \in Tasks
  BY SourcesAreAttributed DEF BuildInv
<1>2. IsFiniteSet(Products(t)) /\ Cardinality(Products(t)) = Produced(doc.tasks[t])
  BY <1>1, ProductsCount DEF BuildInv
<1>3. \A a \in Products(t) : b[a] \in I
  <2> TAKE a \in Products(t)
  <2>1. <<TaskId(t), a, "produces">> \in graph.edges
    BY DEF ProductsInv
  <2>2. <<TaskId(t), a>> \in Inventory(graph)
    BY <2>1, InventoryIs
  <2> QED
    BY <2>2
<1>4. \A i \in I : \E a \in Products(t) : b[a] = i
  <2> TAKE i \in I
  <2>1. i = <<i[1], i[2]>> /\ \E e \in graph.edges : e[1] = i[1] /\ e[2] = i[2] /\ e[3] = "produces"
    BY InventoryEdge
  <2>2. PICK e \in graph.edges : e[1] = TaskId(t) /\ e[2] = i[2] /\ e[3] = "produces"
    BY <2>1
  <2>3. PICK u \in 1 .. next - 1 : e[1] = TaskId(u) /\ e[2] \in Products(u)
    BY <2>2 DEF ProductsInv
  <2>4. u = t
    <3>1. <<"task", u>> = <<"task", t>>
      BY <2>2, <2>3 DEF TaskId
    <3> QED
      BY <3>1
  <2> QED
    BY <2>1, <2>2, <2>3, <2>4
<1>5. \A x, y \in Products(t) : b[x] = b[y] => x = y
  <2> TAKE x, y \in Products(t)
  <2> HAVE b[x] = b[y]
  <2>1. <<TaskId(t), x>> = <<TaskId(t), y>>
    OBVIOUS
  <2> QED
    BY <2>1
<1>6. b = [a \in Products(t) |-> b[a]]
  OBVIOUS
<1> HIDE DEF b, I
<1>7. Cardinality(I) = Cardinality(Products(t))
  BY <1>2, <1>3, <1>4, <1>5, <1>6, SameSize
<1> QED
  BY <1>2, <1>7 DEF I

\* Each artifact is in the inventory of its own task's arch only.
LEMMA OneArch ==
  ASSUME BuildInv, NEW a \in Artifacts(graph),
         NEW archOf, archOf = [id \in {TaskId(t) : t \in Tasks} |-> doc.tasks[id[2]].arch]
  PROVE  LET InArch == InventoryByArch(graph, archOf)
         IN  Cardinality({arch \in DOMAIN InArch : a \in InArch[arch]}) = 1
<1> DEFINE InArch == InventoryByArch(graph, archOf)
           own    == archOf[TaskId(a[2])]
           Of(arch) == {j \in Inventory(graph) : archOf[j[1]] = arch}
<1>1. /\ DOMAIN InArch = {archOf[i[1]] : i \in Inventory(graph)}
      /\ \A arch \in DOMAIN InArch : InArch[arch] = {i[2] : i \in Of(arch)}
  BY DEF InventoryByArch
<1>2. <<TaskId(a[2]), a, "produces">> \in graph.edges
  BY DEF BuildInv, ArtifactsInv
<1>3. PICK i \in Inventory(graph) : i = <<TaskId(a[2]), a>>
  BY <1>2, InventoryIs
<1>4. i[1] = TaskId(a[2]) /\ i[2] = a
  BY <1>3
<1> HIDE DEF InArch
<1>5. own \in DOMAIN InArch /\ a \in InArch[own]
  <2>1. own \in DOMAIN InArch /\ i \in Of(own)
    BY <1>1, <1>4
  <2> HIDE DEF Of
  <2> QED
    BY <1>1, <1>4, <2>1
<1>6. ASSUME NEW arch \in DOMAIN InArch, a \in InArch[arch]
      PROVE  arch = own
  <2>1. PICK j \in Of(arch) : j[2] = a
    <3>1. a \in {k[2] : k \in Of(arch)}
      BY <1>1, <1>6
    <3> HIDE DEF Of
    <3> QED
      BY <3>1
  <2>2. j \in Inventory(graph) /\ archOf[j[1]] = arch
    OBVIOUS
  <2>3. PICK e \in graph.edges : e[1] = j[1] /\ e[2] = a /\ e[3] = "produces"
    BY <2>1, <2>2, InventoryEdge
  <2>4. e[1] = TaskId(a[2])
    BY <2>3 DEF BuildInv, LinksInv
  <2> QED
    BY <2>2, <2>3, <2>4
<1>7. {arch \in DOMAIN InArch : a \in InArch[arch]} = {own}
  BY <1>5, <1>6
<1>8. Cardinality({arch \in DOMAIN InArch : a \in InArch[arch]}) = 1
  BY <1>7, FS_Singleton
<1> QED
  BY <1>8 DEF InArch

----------------------------------------------------------------------------
(* The times and the inventory agree *)

LEMMA DocumentTimes ==
  ASSUME DocumentInv
  PROVE  AreTimed(doc.tasks) /\ Tasks = DOMAIN doc.tasks
  BY DocumentsAreTimed DEF DocumentInv, AreTimed, Tasks

\* Of the dated rows: they lie as far apart as they were in time, and one is the first.
LEMMA RowsLie ==
  ASSUME NEW tasks, AreTimed(tasks)
  PROVE  LET items == Timeline(tasks)
             rows  == GanttRows(items)
             dated == {id \in DOMAIN items : items[id].started # None}
         IN  /\ \A a, b \in dated : rows[a].offset - rows[b].offset = items[a].started - items[b].started
             /\ dated # {} => \E a \in dated : rows[a].offset = 0
<1> DEFINE items == Timeline(tasks)
           rows  == GanttRows(items)
           dated == {id \in DOMAIN items : items[id].started # None}
<1>0. dated = Dated(items)
  BY DEF Dated
<1> HIDE DEF dated, rows, items
<1>1. CASE dated = {}
  BY <1>1 DEF items, rows, dated
<1>2. CASE dated # {}
  <2>1. PICK first \in dated : \A id \in dated : rows[id].offset = items[id].started - items[first].started
    BY <1>0, <1>2, OffsetsAre DEF rows, items
  <2>2. \A id \in dated : items[id].started \in Nat
    BY <1>0, DatedAre DEF items
  <2>3. \A a, b \in dated : rows[a].offset - rows[b].offset = items[a].started - items[b].started
    <3> TAKE a, b \in dated
    <3>1. PICK x \in Nat, y \in Nat, z \in Nat : x = items[a].started /\ y = items[b].started /\ z = items[first].started
      BY <2>2
    <3>2. rows[a].offset = x - z /\ rows[b].offset = y - z
      BY <2>1, <3>1
    <3> QED
      BY <3>1, <3>2
  <2>4. rows[first].offset = 0
    BY <2>1, <2>2
  <2> QED
    BY <2>3, <2>4 DEF items, rows, dated
<1> QED
  BY <1>1, <1>2

\* What BuildInv says of the document and of what was produced makes the times agree.
LEMMA TimesDoAgree ==
  ASSUME BuildInv, ProductsInv
  PROVE  TimesAgree
<1> DEFINE tasks  == doc.tasks
           items  == Timeline(tasks)
           rows   == GanttRows(items)
           totals == Totals(tasks)
           dated  == {id \in DOMAIN items : items[id].started # None}
           archOf == [id \in {TaskId(t) : t \in Tasks} |-> tasks[id[2]].arch]
           InArch == InventoryByArch(graph, archOf)
           same   == {d \in Documents : d.tasks[1] = tasks[1]}
<1>1. AreTimed(tasks) /\ Tasks = DOMAIN tasks
  BY DocumentTimes DEF BuildInv
<1>2. ASSUME NEW t \in Tasks, NEW p \in DOMAIN tasks[t].stats, tasks[t].stats[p].delta # None
      PROVE  Cardinality({q \in TimingSteps(tasks[t].stats) : IsPrefix(q, p)}) = 1
  <2>1. IsStats(tasks[t].stats)
    BY <1>1 DEF AreTimed, IsTimed
  <2> QED
    BY <1>2, <2>1, OneOutermost
<1>3. \A name \in DOMAIN totals.steps :
        totals.steps[name] = MapThenSumSet(LAMBDA id : rows[id].duration,
          {id \in DOMAIN rows : Len(id) = 3 /\ id[2] = "step" /\ id[3] = name})
  BY <1>1, StepTotalIs
<1>4. totals.aggregate = MapThenSumSet(LAMBDA id : rows[id].duration, {<<t>> : t \in Tasks})
  BY <1>1, AggregateIs
<1>5. \E t \in Tasks : totals.critical = rows[<<t>>].duration
  BY <1>1, CriticalIs
<1>6. /\ \A a, b \in dated : rows[a].offset - rows[b].offset = items[a].started - items[b].started
      /\ dated # {} => \E a \in dated : rows[a].offset = 0
  BY <1>1, RowsLie
<1>7. ASSUME NEW d \in same
      PROVE  LET changes == CompareBuildTimings(tasks, d.tasks)
                 back    == CompareBuildTimings(d.tasks, tasks)
             IN  /\ back = [removed |-> changes.added, added |-> changes.removed, changed |-> changes.changed]
                 /\ OneForEachArch(tasks) /\ OneForEachArch(d.tasks) /\ Range(changes) = {{}} =>
                      {<<tasks[t].arch, TaskTimingState(tasks[t])>> : t \in Tasks}
                        = {<<d.tasks[t].arch, TaskTimingState(d.tasks[t])>> : t \in DOMAIN d.tasks}
  <2>1. AreTimed(d.tasks)
    BY DocumentsAreTimed
  <2>2. OneForEachArch(tasks) /\ OneForEachArch(d.tasks) /\ Range(CompareBuildTimings(tasks, d.tasks)) = {{}} =>
          TimesOf(tasks) = TimesOf(d.tasks)
    BY <1>1, <2>1, EqualTookAsLong
  <2> QED
    BY <1>1, <2>2, CompareIsMutual DEF TimesOf
<1>8. ASSUME NEW t \in Tasks, next > t
      PROVE  Cardinality({i \in Inventory(graph) : i[1] = TaskId(t)}) = Produced(tasks[t])
  <2>1. t \in 1 .. next - 1
    <3>1. next \in 0 .. Len(doc.tasks) + 1 /\ Len(doc.tasks) \in Nat
      BY <1>1 DEF BuildInv, TypeOK, AreTimed
    <3> QED
      BY <1>8, <3>1 DEF Tasks
  <2> QED
    BY <2>1, InventoryCounts
<1>9. ASSUME NEW a \in Artifacts(graph)
      PROVE  Cardinality({arch \in DOMAIN InArch : a \in InArch[arch]}) = 1
  BY OneArch
<1> HIDE DEF tasks, items, rows, totals, dated, archOf, InArch, same
<1> QED
  BY <1>2, <1>3, <1>4, <1>5, <1>6, <1>7, <1>8, <1>9
     DEF TimesAgree, tasks, items, rows, totals, dated, archOf, InArch, same, OneForEachArch

\* The reports on an RPM and on the times of the build agree with each other and with the
\* graph (trust.py, build_analysis.py, inventory.py, workbench.py), in every state.
THEOREM ReportsCorrect == Spec => []ReportsAgree
<1>1. BuildInv /\ ProductsInv /\ TrustReportsAgree => ReportsAgree
  BY TimesDoAgree DEF ReportsAgree
<1> QED
  BY <1>1, Invariance, ProductsHold, TrustReportsCorrect, PTL
=============================================================================
