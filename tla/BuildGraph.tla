----------------------------- MODULE BuildGraph -----------------------------
(***************************************************************************)
(* The graph of a build: what ALBS reports of a (batch) build, turned into *)
(* nodes and edges task by task (adapters/albs.py), then the steps that    *)
(* verify CAS hashes (cas.py) and signatures (rpmsig.py) and attach SBOM   *)
(* and errata evidence to its RPMs.                                        *)
(***************************************************************************)
EXTENDS BuildTimings

CONSTANTS
  Documents,    \* builds as reported: [tasks, signTasks, released]
  RepoName,     \* per repository: the package its URL names
  DefaultRepo,  \* per package: its repository if no task names one
  Unknown,      \* the commit if none is reported: a number
  MaxSteps      \* bound: evidence steps

ASSUME StepsAssumption == MaxSteps \in Nat

\* Names, commits and hashes are numbers; a repository's URL names a package, and a
\* package has a default repository.
ASSUME NamesAssumption ==
  /\ None \notin Nat /\ Unknown \in Nat
  /\ DOMAIN DefaultRepo \subseteq Nat /\ DOMAIN RepoName \subseteq Nat
  /\ DefaultRepo \in [DOMAIN DefaultRepo -> DOMAIN RepoName]
  /\ RepoName \in [DOMAIN RepoName -> DOMAIN DefaultRepo]

\* A build is reported with its tasks; one that has none makes nothing to explain.
ASSUME DocumentsAssumption ==
  \A d \in Documents :
    /\ d.tasks \in Seq(Range(d.tasks)) /\ d.tasks # << >>
    /\ \A t \in DOMAIN d.tasks :
         /\ d.tasks[t].srpm \in DOMAIN DefaultRepo \cup {None}
         /\ d.tasks[t].ref \in DOMAIN DefaultRepo \cup {None}
         /\ d.tasks[t].repo \in DOMAIN RepoName \cup {None}
         /\ d.tasks[t].commit \in Nat \cup {None}
         /\ d.tasks[t].cas \in Nat \cup {None}

\* Times are numbers of seconds and no task finished before it started; stats are a
\* finite tree.
ASSUME TimesAssumption ==
  \A d \in Documents : \A t \in DOMAIN d.tasks :
    LET task == d.tasks[t]
    IN  /\ task.rpms \in Seq(Range(task.rpms))
        /\ {task.started, task.finished} \subseteq Nat \cup {None}
        /\ None \notin {task.started, task.finished} => task.started <= task.finished
        /\ IsFiniteSet(DOMAIN task.stats)
        /\ \A p \in DOMAIN task.stats :
             p \in Seq(Range(p)) /\ {task.stats[p].delta, task.stats[p].start} \subseteq Nat \cup {None}

VARIABLES doc, build,  \* the document and the AlbsBuildMetadata parsed from it
          graph,
          next,        \* the task that is added next
          steps

\* What the verifiers have answered: RPMs ever verified, the last verdict on each RPM,
\* and hashes ever verified.
VARIABLES verifiedOnce, lastVerdict, hashesVerified

vars == <<doc, build, graph, next, steps, verifiedOnce, lastVerdict, hashesVerified>>

\* Of a task: the package its SRPM and its git ref name, its ref's URL and commit (repo,
\* commit), the hash ALBS authenticated (cas), and its binary RPMs (rpms), a sequence of
\* CAS hashes; each of them may be None, except the last; and its times.
Tasks == 1 .. Len(doc.tasks)

Or(value, default) == IF value # None THEN value ELSE default

TaskId(t) == <<"task", t>>
RpmId(t, k) == <<"rpm", t, k>>
SrpmId(t) == <<"srpm", t>>
BuildId == <<"build">>
ReleaseId == <<"release">>

\* parse_build_metadata: the representative source of the build.
FirstSrpm(tasks) ==
  LET with == {t \in DOMAIN tasks : tasks[t].srpm # None}
  IN  IF with = {} THEN None ELSE tasks[CHOOSE t \in with : \A u \in with : t <= u].srpm

ParseBuild(tasks) ==
  LET first   == tasks[1]
      package == Or(FirstSrpm(tasks),
                    Or(first.ref, IF first.repo = None THEN None ELSE RepoName[first.repo]))
  IN  [ package |-> package,
        repo    |-> IF first.repo # None THEN first.repo
                    ELSE IF package = None THEN None ELSE DefaultRepo[package],
        commit  |-> Or(first.commit, Unknown),
        cas     |-> first.cas ]

\* build_task_refs: where the source of a task is taken from.
TaskRef(t) ==
  LET task == doc.tasks[t]
      repo == Or(task.repo, build.repo)
  IN  [ repo    |-> repo,
        commit  |-> Or(task.commit, build.commit),
        package |-> Or(task.srpm, Or(task.ref, RepoName[repo])),
        cas     |-> Or(task.cas, build.cas) ]

\* Mutant: as before batch builds had sources of their own.
Chain_BuildLevel(source) ==
  [ source |-> SourceId(build.package), repo |-> RepoId(build.repo),
    commit |-> CommitId(build.package, build.commit),
    cas    |-> SourceCasId(build.package, Or(build.cas, build.commit)) ]

Chain(source) ==
  [ source |-> SourceId(source.package), repo |-> RepoId(source.repo),
    commit |-> CommitId(source.package, source.commit),
    cas    |-> SourceCasId(source.package, Or(source.cas, source.commit)) ]

Cas(hash) == [hash |-> hash, verified |-> FALSE]
Plain == [label |-> TRUE]

\* Nodes that are there keep their metadata; a source CAS node gets the same hash again.
With(g, nodes, edges) ==
  [ nodes |-> [id \in DOMAIN g.nodes \cup DOMAIN nodes |->
                 IF id \in DOMAIN g.nodes THEN g.nodes[id] ELSE nodes[id]],
    edges |-> g.edges \cup edges ]

WithChain(g, chain, hash, builder) ==
  With(g,
       [id \in {chain.source, chain.repo, chain.commit, chain.cas} |->
          IF id = chain.cas THEN Cas(hash) ELSE Plain],
       { <<chain.source, chain.repo, "stored_in">>, <<chain.repo, chain.commit, "points_to">>,
         <<chain.commit, chain.cas, "authenticated_by">>, <<chain.cas, builder, "built_by">> })

Init ==
  /\ doc \in {d \in Documents : ParseBuild(d.tasks).package # None}
  /\ build = ParseBuild(doc.tasks)
  /\ graph = [nodes |-> << >>, edges |-> {}]
  /\ next = 0 /\ steps = 0
  /\ verifiedOnce = {} /\ lastVerdict = << >> /\ hashesVerified = {}

Elsewhere == UNCHANGED <<doc, build, verifiedOnce, lastVerdict, hashesVerified>>

\* _graph_from_albs_api_build up to the loop over the tasks.
AddBuild ==
  /\ next = 0
  /\ next' = 1
  /\ graph' = WithChain(With(graph,
                 [id \in {BuildId} \cup {<<"signature", s>> : s \in doc.signTasks}
                           \cup (IF doc.released THEN {ReleaseId} ELSE {}) |->
                    IF Kind(id) = "signature" THEN [verified |-> FALSE] ELSE Plain], {}),
               Chain(build), build.cas, BuildId)
  /\ Elsewhere /\ UNCHANGED steps

\* What a task produced, as ids and, of its RPMs, those that have a hash.
RpmsOf(t) == {RpmId(t, k) : k \in DOMAIN doc.tasks[t].rpms}
SrpmsOf(t) == IF doc.tasks[t].srpm = None THEN {} ELSE {SrpmId(t)}
Hashed(t) == {k \in DOMAIN doc.tasks[t].rpms : doc.tasks[t].rpms[k] # None}
HashOf(t, k) == doc.tasks[t].rpms[k]

TaskNodes(t) ==
  [id \in {TaskId(t)} \cup RpmsOf(t) \cup SrpmsOf(t) \cup {ArtifactCasId(HashOf(t, k)) : k \in Hashed(t)} |->
     CASE Kind(id) = "rpm" -> [hash |-> HashOf(t, id[3]), signed |-> None, clean |-> FALSE]
       [] Kind(id) = "artifact cas" -> Cas(id[2])
       [] OTHER -> Plain]

TaskEdges(t) ==
  {<<BuildId, TaskId(t), "derived_from">>}
    \cup {<<TaskId(t), a, "produces">> : a \in RpmsOf(t) \cup SrpmsOf(t)}
    \cup {<<RpmId(t, k), ArtifactCasId(HashOf(t, k)), "authenticated_by">> : k \in Hashed(t)}
    \cup (IF doc.released THEN {<<r, ReleaseId, "released_to">> : r \in RpmsOf(t)} ELSE {})
    \cup {<<r, <<"signature", s>>, "signed_as">> : r \in RpmsOf(t), s \in doc.signTasks}

\* One round of the loop: the task's own source, the task, what it produced.
AddTask ==
  /\ next \in Tasks
  /\ next' = next + 1
  /\ LET source == TaskRef(next)
     IN  graph' = With(WithChain(graph, Chain(source), source.cas, TaskId(next)),
                       TaskNodes(next), TaskEdges(next))
  /\ Elsewhere /\ UNCHANGED steps

----------------------------------------------------------------------------
(* Evidence *)

Built == next > Len(doc.tasks)

Step ==
  /\ Built /\ steps < MaxSteps
  /\ steps' = steps + 1
  /\ UNCHANGED <<doc, build, next>>

\* verify_graph_cas: each attestation that has a hash is verified, fails or can not be
\* asked for; only the first sets the mark, and nothing takes it back.
VerifyCas(verified) ==
  /\ Step
  /\ verified \subseteq {id \in DOMAIN graph.nodes : HasCasEvidence(graph, id)}
  /\ graph' = [graph EXCEPT !.nodes =
                 [id \in DOMAIN @ |-> IF id \in verified THEN [@[id] EXCEPT !.verified = TRUE] ELSE @[id]]]
  /\ hashesVerified' = hashesVerified \cup {graph.nodes[id].hash : id \in verified}
  /\ UNCHANGED <<verifiedOnce, lastVerdict>>

\* Mutant: signature nodes are marked whatever the verdict.
MarkedSignatures_Any(verdict) ==
  UNION {Outgoing(graph, r, "signed_as") : r \in DOMAIN verdict}

\* The signature nodes that _mark_signature_nodes marks.
MarkedSignatures(verdict) ==
  UNION {Outgoing(graph, r, "signed_as") : r \in {x \in DOMAIN verdict : verdict[x] = "verified"}}

\* verify_graph_signatures over some RPMs: a verdict is recorded, "unavailable" is not;
\* the signature nodes of a verified RPM are marked.
VerifySignatures(verdict) ==
  /\ Step
  /\ LET told == {r \in DOMAIN verdict : verdict[r] # "unavailable"}
     IN  /\ graph' = [graph EXCEPT !.nodes =
               [id \in DOMAIN @ |->
                  IF id \in told THEN [@[id] EXCEPT !.signed = (verdict[id] = "verified")]
                  ELSE IF id \in MarkedSignatures(verdict) THEN [@[id] EXCEPT !.verified = TRUE]
                  ELSE @[id]]]
         /\ verifiedOnce' = verifiedOnce \cup {r \in told : verdict[r] = "verified"}
         /\ lastVerdict' = [r \in DOMAIN lastVerdict \cup told |->
                              IF r \in told THEN verdict[r] ELSE lastVerdict[r]]
  /\ UNCHANGED hashesVerified

\* An SBOM of the build describes an RPM.
AttachSbom(rpm) ==
  /\ Step
  /\ graph' = With(graph, [id \in {<<"sbom">>} |-> Plain], {<<rpm, <<"sbom">>, "described_by">>})
  /\ UNCHANGED <<verifiedOnce, lastVerdict, hashesVerified>>

\* A source of errata knows an advisory of an RPM, or none.
AttachErrata(rpm, advisory) ==
  /\ Step
  /\ graph' = IF advisory
              THEN With(graph, [id \in {<<"errata">>} |-> Plain], {<<rpm, <<"errata">>, "fixes">>})
              ELSE [graph EXCEPT !.nodes[rpm].clean = TRUE]
  /\ UNCHANGED <<verifiedOnce, lastVerdict, hashesVerified>>

Verdict == {"verified", "nokey", "failed", "unavailable"}

Next ==
  \/ AddBuild \/ AddTask
  \/ \E verified \in SUBSET {id \in DOMAIN graph.nodes : IsCas(id)} : VerifyCas(verified)
  \/ \E rpms \in SUBSET Rpms(graph) : \E verdict \in [rpms -> Verdict] : VerifySignatures(verdict)
  \/ \E rpm \in Rpms(graph) : AttachSbom(rpm)
  \/ \E rpm \in Rpms(graph), advisory \in BOOLEAN : AttachErrata(rpm, advisory)

Spec == Init /\ [][Next]_vars

----------------------------------------------------------------------------
(* Properties *)

\* What each relation connects.
Schema ==
  [ stored_in |-> {<<"source", "repo">>}, points_to |-> {<<"repo", "commit">>},
    authenticated_by |-> {<<"commit", "cas">>, <<"rpm", "artifact cas">>},
    built_by |-> {<<"cas", "build">>, <<"cas", "task">>}, derived_from |-> {<<"build", "task">>},
    produces |-> {<<"task", "rpm">>, <<"task", "srpm">>}, released_to |-> {<<"rpm", "release">>},
    signed_as |-> {<<"rpm", "signature">>}, described_by |-> {<<"rpm", "sbom">>},
    fixes |-> {<<"rpm", "errata">>} ]

\* Every edge joins nodes of the graph, of the kinds its relation is for.
TypeOK ==
  /\ next \in 0 .. Len(doc.tasks) + 1 /\ steps \in 0 .. MaxSteps
  /\ \A e \in graph.edges :
       /\ {e[1], e[2]} \subseteq DOMAIN graph.nodes
       /\ e[3] \in DOMAIN Schema /\ <<Kind(e[1]), Kind(e[2])>> \in Schema[e[3]]

Own(artifact) == TaskRef(artifact[2])
Others(artifact) == {TaskRef(u) : u \in Tasks} \cup {build}

\* decisions.md D36: "trust-path now report[s] the correct source per binary".  Every
\* artifact's path leads through its own task to a source.  It shows the artifact's own
\* commit unless another commit of the package has the same CAS hash, its own repository
\* unless another one has the same commit, and its own package unless another package is
\* in the same repository; and the SLSA statement names what the path shows.
PathIsOwn ==
  \A a \in Artifacts(graph) :
    LET path == SourceToArtifactPath(graph, a)
        own  == Own(a)
        sameCas    == {o \in Others(a) : o.package = own.package /\ Or(o.cas, o.commit) = Or(own.cas, own.commit)}
        sameCommit == {o \in Others(a) : o.package = own.package /\ o.commit = own.commit}
        sameRepo   == {o \in Others(a) : o.repo = own.repo}
    IN  /\ Len(path) = 6 /\ path[5] = TaskId(a[2]) /\ path[4] = Chain(own).cas
        /\ (\A o \in sameCas : o.commit = own.commit) =>
             /\ path[3] = CommitId(own.package, own.commit)
             /\ (\A o \in sameCommit : o.repo = own.repo) =>
                  /\ path[2] = RepoId(own.repo)
                  /\ (\A o \in sameRepo : o.package = own.package) => path[1] = SourceId(own.package)
        /\ a \in Rpms(graph) =>
             LET statement == SlsaProvenance(graph, a)
             IN  statement.digest = doc.tasks[a[2]].rpms[a[3]]
                 /\ statement.commit = {path[3][3]} /\ statement.repo = {path[2][2]}

\* The two readings of the document and the graph made of it tell the same times and the
\* same artifacts: a measured interval is counted once, in one step; the totals are those
\* of the Gantt rows, which lie as far apart as they were in time; a task shows as many
\* artifacts as it produces in the graph, and each is in one arch of the inventory.  Two
\* builds with a task for each arch compare as equal only if the tasks took as long.
TimesAgree ==
  LET tasks  == doc.tasks
      items  == Timeline(tasks)
      rows   == GanttRows(items)
      totals == Totals(tasks)
      Sum(ids) == MapThenSumSet(LAMBDA id : rows[id].duration, ids)
      dated  == {id \in DOMAIN items : items[id].started # None}
      InArch(g) == InventoryByArch(g, [id \in {TaskId(t) : t \in Tasks} |-> tasks[id[2]].arch])
      same   == {d \in Documents : d.tasks[1] = tasks[1]}
      OneEach(d) == \A t, u \in DOMAIN d.tasks : d.tasks[t].arch = d.tasks[u].arch => t = u
  IN  /\ next = 0 =>   \* of the document, which stays as it is
           /\ \A t \in Tasks : \A p \in DOMAIN tasks[t].stats :
                tasks[t].stats[p].delta # None =>
                  Cardinality({q \in TimingSteps(tasks[t].stats) : IsPrefix(q, p)}) = 1
           /\ \A name \in DOMAIN totals.steps :
                totals.steps[name] = Sum({id \in DOMAIN rows : Len(id) = 3 /\ id[2] = "step" /\ id[3] = name})
           /\ totals.aggregate = Sum({<<t>> : t \in Tasks})
           /\ \E t \in Tasks : totals.critical = rows[<<t>>].duration
           /\ \A a, b \in dated : rows[a].offset - rows[b].offset = items[a].started - items[b].started
           /\ dated # {} => \E a \in dated : rows[a].offset = 0
           /\ \A d \in same :
                LET changes == CompareBuildTimings(tasks, d.tasks)
                    back    == CompareBuildTimings(d.tasks, tasks)
                IN  /\ back = [removed |-> changes.added, added |-> changes.removed, changed |-> changes.changed]
                    /\ OneEach(doc) /\ OneEach(d) /\ Range(changes) = {{}} =>
                         {<<tasks[t].arch, TaskTimingState(tasks[t])>> : t \in Tasks}
                           = {<<d.tasks[t].arch, TaskTimingState(d.tasks[t])>> : t \in DOMAIN d.tasks}
      /\ steps = 0 =>  \* evidence leaves what was produced alone
           /\ \A t \in Tasks : next > t =>
                Cardinality({i \in Inventory(graph) : i[1] = TaskId(t)}) = Produced(tasks[t])
           /\ \A a \in Artifacts(graph) :
                Cardinality({arch \in DOMAIN InArch(graph) : a \in InArch(graph)[arch]}) = 1

\* A report tells one story: a complete one shows a whole path through a CAS node that
\* has the evidence; and the focused graph, or the graph of the RPM's source, which are
\* what a user looks at, give the RPM the report that the whole graph gives.
ReportAgrees(report, rpm) ==
  /\ report.provenance = {} => Len(report.path) = 6 /\ HasCasEvidence(graph, report.path[4])
  /\ TrustPathReport(FocusedTrustGraph(graph, rpm), rpm) = report
  /\ TrustPathReport(SourceBuildSubgraph(graph, report.path[1]), rpm) = report

TrustReportsAgree == \A rpm \in Rpms(graph) : ReportAgrees(TrustPathReport(graph, rpm), rpm)

ReportsAgree == TrustReportsAgree /\ TimesAgree

\* lineage.py:7-14: artifacts are scoped per task, so every artifact is attributed to
\* one source of the graph and to no other, aggregate node or not.
LineageIsPartition ==
  \A a \in Artifacts(graph) :
    \E source \in DOMAIN graph.nodes : Kind(source) = "source" /\
      {id \in {s \in DOMAIN graph.nodes : Kind(s) = "source"} : a \in ArtifactsFromSource(graph, id)}
        = {source}

\* The path and the attribution, the two answers to where an artifact comes from.
OriginIsOwn == PathIsOwn /\ LineageIsPartition

\* cas.py:10-13 and rpmsig.py:13-15: "Only a successful verification flips": whatever
\* the order of the runs, an RPM has its last verdict, a signature node is marked only
\* if an RPM it signs was verified once, a CAS node only if its own hash was.
MarksAreEarned ==
  /\ TypeOK
  /\ \A rpm \in Rpms(graph) :
       graph.nodes[rpm].signed = (IF rpm \in DOMAIN lastVerdict THEN lastVerdict[rpm] = "verified" ELSE None)
  /\ \A id \in DOMAIN graph.nodes :
       /\ Kind(id) = "signature" /\ graph.nodes[id].verified =>
            Incoming(graph, id, "signed_as") \cap verifiedOnce # {}
       /\ IsCas(id) /\ graph.nodes[id].verified => graph.nodes[id].hash \in hashesVerified
=============================================================================
