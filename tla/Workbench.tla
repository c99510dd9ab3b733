------------------------------ MODULE Workbench ------------------------------
(***************************************************************************)
(* The desktop workbench around its analyses (albs_graph/gui/qt_app.py):   *)
(* the handlers that start one (run_analysis and what leads to it), the    *)
(* QRunnables that carry them out on Qt's thread pool, and the slots that  *)
(* take their signals.  Handlers and slots run on the GUI thread, one at a *)
(* time; workers run beside them, and their signals queue up until the GUI *)
(* thread takes them.                                                      *)
(*                                                                         *)
(* The source and SBOM fields hold files, whose names may tell the build   *)
(* they are of (build-<id>...).  An analysis result is the job that made   *)
(* it; a source file is of the build its name tells, and of an unknown one *)
(* if its name tells none.                                                 *)
(***************************************************************************)
EXTENDS Naturals, Sequences, FiniteSets, SequencesExt

CONSTANTS Build,
          None,          \* an empty field, and what a name tells that has no number
          Unknown,       \* the build of a source file whose name tells none
          Text,          \* a text in the build id field that is not a number
          Source, Sbom,  \* metadata and SBOM files
          BuildOfName,   \* what their names tell (_build_id_from_path)
          Place,         \* where an SBOM is: beside the source of its build, or in its
                         \* parent; in examples; or where no search looks
          SourceFiles,   \* the sources that are on disk
          FirstSboms,    \* the SBOMs that are on disk when the window opens
          HasCas,        \* the cas tool is on this host
          SessionOf,     \* saved session files: [source, buildId, sbom, artifact]
          PoolSize,      \* threads of the pool
          MaxJobs,       \* bound: analyses started
          MaxChanges     \* bound: SBOM files that come and go, build ids typed

IdField == Build \cup {None, Text}
SourceField == Source \cup {None}
SbomField == Sbom \cup {None}
Sessions == DOMAIN SessionOf

ASSUME PoolAssumption == PoolSize \in Nat \ {0} /\ MaxJobs \in Nat
ASSUME NamesAssumption ==
  /\ None \notin Build \cup Source \cup Sbom \cup {Text, Unknown}
  /\ Text \notin Build /\ Unknown \notin Build
ASSUME FilesAssumption ==
  /\ SourceFiles \subseteq Source /\ FirstSboms \subseteq Sbom /\ HasCas \in BOOLEAN
  /\ BuildOfName \in [Source \cup Sbom -> Build \cup {None}]
  /\ Place \in [Sbom -> {"beside", "examples", "elsewhere"}]
ASSUME SessionAssumption ==
  /\ SessionOf \in [Sessions -> [ source : SourceField, buildId : IdField,
                                  sbom : SbomField, artifact : Build ]]
  /\ None \notin Sessions

JobNumber == 1 .. MaxJobs
Outcome == {"finished", "failed", "not found"}

VARIABLES entry,     \* build_id_edit and source_edit
          sbom,      \* build_sbom_edit
          flags,     \* _deep_fetch, _pending_cas and _pending_refresh
          jobs,      \* the AnalysisWorkers started so far
          events,    \* their signals that the GUI thread has not taken yet
          active,    \* _active_worker
          result,    \* the analysis the window shows, 0 before the first
          label,     \* progress_label
          pending,   \* pending_session
          selection, \* what is selected: "first" artifact or the one the session "saved"
          catalog,   \* analysed builds recorded in the catalog, with whose packages
          closed,
          sbomFiles, changes, \* the SBOM files on disk; changes made by hand
          clicks,    \* clicks on the ALBS badge, counted up to MaxJobs
          patient    \* the user has waited for each analysis before going on

vars == <<entry, sbom, flags, jobs, events, active, result, label, pending, selection,
          catalog, closed, sbomFiles, changes, clicks, patient>>

Entry == [buildId : IdField, source : SourceField]
Flags == [deep : BOOLEAN, cas : BOOLEAN, refresh : BOOLEAN]
Job == [ build : Build \cup {Unknown}, live : BOOLEAN, sbom : SbomField, deep : BOOLEAN, cas : BOOLEAN,
         refresh : BOOLEAN, state : {"queued", "running", "emitted", "taken", "dropped"},
         connected : SUBSET Outcome ]

TypeOK ==
  /\ entry \in Entry /\ sbom \in SbomField /\ flags \in Flags
  /\ jobs \in Seq(Job) /\ Len(jobs) <= MaxJobs
  /\ events \in Seq(JobNumber \X Outcome)
  /\ active \in 0 .. MaxJobs /\ result \in 0 .. MaxJobs
  /\ label \in {"", "analyzing", "complete", "failed", "not found"}
  /\ pending \in Sessions \cup {None} /\ selection \in {"", "first", "saved"}
  /\ catalog \in [Build -> Build \cup {None, Unknown}]
  /\ closed \in BOOLEAN
  /\ sbomFiles \subseteq Sbom /\ clicks \in 0 .. MaxJobs /\ patient \in BOOLEAN

Init ==
  /\ entry = [buildId |-> None, source |-> None]
  /\ sbom = None
  /\ flags = [deep |-> FALSE, cas |-> FALSE, refresh |-> FALSE]
  /\ jobs = <<>> /\ events = <<>>
  /\ active = 0 /\ result = 0
  /\ label = "" /\ selection = "" /\ pending = None
  /\ catalog = [b \in Build |-> None]
  /\ closed = FALSE
  /\ sbomFiles = FirstSboms /\ changes = 0
  /\ clicks = 0 /\ patient = TRUE

\* The analyses on their way: in the pool, or their signal not taken yet.
Outstanding ==
  {j \in DOMAIN jobs : \/ jobs[j].state \in {"queued", "running"}
                       \/ \E i \in DOMAIN events : events[i][1] = j}

\* _current_build_id: the entered id, else the one the source path tells, if it does.
CurrentBuild(e) ==
  IF e.buildId # None THEN e.buildId
  ELSE IF e.source # None THEN BuildOfName[e.source] ELSE None

----------------------------------------------------------------------------
(* run_analysis, called with the fields e and s and the one-shot flags f *)

\* discover_build_sbom: of a build that is known, what lies beside its source, if that
\* is what is analysed, and in examples.
Found(build, live) ==
  {f \in sbomFiles : /\ build # None /\ BuildOfName[f] = build
                     /\ Place[f] = "examples" \/ (Place[f] = "beside" /\ ~live)}

\* _suggest_build_sbom: the source's directory and its parent come first.
Suggested(build, live) ==
  LET found == Found(build, live)
      first == {f \in found : Place[f] = "beside"}
  IN  IF found = {} THEN None
      ELSE IF first # {} THEN CHOOSE f \in first : TRUE ELSE CHOOSE f \in found : TRUE

\* The name of the SBOM tells a build, and not this one.
OfAnother(build, s) ==
  build # None /\ s # None /\ BuildOfName[s] \notin {None, build}

\* Mutant of _autofill_build_sbom: an SBOM that is entered is kept.
Autofill_Keeps(build, live, s) == IF s # None THEN s ELSE Suggested(build, live)

\* An SBOM of another build is dropped and the build's own looked for; one that is
\* consistent, or that cannot be told to be of another, is kept.
Autofill(build, live, s) ==
  IF s # None /\ ~OfAnother(build, s) THEN s ELSE Suggested(build, live)

\* _run_spec: an SBOM of another build is ignored.
UsedSbom(build, s) == IF OfAnother(build, s) THEN None ELSE s

\* _load_spec: int() of a text, no source at all, or one that is not there.
LoadRaises(e) == e.buildId = Text \/ (e.buildId = None /\ e.source \notin SourceFiles)

\* Mutant: a failed start leaves the one-shots of _run_spec set.
FlagsAfter_Kept(e, f) ==
  IF LoadRaises(e) THEN f
  ELSE [deep |-> FALSE, cas |-> FALSE, refresh |-> f.refresh /\ e.buildId = None]

\* _load_spec takes _pending_refresh for a build id only; the others are taken by
\* _run_spec, or cleared when _load_spec raises.
FlagsAfter(e, f) ==
  [deep |-> FALSE, cas |-> FALSE, refresh |-> f.refresh /\ e.buildId = None]

Start(job) ==
  /\ jobs' = Append(jobs, job)
  /\ active' = Len(jobs')
  /\ label' = "analyzing"

RunAnalysis(e, s, f) ==
  LET build == CurrentBuild(e)
      live  == e.buildId # None
      field == IF LoadRaises(e) THEN s ELSE Autofill(build, live, s)
  IN  /\ ~closed /\ Len(jobs) < MaxJobs
      /\ patient' = (patient /\ Outstanding = {})
      /\ entry' = e
      /\ flags' = FlagsAfter(e, f)
      /\ sbom' = field
      /\ IF LoadRaises(e) \/ (field # None /\ field \notin sbomFiles)
         THEN UNCHANGED <<jobs, active, label>> \* ValueError: an error box
         ELSE Start([ build |-> IF build = None THEN Unknown ELSE build, live |-> live,
                      sbom |-> UsedSbom(build, field),
                      deep |-> f.deep, cas |-> f.cas, refresh |-> f.refresh /\ live,
                      state |-> "queued", connected |-> Outcome ])

Elsewhere == UNCHANGED <<events, result, selection, catalog, closed, sbomFiles, changes>>

FetchAll == [flags EXCEPT !.deep = TRUE]

\* browse_builds, inspect_build_id_verified: a chosen id, everything fetched.
ChooseBuild(b) ==
  /\ RunAnalysis([buildId |-> b, source |-> None], sbom, FetchAll)
  /\ Elsewhere /\ UNCHANGED <<pending, clicks>>

\* open_source, and run_full_inspection when it has loaded its cache.
OpenSource(file) ==
  /\ RunAnalysis([buildId |-> None, source |-> file], sbom, flags)
  /\ Elsewhere /\ UNCHANGED <<pending, clicks>>

\* _analyze_or_fetch_all, the toolbar's Analyze.
Analyze ==
  /\ RunAnalysis(entry, sbom, IF entry.buildId # None THEN FetchAll ELSE flags)
  /\ Elsewhere /\ UNCHANGED <<pending, clicks>>

\* _fetch_source: a click on the badge of one source; CAS needs its tool.
FetchSource(name) ==
  /\ CurrentBuild(entry) # None /\ (name = "CAS" => HasCas)
  /\ RunAnalysis(entry, IF name = "SBOM" THEN None ELSE sbom,
                 CASE name = "ALBS" -> [flags EXCEPT !.refresh = TRUE]
                   [] name = "CAS"  -> [flags EXCEPT !.cas = TRUE]
                   [] OTHER         -> flags)
  /\ clicks' = IF name = "ALBS" /\ clicks < MaxJobs THEN clicks + 1 ELSE clicks
  /\ Elsewhere /\ UNCHANGED pending

LoadSession(s) ==
  /\ RunAnalysis([buildId |-> SessionOf[s].buildId, source |-> SessionOf[s].source],
                 SessionOf[s].sbom, flags)
  /\ pending' = s
  /\ Elsewhere /\ UNCHANGED clicks

\* The user types in the build id field, which starts nothing.
TypeBuildId(b) ==
  /\ ~closed /\ b # entry.buildId /\ changes < MaxChanges
  /\ changes' = changes + 1
  /\ entry' = [entry EXCEPT !.buildId = b]
  /\ patient' = (patient /\ Outstanding = {})
  /\ UNCHANGED <<sbom, flags, jobs, events, active, result, label, pending, selection,
                 catalog, closed, sbomFiles, clicks>>

\* open_build_sbom only fills the field.
OpenSbom(f) ==
  /\ ~closed /\ f \in sbomFiles
  /\ sbom' = f
  /\ UNCHANGED <<entry, flags, jobs, events, active, result, label, pending, selection,
                 catalog, closed, sbomFiles, changes, clicks, patient>>

\* SBOM files are made by run.sh and removed by the user.
ChangeSbomFile(f) ==
  /\ changes < MaxChanges
  /\ changes' = changes + 1
  /\ sbomFiles' = IF f \in sbomFiles THEN sbomFiles \ {f} ELSE sbomFiles \cup {f}
  /\ UNCHANGED <<entry, sbom, flags, jobs, events, active, result, label, pending, selection,
                 catalog, closed, clicks, patient>>

----------------------------------------------------------------------------
(* AnalysisWorker.run on the thread pool *)

WorkerOnly == UNCHANGED <<entry, sbom, flags, active, result, label, pending, selection,
                          catalog, closed, sbomFiles, changes, clicks, patient>>

InState(state) == {j \in DOMAIN jobs : jobs[j].state = state}

\* The pool starts its work in the order it was given, as threads become free.
Begin(j) ==
  /\ Cardinality(InState("running")) < PoolSize
  /\ j \in InState("queued") /\ \A i \in InState("queued") : j <= i
  /\ jobs' = [jobs EXCEPT ![j].state = "running"]
  /\ WorkerOnly /\ UNCHANGED events

\* Mutant of AnalysisWorker.run: an exception ends it without a signal.
WorkerEnds_Silent(j, outcome) ==
  /\ j \in InState("running")
  /\ outcome = "not found" => jobs[j].live
  /\ jobs' = [jobs EXCEPT ![j].state = "emitted"]
  /\ events' = IF outcome \in jobs[j].connected \ {"failed"} THEN Append(events, <<j, outcome>>) ELSE events
  /\ WorkerOnly

\* Every way out of run() emits one signal; a missing build is told from a failure
\* only for a build id.
WorkerEnds(j, outcome) ==
  /\ j \in InState("running")
  /\ outcome = "not found" => jobs[j].live
  /\ jobs' = [jobs EXCEPT ![j].state = "emitted"]
  /\ events' = IF outcome \in jobs[j].connected THEN Append(events, <<j, outcome>>) ELSE events
  /\ WorkerOnly

----------------------------------------------------------------------------
(* The slots *)

Take == /\ events # <<>>
        /\ events' = Tail(events)
        /\ jobs' = [jobs EXCEPT ![Head(events)[1]].state = "taken"]
        /\ UNCHANGED <<entry, flags, active, closed, sbomFiles, changes, clicks, patient>>

\* _record_analyzed_build: the build id is the fields', if it is a number; the packages
\* are the result's.
RecordBuild(id, j) ==
  catalog' = IF id \notin Build THEN catalog ELSE [catalog EXCEPT ![id] = jobs[j].build]

\* _apply_pending_session selects what was saved; without a session the first row.
ApplySession(j) ==
  IF pending = None
  THEN selection' = "first" /\ UNCHANGED <<sbom, pending>>
  ELSE /\ sbom' = SessionOf[pending].sbom
       /\ selection' = IF SessionOf[pending].artifact = jobs[j].build THEN "saved" ELSE "first"
       /\ pending' = None

Show(shown, id, j) ==
  /\ result' = shown
  /\ label' = "complete"
  /\ RecordBuild(id, j)
  /\ ApplySession(j)

\* Mutant of _analysis_finished: records under the build the source field names.
AnalysisFinished_SourceFirst ==
  /\ Take /\ Head(events)[2] = "finished"
  /\ Show(Head(events)[1],
          CurrentBuild([entry EXCEPT !.buildId = IF entry.source # None THEN None ELSE @]),
          Head(events)[1])

\* Mutant: never replaces a result that is shown.
AnalysisFinished_KeepsFirst ==
  /\ Take /\ Head(events)[2] = "finished"
  /\ Show(IF result = 0 THEN Head(events)[1] ELSE result, CurrentBuild(entry), Head(events)[1])

\* _analysis_finished: show the result, record its build, apply the session that waits.
AnalysisFinished ==
  /\ Take /\ Head(events)[2] = "finished"
  /\ Show(Head(events)[1], CurrentBuild(entry), Head(events)[1])

\* Mutant: only _analysis_failed touches the status bar.
AnalysisEndedOtherwise_KeepsLabel ==
  /\ Take /\ Head(events)[2] # "finished"
  /\ label' = IF Head(events)[2] = "failed" THEN "failed" ELSE label
  /\ UNCHANGED <<sbom, result, selection, pending, catalog>>

\* _analysis_failed and _build_not_found: what is shown stays.
AnalysisEndedOtherwise ==
  /\ Take /\ Head(events)[2] # "finished"
  /\ label' = Head(events)[2]
  /\ UNCHANGED <<sbom, result, selection, pending, catalog>>

\* Mutant: deliveries that are queued survive the closing.
Close_KeepsEvents ==
  /\ ~closed
  /\ closed' = TRUE
  /\ jobs' = [j \in DOMAIN jobs |->
                [jobs[j] EXCEPT !.connected = IF j = active THEN @ \ {"finished", "failed"} ELSE @,
                                !.state = IF @ = "queued" THEN "dropped" ELSE @]]
  /\ UNCHANGED <<entry, sbom, flags, events, active, result, label, pending, selection, catalog,
                 sbomFiles, changes, clicks, patient>>

\* A delivery that waits, of a signal of the last worker that closing disconnects.
Detachable(e) == e[1] = active /\ e[2] # "not found"

\* closeEvent: three of the four signals of the last worker are disconnected (their
\* queued deliveries go with them, one at most as a run emits one signal), queued work
\* is dropped.
Close ==
  /\ ~closed
  /\ closed' = TRUE
  /\ jobs' = [j \in DOMAIN jobs |->
                [jobs[j] EXCEPT !.connected = IF j = active THEN @ \ {"finished", "failed"} ELSE @,
                                !.state = IF @ = "queued" THEN "dropped" ELSE @]]
  /\ events' = IF \E i \in DOMAIN events : Detachable(events[i])
               THEN RemoveAt(events, CHOOSE i \in DOMAIN events : Detachable(events[i]))
               ELSE events
  /\ UNCHANGED <<entry, sbom, flags, active, result, label, pending, selection, catalog,
                 sbomFiles, changes, clicks, patient>>

User ==
  \/ \E b \in Build : ChooseBuild(b)
  \/ \E file \in SourceFiles : OpenSource(file)
  \/ Analyze
  \/ \E name \in {"ALBS", "errata", "SBOM", "CAS"} : FetchSource(name)
  \/ \E s \in Sessions : LoadSession(s)
  \/ \E b \in IdField : TypeBuildId(b)
  \/ \E f \in Sbom : OpenSbom(f)
  \/ Close

Pool ==
  \/ \E j \in JobNumber : Begin(j)
  \/ \E j \in JobNumber, outcome \in Outcome : WorkerEnds(j, outcome)

Slots == AnalysisFinished \/ AnalysisEndedOtherwise

Next == User \/ Pool \/ Slots \/ \E f \in Sbom : ChangeSbomFile(f)

\* The pool runs what it was given, a fetch ends (every request has a timeout), and
\* the event loop takes what is queued.
Fairness == WF_vars(Pool) /\ WF_vars(Slots)

Spec == Init /\ [][Next]_vars
FairSpec == Spec /\ Fairness

----------------------------------------------------------------------------
(* Properties *)

\* The one-shots of a click are used up by that click's run, also when the run
\* cannot start: no later run fetches everything or verifies CAS unasked.
\* One click on the ALBS badge forces one refetch at most, whichever run takes it.
OneShotsAreSpent ==
  /\ ~flags.deep /\ ~flags.cas
  /\ Cardinality({j \in DOMAIN jobs : jobs[j].refresh}) <= clicks

\* _autofill_build_sbom: "switching builds does not get stuck" on another build's SBOM
\* (gui/qt_app.py:1940).  A run that starts uses what the field then shows, which is on
\* disk and which its name does not tell to be of another build; and it uses none only if
\* the build's own is in none of the places where it is looked for.
SbomFollowsBuild ==
  [][Len(jobs') > Len(jobs) =>
       LET job == jobs'[Len(jobs')]
       IN  /\ sbom' = job.sbom
           /\ job.sbom # None =>
                job.sbom \in sbomFiles /\ (BuildOfName[job.sbom] \in {None, job.build} \/ job.build = Unknown)
           /\ job.sbom = None => Found(job.build, job.live) = {}]_vars

\* The status bar does not say "Analyzing..." when nothing is on its way any more.
AnalyzingIsTrue == TypeOK /\ (label = "analyzing" /\ ~closed => Outstanding # {})

\* The window shows an analysis that finished, and what the catalog knows of a build
\* came from a result that was shown.
ResultFinished ==
  /\ result # 0 => jobs[result].state = "taken"
  /\ \A b \in Build : catalog[b] # None =>
       \E j \in DOMAIN jobs : jobs[j].build = catalog[b] /\ jobs[j].state = "taken"

\* Every analysis comes to an end the user sees, unless the window is closed.
AnalysesEnd == \A j \in JobNumber : (j \in InState("queued")) ~> (closed \/ j \in InState("taken"))

\* qt_app.py:1747: "Remember a build the user actually analyzed": a build is recorded
\* with what an analysis of that build found.
RecordedIsAnalyzed == \A b \in Build : catalog[b] \in {None, b}

\* What the window says is so: the status bar says "Analyzing..." only while something
\* is on its way, and what is shown and recorded comes from analyses that finished.  For
\* a user who waits for each analysis it shows the last one, and records each build as
\* what it is; the build id is read from fields that others may have changed meanwhile.
LastFinishedIsShown ==
  /\ AnalyzingIsTrue /\ ResultFinished
  /\ patient => /\ Outstanding = {} /\ label = "complete" => result = Len(jobs)
                /\ RecordedIsAnalyzed

\* qt_app.py:3410-3412: "detach its signals so a late emit does not target the
\* half-destroyed window": once the window is closed, neither the outcome of the last
\* worker nor its failure reaches the slots, running or queued at that time.
ClosedWindowIsLeftAlone ==
  [][closed /\ events # <<>> /\ events' = Tail(events) =>
       Head(events)[1] # active \/ Head(events)[2] = "not found"]_vars
=============================================================================
