--------------------------- MODULE Workbench_proofs ---------------------------
(***************************************************************************)
(* What holds of the workbench around its analyses for any builds, files   *)
(* and sessions, any pool and any number of analyses.                      *)
(***************************************************************************)
EXTENDS Workbench, FiniteSetTheorems, TLAPS

USE PoolAssumption, FilesAssumption, SessionAssumption
-----------------------------------------------------------------------------
\* The last worker is the active one; a signal that waits is the only one of its job.
SignalsAreSingle ==
  /\ active = Len(jobs)
  /\ \A i \in DOMAIN events : /\ events[i][1] \in DOMAIN jobs
                              /\ jobs[events[i][1]].state = "emitted"
  /\ \A i, k \in DOMAIN events : events[i][1] = events[k][1] => i = k

\* Workers are connected until the window closes; then nothing of the last one waits
\* or comes, unless it finds no build.
ClosingDetaches ==
  /\ ~closed => \A j \in DOMAIN jobs : jobs[j].connected = Outcome
  /\ closed => /\ \A i \in DOMAIN events : ~Detachable(events[i])
               /\ \A j \in DOMAIN jobs : j = active => jobs[j].connected \subseteq {"not found"}

\* What is shown and recorded is of jobs there are.
ShownIsTaken ==
  /\ result \in 0 .. Len(jobs)
  /\ ResultFinished

\* The build of an analysis of what is entered, if its name tells one.
AnalyzedBuild(e) == IF CurrentBuild(e) = None THEN Unknown ELSE CurrentBuild(e)

\* A user who waits has one analysis on its way at most, the one of the build entered.
PatienceHelps ==
  patient => /\ \A j \in Outstanding : j = Len(jobs) /\ jobs[j].build = AnalyzedBuild(entry)
             /\ label = "complete" => result = Len(jobs)
             /\ RecordedIsAnalyzed

Refetches == {j \in DOMAIN jobs : jobs[j].refresh}

\* A click that no run has taken yet counts with those that were taken.
ClicksCount ==
  /\ ~flags.deep /\ ~flags.cas
  /\ clicks = MaxJobs \/ Cardinality(Refetches) + (IF flags.refresh THEN 1 ELSE 0) <= clicks

WorkbenchInv ==
  /\ TypeOK
  /\ SignalsAreSingle
  /\ ClosingDetaches
  /\ AnalyzingIsTrue
  /\ ShownIsTaken
  /\ PatienceHelps
  /\ ClicksCount
-----------------------------------------------------------------------------
(* run_analysis *)

\* What is suggested is a file that was found, and none only if nothing was.
LEMMA SuggestedFacts ==
  ASSUME sbomFiles \subseteq Sbom, NEW build, NEW live
  PROVE  /\ Suggested(build, live) \in Found(build, live) \cup {None}
         /\ Suggested(build, live) = None => Found(build, live) = {}
<1>1. None \notin Found(build, live)
  BY NamesAssumption DEF Found
<1> DEFINE found == Found(build, live)
           first == {f \in found : Place[f] = "beside"}
<1>2. Suggested(build, live) = IF found = {} THEN None
                               ELSE IF first # {} THEN CHOOSE f \in first : TRUE
                               ELSE CHOOSE f \in found : TRUE
  BY DEF Suggested
<1>3. first \subseteq found
  OBVIOUS
<1> HIDE DEF first
<1>4. first # {} => (CHOOSE f \in first : TRUE) \in found
  BY <1>3
<1>5. found # {} => (CHOOSE f \in found : TRUE) \in found
  OBVIOUS
<1> QED  BY <1>1, <1>2, <1>4, <1>5

\* The field after a run that can start: it is not of another build, and it is empty only
\* if nothing was found.
LEMMA AutofillFacts ==
  ASSUME sbomFiles \subseteq Sbom, NEW build, NEW live, NEW s \in SbomField
  PROVE  LET field == Autofill(build, live, s)
         IN  /\ field \in SbomField
             /\ ~OfAnother(build, field) /\ UsedSbom(build, field) = field
             /\ field = None => Found(build, live) = {}
<1> DEFINE field == Autofill(build, live, s)
<1>1. CASE s # None /\ ~OfAnother(build, s)
  BY <1>1 DEF Autofill, UsedSbom
<1>2. CASE ~(s # None /\ ~OfAnother(build, s))
  <2>1. field = Suggested(build, live)
    BY <1>2 DEF Autofill
  <2> HIDE DEF field
  <2>2. field \in Found(build, live) \cup {None} /\ (field = None => Found(build, live) = {})
    BY <2>1, SuggestedFacts
  <2>3. field \in SbomField
    BY <2>2 DEF Found, SbomField
  <2>4. ~OfAnother(build, field)
    BY <2>2 DEF Found, OfAnother
  <2> QED  BY <2>2, <2>3, <2>4 DEF UsedSbom, field
<1> QED  BY <1>1, <1>2

\* The SBOM of the job that a run starts (SbomFollowsBuild).
Suits(job) ==
  /\ sbom' = job.sbom
  /\ job.sbom # None =>
       job.sbom \in sbomFiles /\ (BuildOfName[job.sbom] \in {None, job.build} \/ job.build = Unknown)
  /\ job.sbom = None => Found(job.build, job.live) = {}

\* A run starts one job, of the entered build, with an SBOM that suits it, or it starts
\* none.
LEMMA RunStarts ==
  ASSUME NEW e \in Entry, NEW s \in SbomField, NEW f \in Flags, RunAnalysis(e, s, f),
         jobs \in Seq(Job), sbomFiles \subseteq Sbom
  PROVE  \/ UNCHANGED <<jobs, active, label>>
         \/ \E job \in Job :
              /\ jobs' = Append(jobs, job)
              /\ active' = Len(jobs) + 1 /\ label' = "analyzing"
              /\ job.build = AnalyzedBuild(e)
              /\ job.state = "queued" /\ job.connected = Outcome
              /\ job.refresh = (f.refresh /\ e.buildId # None)
              /\ Suits(job)
<1>1. CASE LoadRaises(e)
  BY <1>1 DEF RunAnalysis
<1>2. CASE ~LoadRaises(e)
  <2> DEFINE build == CurrentBuild(e)
             live == e.buildId # None
             field == Autofill(build, live, s)
             job == [ build |-> AnalyzedBuild(e), live |-> live,
                      sbom |-> UsedSbom(build, field),
                      deep |-> f.deep, cas |-> f.cas, refresh |-> f.refresh /\ live,
                      state |-> "queued", connected |-> Outcome ]
  <2>1. build \in Build \cup {None}
    BY <1>2 DEF LoadRaises, CurrentBuild, Entry, IdField, SourceField
  <2>2. /\ field \in SbomField /\ ~OfAnother(build, field)
        /\ UsedSbom(build, field) = field
        /\ field = None => Found(build, live) = {}
    <3> HIDE DEF build, live
    <3> QED  BY AutofillFacts
  <2>3. sbom' = field
    BY <1>2 DEF RunAnalysis
  <2>4. CASE field # None /\ field \notin sbomFiles
    BY <1>2, <2>4 DEF RunAnalysis
  <2>5. CASE ~(field # None /\ field \notin sbomFiles)
    <3>1. Start(job)
      BY <1>2, <2>5 DEF RunAnalysis, AnalyzedBuild
    <3> HIDE DEF field
    <3>2. job \in Job /\ AnalyzedBuild(e) \in Build \cup {Unknown}
      <4>1. AnalyzedBuild(e) \in Build \cup {Unknown}
        BY <2>1 DEF AnalyzedBuild
      <4> HIDE DEF build
      <4> QED  BY <2>2, <4>1 DEF Job, Flags, Outcome
    <3>3. jobs' = Append(jobs, job) /\ active' = Len(jobs') /\ label' = "analyzing"
      BY <3>1 DEF Start
    <3>4. Len(jobs') = Len(jobs) + 1
      BY <3>2, <3>3
    <3>5. job.sbom = field /\ job.build = AnalyzedBuild(e) /\ job.live = live
      BY <2>2
    <3>6. Suits(job)
      <4>1. CASE build = None
        <5>1. job.build = Unknown
          BY <3>5, <4>1 DEF AnalyzedBuild
        <5>2. Found(Unknown, job.live) = {}
          BY NamesAssumption DEF Found
        <5> HIDE DEF job
        <5> QED  BY <2>3, <2>5, <3>5, <5>1, <5>2 DEF Suits
      <4>2. CASE build # None
        <5>1. job.build = build
          BY <3>5, <4>2 DEF AnalyzedBuild
        <5>2. field # None => BuildOfName[field] \in {None, build}
          BY <2>2, <4>2 DEF OfAnother
        <5> HIDE DEF job, live, build
        <5> QED  BY <2>2, <2>3, <2>5, <3>5, <5>1, <5>2 DEF Suits
      <4> QED  BY <4>1, <4>2
    <3>7. job.refresh = (f.refresh /\ e.buildId # None) /\ job.state = "queued" /\ job.connected = Outcome
      OBVIOUS
    <3> HIDE DEF job
    <3> QED  BY <3>2, <3>3, <3>4, <3>5, <3>6, <3>7
  <2> QED  BY <2>4, <2>5
<1> QED  BY <1>1, <1>2

\* The outstanding analyses after a run has started a job: that one besides.
LEMMA StartAdds ==
  ASSUME NEW job \in Job, jobs \in Seq(Job), jobs' = Append(jobs, job), job.state = "queued",
         UNCHANGED events, SignalsAreSingle
  PROVE  /\ Len(jobs') = Len(jobs) + 1
         /\ \A j \in DOMAIN jobs : jobs'[j] = jobs[j]
         /\ jobs'[Len(jobs) + 1] = job
         /\ DOMAIN jobs = 1 .. Len(jobs) /\ DOMAIN jobs' = 1 .. Len(jobs) + 1
         /\ Outstanding' = Outstanding \cup {Len(jobs) + 1}
<1>1. /\ Len(jobs') = Len(jobs) + 1
      /\ DOMAIN jobs = 1 .. Len(jobs) /\ DOMAIN jobs' = 1 .. Len(jobs) + 1
      /\ \A j \in DOMAIN jobs : jobs'[j] = jobs[j]
      /\ jobs'[Len(jobs) + 1] = job
  OBVIOUS
<1>2. \A i \in DOMAIN events : events[i][1] \in DOMAIN jobs
  BY DEF SignalsAreSingle
<1>3. \A j : j \in DOMAIN jobs' <=> j \in DOMAIN jobs \/ j = Len(jobs) + 1
  BY <1>1
<1>4. Len(jobs) + 1 \notin DOMAIN jobs
  BY <1>1
<1>5. Outstanding' = Outstanding \cup {Len(jobs) + 1}
  BY <1>1, <1>2, <1>3, <1>4 DEF Outstanding
<1> QED  BY <1>1, <1>5

\* There are no more refetches than jobs.
LEMMA RefetchesFinite ==
  ASSUME jobs \in Seq(Job), Len(jobs) <= MaxJobs
  PROVE  /\ IsFiniteSet(Refetches) /\ Cardinality(Refetches) \in Nat
         /\ Cardinality(Refetches) <= Len(jobs)
<1>n. Len(jobs) \in Nat /\ DOMAIN jobs = 1 .. Len(jobs)
  OBVIOUS
<1>1. IsFiniteSet(1 .. Len(jobs)) /\ Cardinality(1 .. Len(jobs)) = Len(jobs)
  <2>1. \A n \in Nat : IsFiniteSet(1 .. n) /\ Cardinality(1 .. n) = n
    BY FS_Interval
  <2> QED  BY <1>n, <2>1
<1>2. Refetches \in SUBSET (1 .. Len(jobs))
  BY <1>n DEF Refetches
<1>3. IsFiniteSet(Refetches) /\ Cardinality(Refetches) <= Cardinality(1 .. Len(jobs))
  BY <1>1, <1>2, FS_Subset
<1> QED  BY <1>1, <1>3, FS_CardinalityType

\* Whatever a click, a file or a session leads to, a run that is asked for with at most
\* one refetch per click keeps the invariant.
LEMMA RunKeeps ==
  ASSUME WorkbenchInv, NEW e \in Entry, NEW s \in SbomField, NEW f \in Flags,
         RunAnalysis(e, s, f), Elsewhere,
         pending' \in Sessions \cup {None}, clicks' \in 0 .. MaxJobs,
         \/ clicks' = MaxJobs
         \/ Cardinality(Refetches) + (IF f.refresh THEN 1 ELSE 0) <= clicks'
  PROVE  WorkbenchInv'
<1> USE DEF Elsewhere
<1>t. TypeOK
  BY DEF WorkbenchInv
<1>j. jobs \in Seq(Job) /\ Len(jobs) \in Nat /\ ~closed /\ Len(jobs) + 1 <= MaxJobs
  <2>1. jobs \in Seq(Job) /\ ~closed /\ Len(jobs) < MaxJobs
    BY <1>t DEF TypeOK, RunAnalysis
  <2>2. Len(jobs) \in Nat
    BY <2>1
  <2> QED  BY <2>1, <2>2
<1>s. SignalsAreSingle
  BY DEF WorkbenchInv
<1>f. /\ entry' = e /\ flags' = FlagsAfter(e, f)
      /\ patient' = (patient /\ Outstanding = {})
      /\ sbom' \in SbomField
  <2>1. sbomFiles \subseteq Sbom
    BY <1>t DEF TypeOK
  <2>2. Autofill(CurrentBuild(e), e.buildId # None, s) \in SbomField
    BY <2>1, AutofillFacts
  <2> QED  BY <2>2 DEF RunAnalysis
<1>g. /\ flags' \in Flags /\ ~flags'.deep /\ ~flags'.cas
      /\ flags'.refresh = (f.refresh /\ e.buildId = None)
  BY <1>f DEF FlagsAfter, Flags
<1>1. CASE UNCHANGED <<jobs, active, label>>
  <2>1. Outstanding' = Outstanding
    BY <1>1 DEF Outstanding
  <2>2. TypeOK'
    BY <1>t, <1>1, <1>f, <1>g DEF TypeOK
  <2>3. SignalsAreSingle'
    BY <1>s, <1>1 DEF SignalsAreSingle
  <2>4. ClosingDetaches'
    BY <1>1 DEF WorkbenchInv, ClosingDetaches, Detachable
  <2>5. AnalyzingIsTrue' /\ ShownIsTaken'
    BY <1>1, <2>1, <2>2 DEF WorkbenchInv, AnalyzingIsTrue, ShownIsTaken, ResultFinished
  <2>6. PatienceHelps'
    BY <1>1, <1>f, <2>1 DEF WorkbenchInv, PatienceHelps, RecordedIsAnalyzed
  <2>7. Refetches' = Refetches
    BY <1>1 DEF Refetches
  <2>8. ClicksCount'
    <3>1. Cardinality(Refetches) \in Nat
      BY <1>j, RefetchesFinite
    <3>2. CASE f.refresh
      BY <1>g, <2>7, <3>1, <3>2 DEF ClicksCount
    <3>3. CASE ~f.refresh
      <4>1. ~flags'.refresh
        BY <1>g, <3>3
      <4> QED  BY <1>g, <2>7, <3>1, <3>3, <4>1 DEF ClicksCount
    <3> QED  BY <3>2, <3>3
  <2> QED  BY <2>2, <2>3, <2>4, <2>5, <2>6, <2>8 DEF WorkbenchInv
<1>2. ASSUME NEW job \in Job,
             /\ jobs' = Append(jobs, job)
             /\ active' = Len(jobs) + 1 /\ label' = "analyzing"
             /\ job.build = AnalyzedBuild(e)
             /\ job.state = "queued" /\ job.connected = Outcome
             /\ job.refresh = (f.refresh /\ e.buildId # None)
      PROVE  WorkbenchInv'
  <2> DEFINE n == Len(jobs) + 1
  <2>0. /\ Len(jobs') = n /\ n \in Nat
        /\ DOMAIN jobs = 1 .. Len(jobs) /\ DOMAIN jobs' = 1 .. n
        /\ \A j \in DOMAIN jobs : jobs'[j] = jobs[j]
        /\ jobs'[n] = job
        /\ Outstanding' = Outstanding \cup {n}
    BY <1>j, <1>s, <1>2, StartAdds
  <2>1. /\ \A j : j \in DOMAIN jobs' <=> j \in DOMAIN jobs \/ j = n
        /\ n \notin DOMAIN jobs
    BY <2>0
  <2>2. TypeOK'
    <3>1. jobs' \in Seq(Job)
      BY <1>j, <1>2
    <3>2. active' \in 0 .. MaxJobs /\ Len(jobs') <= MaxJobs
      BY <1>2, <1>j, <2>0
    <3>3. entry' \in Entry /\ sbom' \in SbomField /\ flags' \in Flags /\ patient' \in BOOLEAN
      BY <1>t, <1>f, <1>g DEF TypeOK
    <3> QED  BY <1>t, <1>2, <3>1, <3>2, <3>3 DEF TypeOK
  <2> HIDE DEF n
  <2>3. SignalsAreSingle'
    BY <1>s, <1>2, <2>0, <2>1 DEF SignalsAreSingle, n
  <2>4. ClosingDetaches'
    BY <1>j, <1>2, <2>0, <2>1 DEF WorkbenchInv, ClosingDetaches
  <2>5. AnalyzingIsTrue' /\ ShownIsTaken'
    <3>1. AnalyzingIsTrue'
      BY <2>0, <2>2 DEF AnalyzingIsTrue
    <3>2. result \in 0 .. Len(jobs) /\ (result # 0 => result \in DOMAIN jobs)
      BY <2>0, <1>j DEF WorkbenchInv, ShownIsTaken
    <3>3. ResultFinished'
      BY <2>0, <2>1, <3>2 DEF WorkbenchInv, ShownIsTaken, ResultFinished
    <3>4. result' \in 0 .. Len(jobs')
      BY <2>0, <3>2, <1>j DEF n
    <3> QED  BY <3>1, <3>3, <3>4 DEF ShownIsTaken
  <2>6. PatienceHelps'
    <3>1. SUFFICES ASSUME patient'  PROVE  PatienceHelps'
      BY DEF PatienceHelps
    <3>2. Outstanding' = {n} /\ patient
      BY <1>f, <2>0, <3>1
    <3>3. AnalyzedBuild(entry)' = jobs'[n].build
      BY <1>2, <1>f, <2>0 DEF AnalyzedBuild, CurrentBuild
    <3>4. RecordedIsAnalyzed'
      BY <3>2 DEF WorkbenchInv, PatienceHelps, RecordedIsAnalyzed
    <3> QED  BY <1>2, <2>0, <3>2, <3>3, <3>4 DEF PatienceHelps
  <2>7. ClicksCount'
    <3>1. /\ IsFiniteSet(Refetches) /\ Cardinality(Refetches) \in Nat
          /\ Cardinality(Refetches) <= Len(jobs)
      BY <1>j, RefetchesFinite
    <3>2. Refetches' = IF job.refresh THEN Refetches \cup {n} ELSE Refetches
      BY <2>0, <2>1 DEF Refetches
    <3>3. n \notin Refetches
      BY <2>1 DEF Refetches
    <3>4. Cardinality(Refetches \cup {n}) = Cardinality(Refetches) + 1
      BY <3>1, <3>3, FS_AddElement
    <3>5. Cardinality(Refetches') + (IF flags'.refresh THEN 1 ELSE 0)
            = Cardinality(Refetches) + (IF f.refresh THEN 1 ELSE 0)
      BY <1>2, <1>g, <3>1, <3>2, <3>4 DEF Flags, Job
    <3> QED  BY <1>g, <3>5 DEF ClicksCount
  <2> QED  BY <2>2, <2>3, <2>4, <2>5, <2>6, <2>7 DEF WorkbenchInv
<1>3. sbomFiles \subseteq Sbom
  BY <1>t DEF TypeOK
<1> QED  BY <1>j, <1>1, <1>2, <1>3, RunStarts

\* Each handler that starts a run keeps the invariant: a refetch is asked for by a click.
LEMMA HandlersKeep ==
  ASSUME WorkbenchInv,
         \/ \E b \in Build : ChooseBuild(b)
         \/ \E b \in SourceFiles : OpenSource(b)
         \/ Analyze
         \/ \E name \in {"ALBS", "errata", "SBOM", "CAS"} : FetchSource(name)
         \/ \E s \in Sessions : LoadSession(s)
  PROVE  WorkbenchInv'
<1>t. /\ entry \in Entry /\ sbom \in SbomField /\ flags \in Flags /\ flags.refresh \in BOOLEAN
      /\ pending \in Sessions \cup {None} /\ clicks \in 0 .. MaxJobs
  BY DEF WorkbenchInv, TypeOK, Flags
<1>c. /\ Cardinality(Refetches) \in Nat /\ MaxJobs \in Nat /\ clicks \in Nat
      /\ clicks = MaxJobs \/ Cardinality(Refetches) + (IF flags.refresh THEN 1 ELSE 0) <= clicks
  <2>1. jobs \in Seq(Job) /\ Len(jobs) <= MaxJobs
    BY DEF WorkbenchInv, TypeOK
  <2>2. Cardinality(Refetches) \in Nat
    BY <2>1, RefetchesFinite
  <2> QED  BY <1>t, <2>2 DEF WorkbenchInv, ClicksCount
<1>f. FetchAll \in Flags /\ FetchAll.refresh = flags.refresh
  BY <1>t DEF FetchAll, Flags
<1>1. ASSUME NEW b \in Build, ChooseBuild(b)  PROVE  WorkbenchInv'
  <2> DEFINE e == [buildId |-> b, source |-> None]
  <2>1. e \in Entry
    BY DEF Entry, IdField, SourceField
  <2>2. RunAnalysis(e, sbom, FetchAll) /\ Elsewhere /\ UNCHANGED <<pending, clicks>>
    BY <1>1 DEF ChooseBuild
  <2> HIDE DEF e
  <2> QED  BY <1>t, <1>c, <1>f, <2>1, <2>2, RunKeeps
<1>2. ASSUME NEW b \in SourceFiles, OpenSource(b)  PROVE  WorkbenchInv'
  <2> DEFINE e == [buildId |-> None, source |-> b]
  <2>1. e \in Entry
    BY DEF Entry, IdField, SourceField
  <2>2. RunAnalysis(e, sbom, flags) /\ Elsewhere /\ UNCHANGED <<pending, clicks>>
    BY <1>2 DEF OpenSource
  <2> HIDE DEF e
  <2> QED  BY <1>t, <1>c, <2>1, <2>2, RunKeeps
<1>3. ASSUME Analyze  PROVE  WorkbenchInv'
  <2> DEFINE f == IF entry.buildId # None THEN FetchAll ELSE flags
  <2>1. f \in Flags /\ f.refresh = flags.refresh
    BY <1>t, <1>f
  <2>2. RunAnalysis(entry, sbom, f) /\ Elsewhere /\ UNCHANGED <<pending, clicks>>
    BY <1>3 DEF Analyze
  <2> HIDE DEF f
  <2> QED  BY <1>t, <1>c, <2>1, <2>2, RunKeeps
<1>4. ASSUME NEW name \in {"ALBS", "errata", "SBOM", "CAS"}, FetchSource(name)
      PROVE  WorkbenchInv'
  <2> DEFINE s == IF name = "SBOM" THEN None ELSE sbom
             f == CASE name = "ALBS" -> [flags EXCEPT !.refresh = TRUE]
                    [] name = "CAS"  -> [flags EXCEPT !.cas = TRUE]
                    [] OTHER         -> flags
  <2>1. s \in SbomField
    BY <1>t DEF SbomField
  <2>2. f \in Flags /\ (name # "ALBS" => f.refresh = flags.refresh)
    BY <1>t DEF Flags
  <2>3. /\ RunAnalysis(entry, s, f) /\ Elsewhere /\ UNCHANGED pending
        /\ clicks' = IF name = "ALBS" /\ clicks < MaxJobs THEN clicks + 1 ELSE clicks
    BY <1>4 DEF FetchSource
  <2>4. clicks' \in 0 .. MaxJobs
    BY <1>t, <1>c, <2>3
  <2> HIDE DEF s, f
  <2>5. \/ clicks' = MaxJobs
        \/ Cardinality(Refetches) + (IF f.refresh THEN 1 ELSE 0) <= clicks'
    <3>1. CASE name = "ALBS"
      <4>1. clicks = MaxJobs => clicks' = MaxJobs
        BY <1>t, <1>c, <2>3
      <4>2. clicks # MaxJobs => clicks' = clicks + 1 /\ Cardinality(Refetches) <= clicks
        BY <1>t, <1>c, <2>3, <3>1
      <4> QED  BY <1>c, <4>1, <4>2
    <3>2. CASE name # "ALBS"
      BY <1>c, <2>2, <2>3, <3>2
    <3> QED  BY <3>1, <3>2
  <2> QED  BY <1>t, <2>1, <2>2, <2>3, <2>4, <2>5, RunKeeps
<1>5. ASSUME NEW s \in Sessions, LoadSession(s)  PROVE  WorkbenchInv'
  <2> DEFINE e == [buildId |-> SessionOf[s].buildId, source |-> SessionOf[s].source]
  <2>1. e \in Entry /\ SessionOf[s].sbom \in SbomField
    BY DEF Entry
  <2>2. /\ RunAnalysis(e, SessionOf[s].sbom, flags) /\ Elsewhere
        /\ pending' = s /\ UNCHANGED clicks
    BY <1>5 DEF LoadSession
  <2> HIDE DEF e
  <2> QED  BY <1>t, <1>c, <2>1, <2>2, RunKeeps
<1> QED  BY <1>1, <1>2, <1>3, <1>4, <1>5

-----------------------------------------------------------------------------
(* What the user does without a run *)

\* Typing a build id, choosing an SBOM and files that come and go start nothing.
LEMMA TypingKeeps ==
  ASSUME WorkbenchInv,
         \/ \E b \in IdField : TypeBuildId(b)
         \/ \E x \in Sbom : OpenSbom(x)
         \/ \E x \in Sbom : ChangeSbomFile(x)
  PROVE  WorkbenchInv'
<1> DEFINE Typed ==
      /\ UNCHANGED <<flags, jobs, events, active, result, label, pending, selection, catalog,
                     closed, clicks>>
      /\ entry' \in Entry /\ sbom' \in SbomField /\ sbomFiles' \in SUBSET Sbom /\ patient' \in BOOLEAN
      /\ patient' => patient /\ (entry' = entry \/ Outstanding = {})
<1>1. Typed
  <2>1. ASSUME NEW b \in IdField, TypeBuildId(b)  PROVE  Typed
    BY <2>1 DEF TypeBuildId, WorkbenchInv, TypeOK, Entry
  <2>2. ASSUME NEW b \in Sbom, OpenSbom(b)  PROVE  Typed
    BY <2>2 DEF OpenSbom, WorkbenchInv, TypeOK, SbomField
  <2>3. ASSUME NEW b \in Sbom, ChangeSbomFile(b)  PROVE  Typed
    BY <2>3 DEF ChangeSbomFile, WorkbenchInv, TypeOK
  <2> QED  BY <2>1, <2>2, <2>3
<1>2. Outstanding' = Outstanding /\ Refetches' = Refetches
  BY <1>1 DEF Outstanding, Refetches
<1>3. TypeOK'
  BY <1>1 DEF WorkbenchInv, TypeOK
<1>4. SignalsAreSingle' /\ ClosingDetaches'
  BY <1>1 DEF WorkbenchInv, SignalsAreSingle, ClosingDetaches, Detachable
<1>5. AnalyzingIsTrue' /\ ShownIsTaken'
  BY <1>1, <1>2, <1>3 DEF WorkbenchInv, AnalyzingIsTrue, ShownIsTaken, ResultFinished
<1>6. PatienceHelps'
  BY <1>1, <1>2 DEF WorkbenchInv, PatienceHelps, RecordedIsAnalyzed, AnalyzedBuild, CurrentBuild
<1>7. ClicksCount'
  BY <1>1, <1>2 DEF WorkbenchInv, ClicksCount
<1> QED  BY <1>3, <1>4, <1>5, <1>6, <1>7 DEF WorkbenchInv

-----------------------------------------------------------------------------
(* The pool *)

\* A job that goes from one state to another is the same job otherwise.
LEMMA StateMoves ==
  ASSUME jobs \in Seq(Job), NEW j \in DOMAIN jobs,
         NEW state \in {"queued", "running", "emitted", "taken", "dropped"},
         jobs' = [jobs EXCEPT ![j].state = state]
  PROVE  /\ jobs' \in Seq(Job) /\ Len(jobs') = Len(jobs) /\ DOMAIN jobs' = DOMAIN jobs
         /\ jobs'[j].state = state
         /\ \A k \in DOMAIN jobs : /\ k # j => jobs'[k] = jobs[k]
                                   /\ jobs'[k].build = jobs[k].build
                                   /\ jobs'[k].refresh = jobs[k].refresh
                                   /\ jobs'[k].connected = jobs[k].connected
         /\ Refetches' = Refetches
<1>1. jobs[j] \in Job /\ [jobs[j] EXCEPT !.state = state] \in Job
  <2>1. jobs[j] \in Job
    OBVIOUS
  <2> QED  BY <2>1 DEF Job
<1>2. jobs' = [jobs EXCEPT ![j] = [jobs[j] EXCEPT !.state = state]]
  OBVIOUS
<1>3. jobs' \in Seq(Job) /\ Len(jobs') = Len(jobs) /\ DOMAIN jobs' = DOMAIN jobs
  BY <1>1, <1>2
<1>4. /\ jobs'[j].state = state
      /\ \A k \in DOMAIN jobs : /\ k # j => jobs'[k] = jobs[k]
                                /\ jobs'[k].build = jobs[k].build
                                /\ jobs'[k].refresh = jobs[k].refresh
                                /\ jobs'[k].connected = jobs[k].connected
  BY <1>1, <1>2 DEF Job
<1>5. Refetches' = Refetches
  BY <1>3, <1>4 DEF Refetches
<1> QED  BY <1>3, <1>4, <1>5

\* A worker that begins is on its way before and after.
LEMMA BeginKeeps ==
  ASSUME WorkbenchInv, NEW j \in JobNumber, Begin(j)
  PROVE  WorkbenchInv'
<1> USE DEF WorkerOnly
<1>t. TypeOK /\ SignalsAreSingle
  BY DEF WorkbenchInv
<1>1. /\ j \in DOMAIN jobs /\ jobs[j].state = "queued"
      /\ jobs' = [jobs EXCEPT ![j].state = "running"] /\ jobs \in Seq(Job)
      /\ UNCHANGED <<entry, sbom, flags, active, result, label, pending, selection, catalog,
                     closed, sbomFiles, changes, clicks, patient, events>>
  BY <1>t DEF Begin, InState, TypeOK
<1>2. /\ jobs' \in Seq(Job) /\ Len(jobs') = Len(jobs) /\ DOMAIN jobs' = DOMAIN jobs
      /\ jobs'[j].state = "running"
      /\ \A k \in DOMAIN jobs : /\ k # j => jobs'[k] = jobs[k]
                                /\ jobs'[k].build = jobs[k].build
                                /\ jobs'[k].refresh = jobs[k].refresh
                                /\ jobs'[k].connected = jobs[k].connected
      /\ Refetches' = Refetches
  BY <1>1, StateMoves
<1>3. Outstanding' = Outstanding
  BY <1>1, <1>2 DEF Outstanding
<1>4. TypeOK'
  BY <1>t, <1>1, <1>2 DEF TypeOK
<1>5. SignalsAreSingle'
  BY <1>t, <1>1, <1>2 DEF SignalsAreSingle
<1>6. ClosingDetaches'
  BY <1>1, <1>2 DEF WorkbenchInv, ClosingDetaches, Detachable
<1>7. AnalyzingIsTrue' /\ ShownIsTaken'
  <2>1. AnalyzingIsTrue'
    BY <1>1, <1>3, <1>4 DEF WorkbenchInv, AnalyzingIsTrue
  <2>2. result # 0 => result \in DOMAIN jobs
    BY <1>1 DEF WorkbenchInv, ShownIsTaken
  <2>3. \A k \in DOMAIN jobs : jobs[k].state = "taken" => jobs'[k] = jobs[k]
    BY <1>1, <1>2
  <2>4. ResultFinished'
    BY <1>1, <1>2, <2>2, <2>3 DEF WorkbenchInv, ShownIsTaken, ResultFinished
  <2> QED  BY <1>1, <1>2, <2>1, <2>4 DEF WorkbenchInv, ShownIsTaken
<1>8. PatienceHelps'
  <2>1. Outstanding \subseteq DOMAIN jobs
    BY DEF Outstanding
  <2> QED
    BY <1>1, <1>2, <1>3, <2>1 DEF WorkbenchInv, PatienceHelps, RecordedIsAnalyzed, AnalyzedBuild, CurrentBuild
<1>9. ClicksCount'
  BY <1>1, <1>2 DEF WorkbenchInv, ClicksCount
<1> QED  BY <1>4, <1>5, <1>6, <1>7, <1>8, <1>9 DEF WorkbenchInv

\* A worker that ends stays on its way by its signal, as long as it is connected.
LEMMA EndKeeps ==
  ASSUME WorkbenchInv, NEW j \in JobNumber, NEW outcome \in Outcome, WorkerEnds(j, outcome)
  PROVE  WorkbenchInv'
<1> USE DEF WorkerOnly
<1>t. TypeOK /\ SignalsAreSingle
  BY DEF WorkbenchInv
<1>1. /\ j \in DOMAIN jobs /\ jobs[j].state = "running"
      /\ jobs' = [jobs EXCEPT ![j].state = "emitted"] /\ jobs \in Seq(Job)
      /\ events' = IF outcome \in jobs[j].connected THEN Append(events, <<j, outcome>>) ELSE events
      /\ UNCHANGED <<entry, sbom, flags, active, result, label, pending, selection, catalog,
                     closed, sbomFiles, changes, clicks, patient>>
  BY <1>t DEF WorkerEnds, InState, TypeOK
<1>2. /\ jobs' \in Seq(Job) /\ Len(jobs') = Len(jobs) /\ DOMAIN jobs' = DOMAIN jobs
      /\ jobs'[j].state = "emitted"
      /\ \A k \in DOMAIN jobs : /\ k # j => jobs'[k] = jobs[k]
                                /\ jobs'[k].build = jobs[k].build
                                /\ jobs'[k].refresh = jobs[k].refresh
                                /\ jobs'[k].connected = jobs[k].connected
      /\ Refetches' = Refetches
  BY <1>1, StateMoves
<1>3. events \in Seq(JobNumber \X Outcome)
  BY <1>t DEF TypeOK
<1>4. events' \in Seq(JobNumber \X Outcome)
  BY <1>1, <1>3
<1>5. /\ \A i \in DOMAIN events : i \in DOMAIN events' /\ events'[i] = events[i]
      /\ \A i \in DOMAIN events' : \/ i \in DOMAIN events /\ events'[i] = events[i]
                                   \/ /\ i = Len(events) + 1 /\ events'[i] = <<j, outcome>>
                                      /\ outcome \in jobs[j].connected
      /\ outcome \in jobs[j].connected => \E i \in DOMAIN events' : events'[i] = <<j, outcome>>
      /\ Len(events) + 1 \notin DOMAIN events
  <2>1. CASE outcome \in jobs[j].connected
    <3>1. events' = Append(events, <<j, outcome>>) /\ <<j, outcome>> \in JobNumber \X Outcome
      BY <1>1, <2>1
    <3>2. /\ DOMAIN events = 1 .. Len(events) /\ DOMAIN events' = 1 .. Len(events) + 1
          /\ Len(events) \in Nat
          /\ \A i \in 1 .. Len(events) : events'[i] = events[i]
          /\ events'[Len(events) + 1] = <<j, outcome>>
      BY <1>3, <3>1
    <3>3. \A i \in DOMAIN events' : i \in DOMAIN events \/ i = Len(events) + 1
      BY <3>2
    <3> QED  BY <2>1, <3>2, <3>3
  <2>2. CASE outcome \notin jobs[j].connected
    BY <1>1, <1>3, <2>2
  <2> QED  BY <2>1, <2>2
<1>6. \A i \in DOMAIN events : events[i][1] # j
  BY <1>t, <1>1 DEF SignalsAreSingle
<1>7. /\ Outstanding' \subseteq Outstanding
      /\ outcome \in jobs[j].connected => Outstanding' = Outstanding
      /\ \A k \in Outstanding : k = j \/ k \in Outstanding'
  <2>1. j \in Outstanding
    BY <1>1 DEF Outstanding
  <2>2. \A k \in Outstanding' : k \in Outstanding
    BY <1>1, <1>2, <1>5, <2>1 DEF Outstanding
  <2>3. \A k \in Outstanding : k = j \/ k \in Outstanding'
    BY <1>2, <1>5 DEF Outstanding
  <2>4. outcome \in jobs[j].connected => j \in Outstanding'
    BY <1>1, <1>2, <1>5 DEF Outstanding
  <2> QED  BY <2>2, <2>3, <2>4
<1>8. TypeOK'
  BY <1>t, <1>1, <1>2, <1>4 DEF TypeOK
<1>9. SignalsAreSingle'
  <2>1. /\ \A i \in DOMAIN events' : /\ events'[i][1] \in DOMAIN jobs'
                                     /\ jobs'[events'[i][1]].state = "emitted"
    BY <1>t, <1>1, <1>2, <1>5 DEF SignalsAreSingle
  <2>2. \A i, k \in DOMAIN events' : events'[i][1] = events'[k][1] => i = k
    BY <1>t, <1>5, <1>6 DEF SignalsAreSingle
  <2> QED  BY <1>t, <1>1, <1>2, <2>1, <2>2 DEF SignalsAreSingle
<1>10. ClosingDetaches'
  <2>1. ~closed' => \A k \in DOMAIN jobs' : jobs'[k].connected = Outcome
    BY <1>1, <1>2 DEF WorkbenchInv, ClosingDetaches
  <2>2. closed' => \A k \in DOMAIN jobs' : k = active' => jobs'[k].connected \subseteq {"not found"}
    BY <1>1, <1>2 DEF WorkbenchInv, ClosingDetaches
  <2>3. closed => \A i \in DOMAIN events' : ~Detachable(events[i])'
    <3>1. SUFFICES ASSUME closed, NEW i \in DOMAIN events'
                   PROVE  events'[i][1] = active => events'[i][2] = "not found"
      BY <1>1 DEF Detachable
    <3>2. CASE i \in DOMAIN events /\ events'[i] = events[i]
      BY <3>1, <3>2 DEF WorkbenchInv, ClosingDetaches, Detachable
    <3>3. CASE events'[i] = <<j, outcome>> /\ outcome \in jobs[j].connected
      <4>1. jobs[j].connected \subseteq {"not found"} \/ j # active
        BY <1>1, <3>1 DEF WorkbenchInv, ClosingDetaches
      <4>2. j = active => outcome = "not found"
        BY <3>3, <4>1
      <4>3. events'[i][1] = j /\ events'[i][2] = outcome
        BY <3>3
      <4> QED  BY <4>2, <4>3
    <3> QED  BY <1>5, <3>2, <3>3
  <2> QED  BY <1>1, <2>1, <2>2, <2>3 DEF ClosingDetaches
<1>11. AnalyzingIsTrue'
  BY <1>1, <1>7, <1>8 DEF WorkbenchInv, AnalyzingIsTrue, ClosingDetaches
<1>12. ShownIsTaken'
  BY <1>1, <1>2 DEF WorkbenchInv, ShownIsTaken, ResultFinished
<1>13. PatienceHelps'
  <2>1. Outstanding \subseteq DOMAIN jobs
    BY DEF Outstanding
  <2> QED
    BY <1>1, <1>2, <1>7, <2>1 DEF WorkbenchInv, PatienceHelps, RecordedIsAnalyzed, AnalyzedBuild, CurrentBuild
<1>14. ClicksCount'
  BY <1>1, <1>2 DEF WorkbenchInv, ClicksCount
<1> QED  BY <1>8, <1>9, <1>10, <1>11, <1>12, <1>13, <1>14 DEF WorkbenchInv

-----------------------------------------------------------------------------
(* The slots *)

\* Taking the first signal takes its job off the way, and no other.
LEMMA TakeSteps ==
  ASSUME WorkbenchInv, Take
  PROVE  LET j == Head(events)[1]
         IN  /\ j \in DOMAIN jobs /\ j \in Outstanding /\ Head(events)[2] \in Outcome
             /\ events' \in Seq(JobNumber \X Outcome)
             /\ \A i \in DOMAIN events' : i + 1 \in DOMAIN events /\ events'[i] = events[i + 1]
             /\ jobs' \in Seq(Job) /\ Len(jobs') = Len(jobs) /\ DOMAIN jobs' = DOMAIN jobs
             /\ jobs'[j].state = "taken"
             /\ \A k \in DOMAIN jobs : /\ k # j => jobs'[k] = jobs[k]
                                       /\ jobs'[k].build = jobs[k].build
                                       /\ jobs'[k].connected = jobs[k].connected
             /\ Refetches' = Refetches
             /\ Outstanding' \subseteq Outstanding \ {j}
             /\ SignalsAreSingle' /\ ClosingDetaches' /\ ClicksCount'
<1> DEFINE j == Head(events)[1]
<1>t. TypeOK /\ SignalsAreSingle
  BY DEF WorkbenchInv
<1>1. /\ events \in Seq(JobNumber \X Outcome) /\ events # <<>> /\ events' = Tail(events)
      /\ jobs \in Seq(Job)
      /\ UNCHANGED <<entry, flags, active, closed, sbomFiles, changes, clicks, patient>>
  BY <1>t DEF Take, TypeOK
<1>2. /\ 1 \in DOMAIN events /\ Head(events) = events[1]
      /\ Head(events)[2] \in Outcome
      /\ events' \in Seq(JobNumber \X Outcome)
      /\ \A i \in DOMAIN events' : i \in Nat \ {0} /\ i + 1 \in DOMAIN events /\ events'[i] = events[i + 1]
  BY <1>1
<1>3. j \in DOMAIN jobs /\ jobs[j].state = "emitted"
  BY <1>t, <1>2 DEF SignalsAreSingle
<1>4. j \in Outstanding
  BY <1>2, <1>3 DEF Outstanding
<1>5. jobs' = [jobs EXCEPT ![j].state = "taken"]
  BY DEF Take
<1> HIDE DEF j
<1>6. /\ jobs' \in Seq(Job) /\ Len(jobs') = Len(jobs) /\ DOMAIN jobs' = DOMAIN jobs
      /\ jobs'[j].state = "taken"
      /\ \A k \in DOMAIN jobs : /\ k # j => jobs'[k] = jobs[k]
                                /\ jobs'[k].build = jobs[k].build
                                /\ jobs'[k].refresh = jobs[k].refresh
                                /\ jobs'[k].connected = jobs[k].connected
      /\ Refetches' = Refetches
  BY <1>1, <1>3, <1>5, StateMoves
<1>7. \A i \in DOMAIN events' : events'[i][1] # j
  <2>1. ASSUME NEW i \in DOMAIN events'  PROVE  events'[i][1] # j
    <3>1. i + 1 \in DOMAIN events /\ events'[i] = events[i + 1] /\ i + 1 # 1
      BY <1>2
    <3> QED  BY <1>t, <1>2, <3>1 DEF SignalsAreSingle, j
  <2> QED  BY <2>1
<1>8. Outstanding' \subseteq Outstanding \ {j}
  <2>1. ASSUME NEW k \in Outstanding'  PROVE  k \in Outstanding /\ k # j
    <3>1. k \in DOMAIN jobs
      BY <1>6 DEF Outstanding
    <3>2. k # j
      BY <1>6, <1>7 DEF Outstanding
    <3> QED  BY <1>2, <1>6, <3>1, <3>2 DEF Outstanding
  <2> QED  BY <2>1
<1>9. SignalsAreSingle'
  <2>1. \A i \in DOMAIN events' : /\ events'[i][1] \in DOMAIN jobs'
                                  /\ jobs'[events'[i][1]].state = "emitted"
    BY <1>t, <1>2, <1>6, <1>7 DEF SignalsAreSingle
  <2>2. \A i, k \in DOMAIN events' : events'[i][1] = events'[k][1] => i = k
    <3>1. SUFFICES ASSUME NEW i \in DOMAIN events', NEW k \in DOMAIN events',
                          events'[i][1] = events'[k][1]
                   PROVE  i = k
      OBVIOUS
    <3>2. i + 1 = k + 1
      BY <1>t, <1>2, <3>1 DEF SignalsAreSingle
    <3> QED  BY <1>2, <3>2
  <2> QED  BY <1>t, <1>1, <1>6, <2>1, <2>2 DEF SignalsAreSingle
<1>10. ClosingDetaches'
  <2>1. ASSUME closed, NEW i \in DOMAIN events'
        PROVE  events'[i][1] = active => events'[i][2] = "not found"
    <3>1. i + 1 \in DOMAIN events /\ events'[i] = events[i + 1]
      BY <1>2, <2>1
    <3>2. ~Detachable(events[i + 1])
      BY <2>1, <3>1 DEF WorkbenchInv, ClosingDetaches
    <3> QED  BY <3>1, <3>2 DEF Detachable
  <2>2. closed => \A i \in DOMAIN events' : ~Detachable(events[i])'
    BY <1>1, <2>1 DEF Detachable
  <2>3. closed => \A k \in DOMAIN jobs' : k = active => jobs'[k].connected \subseteq {"not found"}
    BY <1>6 DEF WorkbenchInv, ClosingDetaches
  <2>4. ~closed => \A k \in DOMAIN jobs' : jobs'[k].connected = Outcome
    BY <1>6 DEF WorkbenchInv, ClosingDetaches
  <2> QED  BY <1>1, <2>2, <2>3, <2>4 DEF ClosingDetaches
<1>11. ClicksCount'
  BY <1>1, <1>6 DEF WorkbenchInv, ClicksCount
<1> QED  BY <1>2, <1>3, <1>4, <1>6, <1>8, <1>9, <1>10, <1>11 DEF j

\* An analysis that ends without a result leaves what is shown and recorded.
LEMMA OtherEndKeeps ==
  ASSUME WorkbenchInv, AnalysisEndedOtherwise
  PROVE  WorkbenchInv'
<1> DEFINE j == Head(events)[1]
<1>1. /\ Take /\ Head(events)[2] # "finished" /\ label' = Head(events)[2]
      /\ UNCHANGED <<sbom, result, selection, pending, catalog, entry, flags, active, closed,
                     sbomFiles, changes, clicks, patient>>
  BY DEF AnalysisEndedOtherwise, Take
<1>2. /\ j \in DOMAIN jobs /\ Head(events)[2] \in Outcome
      /\ events' \in Seq(JobNumber \X Outcome)
      /\ jobs' \in Seq(Job) /\ Len(jobs') = Len(jobs) /\ DOMAIN jobs' = DOMAIN jobs
      /\ jobs'[j].state = "taken"
      /\ \A k \in DOMAIN jobs : /\ k # j => jobs'[k] = jobs[k]
                                /\ jobs'[k].build = jobs[k].build
      /\ Outstanding' \subseteq Outstanding
      /\ SignalsAreSingle' /\ ClosingDetaches' /\ ClicksCount'
  BY <1>1, TakeSteps
<1> HIDE DEF j
<1>3. label' \in {"failed", "not found"}
  BY <1>1, <1>2 DEF Outcome
<1>4. TypeOK'
  BY <1>1, <1>2, <1>3 DEF WorkbenchInv, TypeOK
<1>5. AnalyzingIsTrue'
  BY <1>3, <1>4 DEF AnalyzingIsTrue
<1>6. ShownIsTaken'
  BY <1>1, <1>2 DEF WorkbenchInv, ShownIsTaken, ResultFinished
<1>7. PatienceHelps'
  <2>1. Outstanding \subseteq DOMAIN jobs
    BY DEF Outstanding
  <2>2. AnalyzedBuild(entry)' = AnalyzedBuild(entry)
    BY <1>1 DEF AnalyzedBuild, CurrentBuild
  <2>3. patient => \A k \in Outstanding' : k = Len(jobs') /\ jobs'[k].build = AnalyzedBuild(entry)
    BY <1>2, <2>1 DEF WorkbenchInv, PatienceHelps
  <2>4. patient => RecordedIsAnalyzed'
    BY <1>1 DEF WorkbenchInv, PatienceHelps, RecordedIsAnalyzed
  <2>5. label' # "complete"
    BY <1>3
  <2> QED  BY <1>1, <2>2, <2>3, <2>4, <2>5 DEF PatienceHelps
<1> QED  BY <1>2, <1>4, <1>5, <1>6, <1>7 DEF WorkbenchInv

\* The analysis that has finished is shown and recorded.
LEMMA FinishedKeeps ==
  ASSUME WorkbenchInv, AnalysisFinished
  PROVE  WorkbenchInv'
<1> DEFINE j == Head(events)[1]
           id == CurrentBuild(entry)
<1>t. /\ TypeOK /\ MaxJobs \in Nat
      /\ jobs \in Seq(Job) /\ Len(jobs) <= MaxJobs /\ DOMAIN jobs = 1 .. Len(jobs) /\ Len(jobs) \in Nat
  <2>1. TypeOK /\ jobs \in Seq(Job) /\ Len(jobs) <= MaxJobs
    BY DEF WorkbenchInv, TypeOK
  <2> QED  BY <2>1
<1>1. /\ Take /\ result' = j /\ label' = "complete"
      /\ catalog' = IF id \notin Build THEN catalog ELSE [catalog EXCEPT ![id] = jobs[j].build]
      /\ ApplySession(j)
      /\ UNCHANGED <<entry, flags, active, closed, sbomFiles, changes, clicks, patient>>
  BY DEF AnalysisFinished, Take, Show, RecordBuild
<1>2. /\ j \in DOMAIN jobs /\ j \in Outstanding
      /\ events' \in Seq(JobNumber \X Outcome)
      /\ jobs' \in Seq(Job) /\ Len(jobs') = Len(jobs) /\ DOMAIN jobs' = DOMAIN jobs
      /\ jobs'[j].state = "taken"
      /\ \A k \in DOMAIN jobs : /\ k # j => jobs'[k] = jobs[k]
                                /\ jobs'[k].build = jobs[k].build
      /\ Outstanding' \subseteq Outstanding \ {j}
      /\ SignalsAreSingle' /\ ClosingDetaches' /\ ClicksCount'
  BY <1>1, TakeSteps
<1> HIDE DEF j
<1>3. /\ sbom' \in SbomField /\ pending' \in Sessions \cup {None} /\ selection' \in {"first", "saved"}
  <2>1. sbom \in SbomField /\ pending \in Sessions \cup {None}
    BY <1>t DEF TypeOK
  <2>2. CASE pending = None
    BY <1>1, <2>1, <2>2 DEF ApplySession
  <2>3. CASE pending # None
    <3>1. SessionOf[pending].sbom \in SbomField
      BY <2>1, <2>3
    <3> QED  BY <1>1, <2>3, <3>1 DEF ApplySession
  <2> QED  BY <2>2, <2>3
<1>4. jobs[j].build \in Build \cup {Unknown} /\ j \in 1 .. Len(jobs)
  <2>1. jobs[j] \in Job /\ j \in 1 .. Len(jobs)
    BY <1>t, <1>2
  <2> QED  BY <2>1 DEF Job
<1>5. /\ catalog' \in [Build -> Build \cup {None, Unknown}]
      /\ \A b \in Build : catalog'[b] = catalog[b] \/ (b = id /\ catalog'[b] = jobs[j].build)
  BY <1>t, <1>1, <1>4 DEF TypeOK
<1> HIDE DEF id
<1>6. TypeOK'
  <2>1. result' \in 0 .. MaxJobs
    BY <1>t, <1>1, <1>4
  <2> QED  BY <1>t, <1>1, <1>2, <1>3, <1>5, <2>1 DEF TypeOK
<1>7. AnalyzingIsTrue'
  BY <1>1, <1>6 DEF AnalyzingIsTrue
<1>8. ShownIsTaken'
  <2>1. result' \in 0 .. Len(jobs')
    BY <1>1, <1>2, <1>4
  <2>2. jobs'[result'].state = "taken"
    BY <1>1, <1>2
  <2>3. \A k \in DOMAIN jobs : jobs[k].state = "taken" => jobs'[k].state = "taken"
    BY <1>2
  <2>4. \A b \in Build : catalog'[b] # None =>
          \E k \in DOMAIN jobs' : jobs'[k].build = catalog'[b] /\ jobs'[k].state = "taken"
    <3>1. SUFFICES ASSUME NEW b \in Build, catalog'[b] # None
                   PROVE  \E k \in DOMAIN jobs : jobs'[k].build = catalog'[b]
                                                 /\ jobs'[k].state = "taken"
      BY <1>2
    <3>2. CASE catalog'[b] = catalog[b]
      <4>1. PICK k \in DOMAIN jobs : jobs[k].build = catalog[b] /\ jobs[k].state = "taken"
        BY <3>1, <3>2 DEF WorkbenchInv, ShownIsTaken, ResultFinished
      <4> QED  BY <1>2, <2>3, <3>2, <4>1
    <3>3. CASE catalog'[b] = jobs[j].build
      BY <1>2, <3>3
    <3> QED  BY <1>5, <3>2, <3>3
  <2> QED  BY <2>1, <2>2, <2>4 DEF ShownIsTaken, ResultFinished
<1>9. PatienceHelps'
  <2>1. SUFFICES ASSUME patient'  PROVE  PatienceHelps'
    BY DEF PatienceHelps
  <2>2. patient /\ j = Len(jobs) /\ (id \in Build => jobs[j].build = id)
    <3>1. patient /\ j = Len(jobs) /\ jobs[j].build = AnalyzedBuild(entry)
      BY <1>1, <1>2, <2>1 DEF WorkbenchInv, PatienceHelps
    <3>2. id \in Build => AnalyzedBuild(entry) = id
      BY NamesAssumption DEF AnalyzedBuild, id
    <3> QED  BY <3>1, <3>2
  <2>3. Outstanding' = {}
    BY <1>2, <2>2 DEF WorkbenchInv, PatienceHelps
  <2>4. RecordedIsAnalyzed'
    BY <1>5, <2>2 DEF WorkbenchInv, PatienceHelps, RecordedIsAnalyzed
  <2> QED  BY <1>1, <1>2, <2>2, <2>3, <2>4 DEF PatienceHelps
<1> QED  BY <1>2, <1>6, <1>7, <1>8, <1>9 DEF WorkbenchInv

-----------------------------------------------------------------------------
(* Closing the window *)

\* A sequence without its n-th element has the others, those after it one place earlier.
LEMMA RemoveAtFacts ==
  ASSUME NEW S, NEW s \in Seq(S), NEW n \in DOMAIN s
  PROVE  /\ RemoveAt(s, n) \in Seq(S)
         /\ DOMAIN RemoveAt(s, n) = 1 .. Len(s) - 1
         /\ \A i \in 1 .. Len(s) - 1 :
              /\ i < n => RemoveAt(s, n)[i] = s[i]
              /\ i >= n => RemoveAt(s, n)[i] = s[i + 1]
<1>1. n \in 1 .. Len(s) /\ Len(s) \in Nat /\ n \in Nat
  OBVIOUS
<1> DEFINE a == SubSeq(s, 1, n - 1)
           b == SubSeq(s, n + 1, Len(s))
<1>2. a \in Seq(S) /\ Len(a) = n - 1 /\ \A i \in 1 .. n - 1 : a[i] = s[i]
  BY <1>1
<1>3. b \in Seq(S) /\ Len(b) = Len(s) - n /\ \A i \in 1 .. Len(s) - n : b[i] = s[n + i]
  BY <1>1
<1>4. RemoveAt(s, n) = a \o b
  BY DEF RemoveAt
<1> HIDE DEF a, b
<1>5. a \o b \in Seq(S) /\ Len(a \o b) = Len(s) - 1 /\ DOMAIN (a \o b) = 1 .. Len(s) - 1
  BY <1>1, <1>2, <1>3
<1>6. ASSUME NEW i \in 1 .. Len(s) - 1, i < n  PROVE  (a \o b)[i] = s[i]
  <2>1. i \in 1 .. n - 1
    BY <1>1, <1>6
  <2> QED  BY <1>1, <1>2, <1>3, <2>1
<1>7. ASSUME NEW i \in 1 .. Len(s) - 1, i >= n  PROVE  (a \o b)[i] = s[i + 1]
  <2>0. i \in Nat /\ i >= 1 /\ i <= Len(s) - 1
    BY <1>1
  <2>1. i - (n - 1) \in 1 .. Len(s) - n /\ n + (i - (n - 1)) = i + 1 /\ i > n - 1
    BY <1>1, <1>7, <2>0
  <2>2. Len(a) = n - 1 /\ i <= Len(a) + Len(b)
    BY <1>1, <1>2, <1>3, <2>0
  <2>3. (a \o b)[i] = b[i - Len(a)]
    BY <1>2, <1>3, <2>0, <2>1, <2>2
  <2> QED  BY <1>3, <2>1, <2>2, <2>3
<1> QED  BY <1>4, <1>5, <1>6, <1>7

\* What waits after closing waited before, in the same order, and none of it is to be
\* detached.
LEMMA CloseDetaches ==
  ASSUME TypeOK, SignalsAreSingle, Close
  PROVE  /\ events' \in Seq(JobNumber \X Outcome)
         /\ \A i \in DOMAIN events' : /\ \E k \in DOMAIN events : events'[i] = events[k]
                                      /\ ~Detachable(events'[i])
         /\ \A i, k \in DOMAIN events' : events'[i][1] = events'[k][1] => i = k
<1>t. events \in Seq(JobNumber \X Outcome)
  BY DEF TypeOK
<1>s. \A i, k \in DOMAIN events : events[i][1] = events[k][1] => i = k
  BY DEF SignalsAreSingle
<1>1. CASE ~\E i \in DOMAIN events : Detachable(events[i])
  <2>1. events' = events
    BY <1>1 DEF Close
  <2> QED  BY <1>1, <1>t, <1>s, <2>1
<1>2. CASE \E i \in DOMAIN events : Detachable(events[i])
  <2> DEFINE n == CHOOSE i \in DOMAIN events : Detachable(events[i])
  <2>1. n \in DOMAIN events /\ Detachable(events[n]) /\ events' = RemoveAt(events, n)
    BY <1>2 DEF Close
  <2> HIDE DEF n
  <2>2. /\ events' \in Seq(JobNumber \X Outcome)
        /\ DOMAIN events' = 1 .. Len(events) - 1
        /\ \A i \in 1 .. Len(events) - 1 : /\ i < n => events'[i] = events[i]
                                           /\ i >= n => events'[i] = events[i + 1]
    BY <1>t, <2>1, RemoveAtFacts
  <2>3. DOMAIN events = 1 .. Len(events) /\ Len(events) \in Nat /\ n \in Nat
    BY <1>t, <2>1
  <2>4. ASSUME NEW i \in DOMAIN events'
        PROVE  /\ i < n => i \in DOMAIN events /\ events'[i] = events[i]
               /\ i >= n => i + 1 \in DOMAIN events /\ events'[i] = events[i + 1]
               /\ i \in Nat
    BY <2>2, <2>3
  <2>5. ASSUME NEW i \in DOMAIN events'
        PROVE  \E k \in DOMAIN events : k # n /\ events'[i] = events[k]
    <3>1. CASE i < n
      BY <2>3, <2>4, <3>1
    <3>2. CASE i >= n
      <4>1. i + 1 # n
        BY <2>3, <2>4, <3>2
      <4> QED  BY <2>4, <3>2, <4>1
    <3> QED  BY <2>3, <2>4, <3>1, <3>2
  <2>6. ASSUME NEW i \in DOMAIN events'  PROVE  ~Detachable(events'[i])
    <3>1. events'[i][1] # events[n][1]
      BY <1>s, <2>1, <2>5
    <3> QED  BY <2>1, <3>1 DEF Detachable
  <2>7. ASSUME NEW i \in DOMAIN events', NEW k \in DOMAIN events', events'[i][1] = events'[k][1]
        PROVE  i = k
    <3> DEFINE At(x) == IF x < n THEN x ELSE x + 1
    <3>1. /\ At(i) \in DOMAIN events /\ events'[i] = events[At(i)]
          /\ At(k) \in DOMAIN events /\ events'[k] = events[At(k)]
      BY <2>3, <2>4
    <3>2. At(i) = At(k)
      BY <1>s, <2>7, <3>1
    <3> QED  BY <2>3, <2>4, <3>2
  <2> QED  BY <2>2, <2>5, <2>6, <2>7
<1> QED  BY <1>1, <1>2

\* Closing drops the queue and what waits of the last worker.
LEMMA CloseKeeps ==
  ASSUME WorkbenchInv, Close
  PROVE  WorkbenchInv'
<1>t. TypeOK /\ SignalsAreSingle
  BY DEF WorkbenchInv
<1>u. UNCHANGED <<entry, sbom, flags, active, result, label, pending, selection, catalog,
                  sbomFiles, changes, clicks, patient>>
  BY DEF Close
<1>1. ~closed /\ closed' = TRUE
  BY DEF Close
<1>2. jobs \in Seq(Job) /\ DOMAIN jobs = 1 .. Len(jobs) /\ Len(jobs) \in Nat
  <2>1. jobs \in Seq(Job)
    BY <1>t DEF TypeOK
  <2> QED  BY <2>1
<1> DEFINE After(j) == [jobs[j] EXCEPT
              !.connected = IF j = active THEN @ \ {"finished", "failed"} ELSE @,
              !.state = IF @ = "queued" THEN "dropped" ELSE @]
<1>3. jobs' = [j \in DOMAIN jobs |-> After(j)]
  BY DEF Close
<1>4. ASSUME NEW j \in DOMAIN jobs
      PROVE  /\ After(j) \in Job
             /\ After(j).build = jobs[j].build /\ After(j).refresh = jobs[j].refresh
             /\ After(j).state = IF jobs[j].state = "queued" THEN "dropped" ELSE jobs[j].state
             /\ j = active => After(j).connected \subseteq {"not found"}
  <2>1. jobs[j] \in Job
    BY <1>2
  <2>2. /\ After(j).build = jobs[j].build /\ After(j).refresh = jobs[j].refresh
        /\ After(j).state = IF jobs[j].state = "queued" THEN "dropped" ELSE jobs[j].state
        /\ After(j).connected = IF j = active THEN jobs[j].connected \ {"finished", "failed"}
                                ELSE jobs[j].connected
    BY <2>1 DEF Job
  <2>3. After(j) \in Job
    BY <2>1 DEF Job
  <2>4. jobs[j].connected \subseteq Outcome
    BY <2>1 DEF Job
  <2>5. j = active => After(j).connected \subseteq {"not found"}
    <3> HIDE DEF After
    <3> QED  BY <2>2, <2>4 DEF Outcome
  <2> QED  BY <2>2, <2>3, <2>5
<1> HIDE DEF After
<1>5. /\ jobs' \in Seq(Job) /\ DOMAIN jobs' = DOMAIN jobs /\ Len(jobs') = Len(jobs)
      /\ \A j \in DOMAIN jobs : jobs'[j] = After(j)
  <2>1. jobs' \in [1 .. Len(jobs) -> Job]
    BY <1>2, <1>3, <1>4
  <2> QED  BY <1>2, <1>3, <2>1
<1>6. /\ events' \in Seq(JobNumber \X Outcome)
      /\ \A i \in DOMAIN events' : /\ \E k \in DOMAIN events : events'[i] = events[k]
                                   /\ ~Detachable(events'[i])
      /\ \A i, k \in DOMAIN events' : events'[i][1] = events'[k][1] => i = k
  BY <1>t, CloseDetaches
<1>7. TypeOK'
  BY <1>t, <1>u, <1>1, <1>5, <1>6 DEF TypeOK
<1>8. SignalsAreSingle'
  <2>1. ASSUME NEW i \in DOMAIN events'
        PROVE  events'[i][1] \in DOMAIN jobs' /\ jobs'[events'[i][1]].state = "emitted"
    <3>1. PICK k \in DOMAIN events : events'[i] = events[k]
      BY <1>6
    <3>2. events[k][1] \in DOMAIN jobs /\ jobs[events[k][1]].state = "emitted"
      BY <1>t DEF SignalsAreSingle
    <3>3. After(events[k][1]).state = "emitted"
      BY <1>4, <3>2
    <3> QED  BY <1>5, <3>1, <3>2, <3>3
  <2> QED  BY <1>t, <1>u, <1>5, <1>6, <2>1 DEF SignalsAreSingle
<1>9. ClosingDetaches'
  <2>1. \A i \in DOMAIN events' : ~Detachable(events[i])'
    BY <1>u, <1>6 DEF Detachable
  <2> QED  BY <1>u, <1>1, <1>4, <1>5, <2>1 DEF ClosingDetaches
<1>10. Outstanding' \subseteq Outstanding
  <2>1. ASSUME NEW j \in Outstanding'  PROVE  j \in Outstanding
    <3>1. j \in DOMAIN jobs
      BY <1>5 DEF Outstanding
    <3>2. CASE jobs'[j].state \in {"queued", "running"}
      BY <1>4, <1>5, <3>1, <3>2 DEF Outstanding
    <3>3. CASE \E i \in DOMAIN events' : events'[i][1] = j
      BY <1>6, <3>1, <3>3 DEF Outstanding
    <3> QED  BY <2>1, <3>2, <3>3 DEF Outstanding
  <2> QED  BY <2>1
<1>11. AnalyzingIsTrue'
  BY <1>1, <1>7 DEF AnalyzingIsTrue
<1>12. ShownIsTaken'
  <2>1. \A j \in DOMAIN jobs : /\ jobs'[j].build = jobs[j].build
                               /\ jobs[j].state = "taken" => jobs'[j].state = "taken"
    BY <1>4, <1>5
  <2>2. result # 0 => result \in DOMAIN jobs
    BY <1>2 DEF WorkbenchInv, ShownIsTaken
  <2> QED  BY <1>u, <1>5, <2>1, <2>2 DEF WorkbenchInv, ShownIsTaken, ResultFinished
<1>13. PatienceHelps'
  <2>1. Outstanding \subseteq DOMAIN jobs
    BY DEF Outstanding
  <2>2. AnalyzedBuild(entry)' = AnalyzedBuild(entry)
    BY <1>u DEF AnalyzedBuild, CurrentBuild
  <2>3. patient => \A j \in Outstanding' : j = Len(jobs') /\ jobs'[j].build = AnalyzedBuild(entry)
    BY <1>4, <1>5, <1>10, <2>1 DEF WorkbenchInv, PatienceHelps
  <2>4. patient => RecordedIsAnalyzed' /\ (label = "complete" => result = Len(jobs'))
    BY <1>u, <1>5 DEF WorkbenchInv, PatienceHelps, RecordedIsAnalyzed
  <2> QED  BY <1>u, <2>2, <2>3, <2>4 DEF PatienceHelps
<1>14. ClicksCount'
  <2>1. \A j \in DOMAIN jobs : jobs'[j].refresh = jobs[j].refresh
    BY <1>4, <1>5
  <2>2. Refetches' = Refetches
    BY <1>5, <2>1 DEF Refetches
  <2> QED  BY <1>u, <2>2 DEF WorkbenchInv, ClicksCount
<1> QED  BY <1>7, <1>8, <1>9, <1>11, <1>12, <1>13, <1>14 DEF WorkbenchInv

-----------------------------------------------------------------------------
(* The theorems *)

\* At first nothing is on its way, shown, recorded or clicked.
LEMMA InitStarts == Init => WorkbenchInv
<1> SUFFICES ASSUME Init  PROVE  WorkbenchInv
  OBVIOUS
<1>1. jobs = <<>> /\ events = <<>> /\ active = 0 /\ result = 0 /\ clicks = 0
  BY DEF Init
<1>e. Len(jobs) = 0 /\ DOMAIN jobs = {} /\ DOMAIN events = {}
  BY <1>1
<1>2. TypeOK
  <2>1. jobs \in Seq(Job) /\ events \in Seq(JobNumber \X Outcome) /\ Len(jobs) <= MaxJobs
    BY <1>1
  <2>2. entry \in Entry /\ flags \in Flags /\ sbom \in SbomField /\ pending \in Sessions \cup {None}
    BY DEF Init, Entry, IdField, SourceField, SbomField, Flags
  <2>3. catalog \in [Build -> Build \cup {None, Unknown}] /\ sbomFiles \subseteq Sbom
    BY DEF Init
  <2>4. /\ active \in 0 .. MaxJobs /\ result \in 0 .. MaxJobs /\ clicks \in 0 .. MaxJobs
        /\ closed \in BOOLEAN /\ patient \in BOOLEAN
    <3>1. 0 \in 0 .. MaxJobs
      OBVIOUS
    <3>2. closed = FALSE /\ patient = TRUE
      BY DEF Init
    <3> QED  BY <1>1, <3>1, <3>2
  <2>5. label = "" /\ selection = ""
    BY DEF Init
  <2> QED  BY <2>1, <2>2, <2>3, <2>4, <2>5 DEF TypeOK
<1>3. Outstanding = {} /\ Refetches = {}
  BY <1>e DEF Outstanding, Refetches
<1>4. SignalsAreSingle /\ ClosingDetaches
  <2>1. active = Len(jobs) /\ ~closed
    BY <1>1, <1>e DEF Init
  <2> QED  BY <1>e, <2>1 DEF SignalsAreSingle, ClosingDetaches
<1>5. AnalyzingIsTrue /\ ShownIsTaken
  <2>1. label = "" /\ \A b \in Build : catalog[b] = None
    BY DEF Init
  <2>2. result \in 0 .. Len(jobs)
    BY <1>1, <1>e
  <2> QED  BY <1>1, <1>2, <2>1, <2>2 DEF AnalyzingIsTrue, ShownIsTaken, ResultFinished
<1>6. PatienceHelps
  BY <1>3 DEF PatienceHelps, RecordedIsAnalyzed, Init
<1>7. ClicksCount
  <2>1. Cardinality(Refetches) = 0
    BY <1>3, FS_EmptySet
  <2>2. flags.deep = FALSE /\ flags.cas = FALSE /\ flags.refresh = FALSE
    BY DEF Init
  <2> QED  BY <1>1, <2>1, <2>2 DEF ClicksCount
<1> QED  BY <1>2, <1>4, <1>5, <1>6, <1>7 DEF WorkbenchInv

\* No handler, worker, signal or file that comes or goes breaks the invariant.
LEMMA NextKeeps == WorkbenchInv /\ [Next]_vars => WorkbenchInv'
<1> SUFFICES ASSUME WorkbenchInv, [Next]_vars  PROVE  WorkbenchInv'
  OBVIOUS
<1>1. CASE User
  BY <1>1, HandlersKeep, TypingKeeps, CloseKeeps DEF User
<1>2. CASE Pool
  BY <1>2, BeginKeeps, EndKeeps DEF Pool
<1>3. CASE Slots
  BY <1>3, FinishedKeeps, OtherEndKeeps DEF Slots
<1>4. CASE \E x \in Sbom : ChangeSbomFile(x)
  BY <1>4, TypingKeeps
<1>5. CASE UNCHANGED vars
  <2>1. Outstanding' = Outstanding /\ Refetches' = Refetches
    BY <1>5 DEF vars, Outstanding, Refetches
  <2>2. TypeOK' /\ SignalsAreSingle' /\ ClosingDetaches'
    BY <1>5 DEF vars, WorkbenchInv, TypeOK, SignalsAreSingle, ClosingDetaches, Detachable
  <2>3. AnalyzingIsTrue' /\ ShownIsTaken'
    BY <1>5, <2>1, <2>2 DEF vars, WorkbenchInv, AnalyzingIsTrue, ShownIsTaken, ResultFinished
  <2>4. PatienceHelps' /\ ClicksCount'
    BY <1>5, <2>1 DEF vars, WorkbenchInv, PatienceHelps, RecordedIsAnalyzed, AnalyzedBuild, CurrentBuild, ClicksCount
  <2> QED  BY <2>2, <2>3, <2>4 DEF WorkbenchInv
<1> QED  BY <1>1, <1>2, <1>3, <1>4, <1>5 DEF Next

\* The inductive invariant holds whatever the user does and however workers and slots
\* interleave with it.
THEOREM Invariance == Spec => []WorkbenchInv
BY InitStarts, NextKeeps, PTL DEF Spec

\* The one-shots of run_analysis (qt_app.py: _deep_fetch, _pending_cas,
\* _pending_refresh) never outlive the click that set them, for any number of clicks.
THEOREM OneShotsCorrect == Spec => []OneShotsAreSpent
<1>1. WorkbenchInv => OneShotsAreSpent
  <2> SUFFICES ASSUME WorkbenchInv  PROVE  OneShotsAreSpent
    OBVIOUS
  <2>0. jobs \in Seq(Job) /\ Len(jobs) <= MaxJobs /\ clicks \in 0 .. MaxJobs
    BY DEF WorkbenchInv, TypeOK
  <2>1. /\ Cardinality(Refetches) \in Nat /\ Cardinality(Refetches) <= Len(jobs)
        /\ Len(jobs) <= MaxJobs
    BY <2>0, RefetchesFinite
  <2>2. Len(jobs) \in Nat /\ clicks \in Nat
    BY <2>0
  <2>3. Cardinality(Refetches) <= clicks
    <3>1. CASE clicks = MaxJobs
      BY <2>1, <2>2, <3>1
    <3>2. CASE clicks # MaxJobs
      BY <2>1, <2>2, <3>2 DEF WorkbenchInv, ClicksCount
    <3> QED  BY <3>1, <3>2
  <2> QED  BY <2>3 DEF WorkbenchInv, ClicksCount, OneShotsAreSpent, Refetches
<1> QED  BY <1>1, Invariance, PTL

\* The window shows what it says: the status bar, the result and the catalog.
THEOREM ShownCorrect == Spec => []LastFinishedIsShown
<1>1. WorkbenchInv => LastFinishedIsShown
  BY DEF WorkbenchInv, ShownIsTaken, PatienceHelps, LastFinishedIsShown
<1> QED  BY <1>1, Invariance, PTL

\* Once the window is closed no signal that closing disconnects is taken, running or
\* queued when it closed (closeEvent, qt_app.py).
THEOREM ClosingCorrect == Spec => ClosedWindowIsLeftAlone
<1> DEFINE Left == closed /\ events # <<>> /\ events' = Tail(events) =>
                     Head(events)[1] # active \/ Head(events)[2] = "not found"
<1>1. WorkbenchInv => Left
  <2> SUFFICES ASSUME WorkbenchInv, closed, events # <<>>
               PROVE  Head(events)[1] # active \/ Head(events)[2] = "not found"
    OBVIOUS
  <2>1. events \in Seq(JobNumber \X Outcome)
    BY DEF WorkbenchInv, TypeOK
  <2>2. 1 \in DOMAIN events /\ Head(events) = events[1]
    BY <2>1
  <2> QED  BY <2>2 DEF WorkbenchInv, ClosingDetaches, Detachable
<1> QED  BY <1>1, Invariance, PTL DEF ClosedWindowIsLeftAlone

\* A run that starts takes no SBOM whose name tells another build, one that the field
\* shows and that is on disk, and none only if nothing was found where the build's own is
\* looked for, whatever the field held before (_autofill_build_sbom, _run_spec).
THEOREM SbomCorrect == Spec => SbomFollowsBuild
<1> DEFINE Follows == Len(jobs') > Len(jobs) =>
                        Suits(jobs'[Len(jobs')])
<1>1. ASSUME TypeOK, NEW e \in Entry, NEW s \in SbomField, NEW f \in Flags, RunAnalysis(e, s, f)
      PROVE  Follows
  <2>1. jobs \in Seq(Job) /\ Len(jobs) \in Nat /\ sbomFiles \subseteq Sbom
    <3>1. jobs \in Seq(Job) /\ sbomFiles \subseteq Sbom
      BY <1>1 DEF TypeOK
    <3> QED  BY <3>1
  <2>2. CASE UNCHANGED <<jobs, active, label>>
    BY <2>1, <2>2
  <2>3. ASSUME NEW job \in Job, jobs' = Append(jobs, job), Suits(job)
        PROVE  Follows
    <3>1. Len(jobs') = Len(jobs) + 1 /\ jobs'[Len(jobs) + 1] = job
      BY <2>1, <2>3
    <3> QED  BY <2>3, <3>1
  <2> QED  BY <1>1, <2>1, <2>2, <2>3, RunStarts
<1>2. ASSUME WorkbenchInv, [Next]_vars  PROVE  Follows
  <2>t. /\ TypeOK /\ entry \in Entry /\ sbom \in SbomField /\ flags \in Flags /\ FetchAll \in Flags
        /\ jobs \in Seq(Job) /\ Len(jobs) \in Nat
    <3>1. TypeOK /\ entry \in Entry /\ sbom \in SbomField /\ flags \in Flags /\ jobs \in Seq(Job)
      BY <1>2 DEF WorkbenchInv, TypeOK
    <3>2. FetchAll \in Flags
      BY <3>1 DEF FetchAll, Flags
    <3>3. Len(jobs) \in Nat
      BY <3>1
    <3> QED  BY <3>1, <3>2, <3>3
  <2>r. ASSUME NEW e \in Entry, NEW s \in SbomField, NEW f \in Flags, RunAnalysis(e, s, f)
        PROVE  Follows
    BY <1>1, <2>t, <2>r
  <2> HIDE DEF Follows
  <2>1. ASSUME NEW b \in Build, ChooseBuild(b)  PROVE  Follows
    <3>1. [buildId |-> b, source |-> None] \in Entry
      BY DEF Entry, IdField, SourceField
    <3> QED  BY <2>t, <2>r, <2>1, <3>1 DEF ChooseBuild
  <2>2. ASSUME NEW b \in SourceFiles, OpenSource(b)  PROVE  Follows
    <3>1. [buildId |-> None, source |-> b] \in Entry
      BY DEF Entry, IdField, SourceField
    <3> QED  BY <2>t, <2>r, <2>2, <3>1 DEF OpenSource
  <2>3. CASE Analyze
    <3> DEFINE f == IF entry.buildId # None THEN FetchAll ELSE flags
    <3>1. f \in Flags /\ RunAnalysis(entry, sbom, f)
      BY <2>t, <2>3 DEF Analyze
    <3> HIDE DEF f
    <3> QED  BY <2>t, <2>r, <3>1
  <2>4. ASSUME NEW name \in {"ALBS", "errata", "SBOM", "CAS"}, FetchSource(name)
        PROVE  Follows
    <3> DEFINE s == IF name = "SBOM" THEN None ELSE sbom
               f == CASE name = "ALBS" -> [flags EXCEPT !.refresh = TRUE]
                      [] name = "CAS"  -> [flags EXCEPT !.cas = TRUE]
                      [] OTHER         -> flags
    <3>1. s \in SbomField /\ f \in Flags
      BY <2>t DEF SbomField, Flags
    <3>2. RunAnalysis(entry, s, f)
      BY <2>4 DEF FetchSource
    <3> HIDE DEF s, f
    <3> QED  BY <2>t, <2>r, <3>1, <3>2
  <2>5. ASSUME NEW x \in Sessions, LoadSession(x)  PROVE  Follows
    <3> DEFINE e == [buildId |-> SessionOf[x].buildId, source |-> SessionOf[x].source]
    <3>1. e \in Entry /\ SessionOf[x].sbom \in SbomField
      BY DEF Entry
    <3>2. RunAnalysis(e, SessionOf[x].sbom, flags)
      BY <2>5 DEF LoadSession
    <3> HIDE DEF e
    <3> QED  BY <2>t, <2>r, <3>1, <3>2
  <2>6. ASSUME Len(jobs') = Len(jobs)  PROVE  Follows
    BY <2>t, <2>6 DEF Follows
  <2>7. CASE \/ \E b \in IdField : TypeBuildId(b)
             \/ \E x \in Sbom : OpenSbom(x)
             \/ \E x \in Sbom : ChangeSbomFile(x)
             \/ UNCHANGED vars
    BY <2>6, <2>7 DEF TypeBuildId, OpenSbom, ChangeSbomFile, vars
  <2>8. ASSUME NEW j \in JobNumber, Begin(j) \/ \E outcome \in Outcome : WorkerEnds(j, outcome)
        PROVE  Follows
    <3>1. PICK state \in {"running", "emitted"} : jobs' = [jobs EXCEPT ![j].state = state]
      BY <2>8 DEF Begin, WorkerEnds
    <3> QED  BY <2>t, <2>6, <3>1
  <2>9. CASE Slots
    <3>1. Take
      BY <2>9 DEF Slots, AnalysisFinished, AnalysisEndedOtherwise
    <3> QED  BY <1>2, <2>6, <3>1, TakeSteps
  <2>10. CASE Close
    <3>1. DOMAIN jobs' = DOMAIN jobs
      BY <2>10 DEF Close
    <3>2. ~(Len(jobs') > Len(jobs))
      <4>1. jobs' \in Seq(Job)
        BY <1>2, <2>10, CloseKeeps DEF WorkbenchInv, TypeOK
      <4>2. DOMAIN jobs' = 1 .. Len(jobs') /\ Len(jobs') \in Nat
        BY <4>1
      <4>3. DOMAIN jobs = 1 .. Len(jobs)
        BY <2>t
      <4>4. Len(jobs') > Len(jobs) => Len(jobs') \in 1 .. Len(jobs')
        BY <2>t, <4>2
      <4>5. Len(jobs') > Len(jobs) => Len(jobs') \notin 1 .. Len(jobs)
        BY <2>t, <4>2
      <4> QED  BY <3>1, <4>2, <4>3, <4>4, <4>5
    <3> QED  BY <3>2 DEF Follows
  <2> QED
    BY <1>2, <2>1, <2>2, <2>3, <2>4, <2>5, <2>7, <2>8, <2>9, <2>10 DEF Next, User, Pool
<1>3. Spec => [][Follows]_vars
  BY <1>2, Invariance, PTL DEF Spec
<1> QED  BY <1>3 DEF SbomFollowsBuild, Suits
=============================================================================
