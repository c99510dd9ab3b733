----------------------------- MODULE BuildSources -----------------------------
(***************************************************************************)
(* Where builds come from: processes that fetch the metadata of builds     *)
(* through a cache file (MetadataCache) and keep the catalog of known      *)
(* builds (BuildCatalog).  A build enters the catalog because ALBS listed  *)
(* it, because it was verified, or because it was analysed.                *)
(***************************************************************************)
EXTENDS BuildCatalog, MetadataCache

\* What happened: each analysed build was recorded under its own number, because it
\* was fetched in a document that names it, and the fields of the window still named
\* it when its result arrived.
VARIABLE patient

SourceVars == <<vars, metadataVars, patient>>

SourceInit == Init /\ FetchInit /\ patient = TRUE

\* fetch_recent_builds: as many pages as could be fetched.
RefreshBuildList(p, builds) ==
  /\ builds # {} /\ builds \subseteq Existing
  /\ Refresh(p, builds)
  /\ UNCHANGED <<metadataVars, patient>>

\* Mutant: any answer of ALBS verifies the build.
VerifyBuildId_AnyAnswer(p, b) ==
  /\ Load[b] = "unknown"
  /\ Refresh(p, {b})
  /\ UNCHANGED <<metadataVars, patient>>

\* _verify_build_id: the catalog answers for a build it knows; another one is asked
\* of ALBS, and recorded when it is there.
VerifyBuildId(p, b) ==
  /\ Load[b] = "unknown" /\ b \in Existing
  /\ Refresh(p, {b})
  /\ UNCHANGED <<metadataVars, patient>>

\* _record_analyzed_build: the analysis that fetched its build has finished, and b is
\* what the fields name now.
RecordAnalyzedBuild(p, b) ==
  /\ phase[p] = "done"
  /\ patient' = (patient /\ b = asked[p] /\ got[p].build # Nameless)
  /\ Record(p, b)
  /\ UNCHANGED metadataVars

\* _record_analyzed_build after the analysis of a source file of the user's: b is the
\* number in the name of the file, or in the field, and nobody has verified it.  A
\* process has one analysis at a time, so none of its fetches is under way.
RecordAnalyzedFile(p, b) ==
  /\ p \notin UnderWay
  /\ fetches < MaxFetches /\ fetches' = fetches + 1
  /\ patient' = FALSE
  /\ Record(p, b)
  /\ UNCHANGED <<cache, old, phase, asked, refresh, got, clashed>>

Fetch(p) ==
  /\ Fetching(p) \/ \E b \in Build, again \in BOOLEAN : Begin(p, b, again)
  /\ UNCHANGED <<vars, patient>>

SourceNext ==
  \/ \E p \in Process :
       \/ \E builds \in SUBSET Existing : RefreshBuildList(p, builds)
       \/ \E b \in Build :
            VerifyBuildId(p, b) \/ RecordAnalyzedBuild(p, b) \/ RecordAnalyzedFile(p, b)
       \/ Merging(p) /\ UNCHANGED <<metadataVars, patient>>
       \/ Fetch(p)
  \/ Expire /\ UNCHANGED <<vars, patient>>

SourceSpec == SourceInit /\ [][SourceNext]_SourceVars

----------------------------------------------------------------------------
(* Properties *)

\* However processes race or die, the catalog names no build that nobody merged and no
\* time that was not in a list; and as long as the analyses were of fetched builds that
\* were recorded under their own number, no build that ALBS does not know, although a
\* fetch is served from a file that other builds share.
RowsAreGenuine ==
  /\ RowsAreMerged
  /\ patient => Builds(Load) \subseteq Existing
=============================================================================
