------------------------- MODULE BuildSources_proofs -------------------------
(***************************************************************************)
(* What holds of the build catalog and of the metadata cache for any       *)
(* processes and builds, however many merges and fetches race or die.      *)
(***************************************************************************)
EXTENDS BuildSources, TLAPS

USE BoundAssumption, RowsAssumption, ExistingAssumption, NamelessAssumption, FetchBoundAssumption,
    FileAssumption
-----------------------------------------------------------------------------
(* The catalog *)

\* A catalog that has every row of a finished merge, and the times that were listed.
Keeps(rows) ==
  /\ \A b \in recorded : rows[b] # "unknown"
  /\ \A b \in listed : rows[b] # "bare"

\* What a process is about to write is what others have recorded and what it brings.
MergedIsTrue ==
  \A p \in Process : pc[p] \in {"open", "write"} =>
    \A b \in Build :
      /\ new[p][b] # "unknown" => merged[p][b] = new[p][b]
      /\ merged[p][b] # "unknown" => b \in recorded \/ new[p][b] # "unknown"
      /\ merged[p][b] = "dated" => b \in listed \/ new[p][b] = "dated"

\* One process at a time: what it is about to write, or else the file, keeps everything.
AloneKeeps ==
  alone =>
    /\ \A p, q \in Process : pc[p] # "idle" /\ pc[q] # "idle" => p = q
    /\ (\A p \in Process : pc[p] \notin {"open", "write"}) => Keeps(Load)
    /\ \A p \in Process :
         /\ pc[p] = "load" => \A b \in listed : new[p][b] # "bare"
         /\ pc[p] \in {"open", "write"} => Keeps(merged[p])
         /\ pc[p] = "write" => file = Empty

CatalogInv ==
  /\ TypeOK
  /\ listed \subseteq recorded
  /\ RowsAreMerged
  /\ MergedIsTrue
  /\ AloneKeeps

(* The metadata cache *)

\* A fetch that has its answer has the metadata of the build it was asked for, or, from
\* the file, a document that names no build.
AnswersAreTrue ==
  \A p \in Process : phase[p] \in {"done", "open", "write"} =>
    /\ got[p] \in Body /\ got[p].kind # "shell"
    /\ got[p].build = asked[p] \/ (phase[p] = "done" /\ got[p].build = Nameless)

\* One fetch at a time finds a file that holds a document, unless it is being written.
UnclashedFile ==
  ~clashed =>
    /\ \A p, q \in UnderWay : p = q
    /\ cache \in {Empty, Garbage} => \E p \in Process : phase[p] = "write"
    /\ \A p \in Process : /\ phase[p] = "write" => cache = Empty
                          /\ phase[p] = "read" => cache # Missing
                          /\ phase[p] \notin {"gone", "unreadable", "died"}

FetchInv == FetchTypeOK /\ AnswersAreTrue /\ UnclashedFile

(* Both *)

\* Builds come from lists, from checks and, if the fields are left alone, from results.
PatientRows ==
  /\ patient \in BOOLEAN
  /\ patient => /\ recorded \subseteq Existing
                /\ \A p \in Process : pc[p] # "idle" => Builds(new[p]) \subseteq Existing

IInv == CatalogInv /\ FetchInv /\ PatientRows
-----------------------------------------------------------------------------
\* What load returns is a catalog, whatever the file holds.
LEMMA LoadIsCatalog == TypeOK => Load \in Catalog
  BY DEF TypeOK, Load, NoRows, Catalog, Row

\* Before anything is fetched there are no rows, and the cache has any file of an older run.
LEMMA InitInv == SourceInit => IInv
<1> SUFFICES ASSUME SourceInit PROVE IInv
  OBVIOUS
<1>1. TypeOK /\ Load = NoRows
  BY DEF SourceInit, Init, TypeOK, Load, NoRows, Catalog, Row
<1>2. CatalogInv
  <2>1. RowsAreMerged
    BY <1>1 DEF RowsAreMerged, Builds, NoRows
  <2>2. MergedIsTrue /\ AloneKeeps /\ listed \subseteq recorded
    BY <1>1 DEF SourceInit, Init, MergedIsTrue, AloneKeeps, Keeps
  <2> QED BY <1>1, <2>1, <2>2 DEF CatalogInv
<1>3. FetchInv
  <2>1. asked \in [Process -> Build]
    <3> DEFINE all(b) == [p \in Process |-> b]
    <3>1. asked \in {all(b) : b \in Existing}
      BY DEF SourceInit, FetchInit
    <3> HIDE DEF all
    <3>2. \E b \in Existing : asked = all(b)
      BY <3>1
    <3>3. \A b \in Existing : all(b) \in [Process -> Build]
      BY DEF all
    <3> QED BY <3>2, <3>3
  <2>2. /\ cache \in Body \cup {Missing} /\ old \in BOOLEAN
        /\ phase = [p \in Process |-> "idle"]
        /\ refresh = [p \in Process |-> FALSE]
        /\ got = [p \in Process |-> Missing]
        /\ fetches = 0 /\ clashed = FALSE
    BY DEF SourceInit, FetchInit
  <2>3. FetchTypeOK
    <3>1. phase \in [Process -> Ended]
      BY <2>2 DEF Ended
    <3>2. refresh \in [Process -> BOOLEAN] /\ got \in [Process -> Body \cup {Missing}]
      BY <2>2
    <3>3. fetches \in 0 .. MaxFetches
      BY <2>2
    <3> QED BY <2>1, <2>2, <3>1, <3>2, <3>3 DEF FetchTypeOK
  <2>4. AnswersAreTrue /\ UnclashedFile
    BY <2>2 DEF AnswersAreTrue, UnclashedFile, UnderWay, Ended
  <2> QED BY <2>3, <2>4 DEF FetchInv
<1>4. PatientRows
  BY DEF SourceInit, Init, PatientRows
<1> QED BY <1>2, <1>3, <1>4 DEF IInv
-----------------------------------------------------------------------------
\* A step that only starts or ends a merge, or changes what is about to be merged, leaves
\* what the catalog says.
LEMMA RowsUnchanged ==
  ASSUME CatalogInv, TypeOK', UNCHANGED <<file, recorded, listed>>
  PROVE  Load' = Load /\ RowsAreMerged' /\ listed' \subseteq recorded'
<1>1. Load' = Load
  BY DEF Load
<1>2. Builds(Load)' = Builds(Load)
  BY <1>1 DEF Builds
<1> QED BY <1>1, <1>2 DEF CatalogInv, RowsAreMerged

\* A merge begins: refresh_build_list or _record_analyzed_build.
LEMMA BeginMergeInv ==
  ASSUME CatalogInv, NEW p \in Process, NEW rows \in Catalog, NEW where \in {"known", "load"},
         pc[p] = "idle", writes < MaxWrites, writes' = writes + 1, alone' = (alone /\ Quiet),
         new' = [new EXCEPT ![p] = rows], pc' = [pc EXCEPT ![p] = where],
         where = "load" => \A b \in Build : rows[b] # "bare",
         UNCHANGED <<file, merged, recorded, listed>>
  PROVE  CatalogInv'
<1>0. TypeOK /\ listed \subseteq recorded /\ recorded \subseteq Build /\ MergedIsTrue /\ AloneKeeps
  BY DEF CatalogInv, TypeOK
<1>1. TypeOK'
  BY <1>0 DEF TypeOK
<1>2. Load' = Load /\ RowsAreMerged' /\ listed' \subseteq recorded'
  BY <1>1, RowsUnchanged
<1>3. \A q \in Process : q # p => pc'[q] = pc[q] /\ new'[q] = new[q]
  BY <1>0 DEF TypeOK
<1>4. pc'[p] = where /\ new'[p] = rows
  BY <1>0 DEF TypeOK
<1>5. MergedIsTrue'
  BY <1>0, <1>3, <1>4 DEF MergedIsTrue
<1>6. AloneKeeps'
  <2> SUFFICES ASSUME alone' PROVE AloneKeeps'
    BY DEF AloneKeeps
  <2>1. alone /\ Quiet
    OBVIOUS
  <2>2. \A q \in Process : pc'[q] # "idle" => q = p
    BY <1>3, <2>1 DEF Quiet
  <2>3. Keeps(Load)'
    BY <1>0, <1>2, <2>1 DEF AloneKeeps, Quiet, Keeps
  <2>4. \A q \in Process : pc'[q] = "load" => \A b \in listed' : new'[q][b] # "bare"
    BY <1>0, <1>4, <2>2
  <2>5. \A q \in Process : pc'[q] \notin {"open", "write"}
    BY <1>4, <2>2
  <2> QED BY <2>2, <2>3, <2>4, <2>5 DEF AloneKeeps
<1> QED BY <1>1, <1>2, <1>5, <1>6 DEF CatalogInv

\* The first load of _record_analyzed_build brings a time that was listed.
LEMMA KnownInv ==
  ASSUME CatalogInv, NEW p \in Process, Known(p)
  PROVE  CatalogInv' /\ Builds(new[p])' = Builds(new[p])
<1> DEFINE rows == [b \in Build |-> IF new[p][b] = "bare" /\ Load[b] = "dated" THEN "dated" ELSE new[p][b]]
<1>0. TypeOK /\ listed \subseteq recorded /\ recorded \subseteq Build /\ MergedIsTrue /\ AloneKeeps
  BY DEF CatalogInv, TypeOK
<1>1. /\ pc[p] = "known" /\ pc' = [pc EXCEPT ![p] = "load"] /\ alone' = alone
      /\ UNCHANGED <<file, merged, writes, recorded, listed>>
      /\ new' = [new EXCEPT ![p] = rows]
  BY DEF Known
<1>2. rows \in Catalog /\ \A b \in Build : rows[b] = "unknown" <=> new[p][b] = "unknown"
  BY <1>0 DEF TypeOK, Catalog, Row
<1>3. \A b \in Build : Load[b] = "dated" => rows[b] # "bare"
  OBVIOUS
<1> HIDE DEF rows
<1>4. TypeOK'
  BY <1>0, <1>1, <1>2 DEF TypeOK
<1>5. Load' = Load /\ RowsAreMerged' /\ listed' \subseteq recorded'
  BY <1>1, <1>4, RowsUnchanged
<1>6. /\ \A q \in Process : q # p => pc'[q] = pc[q] /\ new'[q] = new[q]
      /\ pc'[p] = "load" /\ new'[p] = rows
  BY <1>0, <1>1 DEF TypeOK
<1>7. MergedIsTrue'
  BY <1>0, <1>1, <1>6 DEF MergedIsTrue
<1>8. AloneKeeps'
  <2> SUFFICES ASSUME alone' PROVE AloneKeeps'
    BY DEF AloneKeeps
  <2>1. alone /\ \A q \in Process : pc[q] # "idle" => q = p
    BY <1>0, <1>1 DEF AloneKeeps
  <2>2. \A q \in Process : pc'[q] # "idle" => q = p
    BY <1>6, <2>1
  <2>3. Keeps(Load)
    BY <1>0, <1>1, <2>1 DEF AloneKeeps
  <2>4. \A b \in listed : rows[b] # "bare"
    <3>1. Load \in Catalog
      BY <1>0, LoadIsCatalog
    <3>2. \A b \in listed : b \in Build /\ Load[b] = "dated"
      BY <1>0, <2>3, <3>1 DEF Keeps, Catalog, Row
    <3> QED BY <1>3, <3>2
  <2> QED BY <1>1, <1>5, <1>6, <2>2, <2>3, <2>4 DEF AloneKeeps, Keeps
<1> QED BY <1>2, <1>4, <1>5, <1>6, <1>7, <1>8 DEF CatalogInv, Builds

\* merge keeps the rows that are there.
LEMMA MergeInv ==
  ASSUME CatalogInv, NEW p \in Process, Merge(p)
  PROVE  CatalogInv'
<1> DEFINE rows == [b \in Build |-> IF new[p][b] # "unknown" THEN new[p][b] ELSE Load[b]]
<1>0. /\ TypeOK /\ listed \subseteq recorded /\ recorded \subseteq Build /\ MergedIsTrue /\ AloneKeeps
      /\ Load \in Catalog
  BY LoadIsCatalog DEF CatalogInv, TypeOK
<1>1. /\ pc[p] = "load" /\ pc' = [pc EXCEPT ![p] = "open"] /\ alone' = alone
      /\ UNCHANGED <<file, new, writes, recorded, listed>>
      /\ merged' = [merged EXCEPT ![p] = rows]
  BY DEF Merge
<1>2. /\ rows \in Catalog
      /\ \A b \in Build : rows[b] = IF new[p][b] # "unknown" THEN new[p][b] ELSE Load[b]
  BY <1>0 DEF TypeOK, Catalog
<1> HIDE DEF rows
<1>3. TypeOK'
  BY <1>0, <1>1, <1>2 DEF TypeOK
<1>4. Load' = Load /\ RowsAreMerged' /\ listed' \subseteq recorded'
  BY <1>1, <1>3, RowsUnchanged
<1>5. /\ \A q \in Process : q # p => pc'[q] = pc[q] /\ merged'[q] = merged[q]
      /\ pc'[p] = "open" /\ merged'[p] = rows
  BY <1>0, <1>1 DEF TypeOK
<1>6. \A b \in Build : /\ Load[b] # "unknown" => b \in recorded
                       /\ Load[b] = "dated" => b \in listed
  BY DEF CatalogInv, RowsAreMerged, Builds
<1>7. MergedIsTrue'
  BY <1>0, <1>1, <1>2, <1>5, <1>6 DEF MergedIsTrue
<1>8. AloneKeeps'
  <2> SUFFICES ASSUME alone' PROVE AloneKeeps'
    BY DEF AloneKeeps
  <2>1. alone /\ \A q \in Process : pc[q] # "idle" => q = p
    BY <1>0, <1>1 DEF AloneKeeps
  <2>2. \A q \in Process : pc'[q] # "idle" => q = p
    BY <1>5, <2>1
  <2>3. Keeps(Load) /\ \A b \in listed : new[p][b] # "bare"
    BY <1>0, <1>1, <2>1 DEF AloneKeeps
  <2>4. Keeps(rows)
    BY <1>0, <1>2, <2>3 DEF Keeps
  <2> QED BY <1>1, <1>5, <2>2, <2>4 DEF AloneKeeps, Keeps
<1> QED BY <1>3, <1>4, <1>7, <1>8 DEF CatalogInv

\* save opens the file.
LEMMA OpenInv ==
  ASSUME CatalogInv, NEW p \in Process, Open(p)
  PROVE  CatalogInv'
<1>0. TypeOK /\ listed \subseteq recorded /\ MergedIsTrue /\ AloneKeeps
  BY DEF CatalogInv
<1>1. /\ pc[p] = "open" /\ pc' = [pc EXCEPT ![p] = "write"] /\ alone' = alone /\ file' = Empty
      /\ UNCHANGED <<new, merged, writes, recorded, listed>>
  BY DEF Open
<1>2. TypeOK' /\ Load' = NoRows
  BY <1>0, <1>1 DEF TypeOK, Load
<1>3. RowsAreMerged'
  BY <1>2 DEF RowsAreMerged, Builds, NoRows
<1>4. /\ \A q \in Process : q # p => pc'[q] = pc[q]
      /\ pc'[p] = "write"
  BY <1>0, <1>1 DEF TypeOK
<1>5. MergedIsTrue'
  BY <1>0, <1>1, <1>4 DEF MergedIsTrue
<1>6. AloneKeeps'
  <2> SUFFICES ASSUME alone' PROVE AloneKeeps'
    BY DEF AloneKeeps
  <2>1. alone /\ \A q \in Process : pc[q] # "idle" => q = p
    BY <1>0, <1>1 DEF AloneKeeps
  <2>2. \A q \in Process : pc'[q] # "idle" => q = p
    BY <1>4, <2>1
  <2>3. Keeps(merged[p])
    BY <1>0, <1>1, <2>1 DEF AloneKeeps
  <2> QED BY <1>1, <1>4, <2>2, <2>3 DEF AloneKeeps, Keeps
<1> QED BY <1>0, <1>1, <1>2, <1>3, <1>5, <1>6 DEF CatalogInv

\* save writes what was merged, or garbles what another process wrote.
LEMMA WriteInv ==
  ASSUME CatalogInv, NEW p \in Process, Write(p)
  PROVE  CatalogInv'
<1>0. TypeOK /\ listed \subseteq recorded /\ MergedIsTrue /\ AloneKeeps
  BY DEF CatalogInv
<1>1. /\ pc[p] = "write" /\ pc' = [pc EXCEPT ![p] = "idle"]
      /\ file' = merged[p] \/ (file \notin {Empty, merged[p]} /\ file' = Garbage)
      /\ recorded' = recorded \cup Builds(new[p])
      /\ listed' = listed \cup {b \in Build : new[p][b] = "dated"}
      /\ new' = [new EXCEPT ![p] = NoRows] /\ merged' = [merged EXCEPT ![p] = NoRows]
      /\ UNCHANGED <<writes, alone>>
  BY Zenon DEF Write
<1>2. merged[p] \in Catalog /\ new[p] \in Catalog /\ NoRows \in Catalog
  BY <1>0 DEF TypeOK, NoRows, Catalog, Row
<1>3. TypeOK' /\ listed' \subseteq recorded'
  <2>1. Builds(new[p]) \subseteq Build /\ {b \in Build : new[p][b] = "dated"} \subseteq Builds(new[p])
    BY DEF Builds
  <2> QED BY <1>0, <1>1, <1>2, <2>1 DEF TypeOK
<1>4. \A b \in Build : /\ b \in recorded' <=> b \in recorded \/ new[p][b] # "unknown"
                       /\ b \in listed' <=> b \in listed \/ new[p][b] = "dated"
  BY <1>1 DEF Builds
<1>5. \A b \in Build : /\ new[p][b] # "unknown" => merged[p][b] = new[p][b]
                       /\ merged[p][b] # "unknown" => b \in recorded'
                       /\ merged[p][b] = "dated" => b \in listed'
  BY <1>0, <1>1, <1>4 DEF MergedIsTrue
<1>6. RowsAreMerged'
  <2>1. CASE file' = merged[p]
    <3>1. Load' = merged[p]
      BY <1>2, <2>1 DEF Load
    <3> QED BY <1>3, <1>5, <3>1 DEF RowsAreMerged, Builds
  <2>2. CASE file' = Garbage
    <3>1. Load' = NoRows
      BY <2>2 DEF Load
    <3> QED BY <1>3, <3>1 DEF RowsAreMerged, Builds, NoRows
  <2> QED BY <1>1, <2>1, <2>2
<1>7. /\ \A q \in Process : q # p => pc'[q] = pc[q] /\ new'[q] = new[q] /\ merged'[q] = merged[q]
      /\ pc'[p] = "idle"
  BY <1>0, <1>1 DEF TypeOK
<1>8. MergedIsTrue'
  <2> SUFFICES ASSUME NEW q \in Process, pc'[q] \in {"open", "write"}, NEW b \in Build
               PROVE  /\ new'[q][b] # "unknown" => merged'[q][b] = new'[q][b]
                      /\ merged'[q][b] # "unknown" => b \in recorded' \/ new'[q][b] # "unknown"
                      /\ merged'[q][b] = "dated" => b \in listed' \/ new'[q][b] = "dated"
    BY DEF MergedIsTrue
  <2>1. q # p /\ pc[q] \in {"open", "write"} /\ new'[q] = new[q] /\ merged'[q] = merged[q]
    BY <1>7
  <2> QED BY <1>0, <1>4, <2>1 DEF MergedIsTrue
<1>9. AloneKeeps'
  <2> SUFFICES ASSUME alone' PROVE AloneKeeps'
    BY DEF AloneKeeps
  <2>1. /\ alone /\ \A q \in Process : pc[q] # "idle" => q = p
        /\ file = Empty /\ Keeps(merged[p])
    BY <1>0, <1>1 DEF AloneKeeps
  <2>2. \A q \in Process : pc'[q] = "idle"
    BY <1>7, <2>1
  <2>3. Load' = merged[p]
    BY <1>1, <1>2, <2>1 DEF Load
  <2>4. recorded \subseteq Build /\ recorded' \subseteq Build /\ listed \subseteq Build /\ listed' \subseteq Build
    BY <1>0, <1>3 DEF TypeOK
  <2>5. \A b \in recorded' : merged[p][b] # "unknown"
    <3> SUFFICES ASSUME NEW b \in recorded' PROVE merged[p][b] # "unknown"
      OBVIOUS
    <3>1. b \in Build /\ (b \in recorded \/ new[p][b] # "unknown")
      BY <1>4, <2>4
    <3> QED BY <1>5, <2>1, <3>1 DEF Keeps
  <2>6. \A b \in listed' : merged[p][b] # "bare"
    <3> SUFFICES ASSUME NEW b \in listed' PROVE merged[p][b] # "bare"
      OBVIOUS
    <3>1. b \in Build /\ (b \in listed \/ new[p][b] = "dated")
      BY <1>4, <2>4
    <3> QED BY <1>5, <2>1, <3>1 DEF Keeps
  <2>7. Keeps(Load)'
    BY <2>3, <2>5, <2>6 DEF Keeps
  <2> QED BY <2>2, <2>7 DEF AloneKeeps
<1> QED BY <1>3, <1>6, <1>8, <1>9 DEF CatalogInv

\* A process that dies in a merge may leave an emptied file, never a false one.
LEMMA CrashInv ==
  ASSUME CatalogInv, NEW p \in Process, Crash(p)
  PROVE  CatalogInv'
<1>0. TypeOK /\ listed \subseteq recorded /\ MergedIsTrue
  BY DEF CatalogInv
<1>1. /\ pc' = [pc EXCEPT ![p] = "idle"] /\ alone' = FALSE
      /\ new' = [new EXCEPT ![p] = NoRows] /\ merged' = [merged EXCEPT ![p] = NoRows]
      /\ UNCHANGED <<file, writes, recorded, listed>>
  BY DEF Crash
<1>2. TypeOK'
  BY <1>0, <1>1 DEF TypeOK, NoRows, Catalog, Row
<1>3. RowsAreMerged' /\ listed' \subseteq recorded'
  BY <1>1, <1>2, RowsUnchanged
<1>4. MergedIsTrue'
  BY <1>0, <1>1 DEF TypeOK, MergedIsTrue
<1>5. AloneKeeps'
  BY <1>1 DEF AloneKeeps
<1> QED BY <1>2, <1>3, <1>4, <1>5 DEF CatalogInv

\* What a process that is merging does, for the builds it brings too.
LEMMA MergingInv ==
  ASSUME IInv, NEW p \in Process, Merging(p), UNCHANGED <<metadataVars, patient>>
  PROVE  CatalogInv' /\ PatientRows'
<1>0. CatalogInv /\ TypeOK /\ PatientRows
  BY DEF IInv, CatalogInv
<1>2. CASE Known(p)
  <2>1. CatalogInv' /\ Builds(new[p])' = Builds(new[p])
    BY <1>0, <1>2, KnownInv
  <2>2. /\ pc[p] = "known" /\ recorded' = recorded /\ patient' = patient
        /\ \A q \in Process : q # p => pc'[q] = pc[q] /\ new'[q] = new[q]
    BY <1>0, <1>2 DEF Known, TypeOK
  <2>3. \A q \in Process : q # p => Builds(new[q])' = Builds(new[q])
    BY <2>2 DEF Builds
  <2> QED BY <1>0, <2>1, <2>2, <2>3 DEF PatientRows
<1>3. ASSUME recorded' = recorded,
             \A q \in Process : pc'[q] # "idle" => pc[q] # "idle" /\ new'[q] = new[q]
      PROVE  PatientRows'
  <2>1. \A q \in Process : pc'[q] # "idle" => Builds(new[q])' = Builds(new[q])
    BY <1>3 DEF Builds
  <2> QED BY <1>0, <1>3, <2>1 DEF PatientRows
<1>4. CASE Merge(p)
  BY <1>0, <1>3, <1>4, MergeInv DEF Merge, TypeOK
<1>5. CASE Open(p)
  BY <1>0, <1>3, <1>5, OpenInv DEF Open, TypeOK
<1>6. CASE Crash(p)
  BY <1>0, <1>3, <1>6, CrashInv DEF Crash, TypeOK
<1>7. CASE Write(p)
  <2>1. CatalogInv'
    BY <1>0, <1>7, WriteInv
  <2>2. /\ pc[p] = "write" /\ recorded' = recorded \cup Builds(new[p]) /\ patient' = patient
        /\ \A q \in Process : pc'[q] # "idle" => pc[q] # "idle" /\ new'[q] = new[q]
    BY <1>0, <1>7 DEF Write, TypeOK
  <2>3. \A q \in Process : pc'[q] # "idle" => Builds(new[q])' = Builds(new[q])
    BY <2>2 DEF Builds
  <2> QED BY <1>0, <2>1, <2>2, <2>3 DEF PatientRows
<1> QED BY <1>2, <1>4, <1>5, <1>6, <1>7 DEF Merging

\* What _record_analyzed_build and _verify_build_id and a fetched list bring is there.
LEMMA RecordingInv ==
  ASSUME IInv, NEW p \in Process, NEW rows \in Catalog, NEW where \in {"known", "load"},
         pc[p] = "idle", writes < MaxWrites, writes' = writes + 1, alone' = (alone /\ Quiet),
         new' = [new EXCEPT ![p] = rows], pc' = [pc EXCEPT ![p] = where],
         where = "load" => \A b \in Build : rows[b] # "bare",
         UNCHANGED <<file, merged, recorded, listed>>,
         patient' \in BOOLEAN, patient' => patient /\ Builds(rows) \subseteq Existing
  PROVE  CatalogInv' /\ PatientRows'
<1>1. CatalogInv /\ TypeOK /\ PatientRows
  BY DEF IInv, CatalogInv
<1>2. CatalogInv'
  BY <1>1, BeginMergeInv
<1>3. /\ \A q \in Process : q # p => pc'[q] = pc[q] /\ new'[q] = new[q]
      /\ new'[p] = rows
  BY <1>1 DEF TypeOK
<1>4. \A q \in Process : q # p => Builds(new[q])' = Builds(new[q])
  BY <1>3 DEF Builds
<1>5. Builds(new[p])' = Builds(rows)
  BY <1>3 DEF Builds
<1>6. PatientRows'
  BY <1>1, <1>4, <1>5, <1>3 DEF PatientRows
<1> QED BY <1>2, <1>6

-----------------------------------------------------------------------------
(* The fetches *)

\* Begin.
LEMMA BeginInv ==
  ASSUME FetchInv, NEW p \in Process, NEW b \in Build, NEW again \in BOOLEAN, Begin(p, b, again)
  PROVE  FetchInv'
<1>0. FetchTypeOK /\ AnswersAreTrue /\ UnclashedFile
  BY DEF FetchInv
<1>1. /\ p \notin UnderWay /\ fetches < MaxFetches /\ fetches' = fetches + 1
      /\ asked' = [asked EXCEPT ![p] = b] /\ refresh' = [refresh EXCEPT ![p] = again]
      /\ got' = [got EXCEPT ![p] = Missing] /\ clashed' = (clashed \/ UnderWay # {})
      /\ phase' = [phase EXCEPT ![p] = "look"] /\ UNCHANGED <<cache, old>>
  BY DEF Begin, To
<1>2. FetchTypeOK'
  BY <1>0, <1>1 DEF FetchTypeOK
<1>3. /\ \A q \in Process : q # p => phase'[q] = phase[q] /\ got'[q] = got[q] /\ asked'[q] = asked[q]
      /\ phase'[p] = "look"
  BY <1>0, <1>1 DEF FetchTypeOK
<1>4. AnswersAreTrue'
  BY <1>0, <1>3 DEF AnswersAreTrue
<1>5. UnclashedFile'
  <2> SUFFICES ASSUME ~clashed' PROVE UnclashedFile'
    BY DEF UnclashedFile
  <2>1. ~clashed /\ UnderWay = {}
    BY <1>1
  <2>2. \A q \in Process : phase[q] \in Ended
    BY <2>1 DEF UnderWay
  <2>3. \A q \in UnderWay' : q = p
    BY <1>3, <2>2 DEF UnderWay
  <2>4. cache \notin {Empty, Garbage}
    BY <1>0, <2>1, <2>2 DEF UnclashedFile, Ended
  <2>5. \A q \in Process : phase'[q] \notin {"write", "read", "gone", "unreadable", "died"}
    BY <1>0, <1>3, <2>1, <2>2 DEF UnclashedFile, Ended
  <2> QED BY <1>1, <2>3, <2>4, <2>5 DEF UnclashedFile
<1> QED BY <1>2, <1>4, <1>5 DEF FetchInv

\* The steps of a fetch that only read: they may find the file gone or unreadable only
\* if fetches clashed.
LEMMA LookInv ==
  ASSUME FetchInv, NEW p \in Process, Look(p)
  PROVE  FetchInv'
<1>0. FetchTypeOK /\ AnswersAreTrue /\ UnclashedFile
  BY DEF FetchInv
<1>1. PICK where \in {"ask", "read"} :
        /\ phase' = [phase EXCEPT ![p] = where]
        /\ where = "read" => cache # Missing
  BY DEF Look, To
<1>2. /\ phase[p] = "look" /\ refresh' = [refresh EXCEPT ![p] = FALSE]
      /\ UNCHANGED <<cache, old, asked, got, fetches, clashed>>
  BY DEF Look
<1>3. FetchTypeOK'
  BY <1>0, <1>1, <1>2 DEF FetchTypeOK
<1>4. /\ \A q \in Process : q # p => phase'[q] = phase[q]
      /\ phase'[p] = where
  BY <1>0, <1>1 DEF FetchTypeOK
<1>5. AnswersAreTrue'
  BY <1>0, <1>2, <1>4 DEF AnswersAreTrue
<1>6. UnderWay' = UnderWay
  BY <1>2, <1>4 DEF UnderWay, Ended
<1>7. UnclashedFile'
  BY <1>0, <1>1, <1>2, <1>4, <1>6 DEF UnclashedFile
<1> QED BY <1>3, <1>5, <1>7 DEF FetchInv

\* What a fetch makes of the file, by what the file is.
LEMMA UseOfFile ==
  ASSUME FetchTypeOK, NEW b \in Build
  PROVE  /\ Use(b) \in {"gone", "ask", "unreadable", "unlink", "done"}
         /\ Use(b) = "gone" <=> cache = Missing
         /\ Use(b) = "unreadable" <=> ~old /\ cache \in {Empty, Garbage}
         /\ Use(b) = "done" <=> /\ ~old /\ cache \in Body /\ cache.kind # "shell"
                                /\ cache.build \in {b, Nameless}
         /\ Use(b) = "unlink" <=> /\ ~old /\ cache \in Body /\ cache.kind = "shell"
                                  /\ cache.build \in {b, Nameless}
<1>1. cache \in Body \cup {Missing, Empty, Garbage} /\ old \in BOOLEAN
  BY DEF FetchTypeOK
<1>2. Matches(cache, b) <=> cache.build \in {b, Nameless}
  BY DEF Matches, BuildOf
<1>3. CASE cache = Missing
  BY <1>3 DEF Use
<1>4. CASE cache # Missing /\ old
  BY <1>4 DEF Use
<1>5. CASE ~old /\ cache \in {Empty, Garbage}
  BY <1>5 DEF Use
<1>6. CASE ~old /\ cache \in Body
  <2>1. Use(b) = IF ~Matches(cache, b) THEN "ask" ELSE IF cache.kind = "shell" THEN "unlink" ELSE "done"
    BY <1>6 DEF Use
  <2> QED BY <1>2, <1>6, <2>1
<1> QED BY <1>1, <1>3, <1>4, <1>5, <1>6

\* A fetch takes what it read only if it is of its build, and without a clash the file
\* is there and whole.
LEMMA ReadInv ==
  ASSUME FetchInv, NEW p \in Process, Read(p)
  PROVE  FetchInv'
<1> DEFINE use == Use(asked[p])
<1>0. FetchTypeOK /\ AnswersAreTrue /\ UnclashedFile /\ asked[p] \in Build
  BY DEF FetchInv, FetchTypeOK
<1>1. /\ phase[p] = "read" /\ phase' = [phase EXCEPT ![p] = use]
      /\ got' = [got EXCEPT ![p] = IF use = "done" THEN cache ELSE Missing]
      /\ UNCHANGED <<cache, old, asked, refresh, fetches, clashed>>
  BY DEF Read, To
<1>2. /\ use \in {"gone", "ask", "unreadable", "unlink", "done"}
      /\ use = "gone" <=> cache = Missing
      /\ use = "unreadable" => cache \in {Empty, Garbage}
      /\ use = "done" => cache \in Body /\ cache.build \in {asked[p], Nameless} /\ cache.kind # "shell"
  BY <1>0, UseOfFile
<1> HIDE DEF use
<1>3. FetchTypeOK'
  BY <1>0, <1>1, <1>2 DEF FetchTypeOK, Ended
<1>4. /\ \A q \in Process : q # p => phase'[q] = phase[q] /\ got'[q] = got[q]
      /\ phase'[p] = use /\ (use = "done" => got'[p] = cache)
  BY <1>0, <1>1 DEF FetchTypeOK
<1>5. AnswersAreTrue'
  BY <1>0, <1>1, <1>2, <1>4 DEF AnswersAreTrue
<1>6. UnclashedFile'
  <2> SUFFICES ASSUME ~clashed' PROVE UnclashedFile'
    BY DEF UnclashedFile
  <2>1. ~clashed /\ p \in UnderWay
    BY <1>1 DEF UnderWay, Ended
  <2>2. \A q \in UnderWay' : q \in UnderWay
    BY <1>4, <2>1 DEF UnderWay
  <2>3. \A q \in Process : phase[q] # "write"
    BY <1>0, <1>1, <2>1 DEF UnclashedFile, UnderWay, Ended
  <2>4. cache \notin {Missing, Empty, Garbage}
    BY <1>0, <1>1, <2>1, <2>3 DEF UnclashedFile
  <2>5. \A q \in Process : q # p => phase'[q] \notin {"read", "write"}
    BY <1>0, <1>1, <1>4, <2>1 DEF UnclashedFile, UnderWay, Ended
  <2> QED BY <1>0, <1>1, <1>2, <1>4, <2>1, <2>2, <2>4, <2>5 DEF UnclashedFile
<1> QED BY <1>3, <1>5, <1>6 DEF FetchInv

\* The page without content is removed, or whatever the file holds by then.
LEMMA UnlinkInv ==
  ASSUME FetchInv, NEW p \in Process, Unlink(p)
  PROVE  FetchInv'
<1>0. FetchTypeOK /\ AnswersAreTrue /\ UnclashedFile
  BY DEF FetchInv
<1>1. /\ phase[p] = "unlink" /\ phase' = [phase EXCEPT ![p] = "ask"] /\ cache' = Missing /\ old' = FALSE
      /\ UNCHANGED <<asked, refresh, got, fetches, clashed>>
  BY DEF Unlink, To
<1>2. FetchTypeOK'
  BY <1>0, <1>1 DEF FetchTypeOK
<1>3. /\ \A q \in Process : q # p => phase'[q] = phase[q]
      /\ phase'[p] = "ask"
  BY <1>0, <1>1 DEF FetchTypeOK
<1>4. AnswersAreTrue'
  BY <1>0, <1>1, <1>3 DEF AnswersAreTrue
<1>5. UnclashedFile'
  <2> SUFFICES ASSUME ~clashed' PROVE UnclashedFile'
    BY DEF UnclashedFile
  <2>1. UnderWay' = UnderWay /\ p \in UnderWay
    BY <1>1, <1>3 DEF UnderWay, Ended
  <2>2. \A q \in Process : phase'[q] \notin {"read", "write", "gone", "unreadable", "died"}
    BY <1>0, <1>1, <1>3, <2>1 DEF UnclashedFile, UnderWay, Ended
  <2> QED BY <1>0, <1>1, <2>1, <2>2 DEF UnclashedFile
<1> QED BY <1>2, <1>4, <1>5 DEF FetchInv

\* The answer of the API, or of the page of the build, is of the build that was asked for.
LEMMA AnswerInv ==
  ASSUME FetchInv, NEW p \in Process, NEW kind \in {"api", "page"},
         phase[p] \in {"ask", "page"}, UNCHANGED <<cache, old, asked, refresh, fetches, clashed>>,
         \/ /\ asked[p] \in Existing /\ phase' = [phase EXCEPT ![p] = "open"]
            /\ got' = [got EXCEPT ![p] = [kind |-> kind, build |-> asked[p]]]
         \/ \E where \in {"page", "refused"} : phase' = [phase EXCEPT ![p] = where] /\ got' = got
  PROVE  FetchInv'
<1>0. FetchTypeOK /\ AnswersAreTrue /\ UnclashedFile
  BY DEF FetchInv
<1>1. \A q \in Process : q # p => phase'[q] = phase[q] /\ got'[q] = got[q]
  BY <1>0 DEF FetchTypeOK
<1>2. /\ phase'[p] \in {"open", "page", "refused"}
      /\ phase'[p] = "open" => asked[p] \in Existing /\ got'[p] = [kind |-> kind, build |-> asked[p]]
  BY <1>0 DEF FetchTypeOK
<1>3. asked[p] \in Existing => [kind |-> kind, build |-> asked[p]] \in Body
  BY DEF Body
<1>4. FetchTypeOK'
  <2>1. phase' \in [Process -> Ended \cup {"look", "read", "unlink", "ask", "page", "open", "write"}]
    BY <1>0 DEF FetchTypeOK, Ended
  <2>2. got' \in [Process -> Body \cup {Missing}]
    BY <1>0, <1>3 DEF FetchTypeOK
  <2> QED BY <1>0, <2>1, <2>2 DEF FetchTypeOK
<1>5. AnswersAreTrue'
  <2> SUFFICES ASSUME NEW q \in Process, phase'[q] \in {"done", "open", "write"}
               PROVE  /\ got'[q] \in Body /\ got'[q].kind # "shell"
                      /\ got'[q].build = asked[q] \/ (phase'[q] = "done" /\ got'[q].build = Nameless)
    BY DEF AnswersAreTrue
  <2>1. CASE q = p
    <3>1. got'[p] = [kind |-> kind, build |-> asked[p]] /\ asked[p] \in Existing
      BY <1>2, <2>1
    <3> QED BY <1>3, <2>1, <3>1
  <2>2. CASE q # p
    BY <1>0, <1>1, <2>2 DEF AnswersAreTrue
  <2> QED BY <2>1, <2>2
<1>6. UnclashedFile'
  <2> SUFFICES ASSUME ~clashed' PROVE UnclashedFile'
    BY DEF UnclashedFile
  <2>1. p \in UnderWay /\ \A q \in UnderWay' : q \in UnderWay
    BY <1>1 DEF UnderWay, Ended
  <2>2. \A q \in Process : phase'[q] \notin {"read", "write", "gone", "unreadable", "died"}
    BY <1>0, <1>1, <1>2, <2>1 DEF UnclashedFile, UnderWay, Ended
  <2>3. cache \notin {Empty, Garbage}
    <3>1. \A q \in Process : phase[q] # "write"
      BY <1>0, <2>1 DEF UnclashedFile, UnderWay, Ended
    <3> QED BY <1>0, <3>1 DEF UnclashedFile
  <2> QED BY <1>0, <2>1, <2>2, <2>3 DEF UnclashedFile
<1> QED BY <1>4, <1>5, <1>6 DEF FetchInv

\* write_text opens the cache file.
LEMMA OpenCacheInv ==
  ASSUME FetchInv, NEW p \in Process, OpenCache(p)
  PROVE  FetchInv'
<1>0. FetchTypeOK /\ AnswersAreTrue /\ UnclashedFile
  BY DEF FetchInv
<1>1. /\ phase[p] = "open" /\ phase' = [phase EXCEPT ![p] = "write"] /\ cache' = Empty /\ old' = FALSE
      /\ UNCHANGED <<asked, refresh, got, fetches, clashed>>
  BY DEF OpenCache, To
<1>2. FetchTypeOK'
  BY <1>0, <1>1 DEF FetchTypeOK
<1>3. /\ \A q \in Process : q # p => phase'[q] = phase[q]
      /\ phase'[p] = "write"
  BY <1>0, <1>1 DEF FetchTypeOK
<1>4. AnswersAreTrue'
  BY <1>0, <1>1, <1>3 DEF AnswersAreTrue
<1>5. UnclashedFile'
  <2> SUFFICES ASSUME ~clashed' PROVE UnclashedFile'
    BY DEF UnclashedFile
  <2>1. UnderWay' = UnderWay /\ p \in UnderWay
    BY <1>1, <1>3 DEF UnderWay, Ended
  <2>2. \A q \in Process : phase'[q] \notin {"read", "gone", "unreadable", "died"}
    BY <1>0, <1>1, <1>3, <2>1 DEF UnclashedFile, UnderWay, Ended
  <2> QED BY <1>0, <1>1, <1>3, <2>1, <2>2 DEF UnclashedFile
<1> QED BY <1>2, <1>4, <1>5 DEF FetchInv

\* ... and writes what the fetch returns, unless another one was there.
LEMMA WriteCacheInv ==
  ASSUME FetchInv, NEW p \in Process, WriteCache(p)
  PROVE  FetchInv'
<1>0. FetchTypeOK /\ AnswersAreTrue /\ UnclashedFile
  BY DEF FetchInv
<1>1. /\ phase[p] = "write" /\ phase' = [phase EXCEPT ![p] = "done"]
      /\ UNCHANGED <<asked, refresh, got, fetches, clashed>>
  BY DEF WriteCache, To
<1>2. \/ cache' = got[p] /\ old' = FALSE
      \/ cache \notin {Empty, Missing, got[p]} /\ cache' = Garbage /\ old' = FALSE
      \/ cache = Missing /\ cache' = Missing /\ old' = old
  BY DEF WriteCache
<1>3. got[p] \in Body
  BY <1>0, <1>1 DEF AnswersAreTrue
<1>4. FetchTypeOK'
  <2>1. cache' \in Body \cup {Missing, Empty, Garbage} /\ old' \in BOOLEAN
    BY <1>0, <1>2, <1>3 DEF FetchTypeOK
  <2> QED BY <1>0, <1>1, <2>1 DEF FetchTypeOK, Ended
<1>5. /\ \A q \in Process : q # p => phase'[q] = phase[q]
      /\ phase'[p] = "done"
  BY <1>0, <1>1 DEF FetchTypeOK
<1>6. AnswersAreTrue'
  BY <1>0, <1>1, <1>5 DEF AnswersAreTrue
<1>7. UnclashedFile'
  <2> SUFFICES ASSUME ~clashed' PROVE UnclashedFile'
    BY DEF UnclashedFile
  <2>1. p \in UnderWay /\ \A q \in UnderWay' : q \in UnderWay /\ q # p
    BY <1>1, <1>5 DEF UnderWay, Ended
  <2>2. UnderWay' = {}
    BY <1>0, <1>1, <2>1 DEF UnclashedFile
  <2>3. \A q \in Process : phase'[q] \notin {"read", "write", "gone", "unreadable", "died"}
    BY <1>0, <1>1, <1>5, <2>1 DEF UnclashedFile, UnderWay, Ended
  <2>4. cache' = got[p]
    BY <1>0, <1>1, <1>2 DEF UnclashedFile
  <2> QED BY <1>3, <2>2, <2>3, <2>4 DEF UnclashedFile
<1> QED BY <1>4, <1>6, <1>7 DEF FetchInv

\* A process that dies in a fetch, and the time to live of the file.
LEMMA DiesInv ==
  ASSUME FetchInv, NEW p \in Process, Dies(p)
  PROVE  FetchInv'
<1>0. FetchTypeOK /\ AnswersAreTrue
  BY DEF FetchInv
<1>1. /\ phase' = [phase EXCEPT ![p] = "died"] /\ got' = [got EXCEPT ![p] = Missing]
      /\ refresh' = [refresh EXCEPT ![p] = FALSE] /\ clashed' = TRUE
      /\ UNCHANGED <<cache, old, asked, fetches>>
  BY DEF Dies, To
<1>2. FetchTypeOK'
  BY <1>0, <1>1 DEF FetchTypeOK, Ended
<1>3. AnswersAreTrue'
  BY <1>0, <1>1 DEF FetchTypeOK, AnswersAreTrue
<1>4. UnclashedFile'
  BY <1>1 DEF UnclashedFile
<1> QED BY <1>2, <1>3, <1>4 DEF FetchInv

\* Age changes what a fetch will do with the file, not what the file holds.
LEMMA ExpireInv == FetchInv /\ Expire => FetchInv'
<1> SUFFICES ASSUME FetchInv, Expire PROVE FetchInv'
  OBVIOUS
<1>1. old' = TRUE /\ UNCHANGED <<cache, phase, asked, refresh, got, fetches, clashed>>
  BY DEF Expire
<1>2. FetchTypeOK'
  BY <1>1 DEF FetchInv, FetchTypeOK
<1>3. UnderWay' = UnderWay
  BY <1>1 DEF UnderWay
<1> QED BY <1>1, <1>2, <1>3 DEF FetchInv, AnswersAreTrue, UnclashedFile

-----------------------------------------------------------------------------
\* A step of the fetches leaves the catalog alone, and a step of the catalog the fetches.
LEMMA CatalogFrame == UNCHANGED <<vars, patient>> /\ CatalogInv /\ PatientRows => CatalogInv' /\ PatientRows'
<1> SUFFICES ASSUME UNCHANGED <<vars, patient>>, CatalogInv, PatientRows
             PROVE  CatalogInv' /\ PatientRows'
  OBVIOUS
<1>1. UNCHANGED <<file, pc, new, merged, writes, recorded, listed, alone, patient>>
  BY DEF vars
<1>2. TypeOK'
  BY <1>1 DEF CatalogInv, TypeOK
<1>3. Load' = Load /\ RowsAreMerged' /\ listed' \subseteq recorded'
  BY <1>1, <1>2, RowsUnchanged
<1>4. MergedIsTrue' /\ AloneKeeps'
  BY <1>1, <1>3 DEF CatalogInv, MergedIsTrue, AloneKeeps, Keeps
<1>5. PatientRows'
  BY <1>1 DEF PatientRows, Builds
<1> QED BY <1>2, <1>3, <1>4, <1>5 DEF CatalogInv

\* A step on the catalog file leaves the metadata cache as it is.
LEMMA FetchFrame == UNCHANGED metadataVars /\ FetchInv => FetchInv'
  BY DEF metadataVars, FetchInv, FetchTypeOK, AnswersAreTrue, UnclashedFile, UnderWay

\* Every step keeps the invariant, whichever process takes it.
LEMMA StepInv == IInv /\ [SourceNext]_SourceVars => IInv'
<1> SUFFICES ASSUME IInv, [SourceNext]_SourceVars PROVE IInv'
  OBVIOUS
<1>0. CatalogInv /\ FetchInv /\ PatientRows /\ TypeOK /\ FetchTypeOK
  BY DEF IInv, CatalogInv, FetchInv
<1> DEFINE dated(builds) == [b \in Build |-> IF b \in builds THEN "dated" ELSE "unknown"]
           one(b) == [NoRows EXCEPT ![b] = "bare"]
<1>1. ASSUME NEW builds \in SUBSET Existing
      PROVE  /\ dated(builds) \in Catalog /\ Builds(dated(builds)) \subseteq Existing
             /\ \A b \in Build : dated(builds)[b] # "bare"
  BY DEF Catalog, Row, Builds
<1>2. ASSUME NEW b \in Build
      PROVE  one(b) \in Catalog /\ Builds(one(b)) = {b}
  BY DEF NoRows, Catalog, Row, Builds
<1>3. ASSUME NEW p \in Process, NEW builds \in SUBSET Existing, Refresh(p, builds),
             UNCHANGED <<metadataVars, patient>>
      PROVE  IInv'
  <2>1. /\ pc[p] = "idle" /\ writes < MaxWrites /\ writes' = writes + 1 /\ alone' = (alone /\ Quiet)
        /\ new' = [new EXCEPT ![p] = dated(builds)] /\ pc' = [pc EXCEPT ![p] = "load"]
        /\ UNCHANGED <<file, merged, recorded, listed>> /\ patient' = patient
    BY <1>3 DEF Refresh
  <2>2. patient' \in BOOLEAN
    BY <1>0, <2>1 DEF PatientRows
  <2> HIDE DEF dated
  <2>3. CatalogInv' /\ PatientRows'
    BY <1>1, <2>1, <2>2, RecordingInv
  <2> QED BY <1>0, <1>3, <2>3, FetchFrame DEF IInv
<1>4. ASSUME NEW p \in Process, NEW b \in Build, RecordAnalyzedBuild(p, b)
      PROVE  IInv'
  <2>1. /\ pc[p] = "idle" /\ writes < MaxWrites /\ writes' = writes + 1 /\ alone' = (alone /\ Quiet)
        /\ new' = [new EXCEPT ![p] = one(b)] /\ pc' = [pc EXCEPT ![p] = "known"]
        /\ UNCHANGED <<file, merged, recorded, listed>>
        /\ patient' = (patient /\ b = asked[p] /\ got[p].build # Nameless)
        /\ phase[p] = "done" /\ UNCHANGED metadataVars
    BY <1>4 DEF RecordAnalyzedBuild, Record
  <2>2. patient' \in BOOLEAN
    BY <1>0, <2>1 DEF PatientRows
  <2>3. got[p].build # Nameless => asked[p] \in Existing
    <3>1. got[p] \in Body /\ got[p].build \in {asked[p], Nameless}
      BY <1>0, <2>1 DEF FetchInv, AnswersAreTrue
    <3> QED BY <3>1 DEF Body
  <2>4. patient' => patient /\ Builds(one(b)) \subseteq Existing
    BY <1>2, <2>1, <2>3
  <2> HIDE DEF one
  <2>5. CatalogInv' /\ PatientRows'
    BY <1>2, <2>1, <2>2, <2>4, RecordingInv
  <2> QED BY <1>0, <2>1, <2>5, FetchFrame DEF IInv
<1>5. ASSUME NEW p \in Process, Merging(p), UNCHANGED <<metadataVars, patient>>
      PROVE  IInv'
  BY <1>0, <1>5, MergingInv, FetchFrame DEF IInv
<1>6. ASSUME NEW p \in Process, Fetching(p)
      PROVE  FetchInv'
  <2>1. CASE Ask(p)
    <3>1. /\ phase[p] \in {"ask", "page"} /\ UNCHANGED <<cache, old, asked, refresh, fetches, clashed>>
          /\ \/ /\ asked[p] \in Existing /\ phase' = [phase EXCEPT ![p] = "open"]
                /\ got' = [got EXCEPT ![p] = [kind |-> "api", build |-> asked[p]]]
             \/ \E where \in {"page", "refused"} : phase' = [phase EXCEPT ![p] = where] /\ got' = got
      BY <2>1 DEF Ask, To
    <3> QED BY <1>0, <3>1, AnswerInv
  <2>2. CASE Page(p)
    <3>1. /\ phase[p] \in {"ask", "page"} /\ UNCHANGED <<cache, old, asked, refresh, fetches, clashed>>
          /\ \/ /\ asked[p] \in Existing /\ phase' = [phase EXCEPT ![p] = "open"]
                /\ got' = [got EXCEPT ![p] = [kind |-> "page", build |-> asked[p]]]
             \/ \E where \in {"page", "refused"} : phase' = [phase EXCEPT ![p] = where] /\ got' = got
      BY <2>2 DEF Page, To
    <3> QED BY <1>0, <3>1, AnswerInv
  <2> QED BY <1>0, <1>6, <2>1, <2>2, LookInv, ReadInv, UnlinkInv, OpenCacheInv, WriteCacheInv, DiesInv
          DEF Fetching
<1>7. ASSUME NEW p \in Process, Fetch(p)
      PROVE  IInv'
  <2>1. FetchInv'
    BY <1>0, <1>6, <1>7, BeginInv DEF Fetch
  <2>2. UNCHANGED <<vars, patient>>
    BY <1>7 DEF Fetch
  <2> QED BY <1>0, <2>1, <2>2, CatalogFrame DEF IInv
<1>8. CASE Expire /\ UNCHANGED <<vars, patient>>
  BY <1>0, <1>8, ExpireInv, CatalogFrame DEF IInv
<1>9. CASE UNCHANGED SourceVars
  <2>1. UNCHANGED <<vars, patient>> /\ UNCHANGED metadataVars
    BY <1>9 DEF SourceVars
  <2> QED BY <1>0, <2>1, CatalogFrame, FetchFrame DEF IInv
<1>12. ASSUME NEW p \in Process, NEW b \in Build, RecordAnalyzedFile(p, b)
       PROVE  IInv'
  <2>1. /\ pc[p] = "idle" /\ writes < MaxWrites /\ writes' = writes + 1 /\ alone' = (alone /\ Quiet)
        /\ new' = [new EXCEPT ![p] = one(b)] /\ pc' = [pc EXCEPT ![p] = "known"]
        /\ UNCHANGED <<file, merged, recorded, listed>> /\ patient' = FALSE
    BY <1>12 DEF RecordAnalyzedFile, Record
  <2>2. /\ fetches < MaxFetches /\ fetches' = fetches + 1
        /\ UNCHANGED <<cache, old, phase, asked, refresh, got, clashed>>
    BY <1>12 DEF RecordAnalyzedFile
  <2> HIDE DEF one
  <2>3. CatalogInv' /\ PatientRows'
    BY <1>2, <2>1, RecordingInv
  <2>4. FetchTypeOK'
    BY <1>0, <2>2 DEF FetchTypeOK
  <2>5. UnderWay' = UnderWay
    BY <2>2 DEF UnderWay
  <2>6. FetchInv'
    BY <1>0, <2>2, <2>4, <2>5 DEF FetchInv, AnswersAreTrue, UnclashedFile
  <2> QED BY <2>3, <2>6 DEF IInv
<1>10. ASSUME NEW p \in Process, NEW builds \in SUBSET Existing, RefreshBuildList(p, builds)
       PROVE  IInv'
  BY <1>3, <1>10 DEF RefreshBuildList
<1>11. ASSUME NEW p \in Process, NEW b \in Build, VerifyBuildId(p, b)
       PROVE  IInv'
  BY <1>3, <1>11 DEF VerifyBuildId
<1> QED BY <1>4, <1>5, <1>7, <1>8, <1>9, <1>10, <1>11, <1>12 DEF SourceNext

\* Whichever processes fetch, merge and die, and however their steps interleave, the
\* invariant holds.
THEOREM Invariance == SourceSpec => []IInv
<1>1. SourceInit => IInv
  BY InitInv
<1>2. IInv /\ [SourceNext]_SourceVars => IInv'
  BY StepInv
<1> QED BY <1>1, <1>2, PTL DEF SourceSpec

\* The catalog names no build that nobody merged and no time that was not in a list; and
\* as long as the analyses are of fetched builds, recorded under their own number, no
\* build that ALBS does not know (services/build_catalog.py, _record_analyzed_build and _verify_build_id of
\* gui/qt_app.py), for any number of racing and dying processes.
THEOREM RowsCorrect == SourceSpec => []RowsAreGenuine
<1>1. IInv => RowsAreGenuine
  <2> SUFFICES ASSUME IInv PROVE RowsAreGenuine
    OBVIOUS
  <2>1. RowsAreMerged /\ PatientRows
    BY DEF IInv, CatalogInv
  <2>2. Builds(Load) \subseteq recorded
    BY <2>1 DEF RowsAreMerged
  <2> QED BY <2>1, <2>2 DEF RowsAreGenuine, PatientRows
<1> QED BY <1>1, Invariance, PTL

\* Without overlapping merges and without a death in one, no merge loses a build of
\* another, or the time of a build once listed with it (docs/decisions.md:3295-3296,
\* qt_app.py:1748-1749), after any number of merges.
THEOREM RecordedCorrect == SourceSpec => []RecordedStays
<1>1. IInv => RecordedStays
  <2> SUFFICES ASSUME IInv, alone, Quiet
               PROVE  recorded \subseteq Builds(Load) /\ \A b \in listed : Load[b] # "bare"
    BY DEF RecordedStays
  <2>1. TypeOK /\ AloneKeeps
    BY DEF IInv, CatalogInv
  <2>2. Keeps(Load) /\ recorded \subseteq Build
    BY <2>1 DEF AloneKeeps, Quiet, TypeOK
  <2> QED BY <2>2 DEF Keeps, Builds
<1> QED BY <1>1, Invariance, PTL

\* A fetch returns the metadata of the build it was asked for, or a document of a user's
\* that names no build, and never the page without content; it writes only documents that
\* name the build; it fails on the file itself only if fetches clashed; and the badge of the
\* window tells what a fetch would make of the file (adapters/albs.py, gui/qt_app.py:184).
THEOREM CacheCorrect == SourceSpec => []CacheIsTrue
<1>1. IInv => CacheIsTrue
  <2> SUFFICES ASSUME IInv PROVE CacheIsTrue
    OBVIOUS
  <2>1. FetchTypeOK /\ AnswersAreTrue /\ UnclashedFile
    BY DEF IInv, FetchInv
  <2>2. FetchesAreTrue
    BY <2>1 DEF AnswersAreTrue, UnclashedFile, FetchesAreTrue
  <2>3. BadgeForetells
    <3> SUFFICES ASSUME NEW b \in Build
                 PROVE  /\ Badge(b) = "active" => Use(b) \in {"done", "unlink"}
                        /\ Badge(b) = "stale" => Use(b) = "ask"
                        /\ Badge(b) = "missing" => Use(b) \in {"gone", "ask", "unreadable"}
      BY DEF BadgeForetells
    <3>1. /\ Use(b) \in {"gone", "ask", "unreadable", "unlink", "done"}
          /\ Use(b) = "gone" <=> cache = Missing
          /\ Use(b) = "unreadable" <=> ~old /\ cache \in {Empty, Garbage}
          /\ Use(b) = "done" <=> /\ ~old /\ cache \in Body /\ cache.kind # "shell"
                                 /\ cache.build \in {b, Nameless}
          /\ Use(b) = "unlink" <=> /\ ~old /\ cache \in Body /\ cache.kind = "shell"
                                   /\ cache.build \in {b, Nameless}
      BY <2>1, UseOfFile
    <3>2. Matches(cache, b) <=> cache.build \in {b, Nameless}
      BY DEF Matches, BuildOf
    <3>3. cache \in Body \cup {Missing, Empty, Garbage}
      BY <2>1 DEF FetchTypeOK
    <3> QED BY <3>1, <3>2, <3>3 DEF Badge
  <2> QED BY <2>1, <2>2, <2>3 DEF CacheIsTrue
<1> QED BY <1>1, Invariance, PTL
=============================================================================
