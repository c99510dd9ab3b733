----------------------------- MODULE BuildCatalog -----------------------------
(***************************************************************************)
(* The catalog of known build numbers (services/build_catalog.py), a JSON  *)
(* file that every running workbench rewrites as a whole: when it fetches  *)
(* the list of recent builds, and when an analysis has finished            *)
(* (gui/qt_app.py).  A step is one file operation of one process; nothing  *)
(* locks the file.  BuildSources composes it with the metadata cache.      *)
(***************************************************************************)
EXTENDS SharedFiles

CONSTANT MaxWrites  \* bound: merges begun

ASSUME BoundAssumption == MaxWrites \in Nat

\* What the catalog says of a build: nothing, its number, or also when it was built.
Row == {"unknown", "bare", "dated"}
Catalog == [Build -> Row]
NoRows == [b \in Build |-> "unknown"]

\* An emptied or a garbled file is not a catalog.
ASSUME RowsAssumption == Empty \notin Catalog /\ Garbage \notin Catalog

VARIABLES file,     \* the catalog file; a missing file is one without rows
          pc,
          new,      \* the builds a process is about to merge
          merged,   \* the catalog it is about to write
          writes

\* What happened: builds of finished merges, those listed with their time, and
\* whether each merge was over before the next began.
VARIABLES recorded, listed, alone

vars == <<file, pc, new, merged, writes, recorded, listed, alone>>

TypeOK ==
  /\ file \in Catalog \cup {Empty, Garbage}
  /\ pc \in [Process -> {"idle", "known", "load", "open", "write"}]
  /\ new \in [Process -> Catalog] /\ merged \in [Process -> Catalog]
  /\ writes \in 0 .. MaxWrites
  /\ recorded \subseteq Build /\ listed \subseteq Build /\ alone \in BOOLEAN

Init ==
  /\ file = NoRows
  /\ pc = [p \in Process |-> "idle"]
  /\ new = [p \in Process |-> NoRows] /\ merged = [p \in Process |-> NoRows]
  /\ writes = 0
  /\ recorded = {} /\ listed = {} /\ alone = TRUE

Quiet == \A p \in Process : pc[p] = "idle"

\* load: empty on a missing or corrupt file.
Load == IF file \in {Empty, Garbage} THEN NoRows ELSE file

Builds(rows) == {b \in Build : rows[b] # "unknown"}

\* refresh_build_list has fetched a page of the build list.
Refresh(p, builds) ==
  /\ pc[p] = "idle" /\ writes < MaxWrites
  /\ writes' = writes + 1 /\ alone' = (alone /\ Quiet)
  /\ new' = [new EXCEPT ![p] = [b \in Build |-> IF b \in builds THEN "dated" ELSE "unknown"]]
  /\ pc' = [pc EXCEPT ![p] = "load"]
  /\ UNCHANGED <<file, merged, recorded, listed>>

\* _record_analyzed_build: an analysis of b has finished.
Record(p, b) ==
  /\ pc[p] = "idle" /\ writes < MaxWrites
  /\ writes' = writes + 1 /\ alone' = (alone /\ Quiet)
  /\ new' = [new EXCEPT ![p] = [NoRows EXCEPT ![b] = "bare"]]
  /\ pc' = [pc EXCEPT ![p] = "known"]
  /\ UNCHANGED <<file, merged, recorded, listed>>

\* Mutant: the known build time is not looked up.
Known_Ignored(p) ==
  /\ pc[p] = "known"
  /\ pc' = [pc EXCEPT ![p] = "load"]
  /\ UNCHANGED <<file, new, merged, writes, recorded, listed, alone>>

\* ... its first load, for the build time that is known already.
Known(p) ==
  /\ pc[p] = "known"
  /\ new' = [new EXCEPT ![p] = [b \in Build |->
               IF @[b] = "bare" /\ Load[b] = "dated" THEN "dated" ELSE @[b]]]
  /\ pc' = [pc EXCEPT ![p] = "load"]
  /\ UNCHANGED <<file, merged, writes, recorded, listed, alone>>

\* merge: load, then upsert the new rows.
Merge(p) ==
  /\ pc[p] = "load"
  /\ merged' = [merged EXCEPT ![p] = [b \in Build |->
                  IF new[p][b] # "unknown" THEN new[p][b] ELSE Load[b]]]
  /\ pc' = [pc EXCEPT ![p] = "open"]
  /\ UNCHANGED <<file, new, writes, recorded, listed, alone>>

\* save: write_text opens the file, which empties it ...
Open(p) ==
  /\ pc[p] = "open"
  /\ file' = Empty
  /\ pc' = [pc EXCEPT ![p] = "write"]
  /\ UNCHANGED <<new, merged, writes, recorded, listed, alone>>

\* ... and writes from its start.  What another process wrote meanwhile is
\* overwritten as far as this text reaches.
Write(p) ==
  /\ pc[p] = "write"
  /\ \/ file' = merged[p]
     \/ file \notin {Empty, merged[p]} /\ file' = Garbage
  /\ pc' = [pc EXCEPT ![p] = "idle"]
  /\ recorded' = recorded \cup Builds(new[p])
  /\ listed' = listed \cup {b \in Build : new[p][b] = "dated"}
  /\ new' = [new EXCEPT ![p] = NoRows] /\ merged' = [merged EXCEPT ![p] = NoRows]
  /\ UNCHANGED <<writes, alone>>

Crash(p) ==
  /\ pc[p] # "idle"
  /\ pc' = [pc EXCEPT ![p] = "idle"]
  /\ alone' = FALSE
  /\ new' = [new EXCEPT ![p] = NoRows] /\ merged' = [merged EXCEPT ![p] = NoRows]
  /\ UNCHANGED <<file, writes, recorded, listed>>

\* What a process that is merging may do next.
Merging(p) == Known(p) \/ Merge(p) \/ Open(p) \/ Write(p) \/ Crash(p)

----------------------------------------------------------------------------
(* Properties *)

\* docs/decisions.md:3295-3296: "a build the user actually analyzed is upserted into
\* the catalog (so it stays even after it ages off the recent page)", and
\* qt_app.py:1748-1749: "Preserve any build time already known for it so the time sort
\* stays correct": as long as no two merges overlap and no process dies in one, no
\* merge loses a build of another, or the time of a build once listed with it.
RecordedStays ==
  alone /\ Quiet => /\ recorded \subseteq Builds(Load)
                   /\ \A b \in listed : Load[b] # "bare"

\* However processes race or die, the catalog names no build that nobody merged, and
\* no build time that was not in a list.
RowsAreMerged ==
  /\ TypeOK
  /\ \A b \in Builds(Load) : /\ b \in recorded
                             /\ Load[b] = "dated" => b \in listed
=============================================================================
