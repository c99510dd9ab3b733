---------------------------- MODULE MetadataCache ----------------------------
(***************************************************************************)
(* The metadata of a build (fetch_build_metadata of adapters/albs.py) and  *)
(* the one cache file it reads and rewrites in place.  A command line may  *)
(* name one file for any build, so the file carries its build and is       *)
(* trusted for no other; a file that names no build, which only a user     *)
(* puts there, is trusted for every build.  A step is one file operation   *)
(* or one request of one process.                                          *)
(***************************************************************************)
EXTENDS SharedFiles

CONSTANTS Existing,   \* the builds ALBS knows
          Missing,    \* there is no file
          Nameless,   \* the build of a document with neither "id" nor "build_id"
          MaxFetches  \* bound: fetches begun, and files analysed instead

\* What is stored of a build: the API's answer, the page of a build, or the page
\* without any content that older versions took for one; or a document of a user's
\* that does not say what build it is of, with content or without.
Body == [kind : {"api", "page", "shell"}, build : Existing]
        \cup [kind : {"fixture", "shell"}, build : {Nameless}]

ASSUME ExistingAssumption == Existing \subseteq Build
ASSUME NamelessAssumption == Nameless \notin Build
ASSUME FetchBoundAssumption == MaxFetches \in Nat
\* What a file holds when it is there is none of the three other things it may be.
ASSUME FileAssumption ==
  /\ Missing \notin Body /\ Empty \notin Body /\ Garbage \notin Body
  /\ Missing \notin {Empty, Garbage} /\ Empty # Garbage

VARIABLES cache,
          old,     \* the file is past its time to live
          phase,   \* of the fetch of a process, and how its last one ended
          asked, refresh,
          got,     \* what it returns, or Missing
          fetches

\* What happened: fetches overlapped or one died.
VARIABLE clashed

metadataVars == <<cache, old, phase, asked, refresh, got, fetches, clashed>>

Ended == {"idle", "done", "gone", "unreadable", "refused", "died"}
UnderWay == {p \in Process : phase[p] \notin Ended}

FetchTypeOK ==
  /\ cache \in Body \cup {Missing, Empty, Garbage} /\ old \in BOOLEAN
  /\ phase \in [Process -> Ended \cup {"look", "read", "unlink", "ask", "page", "open", "write"}]
  /\ asked \in [Process -> Build] /\ refresh \in [Process -> BOOLEAN]
  /\ got \in [Process -> Body \cup {Missing}]
  /\ fetches \in 0 .. MaxFetches /\ clashed \in BOOLEAN

FetchInit ==
  /\ cache \in Body \cup {Missing} /\ old \in BOOLEAN /\ (old => cache # Missing)
  /\ phase = [p \in Process |-> "idle"]
  /\ asked \in {[p \in Process |-> b] : b \in Existing}
  /\ refresh = [p \in Process |-> FALSE]
  /\ got = [p \in Process |-> Missing]
  /\ fetches = 0 /\ clashed = FALSE

\* Mutant: the build is read under the API's name for it only.
BuildOf_ApiOnly(body) == IF body.kind = "api" THEN {body.build} ELSE {}

\* The build a cached document names, under either key, if it names one.
BuildOf(body) == {body.build} \ {Nameless}

\* May the cached body stand for build b?
Matches(body, b) == BuildOf(body) \subseteq {b}

To(p, where) == phase' = [phase EXCEPT ![p] = where]

\* A body that is returned.
Return(p, body) == To(p, "done") /\ got' = [got EXCEPT ![p] = body]

\* AnalysisService.load_graph or a command asks for build b.
Begin(p, b, again) ==
  /\ p \notin UnderWay /\ fetches < MaxFetches
  /\ fetches' = fetches + 1
  /\ asked' = [asked EXCEPT ![p] = b] /\ refresh' = [refresh EXCEPT ![p] = again]
  /\ got' = [got EXCEPT ![p] = Missing]
  /\ clashed' = (clashed \/ UnderWay # {})
  /\ To(p, "look")
  /\ UNCHANGED <<cache, old>>

\* exists ...
Look(p) ==
  /\ phase[p] = "look"
  /\ To(p, IF cache = Missing \/ refresh[p] THEN "ask" ELSE "read")
  /\ refresh' = [refresh EXCEPT ![p] = FALSE]
  /\ UNCHANGED <<cache, old, asked, got, fetches, clashed>>

\* What a fetch of b that found the file makes of it.
Use(b) ==
  CASE cache = Missing -> "gone"
    [] cache # Missing /\ old -> "ask"
    [] ~old /\ cache \in {Empty, Garbage} -> "unreadable"
    [] ~old /\ cache \in Body -> IF ~Matches(cache, b) THEN "ask"
                                 ELSE IF cache.kind = "shell" THEN "unlink" ELSE "done"

\* ... stat and read_text, which raise when the file has gone meanwhile.
Read(p) ==
  /\ phase[p] = "read"
  /\ To(p, Use(asked[p]))
  /\ got' = [got EXCEPT ![p] = IF Use(asked[p]) = "done" THEN cache ELSE Missing]
  /\ UNCHANGED <<cache, old, asked, refresh, fetches, clashed>>

\* The file that is removed need not be the one that was read.
Unlink(p) ==
  /\ phase[p] = "unlink"
  /\ cache' = Missing /\ old' = FALSE
  /\ To(p, "ask")
  /\ UNCHANGED <<asked, refresh, got, fetches, clashed>>

\* The API answers with the build, with 404 when there is none, or with an error;
\* requests may raise.
Ask(p) ==
  /\ phase[p] = "ask"
  /\ \/ asked[p] \in Existing /\ To(p, "open")
        /\ got' = [got EXCEPT ![p] = [kind |-> "api", build |-> asked[p]]]
     \/ (To(p, "page") \/ To(p, "refused")) /\ UNCHANGED got
  /\ UNCHANGED <<cache, old, asked, refresh, fetches, clashed>>

\* The page of the build instead: metadata, or nothing that parse_build_page can use.
Page(p) ==
  /\ phase[p] = "page"
  /\ \/ asked[p] \in Existing /\ To(p, "open")
        /\ got' = [got EXCEPT ![p] = [kind |-> "page", build |-> asked[p]]]
     \/ To(p, "refused") /\ UNCHANGED got
  /\ UNCHANGED <<cache, old, asked, refresh, fetches, clashed>>

\* write_text empties the file ...
OpenCache(p) ==
  /\ phase[p] = "open"
  /\ cache' = Empty /\ old' = FALSE
  /\ To(p, "write")
  /\ UNCHANGED <<asked, refresh, got, fetches, clashed>>

\* ... and writes, over what another process wrote since.
WriteCache(p) ==
  /\ phase[p] = "write"
  /\ \/ cache' = got[p] /\ old' = FALSE
     \/ cache \notin {Empty, Missing, got[p]} /\ cache' = Garbage /\ old' = FALSE
     \/ cache = Missing /\ cache' = Missing /\ UNCHANGED old  \* unlinked while open
  /\ To(p, "done")
  /\ UNCHANGED <<asked, refresh, got, fetches, clashed>>

Dies(p) ==
  /\ p \in UnderWay
  /\ To(p, "died")
  /\ got' = [got EXCEPT ![p] = Missing] /\ refresh' = [refresh EXCEPT ![p] = FALSE]
  /\ clashed' = TRUE
  /\ UNCHANGED <<cache, old, asked, fetches>>

\* The time to live of the file is over.
Expire ==
  /\ ~old /\ cache # Missing /\ old' = TRUE
  /\ UNCHANGED <<cache, phase, asked, refresh, got, fetches, clashed>>

Fetching(p) ==
  \/ Look(p) \/ Read(p) \/ Unlink(p) \/ Ask(p) \/ Page(p) \/ OpenCache(p) \/ WriteCache(p)
  \/ Dies(p)

\* Mutant: a document that names its build by "build_id" is missed.
Badge_ApiOnly(b) ==
  IF cache \in {Missing, Empty, Garbage} THEN "missing"
  ELSE IF ~(BuildOf_ApiOnly(cache) \subseteq {b}) THEN "missing"
  ELSE IF old THEN "stale" ELSE "active"

\* _cache_file_state (gui/qt_app.py): what the ALBS badge shows of the file.
Badge(b) ==
  IF cache \in {Missing, Empty, Garbage} \/ ~Matches(cache, b) THEN "missing"
  ELSE IF old THEN "stale" ELSE "active"

----------------------------------------------------------------------------
(* Properties *)

\* A fetch that returns has the metadata of the build it was asked for, which exists,
\* or a document that names no build ("Only a cache with neither key ... is accepted
\* without a match", adapters/albs.py:184), and never the page without content; what is
\* written names the build it was asked for, so a document without a name is never one
\* of another fetch; and a fetch fails on the file itself only if another one was under
\* way or died.
FetchesAreTrue ==
  /\ \A p \in Process :
       /\ phase[p] = "done" => got[p].build \in {asked[p], Nameless} /\ got[p].kind # "shell"
       /\ phase[p] \in {"open", "write"} => got[p].build = asked[p]
       /\ phase[p] \in {"gone", "unreadable"} => clashed

\* The badge applies "the same guard fetch_build_metadata applies before trusting a
\* cache" (gui/qt_app.py:184): active is what a fetch is served from, except for the
\* page without content, stale and missing what it does not use.
BadgeForetells ==
  \A b \in Build :
    /\ Badge(b) = "active" => Use(b) \in {"done", "unlink"}
    /\ Badge(b) = "stale" => Use(b) = "ask"
    /\ Badge(b) = "missing" => Use(b) \in {"gone", "ask", "unreadable"}

\* What the file is good for: a fetch that uses it gets the build it wants, or what a
\* user put there for any build, and the badge knows.
CacheIsTrue == FetchTypeOK /\ FetchesAreTrue /\ BadgeForetells
=============================================================================
