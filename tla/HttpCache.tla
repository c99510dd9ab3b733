------------------------------ MODULE HttpCache ------------------------------
(***************************************************************************)
(* The disk cache every network fetch goes through                         *)
(* (albs_graph/adapters/_http_cache.py) and the freshness window the live  *)
(* feeds put on top of it (_cached_get in security/live_feeds.py).  The    *)
(* cache directory is shared by the threads of a fetch pool, by the        *)
(* desktop application's workers and by other processes, and nothing locks *)
(* it; a step of this module is one file system call or one fetch.         *)
(***************************************************************************)
EXTENDS Naturals

CONSTANTS Worker, Process, ProcessOf, \* threads, and the process each runs in
          Key, FeedKey,               \* cache keys; those asked for with a TTL
          Idle, Raised, Pending,      \* outcomes, as in ReadThroughCache
          Absent,                     \* no such file
          Truncated,                  \* bytes upstream never served: a part of a body
          MaxVersion, MaxFiles        \* bounds: bodies published, files written

ASSUME WorkerAssumption == ProcessOf \in [Worker -> Process]
ASSUME KeyAssumption == FeedKey \subseteq Key /\ Idle \notin Key
ASSUME BoundAssumption == MaxVersion \in Nat /\ MaxFiles \in Nat
ASSUME ValueAssumption ==
  /\ Truncated \notin Nat /\ Raised \notin Nat /\ Pending \notin Nat
  /\ Truncated # Raised /\ Truncated # Pending

Body == Nat \cup {Truncated}
File == [no : Nat, body : Body, stale : BOOLEAN]

ASSUME AbsentAssumption == Absent \notin File

VARIABLES upstream,  \* the body upstream serves for each key
          disk,      \* the cache file of each key
          temp,      \* the temporary file each worker is writing
          pc, call,  \* where each worker is, and the key it asks for
          fetched,   \* the body a worker holds in memory
          answer,    \* how its last call ended
          served,    \* number of the file that call read, 0 if none
          expired,   \* number of the cache file that was stale when the call began
          fileCount

vars == <<upstream, disk, temp, pc, call, fetched, answer, served, expired, fileCount>>

Labels == {"idle", "ttl", "stat", "unlink", "lookup", "read", "fetch", "write", "flush", "rename"}

TypeOK ==
  /\ upstream \in [Key -> 0 .. MaxVersion]
  /\ disk \in [Key -> File \cup {Absent}]
  /\ temp \in [Worker -> File \cup {Absent}]
  /\ pc \in [Worker -> Labels]
  /\ call \in [Worker -> Key \cup {Idle}]
  /\ fetched \in [Worker -> Body]
  /\ answer \in [Worker -> Body \cup {Raised, Pending}]
  /\ served \in [Worker -> Nat] /\ expired \in [Worker -> Nat]
  /\ fileCount \in 0 .. MaxFiles

Init ==
  /\ upstream = [k \in Key |-> 0]
  /\ disk = [k \in Key |-> Absent]
  /\ temp = [w \in Worker |-> Absent]
  /\ pc = [w \in Worker |-> "idle"]
  /\ call = [w \in Worker |-> Idle]
  /\ fetched = [w \in Worker |-> 0]
  /\ answer = [w \in Worker |-> Raised]
  /\ served = [w \in Worker |-> 0]
  /\ expired = [w \in Worker |-> 0]
  /\ fileCount = 0

\* The file of the key w asks for.
FileOf(w) == disk[call[w]]

Goto(w, label) == pc' = [pc EXCEPT ![w] = label]

Return(w, outcome, file) ==
  /\ Goto(w, "idle")
  /\ call' = [call EXCEPT ![w] = Idle]
  /\ answer' = [answer EXCEPT ![w] = outcome]
  /\ served' = [served EXCEPT ![w] = file]

Raise(w) == Return(w, Raised, 0)

Continue == UNCHANGED <<call, answer, served>>

----------------------------------------------------------------------------
(* The world: upstream publishes, time passes, a process dies *)

Publish(k) ==
  /\ upstream[k] < MaxVersion
  /\ upstream' = [upstream EXCEPT ![k] = @ + 1]
  /\ UNCHANGED <<disk, temp, pc, call, fetched, answer, served, expired, fileCount>>

\* The TTL of a feed's cache file runs out.  (A temporary file is renamed long before.)
Expire(k) ==
  /\ disk[k] # Absent /\ ~disk[k].stale
  /\ disk' = [disk EXCEPT ![k].stale = TRUE]
  /\ UNCHANGED <<upstream, temp, pc, call, fetched, answer, served, expired, fileCount>>

\* A crash loses what the workers of the process hold.  A temporary file stays
\* behind under a name no key has, so it is dropped from the state.
Crash(p) ==
  LET dead == {w \in Worker : ProcessOf[w] = p}
  IN  /\ pc' = [w \in Worker |-> IF w \in dead THEN "idle" ELSE pc[w]]
      /\ call' = [w \in Worker |-> IF w \in dead THEN Idle ELSE call[w]]
      /\ temp' = [w \in Worker |-> IF w \in dead THEN Absent ELSE temp[w]]
      /\ answer' = [w \in Worker |-> IF w \in dead /\ call[w] # Idle THEN Raised ELSE answer[w]]
      /\ UNCHANGED <<upstream, disk, fetched, served, expired, fileCount>>

----------------------------------------------------------------------------
(* _cached_get: the freshness window of a feed *)

\* A call: through _cached_get for a feed, straight to get_or_fetch otherwise.
Ask(w, k) ==
  /\ pc[w] = "idle"
  /\ Goto(w, IF k \in FeedKey THEN "ttl" ELSE "lookup")
  /\ call' = [call EXCEPT ![w] = k]
  /\ answer' = [answer EXCEPT ![w] = Pending]
  /\ served' = [served EXCEPT ![w] = 0]
  /\ expired' = [expired EXCEPT ![w] = IF disk[k] # Absent /\ disk[k].stale THEN disk[k].no ELSE 0]
  /\ UNCHANGED <<upstream, disk, temp, fetched, fileCount>>

TtlExists(w) ==
  /\ pc[w] = "ttl"
  /\ Goto(w, IF FileOf(w) # Absent THEN "stat" ELSE "lookup")
  /\ Continue
  /\ UNCHANGED <<upstream, disk, temp, fetched, expired, fileCount>>

\* Mutant of _within_ttl: any cached copy is fresh enough.
TtlStat_NoTtl(w) ==
  /\ pc[w] = "stat"
  /\ Goto(w, "lookup")
  /\ Continue
  /\ UNCHANGED <<upstream, disk, temp, fetched, expired, fileCount>>

\* _within_ttl stats the path; the file may have gone since.
TtlStat(w) ==
  /\ pc[w] = "stat"
  /\ \/ FileOf(w) = Absent /\ Raise(w)
     \/ /\ FileOf(w) # Absent
        /\ Goto(w, IF FileOf(w).stale THEN "unlink" ELSE "lookup")
        /\ Continue
  /\ UNCHANGED <<upstream, disk, temp, fetched, expired, fileCount>>

Unlink(w) ==
  /\ pc[w] = "unlink"
  /\ \/ FileOf(w) = Absent /\ Raise(w) /\ UNCHANGED disk
     \/ /\ FileOf(w) # Absent
        /\ disk' = [disk EXCEPT ![call[w]] = Absent]
        /\ Goto(w, "lookup")
        /\ Continue
  /\ UNCHANGED <<upstream, temp, fetched, expired, fileCount>>

----------------------------------------------------------------------------
(* get_or_fetch and _store *)

Lookup(w) ==
  /\ pc[w] = "lookup"
  /\ Goto(w, IF FileOf(w) # Absent THEN "read" ELSE "fetch")
  /\ Continue
  /\ UNCHANGED <<upstream, disk, temp, fetched, expired, fileCount>>

Read(w) ==
  /\ pc[w] = "read"
  /\ \/ FileOf(w) = Absent /\ Raise(w)
     \/ FileOf(w) # Absent /\ Return(w, FileOf(w).body, FileOf(w).no)
  /\ UNCHANGED <<upstream, disk, temp, fetched, expired, fileCount>>

\* Mutant of the fetcher contract: an error response is handed to _store.
Fetch_ErrorBody(w) ==
  /\ pc[w] = "fetch"
  /\ \E body \in {upstream[call[w]], Truncated} : fetched' = [fetched EXCEPT ![w] = body]
  /\ Goto(w, "write")
  /\ Continue
  /\ UNCHANGED <<upstream, disk, temp, expired, fileCount>>

\* The fetch succeeds with what upstream serves now, or raises.
Fetch(w) ==
  /\ pc[w] = "fetch"
  /\ \/ /\ fetched' = [fetched EXCEPT ![w] = upstream[call[w]]]
        /\ Goto(w, "write")
        /\ Continue
     \/ Raise(w) /\ UNCHANGED fetched
  /\ UNCHANGED <<upstream, disk, temp, expired, fileCount>>

\* Mutant of _store: the body is written to the cache file itself.
WriteTemp_InPlace(w) ==
  /\ pc[w] = "write" /\ fileCount < MaxFiles
  /\ fileCount' = fileCount + 1
  /\ temp' = [temp EXCEPT ![w] = [no |-> fileCount', body |-> Truncated, stale |-> FALSE]]
  /\ disk' = [disk EXCEPT ![call[w]] = temp'[w]]
  /\ Goto(w, "flush")
  /\ Continue
  /\ UNCHANGED <<upstream, fetched, expired>>

\* A temporary sibling is opened and holds a part of the body.
WriteTemp(w) ==
  /\ pc[w] = "write" /\ fileCount < MaxFiles
  /\ fileCount' = fileCount + 1
  /\ temp' = [temp EXCEPT ![w] = [no |-> fileCount', body |-> Truncated, stale |-> FALSE]]
  /\ Goto(w, "flush")
  /\ Continue
  /\ UNCHANGED <<upstream, disk, fetched, expired>>

\* Mutant of _store: after a failed write the cache file is cleaned up instead.
FlushTemp_CleansPath(w) ==
  /\ pc[w] = "flush"
  /\ \/ /\ temp' = [temp EXCEPT ![w].body = fetched[w]]
        /\ Goto(w, "rename")
        /\ Continue
        /\ UNCHANGED disk
     \/ /\ temp' = [temp EXCEPT ![w] = Absent]
        /\ disk' = [disk EXCEPT ![call[w]] = Absent]
        /\ Raise(w)
  /\ UNCHANGED <<upstream, fetched, expired, fileCount>>

\* write, flush and fsync finish, or raise (disk full) and leave the sibling behind.
FlushTemp(w) ==
  /\ pc[w] = "flush"
  /\ \/ /\ temp' = [temp EXCEPT ![w].body = fetched[w]]
        /\ Goto(w, "rename")
        /\ Continue
     \/ temp' = [temp EXCEPT ![w] = Absent] /\ Raise(w)
  /\ UNCHANGED <<upstream, disk, fetched, expired, fileCount>>

\* The sibling replaces the cache file in one step; the call returns the body it
\* fetched.
Rename(w) ==
  /\ pc[w] = "rename"
  /\ disk' = [disk EXCEPT ![call[w]] = temp[w]]
  /\ temp' = [temp EXCEPT ![w] = Absent]
  /\ Return(w, fetched[w], 0)
  /\ UNCHANGED <<upstream, fetched, expired, fileCount>>

Step(w) ==
  \/ TtlExists(w) \/ TtlStat(w) \/ Unlink(w)
  \/ Lookup(w) \/ Read(w) \/ Fetch(w)
  \/ WriteTemp(w) \/ FlushTemp(w) \/ Rename(w)

Next ==
  \/ \E k \in Key : Publish(k)
  \/ \E k \in FeedKey : Expire(k)
  \/ \E p \in Process : Crash(p)
  \/ \E w \in Worker, k \in Key : Ask(w, k)
  \/ \E w \in Worker : Step(w)

Spec == Init /\ [][Next]_vars

----------------------------------------------------------------------------
(* Properties *)

\* _http_cache.py:11: "Cache writes are atomic (tmp + rename) so a crash mid-write
\* cannot poison subsequent reads": no cache file and no answer is a part of a body,
\* for any interleaving of writers, readers, failed writes and crashes.
NeverTruncated ==
  /\ \A k \in Key : disk[k] # Absent => disk[k].body # Truncated
  /\ \A w \in Worker : answer[w] # Truncated

\* Without a TTL nothing deletes a cache file, so between exists() and read_bytes()
\* it cannot vanish: a worker that decided to read finds a file.
PlainNeverVanishes ==
  \A w \in Worker : pc[w] = "read" /\ call[w] \notin FeedKey => FileOf(w) # Absent

\* What a reader of a cache file relies on: every file and every answer is of its kind,
\* and the two above.
ReadsAreSafe == TypeOK /\ NeverTruncated /\ PlainNeverVanishes

\* A feed call never answers with the cache file that was already past its TTL when
\* the call began, whatever other workers delete and store meanwhile.
StaleNotServed ==
  \A w \in Worker : served[w] # 0 => served[w] # expired[w]

\* The cache keeps the promise of ReadThroughCache.
Contract == INSTANCE ReadThroughCache
              WITH upstream <- upstream, call <- call, answer <- answer
ImplementsContract == Contract!Spec
=============================================================================
