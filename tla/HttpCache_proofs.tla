-------------------------- MODULE HttpCache_proofs --------------------------
(***************************************************************************)
(* The cache for any number of workers, processes, keys and published      *)
(* bodies: no part of a body is ever served, an expired file is not served *)
(* to the feed call that found it expired, a file without a TTL does not   *)
(* vanish, and the cache implements ReadThroughCache.                      *)
(***************************************************************************)
EXTENDS HttpCache, TLAPS

\* Where a worker is in a call, and what it then has in its hands.
Shape ==
  /\ \A w \in Worker : pc[w] = "idle" <=> call[w] = Idle
  /\ \A w \in Worker : pc[w] \in {"ttl", "stat", "unlink"} => call[w] \in FeedKey
  /\ \A w \in Worker : pc[w] \in {"flush", "rename"} => temp[w] # Absent
  /\ \A w \in Worker : pc[w] \notin {"flush", "rename"} => temp[w] = Absent
  /\ \A w \in Worker : pc[w] = "rename" => temp[w].body = fetched[w]
  /\ \A w \in Worker : temp[w] # Absent => ~temp[w].stale

\* Bodies on disk, in the hands of a writer and in answers come from upstream.
Genuine ==
  /\ \A k \in Key : disk[k] # Absent => disk[k].body \in 0 .. upstream[k]
  /\ \A w \in Worker : pc[w] \in {"write", "flush", "rename"} =>
                         fetched[w] \in 0 .. upstream[call[w]]
  /\ \A w \in Worker : answer[w] # Truncated

\* A file number is used once: the file being written is not yet on disk, is no
\* other worker's and is not the expired file of any call.
Numbered ==
  /\ \A k \in Key : disk[k] # Absent => disk[k].no \in 1 .. fileCount
  /\ \A w \in Worker : expired[w] \in 0 .. fileCount
  /\ \A w \in Worker : temp[w] # Absent =>
       /\ temp[w].no \in 1 .. fileCount
       /\ \A v \in Worker : temp[w].no # expired[v]
       /\ \A v \in Worker : v # w /\ temp[v] # Absent => temp[v].no # temp[w].no
       /\ \A k \in Key : disk[k] # Absent => disk[k].no # temp[w].no

\* The expired file of a feed call is stale while it is there, and is gone once
\* the call has passed the TTL check; only feeds expire.
Freshness ==
  /\ \A k \in Key : disk[k] # Absent /\ disk[k].stale => k \in FeedKey
  /\ \A w \in Worker : pc[w] # "idle" /\ disk[call[w]] # Absent /\ disk[call[w]].no = expired[w] =>
       pc[w] \in {"ttl", "stat", "unlink"} /\ disk[call[w]].stale
  /\ \A w \in Worker : pc[w] # "idle" => served[w] = 0
  /\ StaleNotServed

IInv == TypeOK /\ Shape /\ Genuine /\ PlainNeverVanishes /\ Numbered /\ Freshness

USE WorkerAssumption, KeyAssumption, BoundAssumption, ValueAssumption, AbsentAssumption
-----------------------------------------------------------------------------
\* Every step keeps the types.
LEMMA TypeStep ==
  ASSUME TypeOK, Shape, [Next]_vars
  PROVE  TypeOK'
<1>1. ASSUME NEW k \in Key, Publish(k)
      PROVE  TypeOK'
  BY <1>1 DEF Publish, Goto, Return, Raise, Continue, FileOf, TypeOK, File, Body, Labels
<1>2. ASSUME NEW k \in FeedKey, Expire(k)
      PROVE  TypeOK'
  BY <1>2 DEF Expire, Goto, Return, Raise, Continue, FileOf, TypeOK, File, Body, Labels
<1>3. ASSUME NEW p \in Process, Crash(p)
      PROVE  TypeOK'
  BY <1>3 DEF Crash, Goto, Return, Raise, Continue, FileOf, TypeOK, File, Body, Labels
<1>4. ASSUME NEW w \in Worker, NEW k \in Key, Ask(w, k)
      PROVE  TypeOK'
  BY <1>4 DEF Ask, Goto, Return, Raise, Continue, FileOf, TypeOK, File, Body, Labels
<1>5. ASSUME NEW w \in Worker, TtlExists(w)
      PROVE  TypeOK'
  BY <1>5 DEF TtlExists, Goto, Return, Raise, Continue, FileOf, TypeOK, File, Body, Labels
<1>6. ASSUME NEW w \in Worker, TtlStat(w)
      PROVE  TypeOK'
  BY <1>6 DEF TtlStat, Goto, Return, Raise, Continue, FileOf, TypeOK, File, Body, Labels
<1>7. ASSUME NEW w \in Worker, Unlink(w)
      PROVE  TypeOK'
  BY <1>7 DEF Unlink, Goto, Return, Raise, Continue, FileOf, TypeOK, File, Body, Labels
<1>8. ASSUME NEW w \in Worker, Lookup(w)
      PROVE  TypeOK'
  BY <1>8 DEF Lookup, Goto, Return, Raise, Continue, FileOf, TypeOK, File, Body, Labels
<1>9. ASSUME NEW w \in Worker, Read(w)
      PROVE  TypeOK'
  BY <1>9 DEF Read, Goto, Return, Raise, Continue, FileOf, TypeOK, File, Body, Labels, Shape
<1>10. ASSUME NEW w \in Worker, Fetch(w)
      PROVE  TypeOK'
  BY <1>10 DEF Fetch, Goto, Return, Raise, Continue, FileOf, TypeOK, File, Body, Labels, Shape
<1>11. ASSUME NEW w \in Worker, WriteTemp(w)
      PROVE  TypeOK'
  BY <1>11 DEF WriteTemp, Goto, Return, Raise, Continue, FileOf, TypeOK, File, Body, Labels
<1>12. ASSUME NEW w \in Worker, FlushTemp(w)
      PROVE  TypeOK'
  BY <1>12 DEF FlushTemp, Goto, Return, Raise, Continue, FileOf, TypeOK, File, Body, Labels, Shape
<1>13. ASSUME NEW w \in Worker, Rename(w)
      PROVE  TypeOK'
  BY <1>13 DEF Rename, Goto, Return, Raise, Continue, FileOf, TypeOK, File, Body, Labels
<1>14. CASE UNCHANGED vars
  BY <1>14 DEF vars, TypeOK
<1> QED
  BY <1>1, <1>2, <1>3, <1>4, <1>5, <1>6, <1>7, <1>8, <1>9, <1>10, <1>11, <1>12, <1>13, <1>14 DEF Next, Step

\* Every step keeps the shape of a call.
LEMMA ShapeStep ==
  ASSUME TypeOK, Shape, [Next]_vars
  PROVE  Shape'
<1>1. ASSUME NEW k \in Key, Publish(k)
      PROVE  Shape'
  BY <1>1 DEF Publish, Goto, Return, Raise, Continue, FileOf, TypeOK, Shape, File
<1>2. ASSUME NEW k \in FeedKey, Expire(k)
      PROVE  Shape'
  BY <1>2 DEF Expire, Goto, Return, Raise, Continue, FileOf, TypeOK, Shape, File
<1>3. ASSUME NEW p \in Process, Crash(p)
      PROVE  Shape'
  BY <1>3 DEF Crash, Goto, Return, Raise, Continue, FileOf, TypeOK, Shape, File
<1>4. ASSUME NEW w \in Worker, NEW k \in Key, Ask(w, k)
      PROVE  Shape'
  BY <1>4 DEF Ask, Goto, Return, Raise, Continue, FileOf, TypeOK, Shape, File
<1>5. ASSUME NEW w \in Worker, TtlExists(w)
      PROVE  Shape'
  BY <1>5 DEF TtlExists, Goto, Return, Raise, Continue, FileOf, TypeOK, Shape, File
<1>6. ASSUME NEW w \in Worker, TtlStat(w)
      PROVE  Shape'
  BY <1>6 DEF TtlStat, Goto, Return, Raise, Continue, FileOf, TypeOK, Shape, File
<1>7. ASSUME NEW w \in Worker, Unlink(w)
      PROVE  Shape'
  BY <1>7 DEF Unlink, Goto, Return, Raise, Continue, FileOf, TypeOK, Shape, File
<1>8. ASSUME NEW w \in Worker, Lookup(w)
      PROVE  Shape'
  BY <1>8 DEF Lookup, Goto, Return, Raise, Continue, FileOf, TypeOK, Shape, File
<1>9. ASSUME NEW w \in Worker, Read(w)
      PROVE  Shape'
  BY <1>9 DEF Read, Goto, Return, Raise, Continue, FileOf, TypeOK, Shape, File
<1>10. ASSUME NEW w \in Worker, Fetch(w)
      PROVE  Shape'
  BY <1>10 DEF Fetch, Goto, Return, Raise, Continue, FileOf, TypeOK, Shape, File
<1>11. ASSUME NEW w \in Worker, WriteTemp(w)
      PROVE  Shape'
  <2>1. [no |-> fileCount', body |-> Truncated, stale |-> FALSE] \in File
    BY <1>11 DEF WriteTemp, TypeOK, File, Body
  <2>2. temp'[w] # Absent
    BY <1>11, <2>1 DEF WriteTemp, TypeOK
  <2> QED BY <1>11, <2>2 DEF WriteTemp, Goto, Continue, TypeOK, Shape
<1>12. ASSUME NEW w \in Worker, FlushTemp(w)
      PROVE  Shape'
  BY <1>12 DEF FlushTemp, Goto, Return, Raise, Continue, FileOf, TypeOK, Shape, File
<1>13. ASSUME NEW w \in Worker, Rename(w)
      PROVE  Shape'
  BY <1>13 DEF Rename, Goto, Return, Raise, Continue, FileOf, TypeOK, Shape, File
<1>14. CASE UNCHANGED vars
  BY <1>14 DEF vars, Shape
<1> QED
  BY <1>1, <1>2, <1>3, <1>4, <1>5, <1>6, <1>7, <1>8, <1>9, <1>10, <1>11, <1>12, <1>13, <1>14 DEF Next, Step

\* No step brings a body upstream never served.
LEMMA GenuineStep ==
  ASSUME TypeOK, Shape, Genuine, [Next]_vars
  PROVE  Genuine'
<1>1. ASSUME NEW k \in Key, Publish(k)
      PROVE  Genuine'
  BY <1>1 DEF Publish, Goto, Return, Raise, Continue, FileOf, TypeOK, Shape, Genuine, File
<1>2. ASSUME NEW k \in FeedKey, Expire(k)
      PROVE  Genuine'
  BY <1>2 DEF Expire, Goto, Return, Raise, Continue, FileOf, TypeOK, Shape, Genuine, File
<1>3. ASSUME NEW p \in Process, Crash(p)
      PROVE  Genuine'
  BY <1>3 DEF Crash, Goto, Return, Raise, Continue, FileOf, TypeOK, Shape, Genuine, File
<1>4. ASSUME NEW w \in Worker, NEW k \in Key, Ask(w, k)
      PROVE  Genuine'
  BY <1>4 DEF Ask, Goto, Return, Raise, Continue, FileOf, TypeOK, Shape, Genuine, File
<1>5. ASSUME NEW w \in Worker, TtlExists(w)
      PROVE  Genuine'
  BY <1>5 DEF TtlExists, Goto, Return, Raise, Continue, FileOf, TypeOK, Shape, Genuine, File
<1>6. ASSUME NEW w \in Worker, TtlStat(w)
      PROVE  Genuine'
  BY <1>6 DEF TtlStat, Goto, Return, Raise, Continue, FileOf, TypeOK, Shape, Genuine, File
<1>7. ASSUME NEW w \in Worker, Unlink(w)
      PROVE  Genuine'
  BY <1>7 DEF Unlink, Goto, Return, Raise, Continue, FileOf, TypeOK, Shape, Genuine, File
<1>8. ASSUME NEW w \in Worker, Lookup(w)
      PROVE  Genuine'
  BY <1>8 DEF Lookup, Goto, Return, Raise, Continue, FileOf, TypeOK, Shape, Genuine, File
<1>9. ASSUME NEW w \in Worker, Read(w)
      PROVE  Genuine'
  BY <1>9 DEF Read, Goto, Return, Raise, Continue, FileOf, TypeOK, Shape, Genuine, File
<1>10. ASSUME NEW w \in Worker, Fetch(w)
      PROVE  Genuine'
  BY <1>10 DEF Fetch, Goto, Return, Raise, Continue, FileOf, TypeOK, Shape, Genuine, File
<1>11. ASSUME NEW w \in Worker, WriteTemp(w)
      PROVE  Genuine'
  BY <1>11 DEF WriteTemp, Goto, Return, Raise, Continue, FileOf, TypeOK, Shape, Genuine, File
<1>12. ASSUME NEW w \in Worker, FlushTemp(w)
      PROVE  Genuine'
  BY <1>12 DEF FlushTemp, Goto, Return, Raise, Continue, FileOf, TypeOK, Shape, Genuine, File
<1>13. ASSUME NEW w \in Worker, Rename(w)
      PROVE  Genuine'
  BY <1>13 DEF Rename, Goto, Return, Raise, Continue, FileOf, TypeOK, Shape, Genuine, File
<1>14. CASE UNCHANGED vars
  BY <1>14 DEF vars, Genuine
<1> QED
  BY <1>1, <1>2, <1>3, <1>4, <1>5, <1>6, <1>7, <1>8, <1>9, <1>10, <1>11, <1>12, <1>13, <1>14 DEF Next, Step

\* Nothing deletes the file of a key without a TTL.
LEMMA PlainStep ==
  ASSUME TypeOK, Shape, PlainNeverVanishes, [Next]_vars
  PROVE  PlainNeverVanishes'
<1>1. ASSUME NEW k \in Key, Publish(k)
      PROVE  PlainNeverVanishes'
  BY <1>1 DEF Publish, Goto, Return, Raise, Continue, FileOf, TypeOK, Shape, PlainNeverVanishes
<1>2. ASSUME NEW k \in FeedKey, Expire(k)
      PROVE  PlainNeverVanishes'
  BY <1>2 DEF Expire, Goto, Return, Raise, Continue, FileOf, TypeOK, Shape, PlainNeverVanishes
<1>3. ASSUME NEW p \in Process, Crash(p)
      PROVE  PlainNeverVanishes'
  BY <1>3 DEF Crash, Goto, Return, Raise, Continue, FileOf, TypeOK, Shape, PlainNeverVanishes
<1>4. ASSUME NEW w \in Worker, NEW k \in Key, Ask(w, k)
      PROVE  PlainNeverVanishes'
  BY <1>4 DEF Ask, Goto, Return, Raise, Continue, FileOf, TypeOK, Shape, PlainNeverVanishes
<1>5. ASSUME NEW w \in Worker, TtlExists(w)
      PROVE  PlainNeverVanishes'
  BY <1>5 DEF TtlExists, Goto, Return, Raise, Continue, FileOf, TypeOK, Shape, PlainNeverVanishes
<1>6. ASSUME NEW w \in Worker, TtlStat(w)
      PROVE  PlainNeverVanishes'
  BY <1>6 DEF TtlStat, Goto, Return, Raise, Continue, FileOf, TypeOK, Shape, PlainNeverVanishes
<1>7. ASSUME NEW w \in Worker, Unlink(w)
      PROVE  PlainNeverVanishes'
  BY <1>7 DEF Unlink, Goto, Return, Raise, Continue, FileOf, TypeOK, Shape, PlainNeverVanishes
<1>8. ASSUME NEW w \in Worker, Lookup(w)
      PROVE  PlainNeverVanishes'
  BY <1>8 DEF Lookup, Goto, Return, Raise, Continue, FileOf, TypeOK, Shape, PlainNeverVanishes
<1>9. ASSUME NEW w \in Worker, Read(w)
      PROVE  PlainNeverVanishes'
  BY <1>9 DEF Read, Goto, Return, Raise, Continue, FileOf, TypeOK, Shape, PlainNeverVanishes
<1>10. ASSUME NEW w \in Worker, Fetch(w)
      PROVE  PlainNeverVanishes'
  BY <1>10 DEF Fetch, Goto, Return, Raise, Continue, FileOf, TypeOK, Shape, PlainNeverVanishes
<1>11. ASSUME NEW w \in Worker, WriteTemp(w)
      PROVE  PlainNeverVanishes'
  BY <1>11 DEF WriteTemp, Goto, Return, Raise, Continue, FileOf, TypeOK, Shape, PlainNeverVanishes
<1>12. ASSUME NEW w \in Worker, FlushTemp(w)
      PROVE  PlainNeverVanishes'
  BY <1>12 DEF FlushTemp, Goto, Return, Raise, Continue, FileOf, TypeOK, Shape, PlainNeverVanishes
<1>13. ASSUME NEW w \in Worker, Rename(w)
      PROVE  PlainNeverVanishes'
  BY <1>13 DEF Rename, Goto, Return, Raise, Continue, FileOf, TypeOK, Shape, PlainNeverVanishes
<1>14. CASE UNCHANGED vars
  BY <1>14 DEF vars, PlainNeverVanishes, FileOf
<1> QED
  BY <1>1, <1>2, <1>3, <1>4, <1>5, <1>6, <1>7, <1>8, <1>9, <1>10, <1>11, <1>12, <1>13, <1>14 DEF Next, Step

\* No step uses a file number twice.
LEMMA NumberedStep ==
  ASSUME TypeOK, Shape, Numbered, Freshness, [Next]_vars
  PROVE  Numbered'
<1>1. ASSUME NEW k \in Key, Publish(k)
      PROVE  Numbered'
  BY <1>1 DEF Publish, Goto, Return, Raise, Continue, FileOf, TypeOK, Shape, Numbered, Freshness, File
<1>2. ASSUME NEW k \in FeedKey, Expire(k)
      PROVE  Numbered'
  BY <1>2 DEF Expire, Goto, Return, Raise, Continue, FileOf, TypeOK, Shape, Numbered, Freshness, File
<1>3. ASSUME NEW p \in Process, Crash(p)
      PROVE  Numbered'
  BY <1>3 DEF Crash, Goto, Return, Raise, Continue, FileOf, TypeOK, Shape, Numbered, Freshness, File
<1>4. ASSUME NEW w \in Worker, NEW k \in Key, Ask(w, k)
      PROVE  Numbered'
  BY <1>4 DEF Ask, Goto, Return, Raise, Continue, FileOf, TypeOK, Shape, Numbered, Freshness, File
<1>5. ASSUME NEW w \in Worker, TtlExists(w)
      PROVE  Numbered'
  BY <1>5 DEF TtlExists, Goto, Return, Raise, Continue, FileOf, TypeOK, Shape, Numbered, Freshness, File
<1>6. ASSUME NEW w \in Worker, TtlStat(w)
      PROVE  Numbered'
  BY <1>6 DEF TtlStat, Goto, Return, Raise, Continue, FileOf, TypeOK, Shape, Numbered, Freshness, File
<1>7. ASSUME NEW w \in Worker, Unlink(w)
      PROVE  Numbered'
  BY <1>7 DEF Unlink, Goto, Return, Raise, Continue, FileOf, TypeOK, Shape, Numbered, Freshness, File
<1>8. ASSUME NEW w \in Worker, Lookup(w)
      PROVE  Numbered'
  BY <1>8 DEF Lookup, Goto, Return, Raise, Continue, FileOf, TypeOK, Shape, Numbered, Freshness, File
<1>9. ASSUME NEW w \in Worker, Read(w)
      PROVE  Numbered'
  BY <1>9 DEF Read, Goto, Return, Raise, Continue, FileOf, TypeOK, Shape, Numbered, Freshness, File
<1>10. ASSUME NEW w \in Worker, Fetch(w)
      PROVE  Numbered'
  BY <1>10 DEF Fetch, Goto, Return, Raise, Continue, FileOf, TypeOK, Shape, Numbered, Freshness, File
<1>11. ASSUME NEW w \in Worker, WriteTemp(w)
      PROVE  Numbered'
  BY <1>11 DEF WriteTemp, Goto, Return, Raise, Continue, FileOf, TypeOK, Shape, Numbered, Freshness, File
<1>12. ASSUME NEW w \in Worker, FlushTemp(w)
      PROVE  Numbered'
  BY <1>12 DEF FlushTemp, Goto, Return, Raise, Continue, FileOf, TypeOK, Shape, Numbered, Freshness, File
<1>13. ASSUME NEW w \in Worker, Rename(w)
      PROVE  Numbered'
  BY <1>13 DEF Rename, Goto, Return, Raise, Continue, FileOf, TypeOK, Shape, Numbered, Freshness, File
<1>14. CASE UNCHANGED vars
  BY <1>14 DEF vars, Numbered
<1> QED
  BY <1>1, <1>2, <1>3, <1>4, <1>5, <1>6, <1>7, <1>8, <1>9, <1>10, <1>11, <1>12, <1>13, <1>14 DEF Next, Step

\* No step brings an expired file back.
LEMMA FreshnessStep ==
  ASSUME TypeOK, Shape, Numbered, Freshness, [Next]_vars
  PROVE  Freshness'
<1>1. ASSUME NEW k \in Key, Publish(k)
      PROVE  Freshness'
  BY <1>1 DEF Publish, Goto, Return, Raise, Continue, FileOf, TypeOK, Shape, Numbered, Freshness, StaleNotServed, File
<1>2. ASSUME NEW k \in FeedKey, Expire(k)
      PROVE  Freshness'
  BY <1>2 DEF Expire, Goto, Return, Raise, Continue, FileOf, TypeOK, Shape, Numbered, Freshness, StaleNotServed, File
<1>3. ASSUME NEW p \in Process, Crash(p)
      PROVE  Freshness'
  BY <1>3 DEF Crash, Goto, Return, Raise, Continue, FileOf, TypeOK, Shape, Numbered, Freshness, StaleNotServed, File
<1>4. ASSUME NEW w \in Worker, NEW k \in Key, Ask(w, k)
      PROVE  Freshness'
  BY <1>4 DEF Ask, Goto, Return, Raise, Continue, FileOf, TypeOK, Shape, Numbered, Freshness, StaleNotServed, File
<1>5. ASSUME NEW w \in Worker, TtlExists(w)
      PROVE  Freshness'
  BY <1>5 DEF TtlExists, Goto, Return, Raise, Continue, FileOf, TypeOK, Shape, Numbered, Freshness, StaleNotServed, File
<1>6. ASSUME NEW w \in Worker, TtlStat(w)
      PROVE  Freshness'
  BY <1>6 DEF TtlStat, Goto, Return, Raise, Continue, FileOf, TypeOK, Shape, Numbered, Freshness, StaleNotServed, File
<1>7. ASSUME NEW w \in Worker, Unlink(w)
      PROVE  Freshness'
  BY <1>7 DEF Unlink, Goto, Return, Raise, Continue, FileOf, TypeOK, Shape, Numbered, Freshness, StaleNotServed, File
<1>8. ASSUME NEW w \in Worker, Lookup(w)
      PROVE  Freshness'
  BY <1>8 DEF Lookup, Goto, Return, Raise, Continue, FileOf, TypeOK, Shape, Numbered, Freshness, StaleNotServed, File
<1>9. ASSUME NEW w \in Worker, Read(w)
      PROVE  Freshness'
  BY <1>9 DEF Read, Goto, Return, Raise, Continue, FileOf, TypeOK, Shape, Numbered, Freshness, StaleNotServed, File
<1>10. ASSUME NEW w \in Worker, Fetch(w)
      PROVE  Freshness'
  BY <1>10 DEF Fetch, Goto, Return, Raise, Continue, FileOf, TypeOK, Shape, Numbered, Freshness, StaleNotServed, File
<1>11. ASSUME NEW w \in Worker, WriteTemp(w)
      PROVE  Freshness'
  BY <1>11 DEF WriteTemp, Goto, Return, Raise, Continue, FileOf, TypeOK, Shape, Numbered, Freshness, StaleNotServed, File
<1>12. ASSUME NEW w \in Worker, FlushTemp(w)
      PROVE  Freshness'
  BY <1>12 DEF FlushTemp, Goto, Return, Raise, Continue, FileOf, TypeOK, Shape, Numbered, Freshness, StaleNotServed, File
<1>13. ASSUME NEW w \in Worker, Rename(w)
      PROVE  Freshness'
  <2>1. /\ call[w] \in Key /\ temp[w] \in File
        /\ \A v \in Worker : temp[w].no # expired[v]
    BY <1>13 DEF Rename, TypeOK, Shape, Numbered
  <2>2. \A k \in Key : disk'[k] = IF k = call[w] THEN temp[w] ELSE disk[k]
    BY <1>13 DEF Rename, TypeOK
  <2>3. ~temp[w].stale
    BY <1>13 DEF Rename, Shape
  <2> QED BY <1>13, <2>1, <2>2, <2>3 DEF Rename, Return, Goto, TypeOK, Shape, Freshness, StaleNotServed
<1>14. CASE UNCHANGED vars
  BY <1>14 DEF vars, Freshness, StaleNotServed
<1> QED
  BY <1>1, <1>2, <1>3, <1>4, <1>5, <1>6, <1>7, <1>8, <1>9, <1>10, <1>11, <1>12, <1>13, <1>14 DEF Next, Step

-----------------------------------------------------------------------------
\* An empty cache satisfies the invariant.
LEMMA InitInv == Init => IInv
  BY DEF Init, IInv, TypeOK, Labels, File, Body, Shape, Genuine, PlainNeverVanishes, Numbered,
         Freshness, StaleNotServed

\* Every file system call, fetch and crash keeps the invariant.
LEMMA StepInv == IInv /\ [Next]_vars => IInv'
  BY TypeStep, ShapeStep, GenuineStep, PlainStep, NumberedStep, FreshnessStep DEF IInv

\* The inductive invariant holds in every reachable state.
THEOREM Invariance == Spec => []IInv
  BY InitInv, StepInv, PTL DEF Spec

\* Every reachable state is well typed.
THEOREM TypeCorrect == Spec => []TypeOK
<1>1. IInv => TypeOK
  BY DEF IInv
<1> QED BY <1>1, Invariance, PTL

\* No cache file and no answer is ever a part of a body, crashes included.
THEOREM CrashSafe == Spec => []NeverTruncated
<1>1. IInv => NeverTruncated
  BY DEF IInv, Genuine, NeverTruncated
<1> QED BY <1>1, Invariance, PTL

\* The file of a key without a TTL does not vanish under a reader.
THEOREM PlainCorrect == Spec => []PlainNeverVanishes
<1>1. IInv => PlainNeverVanishes
  BY DEF IInv
<1> QED BY <1>1, Invariance, PTL

\* A reader finds its file, and a whole body in it.
THEOREM ReadsCorrect == Spec => []ReadsAreSafe
  BY TypeCorrect, CrashSafe, PlainCorrect, PTL DEF ReadsAreSafe

\* A feed call does not answer with the file it found expired.
THEOREM FreshnessCorrect == Spec => []StaleNotServed
<1>1. IInv => StaleNotServed
  BY DEF IInv, Freshness
<1> QED BY <1>1, Invariance, PTL
-----------------------------------------------------------------------------
(* Refinement *)

contractVars == <<upstream, call, answer>>

\* An empty cache is an initial state of the contract.
LEMMA RefineInit == Init => Contract!Init
  BY DEF Init, Contract!Init

\* A worker that raises ends its call as the contract allows.
LEMMA RaiseRefines ==
  ASSUME TypeOK, Shape, NEW w \in Worker, pc[w] # "idle", Raise(w), UNCHANGED upstream
  PROVE  Contract!Fail({w})
<1>1. call[w] # Idle
  BY DEF Shape
<1> QED BY <1>1 DEF Raise, Return, TypeOK, Contract!Fail

\* A worker that returns a body of upstream answers as the contract allows.
LEMMA ReturnRefines ==
  ASSUME TypeOK, Shape, NEW w \in Worker, pc[w] # "idle", NEW v \in 0 .. upstream[call[w]],
         NEW file, Return(w, v, file), UNCHANGED upstream
  PROVE  Contract!Answer(w)
<1>1. call[w] # Idle
  BY DEF Shape
<1> QED BY <1>1 DEF Return, TypeOK, Contract!Answer

\* Every step is a step of the contract, or one its callers do not see.
LEMMA RefineStep == IInv /\ [Next]_vars => [Contract!Next]_contractVars
<1> SUFFICES ASSUME IInv, [Next]_vars
             PROVE  [Contract!Next]_contractVars
  OBVIOUS
<1>0. TypeOK /\ Shape /\ Genuine
  BY DEF IInv
<1> DEFINE Refined == Contract!Next \/ UNCHANGED contractVars
<1>1. ASSUME NEW k \in Key, Publish(k)
      PROVE  Refined
  BY <1>1 DEF Publish, Contract!Next, Contract!Publish
<1>2. ASSUME NEW k \in FeedKey, Expire(k)
      PROVE  Refined
  BY <1>2 DEF Expire, contractVars
<1>3. ASSUME NEW p \in Process, Crash(p)
      PROVE  Refined
  <2> DEFINE dead == {w \in Worker : ProcessOf[w] = p}
  <2>1. Contract!Fail(dead)
    BY <1>3 DEF Crash, Contract!Fail
  <2> QED BY <2>1 DEF Contract!Next
<1>4. ASSUME NEW w \in Worker, NEW k \in Key, Ask(w, k)
      PROVE  Refined
  BY <1>0, <1>4 DEF Ask, Shape, Contract!Next, Contract!Ask
<1>5. ASSUME NEW w \in Worker, TtlExists(w) \/ Lookup(w) \/ WriteTemp(w)
      PROVE  Refined
  BY <1>5 DEF TtlExists, Lookup, WriteTemp, Continue, contractVars
<1>6. ASSUME NEW w \in Worker, TtlStat(w)
      PROVE  Refined
  BY <1>0, <1>6, RaiseRefines DEF TtlStat, Continue, contractVars, Contract!Next
<1>7. ASSUME NEW w \in Worker, Unlink(w)
      PROVE  Refined
  BY <1>0, <1>7, RaiseRefines DEF Unlink, Continue, contractVars, Contract!Next
<1>8. ASSUME NEW w \in Worker, Read(w)
      PROVE  Refined
  <2>1. CASE FileOf(w) = Absent
    BY <1>0, <1>8, <2>1, RaiseRefines DEF Read, Contract!Next
  <2>2. CASE FileOf(w) # Absent
    <3>1. FileOf(w).body \in 0 .. upstream[call[w]]
      BY <1>0, <1>8, <2>2 DEF Read, FileOf, TypeOK, Shape, Genuine
    <3>2. Contract!Answer(w)
      BY <1>0, <1>8, <2>2, <3>1, ReturnRefines DEF Read
    <3> QED BY <3>2 DEF Contract!Next
  <2> QED BY <2>1, <2>2
<1>9. ASSUME NEW w \in Worker, Fetch(w)
      PROVE  Refined
  BY <1>0, <1>9, RaiseRefines DEF Fetch, Continue, contractVars, Contract!Next
<1>10. ASSUME NEW w \in Worker, FlushTemp(w)
       PROVE  Refined
  BY <1>0, <1>10, RaiseRefines DEF FlushTemp, Continue, contractVars, Contract!Next
<1>11. ASSUME NEW w \in Worker, Rename(w)
       PROVE  Refined
  <2>1. fetched[w] \in 0 .. upstream[call[w]]
    BY <1>0, <1>11 DEF Rename, Genuine
  <2>2. Contract!Answer(w)
    BY <1>0, <1>11, <2>1, ReturnRefines DEF Rename
  <2> QED BY <2>2 DEF Contract!Next
<1>12. CASE UNCHANGED vars
  BY <1>12 DEF vars, contractVars
<1> QED
  BY <1>1, <1>2, <1>3, <1>4, <1>5, <1>6, <1>7, <1>8, <1>9, <1>10, <1>11, <1>12 DEF Next, Step

\* Every behaviour of the cache is one the contract allows.
THEOREM Refinement == Spec => ImplementsContract
<1>1. Init /\ [][Next]_vars /\ []IInv => Contract!Init /\ [][Contract!Next]_contractVars
  BY RefineInit, RefineStep, PTL
<1> QED
  BY <1>1, Invariance, PTL DEF Spec, ImplementsContract, Contract!Spec, contractVars
=============================================================================
