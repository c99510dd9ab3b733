-------------------------- MODULE ReadThroughCache --------------------------
(***************************************************************************)
(* What a read-through cache promises its callers, whatever it keeps where *)
(* (the contract in the docstrings of HttpCache and live_feeds): a call    *)
(* either raises or answers with a whole body that upstream has served for *)
(* that key.  Bodies are numbered in the order upstream publishes them.    *)
(***************************************************************************)
EXTENDS Naturals

CONSTANTS Worker, Key, Idle, Raised, Pending, MaxVersion

VARIABLES upstream, \* the body upstream serves for each key
          call,     \* the key each worker is asking for, or Idle
          answer    \* how the last call of each worker ended

Init ==
  /\ upstream = [k \in Key |-> 0]
  /\ call = [w \in Worker |-> Idle]
  /\ answer = [w \in Worker |-> Raised]

Publish(k) ==
  /\ upstream[k] < MaxVersion
  /\ upstream' = [upstream EXCEPT ![k] = @ + 1]
  /\ UNCHANGED <<call, answer>>

Ask(w, k) ==
  /\ call[w] = Idle
  /\ call' = [call EXCEPT ![w] = k]
  /\ answer' = [answer EXCEPT ![w] = Pending]
  /\ UNCHANGED upstream

Answer(w) ==
  /\ call[w] # Idle
  /\ \E v \in 0 .. upstream[call[w]] : answer' = [answer EXCEPT ![w] = v]
  /\ call' = [call EXCEPT ![w] = Idle]
  /\ UNCHANGED upstream

\* The call raises, or its process dies; a crash ends the calls of several workers.
Fail(workers) ==
  /\ call' = [w \in Worker |-> IF w \in workers THEN Idle ELSE call[w]]
  /\ answer' = [w \in Worker |-> IF w \in workers /\ call[w] # Idle THEN Raised ELSE answer[w]]
  /\ UNCHANGED upstream

Next ==
  \/ \E k \in Key : Publish(k)
  \/ \E w \in Worker, k \in Key : Ask(w, k)
  \/ \E w \in Worker : Answer(w)
  \/ \E workers \in SUBSET Worker : Fail(workers)

Spec == Init /\ [][Next]_<<upstream, call, answer>>
=============================================================================
