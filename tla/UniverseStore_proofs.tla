------------------------- MODULE UniverseStore_proofs -------------------------
(***************************************************************************)
(* What holds of the store of universes for any processes, universes and   *)
(* number of operations, however they overlap or die.                      *)
(***************************************************************************)
EXTENDS UniverseStore, FiniteSetTheorems, WellFoundedInduction, TLAPS

-----------------------------------------------------------------------------
(* The queries *)

\* A set of numbers has a least one.
LEMMA LeastOf ==
  ASSUME NEW S \in SUBSET Nat, S # {}
  PROVE  \E m \in S : \A n \in S : m <= n
<1> DEFINE less == OpToRel(<, Nat)
<1>1. IsWellFoundedOn(less, Nat)
  BY NatLessThanWellFounded
<1>2. \A m, n \in Nat : <<n, m>> \in less <=> n < m
  BY DEF OpToRel
<1> HIDE DEF less
<1>3. PICK m \in S : \A n \in S : ~(<<n, m>> \in less)
  BY <1>1, WFMin
<1>4. \A n \in S : n \in Nat /\ m \in Nat /\ ~(n < m)
  BY <1>2, <1>3
<1> QED  BY <1>3, <1>4

\* Whatever is true of 0, and of n + 1 if of n, is true of the numbers up to some one.
LEMMA CountingUp ==
  ASSUME NEW top \in Nat, NEW True \in SUBSET Nat,
         0 \in True,
         \A n \in 0 .. top - 1 : n \in True => n + 1 \in True
  PROVE  \A n \in 0 .. top : n \in True
<1> SUFFICES ASSUME NEW k \in 0 .. top, k \notin True  PROVE FALSE
  OBVIOUS
<1> DEFINE bad == {n \in 0 .. top : n \notin True}
<1>1. PICK m \in bad : \A n \in bad : m <= n
  <2>1. bad \in SUBSET Nat /\ bad # {}
    OBVIOUS
  <2> HIDE DEF bad
  <2> QED  BY <2>1, LeastOf
<1>2. m # 0 /\ m - 1 \in 0 .. top - 1 /\ m - 1 \in 0 .. top
  OBVIOUS
<1>3. m - 1 \in True
  BY <1>1, <1>2
<1> QED  BY <1>2, <1>3

\* A recursion along the numbers defines a function.
Iterates(f, D, base, next, top) ==
  f \in [0 .. top -> D] /\ f[0] = base /\ \A n \in 1 .. top : f[n] = next[f[n - 1]]

LEMMA RecursionDefines ==
  \A D, base, next, top : base \in D /\ next \in [D -> D] /\ top \in Nat => \E f : Iterates(f, D, base, next, top)
<1> SUFFICES ASSUME NEW D, NEW base \in D, NEW next \in [D -> D], NEW top \in Nat
             PROVE  \E f : Iterates(f, D, base, next, top)
  OBVIOUS
<1> DEFINE True == {k \in Nat : \E f : Iterates(f, D, base, next, k)}
<1>1. 0 \in True
  <2> DEFINE f == [n \in 0 .. 0 |-> base]
  <2>1. Iterates(f, D, base, next, 0)
    BY DEF Iterates
  <2> QED  BY <2>1
<1>2. ASSUME NEW k \in 0 .. top - 1, k \in True  PROVE  k + 1 \in True
  <2>1. PICK f : f \in [0 .. k -> D] /\ f[0] = base /\ \A n \in 1 .. k : f[n] = next[f[n - 1]]
    BY <1>2 DEF Iterates
  <2> DEFINE h == [n \in 0 .. k + 1 |-> IF n = k + 1 THEN next[f[k]] ELSE f[n]]
  <2>2. h \in [0 .. k + 1 -> D]
    <3>1. k \in 0 .. k /\ \A n \in 0 .. k + 1 : n # k + 1 => n \in 0 .. k
      OBVIOUS
    <3> QED  BY <2>1, <3>1
  <2>3. h[0] = base /\ h[k + 1] = next[f[k]] /\ \A n \in 0 .. k : h[n] = f[n]
    BY <2>1
  <2> HIDE DEF h
  <2>4. ASSUME NEW n \in 1 .. k + 1  PROVE  h[n] = next[h[n - 1]]
    <3>1. CASE n = k + 1
      BY <2>3, <3>1
    <3>2. CASE n \in 1 .. k
      <4>1. n - 1 \in 0 .. k /\ n \in 0 .. k
        BY <3>2
      <4> QED  BY <2>1, <2>3, <3>2, <4>1
    <3> QED  BY <3>1, <3>2
  <2>5. Iterates(h, D, base, next, k + 1)
    BY <2>2, <2>3, <2>4 DEF Iterates
  <2>6. k + 1 \in Nat
    OBVIOUS
  <2> QED  BY <2>5, <2>6
<1>3. top \in True
  <2> HIDE DEF True
  <2>1. True \in SUBSET Nat
    BY DEF True
  <2>2. \A n \in 0 .. top : n \in True
    BY <1>1, <1>2, <2>1, CountingUp
  <2> QED  BY <2>2
<1> QED  BY <1>3

\* One hop from any of some nodes.
Hop(g, ids) == UNION {Targets(g, id, TraverseRelations) : id \in ids}

\* What TypeOK says of the store.
IsUniverse(g) == NodesOf(g) \subseteq NodeId /\ EdgesOf(g) \subseteq EdgeKey

LEMMA HopsStay ==
  ASSUME NEW g, IsUniverse(g), NEW ids  PROVE  Hop(g, ids) \subseteq NodeId
BY DEF Hop, Targets, IsUniverse, EdgeKey

\* The recursive query: so many hops from the starts.
LEMMA WalkIs ==
  ASSUME NEW g, IsUniverse(g), NEW starts \in SUBSET NodeId, NEW depth \in Nat
  PROVE  \E f \in [0 .. depth -> SUBSET NodeId] :
           /\ f[0] = starts /\ \A d \in 1 .. depth : f[d] = Hop(g, f[d - 1])
           /\ Walk(g, starts, depth) = UNION {f[d] : d \in 0 .. depth}
<1> DEFINE Body(f) == [d \in 0 .. depth |-> IF d = 0 THEN starts
                    ELSE UNION {Targets(g, id, TraverseRelations) : id \in f[d - 1]}]
           level == CHOOSE f : f = Body(f)
           next == [ids \in SUBSET NodeId |-> Hop(g, ids)]
<1>1. PICK f \in [0 .. depth -> SUBSET NodeId] :
        f[0] = starts /\ \A d \in 1 .. depth : f[d] = next[f[d - 1]]
  <2>1. next \in [SUBSET NodeId -> SUBSET NodeId]
    BY HopsStay
  <2> DEFINE D == SUBSET NodeId
  <2>2. starts \in D /\ next \in [D -> D]
    BY <2>1
  <2> HIDE DEF next, D
  <2>3. \E f : Iterates(f, D, starts, next, depth)
    BY <2>2, RecursionDefines
  <2> QED  BY <2>3 DEF D, Iterates
<1>2. \A d \in 0 .. depth : f[d] = IF d = 0 THEN starts
                    ELSE UNION {Targets(g, id, TraverseRelations) : id \in f[d - 1]}
  <2>1. \A d \in 0 .. depth : d # 0 => d \in 1 .. depth /\ f[d - 1] \in SUBSET NodeId
    OBVIOUS
  <2> QED  BY <1>1, <2>1 DEF Hop
<1>3. f = Body(f)
  BY <1>2
<1> HIDE DEF next
<1>4. level = Body(level)
  <2> HIDE DEF Body
  <2> QED  BY <1>3
<1>5. Walk(g, starts, depth) = UNION {level[d] : d \in 0 .. depth}
  BY DEF Walk
<1> HIDE DEF level
<1>6. /\ DOMAIN level = 0 .. depth /\ level[0] = starts
      /\ \A d \in 1 .. depth : level[d] = Hop(g, level[d - 1])
  BY <1>4 DEF Hop
<1>7. \A d \in 0 .. depth : level[d] \in SUBSET NodeId
  <2>1. \A d \in 0 .. depth : d = 0 \/ d \in 1 .. depth
    OBVIOUS
  <2> QED  BY <1>6, <2>1, HopsStay
<1>8. level \in [0 .. depth -> SUBSET NodeId]
  <2>1. level = [d \in 0 .. depth |-> level[d]]
    BY <1>4
  <2> QED  BY <1>7, <2>1
<1> QED  BY <1>5, <1>6, <1>8

\* The breadth-first search: what is seen grows by a hop each time.
LEMMA SeenIs ==
  ASSUME NEW g, IsUniverse(g), NEW start \in NodesOf(g), Cardinality(NodesOf(g)) \in Nat
  PROVE  LET top == Cardinality(NodesOf(g)) IN
         \E f \in [0 .. top -> SUBSET NodeId] :
           /\ f[0] = Hop(g, {start}) /\ \A n \in 1 .. top : f[n] = f[n - 1] \cup Hop(g, f[n - 1])
           /\ ReachableDependencies(g, start) = f[top]
<1> DEFINE top == Cardinality(NodesOf(g))
           Body(f) == [n \in 0 .. top |-> IF n = 0 THEN Targets(g, start, TraverseRelations)
                    ELSE f[n - 1] \cup UNION {Targets(g, id, TraverseRelations) : id \in f[n - 1]}]
           seen == CHOOSE f : f = Body(f)
           next == [ids \in SUBSET NodeId |-> ids \cup Hop(g, ids)]
<1>0. Hop(g, {start}) = Targets(g, start, TraverseRelations) /\ Hop(g, {start}) \in SUBSET NodeId
  <2>1. Hop(g, {start}) = Targets(g, start, TraverseRelations)
    BY DEF Hop
  <2> QED  BY <2>1, HopsStay
<1>1. PICK f \in [0 .. top -> SUBSET NodeId] :
        f[0] = Hop(g, {start}) /\ \A n \in 1 .. top : f[n] = next[f[n - 1]]
  <2>1. next \in [SUBSET NodeId -> SUBSET NodeId]
    BY HopsStay
  <2> DEFINE D == SUBSET NodeId
  <2>2. top \in Nat /\ Hop(g, {start}) \in D /\ next \in [D -> D]
    BY <1>0, <2>1
  <2> HIDE DEF next, top, D
  <2>3. \E f : Iterates(f, D, Hop(g, {start}), next, top)
    BY <2>2, RecursionDefines
  <2> QED  BY <2>3 DEF D, Iterates
<1>t. top \in Nat
  OBVIOUS
<1> HIDE DEF top
<1>2. \A n \in 0 .. top : f[n] = IF n = 0 THEN Targets(g, start, TraverseRelations)
                    ELSE f[n - 1] \cup UNION {Targets(g, id, TraverseRelations) : id \in f[n - 1]}
  <2>1. \A n \in 0 .. top : n # 0 => n \in 1 .. top /\ f[n - 1] \in SUBSET NodeId
    BY <1>t
  <2> QED  BY <1>0, <1>1, <2>1 DEF Hop
<1>3. f = Body(f)
  BY <1>2
<1> HIDE DEF next
<1>4. seen = Body(seen)
  <2> HIDE DEF Body
  <2> QED  BY <1>3
<1>5. ReachableDependencies(g, start) = seen[top]
  BY DEF ReachableDependencies, top
<1> HIDE DEF seen
<1>6. /\ DOMAIN seen = 0 .. top /\ seen[0] = Hop(g, {start})
      /\ \A n \in 1 .. top : seen[n] = seen[n - 1] \cup Hop(g, seen[n - 1])
  <2>1. DOMAIN seen = 0 .. top /\ seen[0] = Hop(g, {start})
    BY <1>0, <1>t, <1>4
  <2>2. ASSUME NEW n \in 1 .. top  PROVE  seen[n] = seen[n - 1] \cup Hop(g, seen[n - 1])
    <3>1. n \in 0 .. top /\ n # 0
      BY <1>t
    <3>2. Body(seen)[n] = seen[n - 1] \cup UNION {Targets(g, id, TraverseRelations) : id \in seen[n - 1]}
      BY <3>1
    <3> QED  BY <1>4, <3>2 DEF Hop
  <2> QED  BY <2>1, <2>2
<1>7. \A n \in 0 .. top : seen[n] \in SUBSET NodeId
  <2> DEFINE True == {n \in Nat : seen[n] \in SUBSET NodeId}
  <2>1. 0 \in True /\ True \in SUBSET Nat
    BY <1>0, <1>6
  <2>2. ASSUME NEW n \in 0 .. top - 1, n \in True  PROVE  n + 1 \in True
    <3>1. n + 1 \in 1 .. top /\ (n + 1) - 1 = n /\ n + 1 \in Nat
      BY <1>t
    <3>2. seen[n + 1] = seen[n] \cup Hop(g, seen[n])
      BY <1>6, <3>1
    <3> QED  BY <2>2, <3>1, <3>2, HopsStay
  <2> HIDE DEF True
  <2>3. \A n \in 0 .. top : n \in True
    BY <1>t, <2>1, <2>2, CountingUp
  <2> QED  BY <2>3 DEF True
<1>8. seen \in [0 .. top -> SUBSET NodeId]
  <2>1. seen = [n \in 0 .. top |-> seen[n]]
    BY <1>4
  <2> QED  BY <1>7, <2>1
<1> QED  BY <1>5, <1>6, <1>8 DEF top

\* What grows by a hop each time, within finitely many nodes, comes to an end.
Grows(A, g, X, top) ==
  /\ top >= Cardinality(X) /\ Hop(g, X) \subseteq X
  /\ \A n \in 0 .. top : A[n] \subseteq X
  /\ \A n \in 0 .. top - 1 : A[n + 1] = A[n] \cup Hop(g, A[n])

LEMMA HopsEnd ==
  ASSUME NEW g, NEW X, IsFiniteSet(X), NEW A, NEW top \in Nat, Grows(A, g, X, top)
  PROVE  Hop(g, A[top]) \subseteq A[top]
<1>0. /\ top >= Cardinality(X) /\ Hop(g, X) \subseteq X
      /\ \A n \in 0 .. top : A[n] \subseteq X
      /\ \A n \in 0 .. top - 1 : A[n + 1] = A[n] \cup Hop(g, A[n])
  BY DEF Grows
<1> DEFINE True == {n \in Nat : n <= top => Hop(g, A[n]) \subseteq A[n] \/ Cardinality(A[n]) >= n}
<1>c. \A n \in 0 .. top : /\ IsFiniteSet(A[n]) /\ Cardinality(A[n]) \in Nat
                          /\ Cardinality(A[n]) <= Cardinality(X)
                          /\ Cardinality(A[n]) = Cardinality(X) => A[n] = X
  BY <1>0, FS_Subset, FS_CardinalityType
<1>d. \A n \in 0 .. top : Cardinality(A[n]) \in Nat
  BY <1>c
<1>x. Cardinality(X) \in Nat
  BY FS_CardinalityType
<1>1. 0 \in True
  <2>1. 0 \in 0 .. top
    OBVIOUS
  <2> QED  BY <1>c, <2>1
<1>2. ASSUME NEW n \in 0 .. top - 1, n \in True  PROVE  n + 1 \in True
  <2>0. n \in 0 .. top /\ n + 1 \in 0 .. top /\ A[n + 1] = A[n] \cup Hop(g, A[n])
    BY <1>0
  <2>1. CASE Hop(g, A[n]) \subseteq A[n]
    <3>1. A[n + 1] = A[n]
      BY <2>0, <2>1
    <3> QED  BY <2>0, <2>1, <3>1
  <2>2. CASE ~(Hop(g, A[n]) \subseteq A[n])
    <3>1. A[n] \subseteq A[n + 1] /\ A[n] # A[n + 1]
      BY <2>0, <2>2
    <3>2. Cardinality(A[n]) <= Cardinality(A[n + 1]) /\ Cardinality(A[n]) # Cardinality(A[n + 1])
      BY <1>c, <2>0, <3>1, FS_Subset
    <3>0. n \in Nat /\ n <= top /\ (n <= top => Hop(g, A[n]) \subseteq A[n] \/ Cardinality(A[n]) >= n)
      BY <1>2
    <3>3. Cardinality(A[n]) >= n
      BY <2>2, <3>0
    <3>4. Cardinality(A[n]) \in Nat /\ Cardinality(A[n + 1]) \in Nat
      BY <1>d, <2>0, Zenon
    <3>5. Cardinality(A[n + 1]) >= n + 1 /\ n + 1 \in Nat
      BY <3>0, <3>2, <3>3, <3>4
    <3> QED  BY <3>5
  <2> QED  BY <2>1, <2>2
<1>3. top \in True
  <2> HIDE DEF True
  <2>1. True \in SUBSET Nat
    BY DEF True
  <2>2. \A n \in 0 .. top : n \in True
    BY <1>1, <1>2, <2>1, CountingUp
  <2> QED  BY <2>2
<1>4. CASE Cardinality(A[top]) >= top
  <2>1. A[top] = X
    BY <1>0, <1>c, <1>x, <1>4
  <2> QED  BY <1>0, <2>1
<1> QED  BY <1>3, <1>4

\* With enough depth the recursive query finds what the breadth-first search finds: both
\* hold what can be reached, no more, and a hop from it.
LEMMA ClosuresAgree ==
  ASSUME NEW g, IsUniverse(g), \A e \in EdgesOf(g) : {e[1], e[2]} \subseteq NodesOf(g),
         NEW s \in NodesOf(g)
  PROVE  SqlReachableIds(g, {s}, Cardinality(NodeId)) = ReachableDependencies(g, s) \ {s}
<1> DEFINE N == Cardinality(NodeId)
           M == Cardinality(NodesOf(g))
<1>1. /\ IsFiniteSet(NodeId) /\ IsFiniteSet(NodesOf(g)) /\ N \in Nat /\ M \in Nat
      /\ s \in NodeId /\ N # 0
  <2>1. IsFiniteSet(NodeId) /\ N \in Nat
    BY NodesAssumption, FS_CardinalityType
  <2>2. IsFiniteSet(NodesOf(g)) /\ M \in Nat
    BY <2>1, FS_Subset, FS_CardinalityType DEF IsUniverse
  <2>3. s \in NodeId
    BY DEF IsUniverse
  <2> QED  BY <2>1, <2>2, <2>3, FS_EmptySet
<1> HIDE DEF N, M
<1>2. \A ids : Hop(g, ids) \subseteq NodesOf(g)
  BY DEF Hop, Targets
<1>3. \A X, Y : /\ X \subseteq Y => Hop(g, X) \subseteq Hop(g, Y)
                /\ Hop(g, X \cup Y) = Hop(g, X) \cup Hop(g, Y)
  BY DEF Hop
<1>4. PICK f \in [0 .. N -> SUBSET NodeId] :
        /\ f[0] = {s} /\ \A d \in 1 .. N : f[d] = Hop(g, f[d - 1])
        /\ Walk(g, {s}, N) = UNION {f[d] : d \in 0 .. N}
  <2>1. {s} \in SUBSET NodeId
    BY <1>1
  <2> QED  BY <1>1, <2>1, WalkIs
<1>5. PICK seen \in [0 .. M -> SUBSET NodeId] :
        /\ seen[0] = Hop(g, {s}) /\ \A n \in 1 .. M : seen[n] = seen[n - 1] \cup Hop(g, seen[n - 1])
        /\ ReachableDependencies(g, s) = seen[M]
  BY <1>1, SeenIs DEF M
\* What is walked to is closed under hops.
<1>6. Hop(g, Walk(g, {s}, N)) \subseteq Walk(g, {s}, N)
  <2> DEFINE A == [n \in 0 .. N |-> UNION {f[d] : d \in 0 .. n}]
  <2>1. \A n \in 0 .. N : A[n] \subseteq NodeId
    BY <1>1
  <2>2. ASSUME NEW n \in 0 .. N - 1  PROVE  A[n + 1] = A[n] \cup Hop(g, A[n])
    <3>1. n \in 0 .. N /\ n + 1 \in 0 .. N
      BY <1>1
    <3>2. A[n + 1] = UNION {f[d] : d \in 0 .. n + 1} /\ A[n] = UNION {f[d] : d \in 0 .. n}
      BY <3>1
    <3>3. \A d \in 0 .. n : d + 1 \in 0 .. n + 1 /\ d + 1 \in 1 .. N /\ (d + 1) - 1 = d /\ d \in 0 .. n + 1
      BY <1>1
    <3>4. \A d \in 0 .. n + 1 : d = 0 \/ (d \in 1 .. N /\ d - 1 \in 0 .. n)
      BY <1>1
    <3> HIDE DEF A
    <3>5. A[n] \subseteq A[n + 1]
      BY <3>2, <3>3
    <3>6. Hop(g, A[n]) \subseteq A[n + 1]
      <4>1. \A x \in Hop(g, A[n]) : \E d \in 0 .. n : x \in Hop(g, f[d])
        BY <3>2 DEF Hop
      <4>2. \A d \in 0 .. n : Hop(g, f[d]) = f[d + 1]
        BY <1>4, <3>3
      <4> QED  BY <3>2, <3>3, <4>1, <4>2
    <3>7. A[n + 1] \subseteq A[n] \cup Hop(g, A[n])
      <4>1. 0 \in 0 .. n
        BY <1>1
      <4>2. \A d \in 0 .. n + 1 : d # 0 => f[d] \subseteq Hop(g, A[n])
        <5> TAKE d \in 0 .. n + 1
        <5> HAVE d # 0
        <5>1. d \in 1 .. N /\ d - 1 \in 0 .. n
          BY <3>4
        <5>2. f[d - 1] \subseteq A[n]
          BY <3>2, <5>1
        <5> QED  BY <1>3, <1>4, <5>1, <5>2
      <4>3. f[0] \subseteq A[n]
        BY <3>2, <4>1
      <4> QED  BY <3>2, <4>2, <4>3
    <3> QED  BY <3>5, <3>6, <3>7
  <2>3. A[N] = Walk(g, {s}, N)
    <3>1. N \in 0 .. N
      BY <1>1
    <3> QED  BY <1>4, <3>1
  <2> HIDE DEF A
  <2>4. Hop(g, NodeId) \subseteq NodeId /\ N >= Cardinality(NodeId)
    BY <1>1, HopsStay DEF N
  <2>5. Grows(A, g, NodeId, N)
    BY <2>1, <2>2, <2>4 DEF Grows
  <2> QED  BY <1>1, <2>3, <2>5, HopsEnd
<1>7. {s} \subseteq Walk(g, {s}, N) /\ Walk(g, {s}, N) \subseteq NodeId
  <2>1. 0 \in 0 .. N
    BY <1>1
  <2> QED  BY <1>4, <2>1
\* So is what is seen.
<1>8. Hop(g, seen[M]) \subseteq seen[M] /\ Hop(g, {s}) \subseteq seen[M] /\ seen[M] \subseteq NodesOf(g)
  <2> DEFINE True == {n \in 0 .. M : seen[n] \subseteq NodesOf(g) /\ Hop(g, {s}) \subseteq seen[n]}
  <2>1. 0 \in True /\ True \in SUBSET Nat
    BY <1>1, <1>2, <1>5
  <2>2. ASSUME NEW n \in 0 .. M - 1, n \in True  PROVE  n + 1 \in True
    <3>1. n + 1 \in 1 .. M /\ (n + 1) - 1 = n /\ n + 1 \in 0 .. M
      BY <1>1
    <3>2. seen[n + 1] = seen[n] \cup Hop(g, seen[n])
      BY <1>5, <3>1
    <3>3. seen[n] \subseteq NodesOf(g) /\ Hop(g, {s}) \subseteq seen[n]
      BY <2>2, <3>1
    <3> QED  BY <1>2, <3>1, <3>2, <3>3
  <2> HIDE DEF True
  <2>3. \A n \in 0 .. M : n \in True
    BY <1>1, <2>1, <2>2, CountingUp
  <2>4. \A n \in 0 .. M : seen[n] \subseteq NodesOf(g) /\ Hop(g, {s}) \subseteq seen[n]
    BY <2>3 DEF True
  <2>5. ASSUME NEW n \in 0 .. M - 1  PROVE  seen[n + 1] = seen[n] \cup Hop(g, seen[n])
    <3>1. n + 1 \in 1 .. M /\ (n + 1) - 1 = n
      BY <1>1
    <3> QED  BY <1>5, <3>1
  <2>6. Hop(g, NodesOf(g)) \subseteq NodesOf(g) /\ M >= Cardinality(NodesOf(g)) /\ M \in 0 .. M
    BY <1>1, <1>2 DEF M
  <2>7. Hop(g, seen[M]) \subseteq seen[M]
    <3>1. Grows(seen, g, NodesOf(g), M)
      BY <2>4, <2>5, <2>6 DEF Grows
    <3> QED  BY <1>1, <3>1, HopsEnd
  <2> QED  BY <2>4, <2>6, <2>7
\* Each is therefore within the other.
<1>9. seen[M] \subseteq Walk(g, {s}, N)
  <2> DEFINE True == {n \in 0 .. M : seen[n] \subseteq Walk(g, {s}, N)}
  <2>1. 0 \in True /\ True \in SUBSET Nat
    <3>1. Hop(g, {s}) \subseteq Hop(g, Walk(g, {s}, N))
      BY <1>3, <1>7
    <3>2. seen[0] = Hop(g, {s})
      BY <1>5
    <3>3. seen[0] \subseteq Walk(g, {s}, N)
      BY <1>6, <3>1, <3>2
    <3>4. 0 \in 0 .. M /\ 0 .. M \subseteq Nat
      BY <1>1
    <3> QED  BY <3>3, <3>4
  <2>2. ASSUME NEW n \in 0 .. M - 1, n \in True  PROVE  n + 1 \in True
    <3>1. n + 1 \in 1 .. M /\ (n + 1) - 1 = n /\ n + 1 \in 0 .. M
      BY <1>1
    <3>2. seen[n + 1] = seen[n] \cup Hop(g, seen[n])
      BY <1>5, <3>1
    <3>3. seen[n] \subseteq Walk(g, {s}, N)
      BY <2>2, <3>1
    <3>4. Hop(g, seen[n]) \subseteq Walk(g, {s}, N)
      BY <1>3, <1>6, <3>3
    <3> QED  BY <3>1, <3>2, <3>3, <3>4
  <2> HIDE DEF True
  <2>3. \A n \in 0 .. M : n \in True
    BY <1>1, <2>1, <2>2, CountingUp
  <2>4. M \in 0 .. M
    BY <1>1
  <2> QED  BY <2>3, <2>4 DEF True
<1>10. Walk(g, {s}, N) \subseteq seen[M] \cup {s}
  <2> DEFINE True == {n \in 0 .. N : f[n] \subseteq seen[M] \cup {s}}
  <2>1. 0 \in True /\ True \in SUBSET Nat
    BY <1>1, <1>4
  <2>2. ASSUME NEW n \in 0 .. N - 1, n \in True  PROVE  n + 1 \in True
    <3>1. n + 1 \in 1 .. N /\ (n + 1) - 1 = n /\ n + 1 \in 0 .. N
      BY <1>1
    <3>2. f[n + 1] = Hop(g, f[n])
      BY <1>4, <3>1
    <3>3. f[n] \subseteq seen[M] \cup {s}
      BY <2>2, <3>1
    <3>4. Hop(g, f[n]) \subseteq Hop(g, seen[M] \cup {s})
      BY <1>3, <3>3
    <3>5. Hop(g, seen[M] \cup {s}) = Hop(g, seen[M]) \cup Hop(g, {s})
      BY <1>3
    <3> QED  BY <1>8, <3>1, <3>2, <3>4, <3>5
  <2> HIDE DEF True
  <2>3. \A n \in 0 .. N : n \in True
    BY <1>1, <2>1, <2>2, CountingUp
  <2>4. \A n \in 0 .. N : f[n] \subseteq seen[M] \cup {s}
    BY <2>3 DEF True
  <2> QED  BY <1>4, <2>4
<1> QED  BY <1>5, <1>8, <1>9, <1>10 DEF SqlReachableIds, N

\* Simple paths that are longer by a node.
Further(g, stop, paths) ==
  UNION {{Append(p, t) : t \in Targets(g, Last(p), TraverseRelations) \ Range(p)} :
           p \in {q \in paths : Len(q) = 1 \/ Last(q) \notin stop}}

LEMMA FurtherAre ==
  ASSUME NEW g, IsUniverse(g), NEW stop, NEW paths \in SUBSET Seq(NodeId)
  PROVE  Further(g, stop, paths) \in SUBSET Seq(NodeId)
<1> SUFFICES ASSUME NEW p \in paths, NEW t \in Targets(g, Last(p), TraverseRelations)
             PROVE  Append(p, t) \in Seq(NodeId)
  BY DEF Further
<1>1. t \in NodeId
  BY DEF Targets, IsUniverse, EdgeKey
<1> QED  BY <1>1

ArePaths(f, g, starts, stop, length) ==
  /\ \A n \in 1 .. length : f[n] \in SUBSET Seq(NodeId)
  /\ f[1] = {<<s>> : s \in starts}
  /\ \A n \in 2 .. length : f[n] = Further(g, stop, f[n - 1])
  /\ PathsOfLength(g, starts, stop, length) = f[length]

LEMMA PathsAre ==
  ASSUME NEW g, IsUniverse(g), NEW starts \in SUBSET NodeId, NEW stop, NEW length \in Nat, length # 0
  PROVE  \E f : ArePaths(f, g, starts, stop, length)
<1> DEFINE Body(f) == [n \in 1 .. length |-> IF n = 1 THEN {<<s>> : s \in starts}
               ELSE UNION {{Append(p, t) : t \in Targets(g, Last(p), TraverseRelations) \ Range(p)} :
                             p \in {q \in f[n - 1] : Len(q) = 1 \/ Last(q) \notin stop}}]
           paths == CHOOSE f : f = Body(f)
           D == SUBSET Seq(NodeId)
           next == [ps \in D |-> Further(g, stop, ps)]
           base == {<<s>> : s \in starts}
<1>0. base \in D
  <2>1. \A s \in starts : <<s>> \in Seq(NodeId)
    OBVIOUS
  <2> QED  BY <2>1
<1>1. PICK f : Iterates(f, D, base, next, length - 1)
  <2>1. next \in [D -> D] /\ length - 1 \in Nat
    BY FurtherAre
  <2> HIDE DEF next, D, base
  <2> QED  BY <1>0, <2>1, RecursionDefines
<1>2. /\ f \in [0 .. length - 1 -> D] /\ f[0] = base
      /\ \A n \in 1 .. length - 1 : f[n] = Further(g, stop, f[n - 1])
  <2>1. \A n \in 1 .. length - 1 : n - 1 \in 0 .. length - 1
    OBVIOUS
  <2> HIDE DEF D, base
  <2>2. f \in [0 .. length - 1 -> D] /\ f[0] = base /\ \A n \in 1 .. length - 1 : f[n] = next[f[n - 1]]
    BY <1>1 DEF Iterates
  <2> QED  BY <2>1, <2>2
<1> DEFINE h == [n \in 1 .. length |-> f[n - 1]]
<1>3. \A n \in 1 .. length : h[n] = Body(h)[n]
  <2> TAKE n \in 1 .. length
  <2>1. CASE n = 1
    BY <1>2, <2>1
  <2>2. CASE n # 1
    <3>1. n - 1 \in 1 .. length - 1 /\ n - 1 \in 1 .. length
      BY <2>2
    <3>2. h[n] = f[n - 1] /\ h[n - 1] = f[(n - 1) - 1]
      BY <3>1
    <3>3. f[n - 1] = Further(g, stop, f[(n - 1) - 1])
      BY <1>2, <3>1
    <3> HIDE DEF h
    <3>4. h[n] = Further(g, stop, h[n - 1])
      BY <3>2, <3>3
    <3> QED  BY <2>2, <3>4 DEF Further
  <2> QED  BY <2>1, <2>2
<1>4. h = Body(h)
  BY <1>3
<1> HIDE DEF h, D, next
<1>5. paths = Body(paths)
  <2> HIDE DEF Body
  <2> QED  BY <1>4
<1>6. PathsOfLength(g, starts, stop, length) = paths[length]
  BY DEF PathsOfLength
<1> HIDE DEF paths
<1>7. paths[1] = base /\ \A n \in 2 .. length : paths[n] = Further(g, stop, paths[n - 1])
  <2>1. paths[1] = base
    BY <1>5
  <2>2. ASSUME NEW n \in 2 .. length  PROVE  paths[n] = Further(g, stop, paths[n - 1])
    <3>1. n \in 1 .. length /\ n # 1
      OBVIOUS
    <3>2. Body(paths)[n] = Further(g, stop, paths[n - 1])
      BY <3>1 DEF Further
    <3> QED  BY <1>5, <3>2
  <2> QED  BY <2>1, <2>2
<1>8. \A n \in 1 .. length : paths[n] \in SUBSET Seq(NodeId)
  <2> DEFINE True == {n \in 0 .. length - 1 : paths[n + 1] \in SUBSET Seq(NodeId)}
  <2>1. 0 \in True /\ True \in SUBSET Nat
    BY <1>0, <1>7 DEF D
  <2>2. ASSUME NEW n \in 0 .. (length - 1) - 1, n \in True  PROVE  n + 1 \in True
    <3>1. n + 1 \in 0 .. length - 1 /\ (n + 1) + 1 \in 2 .. length /\ ((n + 1) + 1) - 1 = n + 1
      OBVIOUS
    <3>2. paths[n + 1] \in SUBSET Seq(NodeId)
      BY <2>2
    <3>3. paths[(n + 1) + 1] = Further(g, stop, paths[n + 1])
      BY <1>7, <3>1
    <3> QED  BY <3>1, <3>2, <3>3, FurtherAre
  <2> HIDE DEF True
  <2>3. \A n \in 0 .. length - 1 : n \in True
    <3>1. length - 1 \in Nat
      OBVIOUS
    <3> QED  BY <2>1, <2>2, <3>1, CountingUp
  <2>4. \A n \in 1 .. length : n - 1 \in 0 .. length - 1 /\ (n - 1) + 1 = n
    OBVIOUS
  <2> QED  BY <2>3, <2>4 DEF True
<1> QED  BY <1>6, <1>7, <1>8 DEF ArePaths

\* The paths of a length are those of the length before, and a node more.
LEMMA PathsGrow ==
  ASSUME NEW g, IsUniverse(g), NEW starts \in SUBSET NodeId, NEW stop
  PROVE  /\ PathsOfLength(g, starts, stop, 1) = {<<s>> : s \in starts}
         /\ \A n \in Nat : n # 0 =>
              /\ PathsOfLength(g, starts, stop, n) \in SUBSET Seq(NodeId)
              /\ PathsOfLength(g, starts, stop, n + 1) = Further(g, stop, PathsOfLength(g, starts, stop, n))
<1>1. PathsOfLength(g, starts, stop, 1) = {<<s>> : s \in starts}
  <2>1. 1 \in Nat /\ 1 # 0
    OBVIOUS
  <2>2. PICK f : ArePaths(f, g, starts, stop, 1)
    BY <2>1, PathsAre
  <2> QED  BY <2>2 DEF ArePaths
<1>2. ASSUME NEW n \in Nat, n # 0
      PROVE  /\ PathsOfLength(g, starts, stop, n) \in SUBSET Seq(NodeId)
             /\ PathsOfLength(g, starts, stop, n + 1) = Further(g, stop, PathsOfLength(g, starts, stop, n))
  <2>1. PICK f : /\ \A k \in 1 .. n : f[k] \in SUBSET Seq(NodeId)
                 /\ f[1] = {<<s>> : s \in starts}
                 /\ \A k \in 2 .. n : f[k] = Further(g, stop, f[k - 1])
                 /\ PathsOfLength(g, starts, stop, n) = f[n]
    <3>1. PICK f : ArePaths(f, g, starts, stop, n)
      BY <1>2, PathsAre
    <3> QED  BY <3>1 DEF ArePaths
  <2>2. PICK h : /\ h[1] = {<<s>> : s \in starts}
                 /\ \A k \in 2 .. n + 1 : h[k] = Further(g, stop, h[k - 1])
                 /\ PathsOfLength(g, starts, stop, n + 1) = h[n + 1]
    <3>1. n + 1 \in Nat /\ n + 1 # 0
      OBVIOUS
    <3>2. PICK h : ArePaths(h, g, starts, stop, n + 1)
      BY <3>1, PathsAre
    <3> QED  BY <3>2 DEF ArePaths
  <2>3. f[n] = h[n]
    <3> DEFINE True == {k \in 0 .. n - 1 : f[k + 1] = h[k + 1]}
    <3>1. 0 \in True /\ True \in SUBSET Nat /\ n - 1 \in Nat
      <4>1. 0 + 1 = 1 /\ 0 \in 0 .. n - 1 /\ n - 1 \in Nat
        BY <1>2
      <4>2. f[0 + 1] = h[0 + 1]
        BY <2>1, <2>2, <4>1
      <4> QED  BY <4>1, <4>2
    <3>2. ASSUME NEW k \in 0 .. (n - 1) - 1, k \in True  PROVE  k + 1 \in True
      <4>1. /\ k + 1 \in 0 .. n - 1 /\ (k + 1) + 1 \in 2 .. n /\ (k + 1) + 1 \in 2 .. n + 1
            /\ ((k + 1) + 1) - 1 = k + 1
        BY <1>2
      <4>2. f[k + 1] = h[k + 1]
        BY <3>2
      <4>3. f[(k + 1) + 1] = h[(k + 1) + 1]
        BY <2>1, <2>2, <4>1, <4>2
      <4> QED  BY <4>1, <4>3
    <3> HIDE DEF True
    <3>3. \A k \in 0 .. n - 1 : k \in True
      BY <3>1, <3>2, CountingUp
    <3>4. n - 1 \in 0 .. n - 1 /\ (n - 1) + 1 = n
      BY <1>2
    <3> QED  BY <3>3, <3>4 DEF True
  <2>4. n \in 1 .. n /\ n + 1 \in 2 .. n + 1 /\ (n + 1) - 1 = n
    BY <1>2
  <2> QED  BY <2>1, <2>2, <2>3, <2>4
<1> QED  BY <1>1, <1>2

\* A path of so many nodes has them.
LEMMA PathsHave ==
  ASSUME NEW g, IsUniverse(g), NEW starts \in SUBSET NodeId, NEW stop, NEW n \in Nat, n # 0,
         NEW p \in PathsOfLength(g, starts, stop, n)
  PROVE  p \in Seq(NodeId) /\ Len(p) = n
<1> DEFINE P(k) == PathsOfLength(g, starts, stop, k)
           True == {k \in 0 .. n - 1 : \A q \in P(k + 1) : Len(q) = k + 1}
<1>1. 0 \in True /\ True \in SUBSET Nat /\ n - 1 \in Nat
  <2>1. 0 + 1 = 1 /\ 0 \in 0 .. n - 1 /\ n - 1 \in Nat
    OBVIOUS
  <2>2. \A q \in P(1) : Len(q) = 1
    BY PathsGrow
  <2> QED  BY <2>1, <2>2
<1>2. ASSUME NEW k \in 0 .. (n - 1) - 1, k \in True  PROVE  k + 1 \in True
  <2>1. k + 1 \in 0 .. n - 1 /\ k + 1 \in Nat /\ k + 1 # 0
    OBVIOUS
  <2>2. P(k + 1) \in SUBSET Seq(NodeId) /\ P((k + 1) + 1) = Further(g, stop, P(k + 1))
    <3>1. \A m \in Nat : m # 0 => P(m) \in SUBSET Seq(NodeId) /\ P(m + 1) = Further(g, stop, P(m))
      BY PathsGrow
    <3> HIDE DEF P
    <3> QED  BY <2>1, <3>1
  <2>3. ASSUME NEW q \in P((k + 1) + 1)  PROVE  Len(q) = (k + 1) + 1
    <3>1. PICK r \in P(k + 1) : \E t \in Targets(g, Last(r), TraverseRelations) : q = Append(r, t)
      BY <2>2 DEF Further
    <3>2. r \in Seq(NodeId) /\ Len(r) = k + 1
      BY <1>2, <2>2
    <3>3. \A t : Len(Append(r, t)) = Len(r) + 1
      BY <3>2
    <3> QED  BY <3>1, <3>2, <3>3
  <2> QED  BY <2>1, <2>3
<1>3. n - 1 \in True
  <2> HIDE DEF True
  <2>1. \A k \in 0 .. n - 1 : k \in True
    BY <1>1, <1>2, CountingUp
  <2> QED  BY <1>1, <2>1
<1>4. (n - 1) + 1 = n
  OBVIOUS
<1> QED  BY <1>3, <1>4, PathsGrow

\* The nodes of a path on.
LEMMA OnePathOn ==
  ASSUME NEW p \in Seq(NodeId), p # << >>, NEW t \in NodeId
  PROVE  /\ Last(Append(p, t)) = t /\ Range(Append(p, t)) = Range(p) \cup {t}
         /\ Len(Append(p, t)) = Len(p) + 1
         /\ \A i \in 1 .. Len(p) : Append(p, t)[i] = p[i]
<1>1. /\ Len(Append(p, t)) = Len(p) + 1 /\ Append(p, t)[Len(p) + 1] = t
      /\ \A i \in 1 .. Len(p) : Append(p, t)[i] = p[i]
      /\ DOMAIN Append(p, t) = 1 .. Len(p) + 1 /\ DOMAIN p = 1 .. Len(p) /\ Len(p) \in Nat
  OBVIOUS
<1>2. \A i : i \in 1 .. Len(p) + 1 <=> i \in 1 .. Len(p) \/ i = Len(p) + 1
  BY <1>1
<1>3. Range(Append(p, t)) = Range(p) \cup {t}
  BY <1>1, <1>2 DEF Range
<1> QED  BY <1>1, <1>3 DEF Last

GoesFrom(f, g, s, depth) == f[0] = {s} /\ \A d \in 1 .. depth : f[d] = Hop(g, f[d - 1])

\* Where a path of so many hops leads, so many hops lead.
LEMMA PathsAreWalked ==
  ASSUME NEW g, IsUniverse(g), NEW s \in NodeId, NEW depth \in Nat,
         NEW f, GoesFrom(f, g, s, depth)
  PROVE  \A d \in 0 .. depth : \A p \in PathsOfLength(g, {s}, {}, d + 1) : Last(p) \in f[d]
<1> DEFINE P(k) == PathsOfLength(g, {s}, {}, k)
           True == {d \in 0 .. depth : \A p \in P(d + 1) : Last(p) \in f[d]}
<1>f. f[0] = {s} /\ \A d \in 1 .. depth : f[d] = Hop(g, f[d - 1])
  BY DEF GoesFrom
<1>p. /\ P(1) = {<<s>>}
      /\ \A m \in Nat : m # 0 => P(m) \in SUBSET Seq(NodeId) /\ P(m + 1) = Further(g, {}, P(m))
  <2>1. {<<x>> : x \in {s}} = {<<s>>} /\ {s} \in SUBSET NodeId
    OBVIOUS
  <2> QED  BY <2>1, PathsGrow
<1> HIDE DEF P
<1>1. 0 \in True /\ True \in SUBSET Nat
  <2>1. 0 + 1 = 1 /\ 0 \in 0 .. depth
    OBVIOUS
  <2>2. \A p \in P(1) : Last(p) = s
    <3>1. Last(<<s>>) = s
      BY DEF Last
    <3> QED  BY <1>p, <3>1
  <2> QED  BY <1>f, <2>1, <2>2
<1>2. ASSUME NEW d \in 0 .. depth - 1, d \in True  PROVE  d + 1 \in True
  <2>1. d + 1 \in 0 .. depth /\ d + 1 \in 1 .. depth /\ d + 1 \in Nat /\ d + 1 # 0 /\ (d + 1) - 1 = d
    OBVIOUS
  <2>2. f[d + 1] = Hop(g, f[d]) /\ P((d + 1) + 1) = Further(g, {}, P(d + 1)) /\ P(d + 1) \in SUBSET Seq(NodeId)
    BY <1>f, <1>p, <2>1
  <2>3. ASSUME NEW p \in P((d + 1) + 1)  PROVE  Last(p) \in f[d + 1]
    <3>1. PICK r \in P(d + 1) : \E t \in Targets(g, Last(r), TraverseRelations) : p = Append(r, t)
      BY <2>2 DEF Further
    <3>2. PICK t \in Targets(g, Last(r), TraverseRelations) : p = Append(r, t)
      BY <3>1
    <3>3. Last(r) \in f[d] /\ r \in Seq(NodeId)
      BY <1>2, <2>2
    <3>4. Last(p) = t
      BY <3>2, <3>3 DEF Last
    <3> QED  BY <2>2, <3>2, <3>3, <3>4 DEF Hop
  <2> QED  BY <2>1, <2>3
<1>3. \A d \in 0 .. depth : d \in True
  <2> HIDE DEF True
  <2> QED  BY <1>1, <1>2, CountingUp
<1> QED  BY <1>3 DEF P

IsFirst(f, d, t) == \A k \in 0 .. d - 1 : t \notin f[k]
HasPath(g, s, d, t) == \E p \in PathsOfLength(g, {s}, {}, d + 1) : Last(p) = t

\* Where so many hops lead and fewer do not, a path of as many leads: along it are the
\* nodes that fewer and fewer hops lead to, none of them twice.
LEMMA WalksHavePaths ==
  ASSUME NEW g, IsUniverse(g), NEW s \in NodeId, NEW depth \in Nat,
         NEW f, GoesFrom(f, g, s, depth)
  PROVE  \A d \in 0 .. depth : \A t \in f[d] : IsFirst(f, d, t) => HasPath(g, s, d, t)
<1> DEFINE P(k) == PathsOfLength(g, {s}, {}, k)
           Within(p, d) == \A x \in Range(p) : \E k \in 0 .. d : x \in f[k]
           True == {d \in 0 .. depth : \A t \in f[d] : (\A k \in 0 .. d - 1 : t \notin f[k]) =>
                      \E p \in P(d + 1) : Last(p) = t /\ Within(p, d)}
<1>f. f[0] = {s} /\ \A d \in 1 .. depth : f[d] = Hop(g, f[d - 1])
  BY DEF GoesFrom
<1>p. /\ P(1) = {<<s>>}
      /\ \A m \in Nat : m # 0 => P(m) \in SUBSET Seq(NodeId) /\ P(m + 1) = Further(g, {}, P(m))
      /\ \A m \in Nat : m # 0 => \A p \in P(m) : Len(p) = m
  <2>1. {<<x>> : x \in {s}} = {<<s>>} /\ {s} \in SUBSET NodeId
    OBVIOUS
  <2>2. \A m \in Nat : m # 0 => \A p \in P(m) : Len(p) = m
    BY <2>1, PathsHave
  <2>3. P(1) = {<<s>>}
    BY <2>1, PathsGrow
  <2>4. \A m \in Nat : m # 0 => P(m) \in SUBSET Seq(NodeId) /\ P(m + 1) = Further(g, {}, P(m))
    BY <2>1, PathsGrow
  <2> QED  BY <2>2, <2>3, <2>4
<1> HIDE DEF P
<1>1. 0 \in True /\ True \in SUBSET Nat
  <2>1. 0 + 1 = 1 /\ 0 \in 0 .. depth /\ 0 \in 0 .. 0
    OBVIOUS
  <2>2. Last(<<s>>) = s /\ Range(<<s>>) = {s}
    BY DEF Last, Range
  <2>3. Within(<<s>>, 0)
    BY <1>f, <2>1, <2>2
  <2>4. <<s>> \in P(0 + 1) /\ \A t \in f[0] : Last(<<s>>) = t
    BY <1>f, <1>p, <2>1, <2>2
  <2> HIDE DEF Within
  <2>5. \A t \in f[0] : \E p \in P(0 + 1) : Last(p) = t /\ Within(p, 0)
    BY <2>3, <2>4
  <2> QED  BY <2>1, <2>5
<1>2. ASSUME NEW d \in 0 .. depth - 1, d \in True  PROVE  d + 1 \in True
  <2>1. d + 1 \in 0 .. depth /\ d + 1 \in 1 .. depth /\ d + 1 \in Nat /\ d + 1 # 0 /\ (d + 1) - 1 = d /\ d \in 0 .. depth
    OBVIOUS
  <2>2. f[d + 1] = Hop(g, f[d]) /\ P((d + 1) + 1) = Further(g, {}, P(d + 1)) /\ P(d + 1) \in SUBSET Seq(NodeId)
    BY <1>f, <1>p, <2>1
  <2>3. ASSUME NEW t \in f[d + 1], \A k \in 0 .. (d + 1) - 1 : t \notin f[k]
        PROVE  \E p \in P((d + 1) + 1) : Last(p) = t /\ Within(p, d + 1)
    <3>1. PICK x \in f[d] : t \in Targets(g, x, TraverseRelations)
      BY <2>2 DEF Hop
    <3>2. \A k \in 0 .. d - 1 : x \notin f[k]
      <4>1. SUFFICES ASSUME NEW k \in 0 .. d - 1, x \in f[k]  PROVE FALSE
        OBVIOUS
      <4>2. k + 1 \in 1 .. depth /\ k + 1 \in 0 .. (d + 1) - 1 /\ (k + 1) - 1 = k
        OBVIOUS
      <4>3. t \in f[k + 1]
        BY <1>f, <3>1, <4>1, <4>2 DEF Hop
      <4> QED  BY <2>3, <4>2, <4>3
    <3>3. PICK r \in P(d + 1) : Last(r) = x /\ Within(r, d)
      BY <1>2, <3>2
    <3>4. t \notin Range(r)
      <4>1. \A k \in 0 .. d : t \notin f[k]
        BY <2>1, <2>3
      <4> QED  BY <3>3, <4>1
    <3>5. Append(r, t) \in P((d + 1) + 1)
      <4>1. Append(r, t) \in {Append(r, u) : u \in Targets(g, Last(r), TraverseRelations) \ Range(r)}
        BY <3>1, <3>3, <3>4
      <4>2. r \in {q \in P(d + 1) : Len(q) = 1 \/ Last(q) \notin {}}
        BY <3>3
      <4>3. Append(r, t) \in Further(g, {}, P(d + 1))
        BY <4>1, <4>2 DEF Further
      <4> QED  BY <2>2, <4>3
    <3>6. r \in Seq(NodeId) /\ r # << >> /\ t \in NodeId
      <4>1. Len(r) = d + 1 /\ r \in Seq(NodeId)
        BY <1>p, <2>1, <2>2
      <4> QED  BY <2>1, <3>1, <4>1 DEF Targets, IsUniverse, EdgeKey
    <3>7. Last(Append(r, t)) = t /\ Range(Append(r, t)) = Range(r) \cup {t}
      BY <3>6, OnePathOn
    <3>8. Within(Append(r, t), d + 1)
      <4>1. d + 1 \in 0 .. d + 1 /\ \A k \in 0 .. d : k \in 0 .. d + 1
        OBVIOUS
      <4> QED  BY <3>3, <3>7, <4>1
    <3> QED  BY <3>5, <3>7, <3>8
  <2> QED  BY <2>1, <2>3
<1>3. \A d \in 0 .. depth : d \in True
  <2> HIDE DEF True
  <2> QED  BY <1>1, <1>2, CountingUp
<1> QED  BY <1>3 DEF P, IsFirst, HasPath

PathEnds(g, s, d) == {t \in NodesOf(g) \ {s} : SqlPaths(g, {s}, {t}, d) # {}}

\* Within one depth, what is reached has a path and what has a path is reached.
LEMMA ReachedHavePaths ==
  ASSUME NEW g, IsUniverse(g), NEW s \in NodesOf(g), NEW d \in Nat
  PROVE  SqlReachableIds(g, {s}, d) = PathEnds(g, s, d)
<1>1. s \in NodeId /\ {s} \in SUBSET NodeId
  BY DEF IsUniverse
<1>2. PICK f \in [0 .. d -> SUBSET NodeId] :
        /\ f[0] = {s} /\ \A k \in 1 .. d : f[k] = Hop(g, f[k - 1])
        /\ Walk(g, {s}, d) = UNION {f[k] : k \in 0 .. d}
  BY <1>1, WalkIs
<1>f. GoesFrom(f, g, s, d)
  BY <1>2 DEF GoesFrom
<1>3. \A k \in 0 .. d : \A p \in PathsOfLength(g, {s}, {}, k + 1) : Last(p) \in f[k]
  BY <1>1, <1>f, PathsAreWalked
<1>4. \A k \in 0 .. d : \A t \in f[k] : IsFirst(f, k, t) => HasPath(g, s, k, t)
  BY <1>1, <1>f, WalksHavePaths
<1>5. ASSUME NEW t \in NodesOf(g), t # s, t \in Walk(g, {s}, d)  PROVE  SqlPaths(g, {s}, {t}, d) # {}
  <2> DEFINE times == {k \in 0 .. d : t \in f[k]}
  <2>1. times \in SUBSET Nat /\ times # {}
    BY <1>2, <1>5
  <2>2. PICK k \in times : \A l \in times : k <= l
    <3> HIDE DEF times
    <3> QED  BY <2>1, LeastOf
  <2>3. \A l \in 0 .. k - 1 : t \notin f[l]
    <3> SUFFICES ASSUME NEW l \in 0 .. k - 1, t \in f[l]  PROVE FALSE
      OBVIOUS
    <3>1. l \in times /\ ~(k <= l)
      OBVIOUS
    <3> QED  BY <2>2, <3>1
  <2>4. PICK p \in PathsOfLength(g, {s}, {}, k + 1) : Last(p) = t
    BY <1>4, <2>3 DEF IsFirst, HasPath
  <2>5. k \in 1 .. d
    BY <1>2, <1>5
  <2> QED  BY <2>4, <2>5 DEF SqlPaths
<1>6. ASSUME NEW t \in NodesOf(g), SqlPaths(g, {s}, {t}, d) # {}  PROVE  t \in Walk(g, {s}, d)
  <2>1. PICK k \in 1 .. d : \E p \in PathsOfLength(g, {s}, {}, k + 1) : Last(p) = t
    BY <1>6 DEF SqlPaths
  <2>2. k \in 0 .. d
    OBVIOUS
  <2> QED  BY <1>2, <1>3, <2>1, <2>2
<1> QED  BY <1>5, <1>6 DEF SqlReachableIds, PathEnds

\* A search that goes on from no target finds the paths with none on the way.
FreeOf(p, ids) == \A i \in 2 .. Len(p) - 1 : p[i] \notin ids

LEMMA StoppedPaths ==
  ASSUME NEW g, IsUniverse(g), NEW starts \in SUBSET NodeId, NEW ids, NEW n \in Nat, n # 0
  PROVE  PathsOfLength(g, starts, ids, n) = {p \in PathsOfLength(g, starts, {}, n) : FreeOf(p, ids)}
<1> DEFINE P(k) == PathsOfLength(g, starts, {}, k)
           Q(k) == PathsOfLength(g, starts, ids, k)
           True == {k \in 0 .. n - 1 : Q(k + 1) = {p \in P(k + 1) : FreeOf(p, ids)}}
<1>p. /\ P(1) = {<<s>> : s \in starts} /\ Q(1) = {<<s>> : s \in starts}
      /\ \A m \in Nat : m # 0 => P(m) \in SUBSET Seq(NodeId) /\ P(m + 1) = Further(g, {}, P(m))
      /\ \A m \in Nat : m # 0 => Q(m) \in SUBSET Seq(NodeId) /\ Q(m + 1) = Further(g, ids, Q(m))
  BY PathsGrow
<1>l. \A m \in Nat : m # 0 => \A p \in P(m) : Len(p) = m
  BY PathsHave
<1> HIDE DEF P, Q
<1>1. 0 \in True /\ True \in SUBSET Nat /\ n - 1 \in Nat
  <2>1. 0 + 1 = 1 /\ 0 \in 0 .. n - 1 /\ n - 1 \in Nat
    OBVIOUS
  <2>2. \A s : FreeOf(<<s>>, ids)
    BY DEF FreeOf
  <2> QED  BY <1>p, <2>1, <2>2
<1>2. ASSUME NEW k \in 0 .. (n - 1) - 1, k \in True  PROVE  k + 1 \in True
  <2>1. k + 1 \in 0 .. n - 1 /\ k + 1 \in Nat /\ k + 1 # 0
    OBVIOUS
  <2>2. /\ P((k + 1) + 1) = Further(g, {}, P(k + 1)) /\ P(k + 1) \in SUBSET Seq(NodeId)
        /\ Q((k + 1) + 1) = Further(g, ids, Q(k + 1))
        /\ Q(k + 1) = {p \in P(k + 1) : FreeOf(p, ids)}
        /\ \A p \in P(k + 1) : Len(p) = k + 1
    BY <1>2, <1>p, <1>l, <2>1
  <2>3. ASSUME NEW r \in P(k + 1), NEW t \in Targets(g, Last(r), TraverseRelations)
        PROVE  FreeOf(Append(r, t), ids) <=> FreeOf(r, ids) /\ (Len(r) = 1 \/ Last(r) \notin ids)
    <3>1. r \in Seq(NodeId) /\ Len(r) = k + 1 /\ r # << >> /\ t \in NodeId /\ Len(r) \in Nat /\ Len(r) # 0
      BY <2>1, <2>2 DEF Targets, IsUniverse, EdgeKey
    <3>2. Len(Append(r, t)) = Len(r) + 1 /\ \A i \in 1 .. Len(r) : Append(r, t)[i] = r[i]
      BY <3>1, OnePathOn
    <3> DEFINE l == Len(r)
    <3>3. FreeOf(Append(r, t), ids) <=> \A i \in 2 .. l : r[i] \notin ids
      <4>1. (Len(r) + 1) - 1 = l /\ \A i \in 2 .. l : i \in 1 .. l
        BY <3>1
      <4> QED  BY <3>2, <4>1 DEF FreeOf
    <3>4. \A i : i \in 2 .. l <=> i \in 2 .. l - 1 \/ (i = l /\ l # 1)
      BY <3>1
    <3> QED  BY <3>3, <3>4 DEF FreeOf, Last
  <2>4. Further(g, ids, Q(k + 1)) = {p \in Further(g, {}, P(k + 1)) : FreeOf(p, ids)}
    <3>1. ASSUME NEW p \in Further(g, ids, Q(k + 1))
          PROVE  p \in Further(g, {}, P(k + 1)) /\ FreeOf(p, ids)
      <4>1. PICK r \in Q(k + 1) : /\ Len(r) = 1 \/ Last(r) \notin ids
                                  /\ \E t \in Targets(g, Last(r), TraverseRelations) \ Range(r) : p = Append(r, t)
        BY <3>1 DEF Further
      <4>2. PICK t \in Targets(g, Last(r), TraverseRelations) \ Range(r) : p = Append(r, t)
        BY <4>1
      <4>3. r \in P(k + 1) /\ FreeOf(r, ids)
        BY <2>2
      <4>4. FreeOf(p, ids)
        BY <2>3, <4>1, <4>2, <4>3
      <4>5. p \in Further(g, {}, P(k + 1))
        BY <4>2, <4>3 DEF Further
      <4> QED  BY <4>4, <4>5
    <3>2. ASSUME NEW p \in Further(g, {}, P(k + 1)), FreeOf(p, ids)  PROVE  p \in Further(g, ids, Q(k + 1))
      <4>1. PICK r \in P(k + 1) : \E t \in Targets(g, Last(r), TraverseRelations) \ Range(r) : p = Append(r, t)
        BY <3>2 DEF Further
      <4>2. PICK t \in Targets(g, Last(r), TraverseRelations) \ Range(r) : p = Append(r, t)
        BY <4>1
      <4>3. FreeOf(r, ids) /\ (Len(r) = 1 \/ Last(r) \notin ids)
        BY <2>3, <3>2, <4>2
      <4>4. r \in {q \in Q(k + 1) : Len(q) = 1 \/ Last(q) \notin ids}
        BY <2>2, <4>3
      <4> QED  BY <4>2, <4>4 DEF Further
    <3> QED  BY <3>1, <3>2
  <2> QED  BY <2>1, <2>2, <2>4
<1>3. n - 1 \in True
  <2> HIDE DEF True
  <2>1. \A k \in 0 .. n - 1 : k \in True
    BY <1>1, <1>2, CountingUp
  <2> QED  BY <1>1, <2>1
<1>4. (n - 1) + 1 = n
  OBVIOUS
<1> QED  BY <1>3, <1>4 DEF P, Q

PathsPastNone(g, s, ids, d) ==
  {p \in SqlPaths(g, {s}, ids, d) : Len(p) > 1 /\ Range(SubSeq(p, 2, Len(p) - 1)) \cap ids = {}}

\* The paths of the search are those of the query with no target on the way, for a bound
\* that is one greater.
LEMMA PathsMatch ==
  ASSUME NEW g, IsUniverse(g), NEW s \in NodesOf(g), NEW needle, NEW d \in Nat
  PROVE  DependencyPaths(g, s, needle, d + 1) = PathsPastNone(g, s, MatchNodes(g, needle), d)
<1> DEFINE ids == MatchNodes(g, needle)
           P(k) == PathsOfLength(g, {s}, {}, k)
           Q(k) == PathsOfLength(g, {s}, ids, k)
<1>1. {s} \in SUBSET NodeId
  BY DEF IsUniverse
<1>2. \A n \in Nat : n # 0 => \A p \in P(n) : p \in Seq(NodeId) /\ Len(p) = n
  BY <1>1, PathsHave
<1>3. \A n \in Nat : n # 0 => Q(n) = {p \in P(n) : FreeOf(p, ids)}
  <2> HIDE DEF ids
  <2> QED  BY <1>1, StoppedPaths
<1>4. DependencyPaths(g, s, needle, d + 1) = {p \in UNION {Q(n) : n \in 2 .. d + 1} : Last(p) \in ids}
  BY DEF DependencyPaths
<1>5. SqlPaths(g, {s}, ids, d) = {p \in UNION {P(n + 1) : n \in 1 .. d} : Last(p) \in ids}
  BY DEF SqlPaths
<1> HIDE DEF ids, P, Q
<1>6. ASSUME NEW p \in Seq(NodeId), Len(p) > 1
      PROVE  FreeOf(p, ids) <=> Range(SubSeq(p, 2, Len(p) - 1)) \cap ids = {}
  <2> DEFINE l == Len(p)
             between == SubSeq(p, 2, l - 1)
  <2>1. l \in Nat /\ l > 1
    BY <1>6
  <2>2. between = [i \in 1 .. ((l - 1) - 2) + 1 |-> p[(i + 2) - 1]]
    BY <2>1
  <2>3. DOMAIN between = 1 .. l - 2 /\ \A i \in 1 .. l - 2 : between[i] = p[i + 1]
    <3>1. ((l - 1) - 2) + 1 = l - 2 /\ \A i \in 1 .. l - 2 : (i + 2) - 1 = i + 1
      BY <2>1
    <3> QED  BY <2>2, <3>1
  <2> HIDE DEF between
  <2>4. Range(between) = {p[i] : i \in 2 .. l - 1}
    <3>1. \A i \in 1 .. l - 2 : i + 1 \in 2 .. l - 1
      BY <2>1
    <3>2. \A i \in 2 .. l - 1 : i - 1 \in 1 .. l - 2 /\ (i - 1) + 1 = i
      BY <2>1
    <3>3. Range(between) \subseteq {p[i] : i \in 2 .. l - 1}
      BY <2>3, <3>1 DEF Range
    <3>4. \A i \in 2 .. l - 1 : p[i] = between[i - 1] /\ i - 1 \in DOMAIN between
      BY <2>3, <3>2
    <3>5. {p[i] : i \in 2 .. l - 1} \subseteq Range(between)
      BY <3>4 DEF Range
    <3> QED  BY <3>3, <3>5
  <2> QED  BY <2>4 DEF FreeOf, between
<1>7. ASSUME NEW p, NEW n \in 2 .. d + 1, p \in Q(n)
      PROVE  p \in UNION {P(k + 1) : k \in 1 .. d} /\ Len(p) > 1 /\ Range(SubSeq(p, 2, Len(p) - 1)) \cap ids = {}
  <2>1. n \in Nat /\ n # 0 /\ n - 1 \in 1 .. d /\ (n - 1) + 1 = n
    OBVIOUS
  <2>2. p \in P(n) /\ FreeOf(p, ids)
    BY <1>3, <1>7, <2>1
  <2>3. p \in Seq(NodeId) /\ Len(p) = n
    BY <1>2, <2>1, <2>2
  <2> QED  BY <1>6, <2>1, <2>2, <2>3
<1>8. ASSUME NEW p, NEW k \in 1 .. d, p \in P(k + 1), Range(SubSeq(p, 2, Len(p) - 1)) \cap ids = {}
      PROVE  p \in UNION {Q(n) : n \in 2 .. d + 1}
  <2>1. k + 1 \in Nat /\ k + 1 # 0 /\ k + 1 \in 2 .. d + 1
    OBVIOUS
  <2>2. p \in Seq(NodeId) /\ Len(p) = k + 1
    BY <1>2, <1>8, <2>1
  <2>3. FreeOf(p, ids)
    BY <1>6, <1>8, <2>1, <2>2
  <2> QED  BY <1>3, <1>8, <2>1, <2>3
<1> QED  BY <1>4, <1>5, <1>7, <1>8 DEF ids, PathsPastNone

\* The query for dependents and the one in memory, of a store and of what is loaded of it.
LEMMA DependentsMatch ==
  ASSUME NEW g, IsUniverse(g), g = [nodes |-> g.nodes, edges |-> g.edges], NEW needle \in Needle
  PROVE  /\ SqlDependents(g, needle) \subseteq DependentsOf(Loadable(g), needle) \cup FoundByLike(g, needle)
         /\ {Label[id] : id \in Needing(g, needle)} \subseteq SqlDependents(g, needle)
         /\ \A t \in SqlDependencies(g, needle) \cap Needle :
              \E id \in MatchingIds(g, needle) : Label[id] \in SqlDependents(g, t)
<1> DEFINE edges == EdgesWithin(g.edges, NodesOf(g))
           loadable == Loadable(g)
<1>1. loadable = [nodes |-> g.nodes, edges |-> edges]
  BY DEF Loadable
<1> HIDE DEF loadable
<1>2. /\ NodesOf(loadable) = NodesOf(g)
      /\ EdgesOf(loadable) = {e \in EdgesOf(g) : {e[1], e[2]} \subseteq NodesOf(g)}
  BY <1>1 DEF NodesOf, EdgesOf, EdgesWithin, Restrict
<1>3. /\ MatchingIds(g, needle) \subseteq NodesOf(g)
      /\ \A t \in MatchingIds(g, needle) :
           t \in MatchNodes(loadable, needle) \/ t \in Like[needle] \ Containing[needle]
  BY <1>2, NeedleAssumption DEF MatchingIds, MatchNodes
<1>4. SqlDependents(g, needle) \subseteq DependentsOf(loadable, needle) \cup FoundByLike(g, needle)
  <2> SUFFICES ASSUME NEW s \in NodesOf(g), NEW t \in MatchingIds(g, needle), s \in Sources(g, t, RequiresRelations)
               PROVE  Label[s] \in DependentsOf(loadable, needle) \cup FoundByLike(g, needle)
    BY DEF SqlDependents
  <2>1. CASE t \in MatchNodes(loadable, needle)
    <3>1. t \in NodesOf(g)
      BY <1>3
    <3>2. PICK e \in EdgesOf(g) : e[1] = s /\ e[2] = t /\ e[3] \in RequiresRelations
      BY DEF Sources
    <3>3. s \in Sources(loadable, t, RequiresRelations)
      BY <1>2, <3>1, <3>2 DEF Sources
    <3> QED  BY <2>1, <3>3 DEF DependentsOf
  <2>2. CASE t \in Like[needle] \ Containing[needle]
    BY <2>2 DEF FoundByLike
  <2> QED  BY <1>3, <2>1, <2>2
<1>5. ASSUME NEW id \in Needing(g, needle)
      PROVE  Label[id] \in SqlDependents(g, needle)
  <2>1. id \in NodesOf(g)
    BY DEF Needing
  <2>2. PICK t \in Targets(loadable, id, RequiresRelations) :
               needle = Label[t] \/ t \in Containing[needle] \cap Like[needle]
    BY DEF Needing, DependenciesOf, loadable
  <2>3. PICK e \in EdgesOf(loadable) : e[1] = id /\ e[2] = t /\ e[3] \in RequiresRelations
    BY DEF Targets
  <2>4. t \in MatchingIds(g, needle) /\ id \in Sources(g, t, RequiresRelations)
    BY <1>2, <2>2, <2>3 DEF MatchingIds, Sources
  <2> QED  BY <2>1, <2>4 DEF SqlDependents
<1>6. ASSUME NEW u \in SqlDependencies(g, needle) \cap Needle
      PROVE  \E id \in MatchingIds(g, needle) : Label[id] \in SqlDependents(g, u)
  <2>1. PICK t \in NodesOf(g) : u = Label[t] /\ \E s \in MatchingIds(g, needle) : t \in Targets(g, s, RequiresRelations)
    BY DEF SqlDependencies
  <2>2. PICK s \in MatchingIds(g, needle) : t \in Targets(g, s, RequiresRelations)
    BY <2>1
  <2>3. s \in NodesOf(g) /\ t \in MatchingIds(g, u) /\ s \in Sources(g, t, RequiresRelations)
    BY <1>3, <2>1, <2>2 DEF MatchingIds, Sources, Targets
  <2> QED  BY <2>3 DEF SqlDependents
<1> QED  BY <1>4, <1>5, <1>6 DEF loadable
-----------------------------------------------------------------------------
USE BoundAssumption, UniverseAssumption, OldAssumption

-----------------------------------------------------------------------------
\* The CREATEs that are left are of a table or an index there is.
SchemaGrows ==
  /\ TablesOf(version) \subseteq tables
  /\ \A p \in Process :
       /\ todo[p] \in Seq(Tables)
       /\ pc[p] = "create" => Len(todo[p]) # 0
       /\ pc[p] \in {"ready", "write", "edges"} => tables = Tables

\* What each process works on is what it was given, and what it has read.
JobsAreUniverses ==
  /\ DOMAIN job = Process /\ DOMAIN todo = Process
  /\ DOMAIN first = Process /\ DOMAIN loaded = Process
  /\ \A p \in Process :
       /\ job[p] \in Universes \cup {Empty}
       /\ op[p] \in {"replace", "merge"} => job[p] \in Universes
       /\ pc[p] = "write" => op[p] = "merge" /\ first[p].node \in NodesOf(job[p])
       /\ pc[p] = "edges" => loaded[p] = [nodes |-> loaded[p].nodes, edges |-> << >>]

\* A universe and all it lists on its edges is in the store.
Holds(g) ==
  \A e \in EdgesOf(g) :
    /\ e \in EdgesOf(db)
    /\ \A k \in DOMAIN g.edges[e] :
         /\ k \in DOMAIN db.edges[e]
         /\ g.edges[e][k].list <=> db.edges[e][k].list
         /\ g.edges[e][k].list => g.edges[e][k].items \subseteq db.edges[e][k].items

SavedAreHeld ==
  /\ saved \in Seq(Universes)
  /\ \A i \in DOMAIN saved : Holds(saved[i])

SavedNodes == UNION {NodesOf(saved[i]) : i \in DOMAIN saved}
SavedEdges == UNION {EdgesOf(saved[i]) : i \in DOMAIN saved}

\* One operation at a time finds the store as the last one left it.
AloneIsExact ==
  alone =>
    /\ \A p, q \in Process : pc[p] # "idle" /\ pc[q] # "idle" => p = q
    /\ WellFormed(db)
    /\ NodesOf(db) = SavedNodes /\ EdgesOf(db) = SavedEdges
    /\ \A p \in Process :
         /\ pc[p] = "write" /\ first[p].row # Absent => first[p].node \in NodesOf(db)
         /\ pc[p] = "edges" => loaded[p].nodes = db.nodes

StoreInv ==
  /\ TypeOK
  /\ SchemaGrows
  /\ JobsAreUniverses
  /\ SavedAreHeld
  /\ AloneIsExact
-----------------------------------------------------------------------------
(* The schema *)

\* The migrations together make every table, and each makes some.
LEMMA SchemaFacts ==
  /\ Latest = 3
  /\ \A v \in 0 .. 3 : TablesOf(v) \subseteq Tables
  /\ TablesOf(0) = {} /\ TablesOf(3) = Tables
  /\ \A v \in 0 .. 2 : Creates[v + 1] \in Seq(Tables) /\ Len(Creates[v + 1]) # 0
<1>1. Latest = 3
  BY DEF Latest, Creates
<1>2. /\ Range(Creates[1]) = {"base", "schema_version"}
      /\ Range(Creates[2]) = {"snapshots"} /\ Range(Creates[3]) = {"indexes"}
  <2>1. /\ Creates[1] = <<"base", "schema_version">> /\ Creates[2] = <<"snapshots">>
        /\ Creates[3] = <<"indexes">>
    BY DEF Creates
  <2>2. /\ DOMAIN <<"base", "schema_version">> = {1, 2} /\ DOMAIN <<"snapshots">> = {1}
        /\ DOMAIN <<"indexes">> = {1}
    OBVIOUS
  <2> QED  BY <2>1, <2>2 DEF Range
<1>3. \A v \in 0 .. 3 : TablesOf(v) \subseteq Tables
  <2>1. \A k \in 1 .. 3 : Range(Creates[k]) \subseteq Tables
    <3>1. \A k \in 1 .. 3 : k = 1 \/ k = 2 \/ k = 3
      OBVIOUS
    <3> QED  BY <1>2, <3>1 DEF Tables
  <2>2. \A v \in 0 .. 3 : \A k \in 1 .. v : k \in 1 .. 3
    OBVIOUS
  <2> QED  BY <2>1, <2>2 DEF TablesOf
<1>4. TablesOf(0) = {}
  <2>1. 1 .. 0 = {}
    OBVIOUS
  <2> QED  BY <2>1 DEF TablesOf
<1>5. TablesOf(3) = Tables
  <2>1. 1 \in 1 .. 3 /\ 2 \in 1 .. 3 /\ 3 \in 1 .. 3
    OBVIOUS
  <2>2. Tables \subseteq TablesOf(3)
    BY <1>2, <2>1 DEF TablesOf, Tables
  <2> QED  BY <1>3, <2>2
<1>6. \A v \in 0 .. 2 : Creates[v + 1] \in Seq(Tables) /\ Len(Creates[v + 1]) # 0
  <2>1. \A v \in 0 .. 2 : v = 0 \/ v = 1 \/ v = 2
    OBVIOUS
  <2>2. /\ Creates[1] = <<"base", "schema_version">> /\ Creates[2] = <<"snapshots">>
        /\ Creates[3] = <<"indexes">>
    BY DEF Creates
  <2>3. /\ <<"base", "schema_version">> \in Seq(Tables) /\ <<"snapshots">> \in Seq(Tables)
        /\ <<"indexes">> \in Seq(Tables)
    BY DEF Tables
  <2>4. /\ Len(<<"base", "schema_version">>) # 0 /\ Len(<<"snapshots">>) # 0
        /\ Len(<<"indexes">>) # 0
    OBVIOUS
  <2>5. ASSUME NEW v \in 0 .. 2
        PROVE  Creates[v + 1] \in Seq(Tables) /\ Len(Creates[v + 1]) # 0
    <3>1. CASE v = 0
      <4>1. v + 1 = 1
        BY <3>1
      <4>2. Creates[v + 1] = <<"base", "schema_version">>
        BY <2>2, <4>1
      <4> QED  BY <2>3, <2>4, <4>2
    <3>2. CASE v = 1
      BY <2>2, <2>3, <2>4, <3>2
    <3>3. CASE v = 2
      BY <2>2, <2>3, <2>4, <3>3
    <3> QED  BY <2>1, <3>1, <3>2, <3>3
  <2> QED  BY <2>5
<1> QED  BY <1>1, <1>3, <1>4, <1>5, <1>6

\* An operation that ends, or goes on from one state in which all is there to another,
\* leaves the schema alone.
LEMMA SchemaStays ==
  ASSUME TypeOK, SchemaGrows, NEW p \in Process, NEW to,
         pc' = [pc EXCEPT ![p] = to],
         \/ to \in {"idle", "version"}
         \/ to \in {"write", "edges"} /\ pc[p] \in {"ready", "write", "edges"},
         UNCHANGED <<tables, version, todo>>
  PROVE  SchemaGrows'
<1>1. \A q \in Process : pc'[q] = IF q = p THEN to ELSE pc[q]
  BY DEF TypeOK
<1>2. \A q \in Process : /\ pc'[q] = "create" => pc[q] = "create"
                         /\ pc'[q] \in {"ready", "write", "edges"} => pc[q] \in {"ready", "write", "edges"}
  BY <1>1
<1>3. TablesOf(version)' = TablesOf(version)
  BY DEF TablesOf, Creates
<1> QED  BY <1>2, <1>3 DEF SchemaGrows

\* The steps of _ensure_schema.
LEMMA SchemaKept ==
  ASSUME StoreInv, NEW p \in Process, ReadVersion(p) \/ Create(p) \/ Migrate(p)
  PROVE  SchemaGrows' /\ tables' \subseteq Tables /\ version' \in 0 .. Latest
<1>t. /\ TypeOK /\ SchemaGrows /\ version \in 0 .. 3 /\ tables \subseteq Tables /\ DOMAIN todo = Process
  BY SchemaFacts DEF StoreInv, TypeOK, JobsAreUniverses
<1>1. CASE ReadVersion(p)
  <2>1. version = Latest => tables = Tables
    BY <1>t, SchemaFacts DEF SchemaGrows
  <2>2. TablesOf(version)' = TablesOf(version)
    BY <1>1 DEF ReadVersion, TablesOf, Creates
  <2>3. \A q \in Process : /\ q # p => pc'[q] = pc[q] /\ todo'[q] = todo[q]
                           /\ pc'[p] = IF version = Latest THEN "ready" ELSE "create"
                           /\ todo'[p] = IF version = Latest THEN << >> ELSE Creates[version + 1]
    BY <1>t, <1>1 DEF ReadVersion, TypeOK
  <2>4. version # Latest => Creates[version + 1] \in Seq(Tables) /\ Len(Creates[version + 1]) # 0
    <3>1. version # Latest => version \in 0 .. 2
      BY <1>t, SchemaFacts
    <3> QED  BY <3>1, SchemaFacts
  <2>5. << >> \in Seq(Tables)
    OBVIOUS
  <2>6. \A q \in Process :
          /\ todo'[q] \in Seq(Tables)
          /\ pc'[q] = "create" => Len(todo'[q]) # 0
          /\ pc'[q] \in {"ready", "write", "edges"} => tables = Tables
    BY <1>t, <2>1, <2>3, <2>4, <2>5 DEF SchemaGrows
  <2> QED  BY <1>t, <1>1, <2>2, <2>6, SchemaFacts DEF SchemaGrows, ReadVersion
<1>2. CASE Create(p)
  <2>1. TablesOf(version)' = TablesOf(version)
    BY <1>2 DEF Create, TablesOf, Creates
  <2>2. todo[p] \in Seq(Tables) /\ Len(todo[p]) # 0
    BY <1>t, <1>2 DEF SchemaGrows, Create
  <2>3. /\ Head(todo[p]) \in Tables /\ Tail(todo[p]) \in Seq(Tables)
        /\ Len(todo[p]) # 1 => Len(Tail(todo[p])) # 0
    BY <2>2
  <2>4. \A q \in Process : /\ q # p => pc'[q] = pc[q] /\ todo'[q] = todo[q]
                           /\ pc'[p] = IF Len(todo[p]) = 1 THEN "migrate" ELSE "create"
                           /\ todo'[p] = Tail(todo[p])
    BY <1>t, <1>2 DEF Create, TypeOK
  <2>5. tables' = tables \cup {Head(todo[p])}
    BY <1>2 DEF Create
  <2>6. \A q \in Process :
          /\ todo'[q] \in Seq(Tables)
          /\ pc'[q] = "create" => Len(todo'[q]) # 0
          /\ pc'[q] \in {"ready", "write", "edges"} => tables' = Tables
    BY <1>t, <2>3, <2>4, <2>5 DEF SchemaGrows
  <2> QED  BY <1>t, <1>2, <2>1, <2>3, <2>5, <2>6, SchemaFacts DEF SchemaGrows, Create
<1>3. CASE Migrate(p)
  <2>1. tables' = Tables /\ version' = 3
    BY <1>t, <1>3, SchemaFacts DEF Migrate
  <2>2. TablesOf(version)' = Tables
    <3>1. TablesOf(version)' = TablesOf(3)
      BY <2>1 DEF TablesOf, Creates
    <3> QED  BY <3>1, SchemaFacts
  <2>3. \A q \in Process : /\ q # p => pc'[q] = pc[q]
                           /\ pc'[p] = "ready" /\ todo'[q] = todo[q]
    BY <1>t, <1>3 DEF Migrate, TypeOK
  <2>4. \A q \in Process : /\ todo'[q] \in Seq(Tables)
                           /\ pc'[q] = "create" => Len(todo'[q]) # 0
    BY <1>t, <2>3 DEF SchemaGrows
  <2>5. SchemaGrows'
    BY <2>1, <2>2, <2>4 DEF SchemaGrows
  <2>6. tables' \subseteq Tables /\ version' \in 0 .. Latest
    <3>1. Latest = 3
      BY SchemaFacts
    <3> QED  BY <2>1, <3>1
  <2> QED  BY <2>5, <2>6
<1> QED  BY <1>1, <1>2, <1>3

-----------------------------------------------------------------------------
(* What processes work on *)

\* An operation that ends forgets its job; another's is not touched.
LEMMA FinishForgets ==
  ASSUME TypeOK, SchemaGrows, JobsAreUniverses, NEW p \in Process, Finish(p),
         UNCHANGED <<tables, version, todo>>,
         DOMAIN loaded' = Process, \A q \in Process : q # p => loaded'[q] = loaded[q]
  PROVE  /\ SchemaGrows' /\ JobsAreUniverses'
         /\ pc' \in [Process -> {"idle", "version", "create", "migrate", "ready", "write", "edges"}]
         /\ op' \in [Process -> {"none", "replace", "merge", "load"}]
         /\ \A q \in Process : /\ pc'[q] = IF q = p THEN "idle" ELSE pc[q]
                               /\ q # p => first'[q] = first[q]
<1>1. SchemaGrows'
  <2>1. pc' = [pc EXCEPT ![p] = "idle"]
    BY DEF Finish
  <2> QED  BY <2>1, SchemaStays
<1>2. /\ DOMAIN job' = Process /\ DOMAIN first' = Process
      /\ \A q \in Process : /\ pc'[q] = IF q = p THEN "idle" ELSE pc[q]
                            /\ op'[q] = IF q = p THEN "none" ELSE op[q]
                            /\ job'[q] = IF q = p THEN Empty ELSE job[q]
                            /\ q # p => first'[q] = first[q]
  BY DEF Finish, TypeOK, JobsAreUniverses
<1>3. JobsAreUniverses'
  BY <1>2 DEF JobsAreUniverses
<1> QED  BY <1>1, <1>2, <1>3 DEF Finish, TypeOK

\* The edges and nodes of what a process works on are typed.
LEMMA JobTyped ==
  ASSUME JobsAreUniverses, NEW p \in Process
  PROVE  NodesOf(job[p]) \subseteq NodeId /\ EdgesOf(job[p]) \subseteq EdgeKey
<1>1. NodesOf(Empty) = {} /\ EdgesOf(Empty) = {}
  <2>1. DOMAIN << >> = {}
    OBVIOUS
  <2> QED  BY <2>1 DEF NodesOf, EdgesOf, Empty
<1>2. CASE job[p] \in Universes
  BY <1>2 DEF WellFormed
<1>3. CASE job[p] = Empty
  BY <1>1, <1>3
<1> QED  BY <1>2, <1>3 DEF JobsAreUniverses

\* What the sequence of saved universes comes to when one is added.
LEMMA SavedGrow ==
  ASSUME saved \in Seq(Universes), NEW g \in Universes, saved' = Append(saved, g)
  PROVE  /\ saved' \in Seq(Universes)
         /\ SavedNodes' = SavedNodes \cup NodesOf(g)
         /\ SavedEdges' = SavedEdges \cup EdgesOf(g)
         /\ \A i \in DOMAIN saved' : (i \in DOMAIN saved /\ saved'[i] = saved[i]) \/ saved'[i] = g
<1>1. /\ saved' \in Seq(Universes)
      /\ DOMAIN saved = 1 .. Len(saved) /\ DOMAIN saved' = 1 .. Len(saved) + 1 /\ Len(saved) \in Nat
      /\ \A i \in 1 .. Len(saved) : saved'[i] = saved[i]
      /\ saved'[Len(saved) + 1] = g
  OBVIOUS
<1>2. \A i : i \in DOMAIN saved' <=> i \in DOMAIN saved \/ i = Len(saved) + 1
  BY <1>1
<1>3. SavedNodes' = SavedNodes \cup NodesOf(g)
  BY <1>1, <1>2 DEF SavedNodes
<1>4. SavedEdges' = SavedEdges \cup EdgesOf(g)
  BY <1>1, <1>2 DEF SavedEdges
<1> QED  BY <1>1, <1>2, <1>3, <1>4

\* The universe that replaces all others is all that is saved.
LEMMA SavedAlone ==
  ASSUME NEW g \in Universes, saved' = <<g>>
  PROVE  /\ saved' \in Seq(Universes)
         /\ SavedNodes' = NodesOf(g) /\ SavedEdges' = EdgesOf(g)
         /\ \A i \in DOMAIN saved' : saved'[i] = g
<1>1. saved' \in Seq(Universes) /\ DOMAIN saved' = {1} /\ saved'[1] = g
  OBVIOUS
<1> QED  BY <1>1 DEF SavedNodes, SavedEdges

-----------------------------------------------------------------------------
(* Merging of metadata *)

\* Merged metadata have both sides' keys; a list of either side is kept with all its items
\* where both have lists, and what comes in always is.
LEMMA MergeFacts ==
  ASSUME NEW base, NEW incoming
  PROVE  LET merged == MergeMetadata(base, incoming)
         IN  /\ DOMAIN merged = DOMAIN base \cup DOMAIN incoming
             /\ \A k \in DOMAIN incoming : 
                  /\ merged[k].list <=> incoming[k].list
                  /\ incoming[k].list => incoming[k].items \subseteq merged[k].items
             /\ \A k \in DOMAIN base \ DOMAIN incoming : merged[k] = base[k]
             /\ \A k \in DOMAIN base \cap DOMAIN incoming :
                  base[k].list /\ incoming[k].list => base[k].items \subseteq merged[k].items
<1> DEFINE merged == MergeMetadata(base, incoming)
<1>1. /\ DOMAIN merged = DOMAIN base \cup DOMAIN incoming
      /\ \A k \in DOMAIN base \cup DOMAIN incoming :
           merged[k] = IF k \notin DOMAIN incoming THEN base[k]
                       ELSE IF k \notin DOMAIN base THEN incoming[k]
                       ELSE MergeValue(base[k], incoming[k])
  BY DEF MergeMetadata
<1>2. \A b, i : /\ MergeValue(b, i).list <=> i.list
                /\ i.list => i.items \subseteq MergeValue(b, i).items
                /\ b.list /\ i.list => b.items \subseteq MergeValue(b, i).items
  BY DEF MergeValue, List
<1> HIDE DEF merged
<1>3. \A k \in DOMAIN incoming : /\ merged[k].list <=> incoming[k].list
                                 /\ incoming[k].list => incoming[k].items \subseteq merged[k].items
  BY <1>1, <1>2
<1>4. \A k \in DOMAIN base \cap DOMAIN incoming :
        base[k].list /\ incoming[k].list => base[k].items \subseteq merged[k].items
  BY <1>1, <1>2
<1> QED  BY <1>1, <1>3, <1>4 DEF merged

\* An upsert of a universe's edges keeps what others hold of theirs, and adds its own.
LEMMA UpsertHolds ==
  ASSUME NEW g \in Universes, db'.edges = Upsert(db.edges, g.edges)
  PROVE  /\ Holds(g)'
         /\ \A h \in Universes : Holds(h) => Holds(h)'
<1>1. /\ EdgesOf(db)' = EdgesOf(db) \cup EdgesOf(g)
      /\ \A e \in EdgesOf(db) \cup EdgesOf(g) :
           db'.edges[e] = IF e \notin EdgesOf(g) THEN db.edges[e]
                          ELSE IF e \notin EdgesOf(db) THEN g.edges[e]
                          ELSE MergeMetadata(db.edges[e], g.edges[e])
  <2> DEFINE rows == db.edges
             new  == g.edges
  <2>1. /\ DOMAIN Upsert(rows, new) = DOMAIN rows \cup DOMAIN new
        /\ \A x \in DOMAIN rows \cup DOMAIN new :
             Upsert(rows, new)[x] = IF x \notin DOMAIN new THEN rows[x]
                                    ELSE IF x \notin DOMAIN rows THEN new[x]
                                    ELSE MergeMetadata(rows[x], new[x])
    <3> HIDE DEF rows, new
    <3> QED  BY DEF Upsert
  <2>2. db'.edges = Upsert(rows, new)
    OBVIOUS
  <2>3. EdgesOf(db)' = DOMAIN db'.edges /\ EdgesOf(db) = DOMAIN rows /\ EdgesOf(g) = DOMAIN new
    BY DEF EdgesOf
  <2> QED  BY <2>1, <2>2, <2>3, Zenon
<1>2. Holds(g)'
  <2>1. SUFFICES ASSUME NEW e \in EdgesOf(g)
                 PROVE  /\ e \in EdgesOf(db)'
                        /\ \A k \in DOMAIN g.edges[e] :
                             /\ k \in DOMAIN db'.edges[e]
                             /\ g.edges[e][k].list <=> db'.edges[e][k].list
                             /\ g.edges[e][k].list => g.edges[e][k].items \subseteq db'.edges[e][k].items
    BY DEF Holds
  <2>2. CASE e \notin EdgesOf(db)
    <3>1. db'.edges[e] = g.edges[e]
      BY <1>1, <2>2
    <3> QED  BY <1>1, <3>1
  <2>3. CASE e \in EdgesOf(db)
    <3>1. db'.edges[e] = MergeMetadata(db.edges[e], g.edges[e])
      BY <1>1, <2>3
    <3> DEFINE merged == MergeMetadata(db.edges[e], g.edges[e])
    <3>2. /\ DOMAIN merged = DOMAIN db.edges[e] \cup DOMAIN g.edges[e]
          /\ \A k \in DOMAIN g.edges[e] :
               /\ merged[k].list <=> g.edges[e][k].list
               /\ g.edges[e][k].list => g.edges[e][k].items \subseteq merged[k].items
      BY MergeFacts
    <3> HIDE DEF merged
    <3> QED  BY <1>1, <3>1, <3>2 DEF merged
  <2> QED  BY <2>2, <2>3
<1>3. ASSUME NEW h \in Universes, Holds(h)  PROVE  Holds(h)'
  <2>1. SUFFICES ASSUME NEW e \in EdgesOf(h)
                 PROVE  /\ e \in EdgesOf(db)'
                        /\ \A k \in DOMAIN h.edges[e] :
                             /\ k \in DOMAIN db'.edges[e]
                             /\ h.edges[e][k].list <=> db'.edges[e][k].list
                             /\ h.edges[e][k].list => h.edges[e][k].items \subseteq db'.edges[e][k].items
    BY DEF Holds
  <2>2. /\ e \in EdgesOf(db)
        /\ \A k \in DOMAIN h.edges[e] :
             /\ k \in DOMAIN db.edges[e]
             /\ h.edges[e][k].list <=> db.edges[e][k].list
             /\ h.edges[e][k].list => h.edges[e][k].items \subseteq db.edges[e][k].items
    BY <1>3 DEF Holds
  <2>3. CASE e \notin EdgesOf(g)
    <3>1. db'.edges[e] = db.edges[e]
      BY <1>1, <2>2, <2>3
    <3> QED  BY <1>1, <2>2, <3>1
  <2>4. CASE e \in EdgesOf(g)
    <3> DEFINE merged == MergeMetadata(db.edges[e], g.edges[e])
    <3>1. db'.edges[e] = merged
      BY <1>1, <2>2, <2>4
    <3>2. /\ DOMAIN merged = DOMAIN db.edges[e] \cup DOMAIN g.edges[e]
          /\ \A k \in DOMAIN g.edges[e] : merged[k].list <=> g.edges[e][k].list
          /\ \A k \in DOMAIN db.edges[e] \ DOMAIN g.edges[e] : merged[k] = db.edges[e][k]
          /\ \A k \in DOMAIN db.edges[e] \cap DOMAIN g.edges[e] :
               db.edges[e][k].list /\ g.edges[e][k].list => db.edges[e][k].items \subseteq merged[k].items
      BY MergeFacts
    <3> HIDE DEF merged
    <3>3. \A k \in DOMAIN h.edges[e] \cap DOMAIN g.edges[e] : h.edges[e][k].list <=> g.edges[e][k].list
      BY <2>4, KindsAssumption DEF SameKinds
    <3>4. ASSUME NEW k \in DOMAIN h.edges[e]
          PROVE  /\ k \in DOMAIN merged
                 /\ h.edges[e][k].list <=> merged[k].list
                 /\ h.edges[e][k].list => h.edges[e][k].items \subseteq merged[k].items
      <4>1. CASE k \in DOMAIN g.edges[e]
        BY <2>2, <3>2, <3>3, <4>1
      <4>2. CASE k \notin DOMAIN g.edges[e]
        BY <2>2, <3>2, <4>2
      <4> QED  BY <4>1, <4>2
    <3> QED  BY <1>1, <2>2, <3>1, <3>4
  <2> QED  BY <2>3, <2>4
<1> QED  BY <1>2, <1>3

-----------------------------------------------------------------------------
(* Steps that leave the rows and what is saved alone *)

\* As long as no row changes, what is held stays held; a lone operation that goes on, or
\* ends, leaves the rest exact.
LEMMA RowsStay ==
  ASSUME StoreInv, UNCHANGED <<db, saved>>,
         alone' => alone,
         alone' => \A p, q \in Process : pc'[p] # "idle" /\ pc'[q] # "idle" => p = q,
         \A p \in Process :
           /\ pc'[p] = "write" =>
                \/ pc[p] = "write" /\ first'[p] = first[p]
                \/ first'[p].row # Absent => first'[p].node \in NodesOf(db)
           /\ pc'[p] = "edges" =>
                \/ pc[p] = "edges" /\ loaded'[p] = loaded[p]
                \/ loaded'[p].nodes = db.nodes
  PROVE  SavedAreHeld' /\ AloneIsExact'
<1>1. SavedAreHeld'
  BY DEF StoreInv, SavedAreHeld, Holds
<1>2. SavedNodes' = SavedNodes /\ SavedEdges' = SavedEdges
  BY DEF SavedNodes, SavedEdges
<1>3. WellFormed(db)' <=> WellFormed(db)
  BY DEF WellFormed
<1> SUFFICES ASSUME alone'  PROVE  AloneIsExact'
  BY <1>1 DEF AloneIsExact
<1>4. /\ WellFormed(db) /\ NodesOf(db) = SavedNodes /\ EdgesOf(db) = SavedEdges
      /\ \A p \in Process :
           /\ pc[p] = "write" /\ first[p].row # Absent => first[p].node \in NodesOf(db)
           /\ pc[p] = "edges" => loaded[p].nodes = db.nodes
  BY DEF StoreInv, AloneIsExact
<1>5. \A p \in Process :
        /\ pc'[p] = "write" /\ first'[p].row # Absent => first'[p].node \in NodesOf(db)
        /\ pc'[p] = "edges" => loaded'[p].nodes = db.nodes
  BY <1>4
<1> QED  BY <1>2, <1>3, <1>4, <1>5 DEF AloneIsExact

\* Begin.
LEMMA BeginKeeps ==
  ASSUME StoreInv, NEW p \in Process, NEW o \in {"replace", "merge", "load"}, NEW g,
         g \in Universes \/ (o = "load" /\ g = Empty), Begin(p, o, g)
  PROVE  StoreInv'
<1>t. TypeOK /\ SchemaGrows /\ JobsAreUniverses /\ AloneIsExact
  BY DEF StoreInv
<1>1. /\ pc[p] = "idle" /\ pc' = [pc EXCEPT ![p] = "version"]
      /\ op' = [op EXCEPT ![p] = o] /\ job' = [job EXCEPT ![p] = g]
      /\ ops < MaxOps /\ ops' = ops + 1
      /\ alone' = (alone /\ \A q \in Process : pc[q] = "idle")
      /\ UNCHANGED <<db, tables, version, todo, first, loaded, saved>>
  BY DEF Begin
<1>2. \A q \in Process : /\ pc'[q] = IF q = p THEN "version" ELSE pc[q]
                         /\ op'[q] = IF q = p THEN o ELSE op[q]
                         /\ job'[q] = IF q = p THEN g ELSE job[q]
  BY <1>t, <1>1 DEF TypeOK, JobsAreUniverses
<1>3. SchemaGrows'
  BY <1>t, <1>1, SchemaStays
<1>4. JobsAreUniverses'
  BY <1>t, <1>1, <1>2 DEF JobsAreUniverses
<1>5. TypeOK'
  <2>1. ops' \in 0 .. MaxOps
    BY <1>t, <1>1 DEF TypeOK
  <2>2. alone' \in BOOLEAN
    BY <1>1
  <2>3. /\ pc' \in [Process -> {"idle", "version", "create", "migrate", "ready", "write", "edges"}]
        /\ op' \in [Process -> {"none", "replace", "merge", "load"}]
    BY <1>t, <1>1 DEF TypeOK
  <2> QED  BY <1>t, <1>1, <2>1, <2>2, <2>3 DEF TypeOK
<1>6. SavedAreHeld' /\ AloneIsExact'
  <2>1. alone' => alone /\ \A q, r \in Process : pc'[q] # "idle" /\ pc'[r] # "idle" => q = r
    BY <1>1, <1>2
  <2>2. \A q \in Process : pc'[q] \in {"write", "edges"} => pc'[q] = pc[q]
    BY <1>2
  <2> QED  BY <1>1, <2>1, <2>2, RowsStay
<1> QED  BY <1>3, <1>4, <1>5, <1>6 DEF StoreInv

\* The steps of _ensure_schema keep the rest as it is.
LEMMA EnsureKeeps ==
  ASSUME StoreInv, NEW p \in Process, ReadVersion(p) \/ Create(p) \/ Migrate(p)
  PROVE  StoreInv'
<1>t. TypeOK /\ JobsAreUniverses
  BY DEF StoreInv
<1>1. SchemaGrows' /\ tables' \subseteq Tables /\ version' \in 0 .. Latest
  BY SchemaKept
<1>2. /\ pc[p] # "idle"
      /\ \E to \in {"ready", "create", "migrate"} : pc' = [pc EXCEPT ![p] = to]
      /\ DOMAIN todo' = Process
      /\ UNCHANGED <<db, op, job, first, loaded, ops, saved, alone>>
  BY <1>t DEF ReadVersion, Create, Migrate, JobsAreUniverses
<1>3. \A q \in Process : /\ q # p => pc'[q] = pc[q]
                         /\ pc'[q] # "idle" => pc[q] # "idle"
                         /\ pc'[p] \in {"ready", "create", "migrate"}
  BY <1>t, <1>2 DEF TypeOK
<1>4. JobsAreUniverses'
  BY <1>t, <1>2, <1>3 DEF JobsAreUniverses
<1>5. TypeOK'
  BY <1>t, <1>1, <1>2 DEF TypeOK
<1>6. SavedAreHeld' /\ AloneIsExact'
  <2>1. alone => \A q, r \in Process : pc'[q] # "idle" /\ pc'[r] # "idle" => q = r
    BY <1>3 DEF StoreInv, AloneIsExact
  <2>2. \A q \in Process : pc'[q] \in {"write", "edges"} => pc'[q] = pc[q]
    BY <1>3
  <2> QED  BY <1>2, <2>1, <2>2, RowsStay
<1> QED  BY <1>1, <1>4, <1>5, <1>6 DEF StoreInv

\* An operation that merges nothing, or is given up, ends and no more.
LEMMA EndKeeps ==
  ASSUME StoreInv, NEW p \in Process, MergeNothing(p) \/ GiveUp(p)
  PROVE  StoreInv'
<1>t. TypeOK /\ SchemaGrows /\ JobsAreUniverses
  BY DEF StoreInv
<1>1. Finish(p) /\ UNCHANGED <<db, tables, version, todo, loaded, ops, saved, alone>>
  BY DEF MergeNothing, GiveUp
<1>2. DOMAIN loaded' = Process
  BY <1>t, <1>1 DEF JobsAreUniverses
<1>3. /\ SchemaGrows' /\ JobsAreUniverses'
      /\ pc' \in [Process -> {"idle", "version", "create", "migrate", "ready", "write", "edges"}]
      /\ op' \in [Process -> {"none", "replace", "merge", "load"}]
      /\ \A q \in Process : /\ pc'[q] = IF q = p THEN "idle" ELSE pc[q]
                            /\ q # p => first'[q] = first[q]
  BY <1>t, <1>1, <1>2, FinishForgets
<1>4. TypeOK'
  BY <1>t, <1>1, <1>3 DEF TypeOK
<1>5. SavedAreHeld' /\ AloneIsExact'
  <2>1. alone => \A q, r \in Process : pc'[q] # "idle" /\ pc'[r] # "idle" => q = r
    BY <1>3 DEF StoreInv, AloneIsExact
  <2>2. \A q \in Process : pc'[q] \in {"write", "edges"} => pc'[q] = pc[q] /\ first'[q] = first[q]
    BY <1>3
  <2> QED  BY <1>1, <2>1, <2>2, RowsStay
<1> QED  BY <1>3, <1>4, <1>5 DEF StoreInv

\* A merge that has read its first row knows what is in the store, if it is alone.
LEMMA ReadFirstKeeps ==
  ASSUME StoreInv, NEW p \in Process, NEW n \in NodeId, ReadFirst(p, n)
  PROVE  StoreInv'
<1>t. TypeOK /\ SchemaGrows /\ JobsAreUniverses
  BY DEF StoreInv
<1>1. /\ pc[p] = "ready" /\ op[p] = "merge" /\ n \in NodesOf(job[p])
      /\ pc' = [pc EXCEPT ![p] = "write"]
      /\ first' = [first EXCEPT ![p] = [ node |-> n,
                     row |-> IF n \in NodesOf(db) THEN db.nodes[n] ELSE Absent]]
      /\ UNCHANGED <<db, tables, version, op, job, todo, loaded, ops, saved, alone>>
  BY DEF ReadFirst
<1>2. /\ DOMAIN first' = Process
      /\ \A q \in Process : /\ pc'[q] = IF q = p THEN "write" ELSE pc[q]
                            /\ q # p => first'[q] = first[q]
      /\ first'[p].node = n
      /\ first'[p].row = IF n \in NodesOf(db) THEN db.nodes[n] ELSE Absent
  BY <1>t, <1>1 DEF TypeOK, JobsAreUniverses
<1>3. SchemaGrows'
  BY <1>t, <1>1, SchemaStays
<1>4. JobsAreUniverses'
  BY <1>t, <1>1, <1>2 DEF JobsAreUniverses
<1>5. TypeOK'
  BY <1>t, <1>1 DEF TypeOK
<1>6. SavedAreHeld' /\ AloneIsExact'
  <2>1. alone => \A q, r \in Process : pc'[q] # "idle" /\ pc'[r] # "idle" => q = r
    BY <1>1, <1>2 DEF StoreInv, AloneIsExact
  <2>2. \A q \in Process :
          /\ pc'[q] = "write" => \/ pc[q] = "write" /\ first'[q] = first[q]
                                 \/ first'[q].row # Absent => first'[q].node \in NodesOf(db)
          /\ pc'[q] = "edges" => pc[q] = "edges"
    BY <1>2
  <2> QED  BY <1>1, <2>1, <2>2, RowsStay
<1> QED  BY <1>3, <1>4, <1>5, <1>6 DEF StoreInv

\* The nodes a load has read are the store's, if it is alone.
LEMMA LoadNodesKeeps ==
  ASSUME StoreInv, NEW p \in Process, LoadNodes(p)
  PROVE  StoreInv'
<1>t. TypeOK /\ SchemaGrows /\ JobsAreUniverses
  BY DEF StoreInv
<1> DEFINE read == [nodes |-> db.nodes, edges |-> << >>]
<1>1. /\ pc[p] = "ready" /\ op[p] = "load"
      /\ loaded' = [loaded EXCEPT ![p] = read]
      /\ pc' = [pc EXCEPT ![p] = "edges"]
      /\ UNCHANGED <<db, tables, version, op, job, todo, first, ops, saved, alone>>
  BY DEF LoadNodes
<1>r. /\ read.nodes = db.nodes /\ read = [nodes |-> read.nodes, edges |-> << >>]
      /\ EdgesOf(read) = {}
  BY DEF EdgesOf
<1> HIDE DEF read
<1>2. /\ DOMAIN loaded' = Process
      /\ \A q \in Process : /\ pc'[q] = IF q = p THEN "edges" ELSE pc[q]
                            /\ loaded'[q] = IF q = p THEN read ELSE loaded[q]
  BY <1>t, <1>1 DEF TypeOK, JobsAreUniverses
<1>3. SchemaGrows'
  BY <1>t, <1>1, SchemaStays
<1>4. JobsAreUniverses'
  BY <1>t, <1>r, <1>1, <1>2 DEF JobsAreUniverses
<1>5. TypeOK'
  <2>1. \A q \in Process : EdgesOf(loaded'[q]) \subseteq EdgeKey
    BY <1>t, <1>r, <1>2 DEF TypeOK
  <2> QED  BY <1>t, <1>1, <2>1 DEF TypeOK
<1>6. SavedAreHeld' /\ AloneIsExact'
  <2>1. alone => \A q, r \in Process : pc'[q] # "idle" /\ pc'[r] # "idle" => q = r
    BY <1>1, <1>2 DEF StoreInv, AloneIsExact
  <2>2. \A q \in Process :
          /\ pc'[q] = "write" => pc[q] = "write"
          /\ pc'[q] = "edges" => \/ pc[q] = "edges" /\ loaded'[q] = loaded[q]
                                 \/ loaded'[q].nodes = db.nodes
    BY <1>r, <1>2
  <2> QED  BY <1>1, <2>1, <2>2, RowsStay
<1> QED  BY <1>3, <1>4, <1>5, <1>6 DEF StoreInv

\* The edges with both ends among the nodes that were loaded.
LEMMA LoadEdgesKeeps ==
  ASSUME StoreInv, NEW p \in Process, LoadEdges(p)
  PROVE  StoreInv'
<1>t. TypeOK /\ SchemaGrows /\ JobsAreUniverses
  BY DEF StoreInv
<1>1. /\ pc[p] = "edges" /\ Finish(p)
      /\ loaded' = [loaded EXCEPT ![p].edges = EdgesWithin(db.edges, NodesOf(loaded[p]))]
      /\ UNCHANGED <<db, tables, version, todo, ops, saved, alone>>
  BY DEF LoadEdges
<1>2. /\ DOMAIN loaded' = Process
      /\ \A q \in Process : q # p => loaded'[q] = loaded[q]
      /\ loaded'[p].edges = EdgesWithin(db.edges, NodesOf(loaded[p]))
  <2>1. DOMAIN loaded = Process
    BY <1>t DEF JobsAreUniverses
  <2>2. loaded[p] = [nodes |-> loaded[p].nodes, edges |-> << >>]
    BY <1>t, <1>1 DEF JobsAreUniverses
  <2>3. loaded'[p] = [loaded[p] EXCEPT !.edges = EdgesWithin(db.edges, NodesOf(loaded[p]))]
    BY <1>1, <2>1
  <2> QED  BY <1>1, <2>1, <2>2, <2>3
<1>3. /\ SchemaGrows' /\ JobsAreUniverses'
      /\ pc' \in [Process -> {"idle", "version", "create", "migrate", "ready", "write", "edges"}]
      /\ op' \in [Process -> {"none", "replace", "merge", "load"}]
      /\ \A q \in Process : /\ pc'[q] = IF q = p THEN "idle" ELSE pc[q]
                            /\ q # p => first'[q] = first[q]
  BY <1>t, <1>1, <1>2, FinishForgets
<1>4. TypeOK'
  <2>1. EdgesOf(loaded'[p]) \subseteq EdgesOf(db)
    BY <1>2 DEF EdgesOf, EdgesWithin, Restrict
  <2>2. \A q \in Process : EdgesOf(loaded'[q]) \subseteq EdgeKey
    BY <1>t, <1>2, <2>1 DEF TypeOK
  <2> QED  BY <1>t, <1>1, <1>3, <2>2 DEF TypeOK
<1>5. SavedAreHeld' /\ AloneIsExact'
  <2>1. alone => \A q, r \in Process : pc'[q] # "idle" /\ pc'[r] # "idle" => q = r
    BY <1>3 DEF StoreInv, AloneIsExact
  <2>2. \A q \in Process : pc'[q] \in {"write", "edges"} =>
          q # p /\ pc'[q] = pc[q] /\ first'[q] = first[q] /\ loaded'[q] = loaded[q]
    BY <1>2, <1>3
  <2> QED  BY <1>1, <2>1, <2>2, RowsStay
<1> QED  BY <1>3, <1>4, <1>5 DEF StoreInv

-----------------------------------------------------------------------------
(* Steps that write rows *)

\* A lone writer leaves nobody in the middle of an operation.
LEMMA WriterEnds ==
  ASSUME StoreInv, NEW p \in Process, pc[p] # "idle",
         \A q \in Process : pc'[q] = IF q = p THEN "idle" ELSE pc[q]
  PROVE  alone => \A q \in Process : pc'[q] = "idle"
BY DEF StoreInv, AloneIsExact

\* Replacing leaves the store with what was saved, and nothing of before.
LEMMA ReplaceKeeps ==
  ASSUME StoreInv, NEW p \in Process, Replace(p)
  PROVE  StoreInv'
<1>t. TypeOK /\ SchemaGrows /\ JobsAreUniverses
  BY DEF StoreInv
<1>1. /\ pc[p] = "ready" /\ op[p] = "replace" /\ Finish(p)
      /\ db' = job[p] /\ saved' = <<job[p]>>
      /\ UNCHANGED <<tables, version, todo, loaded, ops, alone>>
  BY DEF Replace
<1>2. job[p] \in Universes /\ DOMAIN loaded = Process
  BY <1>t, <1>1 DEF JobsAreUniverses
<1>3. /\ SchemaGrows' /\ JobsAreUniverses'
      /\ pc' \in [Process -> {"idle", "version", "create", "migrate", "ready", "write", "edges"}]
      /\ op' \in [Process -> {"none", "replace", "merge", "load"}]
      /\ \A q \in Process : /\ pc'[q] = IF q = p THEN "idle" ELSE pc[q]
                            /\ q # p => first'[q] = first[q]
  BY <1>t, <1>1, <1>2, FinishForgets
<1>4. WellFormed(job[p])
  BY <1>2
<1>5. TypeOK'
  <2>1. NodesOf(db)' \subseteq NodeId /\ EdgesOf(db)' \subseteq EdgeKey
    BY <1>1, <1>4 DEF WellFormed, NodesOf, EdgesOf
  <2> QED  BY <1>t, <1>1, <1>3, <2>1 DEF TypeOK
<1>6. /\ saved' \in Seq(Universes)
      /\ SavedNodes' = NodesOf(job[p]) /\ SavedEdges' = EdgesOf(job[p])
      /\ \A i \in DOMAIN saved' : saved'[i] = job[p]
  BY <1>1, <1>2, SavedAlone
<1>7. SavedAreHeld'
  <2>1. \A i \in DOMAIN saved' : Holds(saved[i])'
    BY <1>1, <1>6 DEF Holds, EdgesOf
  <2> QED  BY <1>6, <2>1 DEF SavedAreHeld
<1>8. AloneIsExact'
  <2>1. alone => \A q \in Process : pc'[q] = "idle"
    BY <1>1, <1>3, WriterEnds
  <2>2. WellFormed(db)'
    BY <1>1, <1>4 DEF WellFormed, NodesOf, EdgesOf
  <2>3. NodesOf(db)' = NodesOf(job[p]) /\ EdgesOf(db)' = EdgesOf(job[p])
    BY <1>1 DEF NodesOf, EdgesOf
  <2> QED  BY <1>1, <1>6, <2>1, <2>2, <2>3 DEF AloneIsExact
<1> QED  BY <1>3, <1>5, <1>7, <1>8 DEF StoreInv

\* What Over and Upsert make are functions on the keys of either side.
LEMMA RowsAreFunctions ==
  ASSUME NEW f, NEW h
  PROVE  /\ DOMAIN Over(f, h) = DOMAIN f \cup DOMAIN h
         /\ Over(f, h) = [x \in DOMAIN Over(f, h) |-> Over(f, h)[x]]
         /\ DOMAIN Upsert(f, h) = DOMAIN f \cup DOMAIN h
         /\ Upsert(f, h) = [x \in DOMAIN Upsert(f, h) |-> Upsert(f, h)[x]]
BY DEF Over, Upsert

\* A merge that is written leaves the store with what was there and what came in.
LEMMA MergeWrites ==
  ASSUME StoreInv, NEW p \in Process, Write(p),
         ~(first[p].row = Absent /\ first[p].node \in NodesOf(db))
  PROVE  /\ db' = [nodes |-> db'.nodes, edges |-> db'.edges]
         /\ db'.edges = Upsert(db.edges, job[p].edges)
         /\ saved' = Append(saved, job[p])
         /\ NodesOf(db) \subseteq NodesOf(db)' /\ NodesOf(db)' \subseteq NodesOf(db) \cup NodesOf(job[p])
         /\ EdgesOf(db)' = EdgesOf(db) \cup EdgesOf(job[p])
         /\ first[p].row = Absent \/ first[p].node \in NodesOf(db) =>
              NodesOf(db)' = NodesOf(db) \cup NodesOf(job[p])
         /\ db' = [nodes |-> [n \in NodesOf(db)' |-> db'.nodes[n]], edges |-> [e \in EdgesOf(db)' |-> db'.edges[e]]]
<1> DEFINE f == first[p]
           rest == [n \in NodesOf(job[p]) \ {f.node} |-> job[p].nodes[n]]
           merged == IF f.row = Absent THEN job[p].nodes[f.node]
                     ELSE MergeMetadata(f.row, job[p].nodes[f.node])
           own == IF f.row = Absent \/ f.node \in NodesOf(db)
                  THEN [n \in {f.node} |-> merged] ELSE << >>
           rows == Over(own, Upsert(db.nodes, rest))
           edges == Upsert(db.edges, job[p].edges)
<1>1. db' = [nodes |-> rows, edges |-> edges] /\ saved' = Append(saved, job[p]) /\ pc[p] = "write"
  BY DEF Write
<1>2. f.node \in NodesOf(job[p])
  BY <1>1 DEF StoreInv, JobsAreUniverses
<1>3. DOMAIN rest = NodesOf(job[p]) \ {f.node}
  OBVIOUS
<1>4. DOMAIN own = IF f.row = Absent \/ f.node \in NodesOf(db) THEN {f.node} ELSE {}
  <2>1. DOMAIN << >> = {}
    OBVIOUS
  <2> QED  BY <2>1
<1> HIDE DEF rest, own
<1>5. /\ DOMAIN rows = DOMAIN own \cup (DOMAIN db.nodes \cup DOMAIN rest)
      /\ rows = [n \in DOMAIN rows |-> rows[n]]
  <2> DEFINE h == Upsert(db.nodes, rest)
  <2>1. DOMAIN h = DOMAIN db.nodes \cup DOMAIN rest
    BY DEF Upsert
  <2> HIDE DEF h
  <2>2. DOMAIN Over(own, h) = DOMAIN own \cup DOMAIN h /\ Over(own, h) = [x \in DOMAIN Over(own, h) |-> Over(own, h)[x]]
    BY RowsAreFunctions
  <2> QED  BY <2>1, <2>2 DEF h
<1>6. /\ DOMAIN edges = DOMAIN db.edges \cup DOMAIN job[p].edges
      /\ edges = [e \in DOMAIN edges |-> edges[e]]
  BY DEF Upsert
<1> HIDE DEF rows, edges
<1>7. db'.nodes = rows /\ db'.edges = edges /\ NodesOf(db)' = DOMAIN rows /\ EdgesOf(db)' = DOMAIN edges
  BY <1>1 DEF NodesOf, EdgesOf
<1>8. NodesOf(db)' = DOMAIN own \cup NodesOf(db) \cup (NodesOf(job[p]) \ {f.node})
  BY <1>3, <1>5, <1>7 DEF NodesOf
<1>9. EdgesOf(db)' = EdgesOf(db) \cup EdgesOf(job[p])
  BY <1>6, <1>7 DEF EdgesOf
<1> HIDE DEF f
<1>10. /\ NodesOf(db) \subseteq NodesOf(db)' /\ NodesOf(db)' \subseteq NodesOf(db) \cup NodesOf(job[p])
       /\ f.row = Absent \/ f.node \in NodesOf(db) => NodesOf(db)' = NodesOf(db) \cup NodesOf(job[p])
  BY <1>2, <1>4, <1>8
<1>11. db' = [nodes |-> [n \in NodesOf(db)' |-> db'.nodes[n]], edges |-> [e \in EdgesOf(db)' |-> db'.edges[e]]]
  BY <1>1, <1>5, <1>6, <1>7
<1> QED  BY <1>1, <1>7, <1>9, <1>10, <1>11 DEF f, edges

\* Writing a merge keeps what is held; of a lone one the store is exact after it.
LEMMA WriteKeeps ==
  ASSUME StoreInv, NEW p \in Process, Write(p)
  PROVE  StoreInv'
<1>t. TypeOK /\ SchemaGrows /\ JobsAreUniverses /\ SavedAreHeld
  BY DEF StoreInv
<1>1. pc[p] = "write" /\ Finish(p) /\ UNCHANGED <<tables, version, todo, loaded, ops, alone>>
  BY DEF Write
<1>2. job[p] \in Universes /\ WellFormed(job[p]) /\ DOMAIN loaded = Process
  BY <1>t, <1>1 DEF JobsAreUniverses
<1>3. /\ SchemaGrows' /\ JobsAreUniverses'
      /\ pc' \in [Process -> {"idle", "version", "create", "migrate", "ready", "write", "edges"}]
      /\ op' \in [Process -> {"none", "replace", "merge", "load"}]
      /\ \A q \in Process : /\ pc'[q] = IF q = p THEN "idle" ELSE pc[q]
                            /\ q # p => first'[q] = first[q]
  BY <1>t, <1>1, <1>2, FinishForgets
<1>4. CASE first[p].row = Absent /\ first[p].node \in NodesOf(db)
  <2>1. UNCHANGED <<db, saved>>
    BY <1>4 DEF Write
  <2>2. TypeOK'
    BY <1>t, <1>1, <1>3, <2>1 DEF TypeOK
  <2>3. alone => \A q, r \in Process : pc'[q] # "idle" /\ pc'[r] # "idle" => q = r
    BY <1>3 DEF StoreInv, AloneIsExact
  <2>4. \A q \in Process : pc'[q] \in {"write", "edges"} => pc'[q] = pc[q] /\ first'[q] = first[q]
    BY <1>3
  <2>5. SavedAreHeld' /\ AloneIsExact'
    BY <1>1, <2>1, <2>3, <2>4, RowsStay
  <2> QED  BY <1>3, <2>2, <2>5 DEF StoreInv
<1>5. CASE ~(first[p].row = Absent /\ first[p].node \in NodesOf(db))
  <2> DEFINE g == job[p]
  <2>1. /\ db' = [nodes |-> [n \in NodesOf(db)' |-> db'.nodes[n]], edges |-> [e \in EdgesOf(db)' |-> db'.edges[e]]]
        /\ db'.edges = Upsert(db.edges, g.edges)
        /\ saved' = Append(saved, g)
        /\ NodesOf(db) \subseteq NodesOf(db)' /\ NodesOf(db)' \subseteq NodesOf(db) \cup NodesOf(g)
        /\ EdgesOf(db)' = EdgesOf(db) \cup EdgesOf(g)
        /\ first[p].row = Absent \/ first[p].node \in NodesOf(db) => NodesOf(db)' = NodesOf(db) \cup NodesOf(g)
    BY <1>5, MergeWrites
  <2>2. NodesOf(g) \subseteq NodeId /\ EdgesOf(g) \subseteq EdgeKey
    BY <1>2 DEF WellFormed
  <2>3. TypeOK'
    <3>1. NodesOf(db)' \subseteq NodeId /\ EdgesOf(db)' \subseteq EdgeKey
      BY <1>t, <2>1, <2>2 DEF TypeOK
    <3> QED  BY <1>t, <1>1, <1>3, <3>1 DEF TypeOK
  <2>4. /\ saved' \in Seq(Universes)
        /\ SavedNodes' = SavedNodes \cup NodesOf(g) /\ SavedEdges' = SavedEdges \cup EdgesOf(g)
        /\ \A i \in DOMAIN saved' : (i \in DOMAIN saved /\ saved'[i] = saved[i]) \/ saved'[i] = g
    BY <1>t, <1>2, <2>1, SavedGrow DEF SavedAreHeld
  <2>5. SavedAreHeld'
    <3>1. PICK c \in Universes : c = job[p]
      BY <1>2
    <3>2. Holds(c)' /\ \A h \in Universes : Holds(h) => Holds(h)'
      BY <2>1, <3>1, UpsertHolds
    <3>3. ASSUME NEW i \in DOMAIN saved'  PROVE  Holds(saved[i])'
      <4>1. PICK h \in Universes : h = saved'[i] /\ Holds(h)'
        <5>1. CASE saved'[i] = job[p]
          BY <3>1, <3>2, <5>1
        <5>2. CASE i \in DOMAIN saved /\ saved'[i] = saved[i]
          <6>1. PICK h \in Universes : h = saved[i]
            BY <1>t, <5>2 DEF SavedAreHeld
          <6>2. Holds(h)
            BY <1>t, <5>2, <6>1 DEF SavedAreHeld
          <6> QED  BY <3>2, <5>2, <6>1, <6>2
        <5> QED  BY <2>4, <5>1, <5>2
      <4> QED  BY <4>1 DEF Holds
    <3> QED  BY <2>4, <3>3 DEF SavedAreHeld
  <2>6. AloneIsExact'
    <3>1. SUFFICES ASSUME alone  PROVE  AloneIsExact'
      BY <1>1 DEF AloneIsExact
    <3>2. \A q \in Process : pc'[q] = "idle"
      BY <1>1, <1>3, <3>1, WriterEnds
    <3>3. /\ WellFormed(db) /\ NodesOf(db) = SavedNodes /\ EdgesOf(db) = SavedEdges
          /\ first[p].row = Absent \/ first[p].node \in NodesOf(db)
      BY <1>1, <3>1 DEF StoreInv, AloneIsExact
    <3>4. NodesOf(db)' = NodesOf(db) \cup NodesOf(g)
      BY <2>1, <3>3
    <3>5. \A e \in EdgesOf(db)' : {e[1], e[2]} \subseteq NodesOf(db)'
      BY <1>2, <2>1, <3>3, <3>4 DEF WellFormed
    <3>6. WellFormed(db)'
      <4>1. NodesOf(db)' \subseteq NodeId /\ EdgesOf(db)' \subseteq EdgeKey
        BY <2>3 DEF TypeOK
      <4> QED  BY <2>1, <3>5, <4>1 DEF WellFormed
    <3> QED  BY <2>1, <2>4, <3>2, <3>3, <3>4, <3>6 DEF AloneIsExact
  <2> QED  BY <1>3, <2>3, <2>5, <2>6 DEF StoreInv
<1> QED  BY <1>4, <1>5

-----------------------------------------------------------------------------
(* The theorems *)

\* At first nothing is saved and nobody works.
LEMMA InitStarts == Init => StoreInv
<1> SUFFICES ASSUME Init  PROVE  StoreInv
  OBVIOUS
<1>1. NodesOf(Empty) = {} /\ EdgesOf(Empty) = {}
  <2>1. DOMAIN << >> = {}
    OBVIOUS
  <2> QED  BY <2>1 DEF NodesOf, EdgesOf, Empty
<1>2. TablesOf(version) \subseteq tables /\ tables \subseteq Tables /\ version \in 0 .. Latest
  <2>1. CASE \E v \in OldStores : version = v /\ tables = TablesOf(v)
    BY <2>1, SchemaFacts
  <2>2. CASE version = 0 /\ tables = {"base"}
    BY <2>2, SchemaFacts DEF Tables
  <2> QED  BY <2>1, <2>2 DEF Init
<1>3. TypeOK
  <2>1. ops \in 0 .. MaxOps
    BY DEF Init
  <2> QED  BY <1>1, <1>2, <2>1 DEF Init, TypeOK
<1>4. SchemaGrows
  <2>1. \A p \in Process : pc[p] = "idle" /\ todo[p] = << >>
    BY DEF Init
  <2>2. << >> \in Seq(Tables)
    OBVIOUS
  <2> QED  BY <1>2, <2>1, <2>2 DEF SchemaGrows
<1>5. JobsAreUniverses
  BY DEF Init, JobsAreUniverses
<1>6. saved = << >> /\ DOMAIN saved = {} /\ saved \in Seq(Universes)
  <2>1. saved = << >>
    BY DEF Init
  <2> QED  BY <2>1
<1>7. SavedAreHeld
  BY <1>6 DEF SavedAreHeld
<1>8. AloneIsExact
  <2>1. SavedNodes = {} /\ SavedEdges = {}
    BY <1>6 DEF SavedNodes, SavedEdges
  <2>2. WellFormed(Empty)
    <3>1. Empty = [nodes |-> [n \in {} |-> Empty.nodes[n]], edges |-> [e \in {} |-> Empty.edges[e]]]
      BY DEF Empty
    <3> QED  BY <1>1, <3>1 DEF WellFormed
  <2>3. db = Empty /\ \A p \in Process : pc[p] = "idle"
    BY DEF Init
  <2> QED  BY <1>1, <2>1, <2>2, <2>3 DEF AloneIsExact
<1> QED  BY <1>3, <1>4, <1>5, <1>7, <1>8 DEF StoreInv

\* No step of any process breaks the invariant.
LEMMA NextKeeps == StoreInv /\ [Next]_vars => StoreInv'
<1> SUFFICES ASSUME StoreInv, [Next]_vars  PROVE  StoreInv'
  OBVIOUS
<1>1. ASSUME NEW p \in Process, NEW o \in {"replace", "merge"}, NEW g \in Universes, Begin(p, o, g)
      PROVE  StoreInv'
  BY <1>1, BeginKeeps
<1>2. ASSUME NEW p \in Process, Begin(p, "load", Empty)  PROVE  StoreInv'
  BY <1>2, BeginKeeps
<1>3. ASSUME NEW p \in Process,
             \/ ReadVersion(p) \/ Create(p) \/ Migrate(p)
             \/ Replace(p)
             \/ \E n \in NodeId : ReadFirst(p, n)
             \/ Write(p) \/ MergeNothing(p)
             \/ LoadNodes(p) \/ LoadEdges(p)
             \/ GiveUp(p)
      PROVE  StoreInv'
  BY <1>3, EnsureKeeps, ReplaceKeeps, ReadFirstKeeps, WriteKeeps, EndKeeps, LoadNodesKeeps, LoadEdgesKeeps
<1>4. CASE UNCHANGED vars
  <2>1. SavedNodes' = SavedNodes /\ SavedEdges' = SavedEdges
    BY <1>4 DEF vars, SavedNodes, SavedEdges
  <2>2. TypeOK' /\ JobsAreUniverses'
    BY <1>4 DEF vars, StoreInv, TypeOK, JobsAreUniverses
  <2>3. SchemaGrows'
    BY <1>4 DEF vars, StoreInv, SchemaGrows, TablesOf, Creates
  <2>4. SavedAreHeld'
    BY <1>4 DEF vars, StoreInv, SavedAreHeld, Holds
  <2>5. AloneIsExact'
    BY <1>4, <2>1 DEF vars, StoreInv, AloneIsExact, WellFormed
  <2> QED  BY <2>2, <2>3, <2>4, <2>5 DEF StoreInv
<1> QED  BY <1>1, <1>2, <1>3, <1>4 DEF Next

\* The inductive invariant holds however the operations of any processes overlap or die.
THEOREM Invariance == Spec => []StoreInv
BY InitStarts, NextKeeps, PTL DEF Spec

\* _ensure_schema (store.py): the version never promises what is not there, and nobody
\* reads or writes before everything is, whoever else migrates or dies.
THEOREM SchemaCorrect == Spec => []SchemaIsThere
<1>1. StoreInv => SchemaIsThere
  BY DEF StoreInv, SchemaGrows, SchemaIsThere
<1> QED  BY <1>1, Invariance, PTL

\* save_graph (store.py): saves that do not overlap come to merge_graphs of the same
\* universes, and no list of an edge loses an item, overlapping or not.
THEOREM SavesCorrect == Spec => []UniversesAreKept
<1>1. StoreInv => EdgeListsStay
  <2> SUFFICES ASSUME StoreInv, NEW i \in DOMAIN saved, NEW e \in EdgesOf(saved[i])
               PROVE  /\ e \in EdgesOf(db)
                      /\ \A k \in DOMAIN saved[i].edges[e] : saved[i].edges[e][k].list =>
                           saved[i].edges[e][k].items \subseteq db.edges[e][k].items
    BY DEF EdgeListsStay
  <2> QED  BY DEF StoreInv, SavedAreHeld, Holds
<1>2. NodesOf(MergeGraphs(saved)) = SavedNodes /\ EdgesOf(MergeGraphs(saved)) = SavedEdges
  <2>1. /\ DOMAIN FirstOf([i \in DOMAIN saved |-> saved[i].nodes]) = SavedNodes
        /\ DOMAIN FirstOf([i \in DOMAIN saved |-> saved[i].edges]) = SavedEdges
    BY DEF FirstOf, SavedNodes, SavedEdges, NodesOf, EdgesOf
  <2> QED  BY <2>1 DEF MergeGraphs, NodesOf, EdgesOf
<1>3. StoreInv => StoreIsMergeGraphs
  BY <1>2 DEF StoreInv, AloneIsExact, StoreIsMergeGraphs
<1>4. StoreInv => UniversesAreKept
  BY <1>1, <1>3 DEF UniversesAreKept
<1> QED  BY <1>4, Invariance, PTL

\* load_graph (store.py): no edge without its ends, whatever is saved between its two
\* queries, and just what is stored if nothing is.
THEOREM LoadsCorrect == Spec => LoadIsSound
<1> DEFINE Sound == \A p \in Process : pc[p] = "edges" /\ loaded'[p] # loaded[p] =>
              /\ \A e \in EdgesOf(loaded'[p]) : {e[1], e[2]} \subseteq NodesOf(loaded'[p])
              /\ alone => loaded'[p] = db
<1>1. ASSUME StoreInv, NEW p \in Process, LoadEdges(p)
      PROVE  /\ \A q \in Process : q # p => loaded'[q] = loaded[q]
             /\ \A e \in EdgesOf(loaded'[p]) : {e[1], e[2]} \subseteq NodesOf(loaded'[p])
             /\ alone => loaded'[p] = db
  <2> DEFINE nodes == loaded[p].nodes
             edges == EdgesWithin(db.edges, DOMAIN nodes)
  <2>1. DOMAIN loaded = Process /\ loaded[p] = [nodes |-> nodes, edges |-> << >>]
    BY <1>1 DEF StoreInv, JobsAreUniverses, LoadEdges
  <2>2. /\ loaded' = [loaded EXCEPT ![p].edges = edges]
        /\ pc[p] = "edges"
    BY <1>1 DEF LoadEdges, NodesOf
  <2>3. loaded' = [loaded EXCEPT ![p] = [loaded[p] EXCEPT !.edges = edges]]
    BY <2>2
  <2>e. DOMAIN edges = {e \in DOMAIN db.edges : {e[1], e[2]} \subseteq DOMAIN nodes}
    BY DEF EdgesWithin, Restrict
  <2>4. alone => db.nodes = nodes /\ edges = db.edges
    <3>1. SUFFICES ASSUME alone  PROVE  db.nodes = nodes /\ edges = db.edges
      OBVIOUS
    <3>2. WellFormed(db) /\ db.nodes = nodes
      BY <1>1, <2>2, <3>1 DEF StoreInv, AloneIsExact
    <3>3. db.edges = [e \in DOMAIN db.edges |-> db.edges[e]]
      BY <3>2 DEF WellFormed, EdgesOf
    <3>4. {e \in DOMAIN db.edges : {e[1], e[2]} \subseteq DOMAIN nodes} = DOMAIN db.edges
      BY <3>2 DEF WellFormed, EdgesOf, NodesOf
    <3>5. edges = [e \in DOMAIN db.edges |-> db.edges[e]]
      BY <3>4 DEF EdgesWithin, Restrict
    <3> QED  BY <3>2, <3>3, <3>5
  <2> HIDE DEF edges, nodes
  <2>5. loaded'[p] = [nodes |-> nodes, edges |-> edges]
    BY <2>1, <2>3
  <2>6. \A e \in EdgesOf(loaded'[p]) : {e[1], e[2]} \subseteq NodesOf(loaded'[p])
    BY <2>5, <2>e DEF EdgesOf, NodesOf
  <2>7. alone => loaded'[p] = db
    <3>1. alone => db = [nodes |-> db.nodes, edges |-> db.edges]
      BY <1>1 DEF StoreInv, AloneIsExact, WellFormed
    <3> QED  BY <2>4, <2>5, <3>1
  <2>8. \A q \in Process : q # p => loaded'[q] = loaded[q]
    BY <2>1, <2>3
  <2> QED  BY <2>6, <2>7, <2>8
<1>2. ASSUME StoreInv, NEW p \in Process, LoadNodes(p)
      PROVE  \A q \in Process : pc[q] = "edges" => loaded'[q] = loaded[q]
  BY <1>2 DEF StoreInv, JobsAreUniverses, LoadNodes
<1>3. ASSUME StoreInv, [Next]_vars  PROVE  Sound
  <2>1. ASSUME NEW p \in Process, LoadEdges(p)  PROVE  Sound
    BY <1>1, <1>3, <2>1
  <2>2. ASSUME NEW p \in Process, LoadNodes(p)  PROVE  Sound
    BY <1>2, <1>3, <2>2
  <2>3. CASE UNCHANGED loaded
    BY <2>3
  <2> HIDE DEF Sound
  <2>4. ASSUME NEW p \in Process,
               \/ \E o \in {"replace", "merge"}, g \in Universes : Begin(p, o, g)
               \/ Begin(p, "load", Empty)
               \/ ReadVersion(p) \/ Create(p) \/ Migrate(p)
               \/ Replace(p)
               \/ \E n \in NodeId : ReadFirst(p, n)
               \/ Write(p) \/ MergeNothing(p)
               \/ GiveUp(p)
        PROVE  UNCHANGED loaded
    BY <2>4 DEF Begin, ReadVersion, Create, Migrate, Replace, ReadFirst, Write, MergeNothing, GiveUp
  <2> QED  BY <1>3, <2>1, <2>2, <2>3, <2>4 DEF Next, vars
<1> QED  BY <1>3, Invariance, PTL DEF Spec, LoadIsSound


\* The rows are always read as nodes and edges.
LEMMA StoreIsRows == Spec => [](db = [nodes |-> db.nodes, edges |-> db.edges])
<1> DEFINE Rows == db = [nodes |-> db.nodes, edges |-> db.edges]
<1>1. Init => Rows
  BY DEF Init, Empty
<1>2. ASSUME StoreInv, Rows, [Next]_vars  PROVE  Rows'
  <2>1. ASSUME NEW p \in Process, Replace(p)  PROVE  Rows'
    <3>1. db' = job[p] /\ job[p] \in Universes
      BY <1>2, <2>1 DEF StoreInv, JobsAreUniverses, Replace
    <3>2. WellFormed(job[p])
      BY <3>1, UniverseAssumption
    <3> QED  BY <3>1, <3>2 DEF WellFormed
  <2>2. ASSUME NEW p \in Process, Write(p)  PROVE  Rows'
    BY <1>2, <2>2 DEF Write
  <2>3. ASSUME NEW p \in Process,
               \/ \E o \in {"replace", "merge"}, g \in Universes : Begin(p, o, g)
               \/ Begin(p, "load", Empty)
               \/ ReadVersion(p) \/ Create(p) \/ Migrate(p)
               \/ \E n \in NodeId : ReadFirst(p, n)
               \/ MergeNothing(p)
               \/ LoadNodes(p) \/ LoadEdges(p)
               \/ GiveUp(p)
        PROVE  UNCHANGED db
    BY <2>3 DEF Begin, ReadVersion, Create, Migrate, ReadFirst, MergeNothing, LoadNodes, LoadEdges, GiveUp
  <2>4. CASE UNCHANGED db
    BY <1>2, <2>4
  <2> HIDE DEF Rows
  <2> QED  BY <1>2, <2>1, <2>2, <2>3, <2>4 DEF Next, vars
<1> QED  BY <1>1, <1>2, Invariance, PTL DEF Spec

\* store.py: whatever the store comes to hold, and however deep its cycles, a query in
\* SQL answers as the search in memory does, but for capabilities that only LIKE finds.
THEOREM QueriesCorrect == Spec => []QueriesAgree
<1>1. ASSUME StoreInv, db = [nodes |-> db.nodes, edges |-> db.edges]  PROVE  QueriesAgree
  <2>1. IsUniverse(db)
    BY <1>1 DEF StoreInv, TypeOK, IsUniverse
  <2>2. Cardinality(NodeId) \in Nat
    BY NodesAssumption, FS_CardinalityType
  <2>3. ReachableIsClosure
    BY <2>1, ClosuresAgree DEF ReachableIsClosure, Closed
  <2>4. ReachableHasPath
    <3>1. \A d \in Depths : d \in Nat
      BY <2>2 DEF Depths
    <3>2. \A s \in NodesOf(db), d \in Depths : SqlReachableIds(db, {s}, d) = PathEnds(db, s, d)
      BY <2>1, <3>1, ReachedHavePaths
    <3> QED  BY <3>2 DEF ReachableHasPath, PathEnds
  <2>5. PathsAgree
    <3>1. \A d \in Depths : d \in Nat
      BY <2>2 DEF Depths
    <3>2. \A s \in NodesOf(db), needle \in Needle, d \in Depths :
            DependencyPaths(db, s, needle, d + 1) = PathsPastNone(db, s, MatchNodes(db, needle), d)
      BY <2>1, <3>1, PathsMatch
    <3> QED  BY <3>2 DEF PathsAgree, PathsPastNone
  <2>6. DependentsMirror
    BY <1>1, <2>1, DependentsMatch DEF DependentsMirror
  <2> QED  BY <2>3, <2>4, <2>5, <2>6 DEF QueriesAgree
<1> QED  BY <1>1, Invariance, StoreIsRows, PTL
=============================================================================
