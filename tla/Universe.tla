------------------------------ MODULE Universe ------------------------------
(***************************************************************************)
(* The dependency universe (provenance/universe.py): how it is built from  *)
(* repograph dots and from the claims of an enriched graph, how universes  *)
(* are merged, and its traversals, beside the same questions asked in SQL  *)
(* of a store (store.py).                                                  *)
(*                                                                         *)
(* A universe is [nodes, edges]: a function from node ids to metadata, and *)
(* one from <<source, target, relation>> to metadata; the builders never   *)
(* make two edges of one key.  Metadata maps keys to values, a value being *)
(* a JSON scalar or a list, of which the order is left out.                *)
(***************************************************************************)
EXTENDS Naturals, Sequences, FiniteSets, SequencesExt, Functions

CONSTANTS
  NodeId,    \* pkg:<name> and cap:<coordinate> ids
  Needle,    \* texts a user looks for
  Label,     \* label of each node id, its name
  Containing,  \* per needle: the ids it is a part of
  Exact,     \* per needle: the ids it names exactly, with or without pkg:
  Like       \* per needle: the ids of capabilities (cap:...) that SQL's LIKE finds by it

TraverseRelations == {"requires_runtime", "declares_dependency", "provides"}
RequiresRelations == {"requires_runtime", "declares_dependency"}

EdgeKey == NodeId \X NodeId \X TraverseRelations

Scalar(v) == [list |-> FALSE, items |-> {v}]
List(items) == [list |-> TRUE, items |-> items]

Empty == [nodes |-> << >>, edges |-> << >>]

NodesOf(g) == DOMAIN g.nodes
EdgesOf(g) == DOMAIN g.edges

\* The edges whose ends are there.
EdgesWithin(edges, ids) == Restrict(edges, {e \in DOMAIN edges : {e[1], e[2]} \subseteq ids})

\* f where it is defined, else h.
Over(f, h) == [x \in DOMAIN f \cup DOMAIN h |-> IF x \in DOMAIN f THEN f[x] ELSE h[x]]

----------------------------------------------------------------------------
(* Building *)

\* universe_from_dot: dot is a sequence of token pairs [id, version, arch].  The
\* first token of a package tells its version; an edge whose source has another
\* arch is skipped, a package is never its own dependency.
FromDot(dot, arch) ==
  LET kept   == SelectSeq(dot, LAMBDA e : arch = "any" \/ e[1].arch \in {arch, "noarch"})
      tokens == FlattenSeq([i \in DOMAIN kept |-> <<kept[i][1], kept[i][2]>>])
      ids    == {tokens[i].id : i \in DOMAIN tokens}
      First(id) == CHOOSE i \in DOMAIN tokens :
                     tokens[i].id = id /\ \A j \in 1 .. i - 1 : tokens[j].id # id
  IN  [ nodes |-> [id \in ids |-> [k \in {"version"} |-> Scalar(tokens[First(id)].version)]],
        edges |-> [e \in {<<p[1].id, p[2].id, "requires_runtime">> :
                            p \in {q \in Range(kept) : q[1].id # q[2].id}} |-> << >>] ]

\* build_universe: rpms is a sequence of [rpm, id, arch] already selected, claims one
\* of [subject, cap, linkage, evidence, soname].  RPMs of one name share a node, claims
\* on one coordinate an edge; the first one's metadata stays.
FromClaims(rpms, claims) ==
  LET known   == {rpms[i].rpm : i \in DOMAIN rpms}
      Pkg(r)  == rpms[CHOOSE i \in DOMAIN rpms : rpms[i].rpm = r].id
      used    == SelectSeq(claims, LAMBDA c : c.subject \in known)
      linked  == SelectSeq(used, LAMBDA c : c.evidence = "soname_provider" /\ c.soname # "")
      Requires(c) == <<Pkg(c.subject), c.cap, "requires_runtime">>
      Provides(c) == <<c.cap, c.soname, "provides">>
      FirstRpm(id) == rpms[CHOOSE i \in DOMAIN rpms :
                             rpms[i].id = id /\ \A j \in 1 .. i - 1 : rpms[j].id # id]
      FirstClaim(e) == used[CHOOSE i \in DOMAIN used :
                             Requires(used[i]) = e /\ \A j \in 1 .. i - 1 : Requires(used[j]) # e]
      pkgs == {rpms[i].id : i \in DOMAIN rpms}
      caps == {used[i].cap : i \in DOMAIN used} \cup {linked[i].soname : i \in DOMAIN linked}
  IN  [ nodes |-> [id \in pkgs \cup caps |->
                     IF id \in pkgs THEN [k \in {"arch"} |-> Scalar(FirstRpm(id).arch)] ELSE << >>],
        edges |-> [e \in {Requires(used[i]) : i \in DOMAIN used}
                           \cup {Provides(linked[i]) : i \in DOMAIN linked} |->
                     IF e[3] = "provides" THEN << >>
                     ELSE [k \in {"linkage", "evidence"} |->
                             Scalar(IF k = "linkage" THEN FirstClaim(e).linkage
                                                     ELSE FirstClaim(e).evidence)]] ]

\* What a sequence of functions makes together: the first that has x tells its value.
FirstOf(maps) ==
  [x \in UNION {DOMAIN maps[i] : i \in DOMAIN maps} |->
     maps[CHOOSE i \in DOMAIN maps :
            x \in DOMAIN maps[i] /\ \A j \in 1 .. i - 1 : x \notin DOMAIN maps[j]][x]]

\* merge_graphs: the first definition of a node or an edge wins.
MergeGraphs(graphs) ==
  [ nodes |-> FirstOf([i \in DOMAIN graphs |-> graphs[i].nodes]),
    edges |-> FirstOf([i \in DOMAIN graphs |-> graphs[i].edges]) ]

----------------------------------------------------------------------------
(* Traversals in memory *)

Targets(g, id, relations) == {e[2] : e \in {f \in EdgesOf(g) : f[1] = id /\ f[3] \in relations}}
Sources(g, id, relations) == {e[1] : e \in {f \in EdgesOf(g) : f[2] = id /\ f[3] \in relations}}

\* _match_nodes: the name, or a part of the id or the coordinate.
MatchNodes(g, needle) == {id \in NodesOf(g) : Label[id] = needle \/ id \in Containing[needle]}

DependenciesOf(g, id) == {Label[t] : t \in Targets(g, id, RequiresRelations)}

DependentsOf(g, needle) ==
  {Label[s] : s \in UNION {Sources(g, t, RequiresRelations) : t \in MatchNodes(g, needle)}}

\* reachable_dependencies: breadth first from a node, which is in the answer only if
\* a cycle leads back to it.
ReachableDependencies(g, start) ==
  LET seen[n \in 0 .. Cardinality(NodesOf(g))] ==
        IF n = 0 THEN Targets(g, start, TraverseRelations)
        ELSE seen[n - 1] \cup UNION {Targets(g, id, TraverseRelations) : id \in seen[n - 1]}
  IN  IF start \in NodesOf(g) THEN seen[Cardinality(NodesOf(g))] ELSE {}

\* Simple paths of so many nodes from the starts, none going on from a node in stop.
PathsOfLength(g, starts, stop, length) ==
  LET paths[n \in 1 .. length] ==
        IF n = 1 THEN {<<s>> : s \in starts}
        ELSE UNION {{Append(p, t) : t \in Targets(g, Last(p), TraverseRelations) \ Range(p)} :
                      p \in {q \in paths[n - 1] : Len(q) = 1 \/ Last(q) \notin stop}}
  IN  IF length = 0 THEN {} ELSE paths[length]

\* dependency_paths: a path ends at the first target, and has at most depth nodes.
\* (max_paths cuts the list off; that is left out here and below.)
DependencyPaths(g, start, needle, depth) ==
  LET ids == MatchNodes(g, needle)
  IN  IF start \notin NodesOf(g) THEN {}
      ELSE {p \in UNION {PathsOfLength(g, {start}, ids, n) : n \in 2 .. depth} : Last(p) \in ids}

----------------------------------------------------------------------------
(* The same in SQL *)

\* Mutant of _matching_ids: no part of a capability.
MatchingIds_Exact(g, needle) ==
  {id \in NodesOf(g) : Label[id] = needle \/ id \in Exact[needle]}

\* _matching_ids: the label, the id with or without pkg:, or LIKE 'cap:%needle%', for
\* which ASCII letters have no case, and a _ in the needle is any character, a % any text.
MatchingIds(g, needle) ==
  {id \in NodesOf(g) : Label[id] = needle \/ id \in Exact[needle] \/ id \in Like[needle]}

\* One hop, joined with the rows of the nodes to answer with their labels.
SqlDependents(g, needle) ==
  {Label[s] : s \in NodesOf(g) \cap
                    UNION {Sources(g, t, RequiresRelations) : t \in MatchingIds(g, needle)}}

SqlDependencies(g, needle) ==
  {Label[t] : t \in NodesOf(g) \cap
                    UNION {Targets(g, s, RequiresRelations) : s \in MatchingIds(g, needle)}}

\* The rows (id, depth) of the recursive query, by depth: UNION drops equal rows, not
\* equal ids, so on a cycle only the depth ends the walk.
Walk(g, starts, depth) ==
  LET level[d \in 0 .. depth] ==
        IF d = 0 THEN starts
        ELSE UNION {Targets(g, id, TraverseRelations) : id \in level[d - 1]}
  IN  UNION {level[d] : d \in 0 .. depth}

SqlReachableIds(g, starts, depth) == (Walk(g, starts, depth) \ starts) \cap NodesOf(g)

\* Mutant: the bound counts nodes.
SqlPaths_Nodes(g, starts, ids, depth) ==
  {p \in UNION {PathsOfLength(g, starts, {}, n) : n \in 1 .. depth} : Last(p) \in ids}

\* sql_dependency_paths: a path may run through a target, and has at most depth hops.
SqlPaths(g, starts, ids, depth) ==
  {p \in UNION {PathsOfLength(g, starts, {}, n + 1) : n \in 1 .. depth} : Last(p) \in ids}
=============================================================================
