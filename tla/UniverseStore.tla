---------------------------- MODULE UniverseStore ----------------------------
(***************************************************************************)
(* The SQLite store of universes (store.py), used by any number of         *)
(* processes: `universe --save [--merge]`, `arch-universe --save`,         *)
(* `universe --db` and the workbench's universe panel.                     *)
(*                                                                         *)
(* A step is what SQLite carries out atomically under Python's transaction *)
(* handling: a SELECT or a CREATE outside of a transaction; or everything  *)
(* from the first INSERT, UPDATE or DELETE to the commit, since the writer *)
(* holds the lock from there on and the others see nothing until then.     *)
(***************************************************************************)
EXTENDS Universe

CONSTANTS Process,
          Universes,   \* what processes save
          OldStores,   \* schema versions of stores that may be there at first
          Absent,
          MaxOps       \* bound: operations begun

\* The builders make one edge of a key, between nodes they have added.
WellFormed(g) ==
  /\ g = [ nodes |-> [n \in NodesOf(g) |-> g.nodes[n]], edges |-> [e \in EdgesOf(g) |-> g.edges[e]] ]
  /\ NodesOf(g) \subseteq NodeId /\ EdgesOf(g) \subseteq EdgeKey
  /\ \A e \in EdgesOf(g) : {e[1], e[2]} \subseteq NodesOf(g)

\* A key of an edge holds a list in every universe that has it, or in none.
SameKinds(g, h) ==
  \A e \in EdgesOf(g) \cap EdgesOf(h) :
    \A k \in DOMAIN g.edges[e] \cap DOMAIN h.edges[e] : g.edges[e][k].list <=> h.edges[e][k].list

ASSUME BoundAssumption == MaxOps \in Nat
ASSUME UniverseAssumption == \A g \in Universes : WellFormed(g)
ASSUME KindsAssumption == \A g, h \in Universes : SameKinds(g, h)

\* There are finitely many packages; a text is a part of the ids it names.
ASSUME NodesAssumption == IsFiniteSet(NodeId)
ASSUME NeedleAssumption == \A needle \in Needle : Exact[needle] \subseteq Containing[needle]

Tables == {"base", "schema_version", "snapshots", "indexes"}

VARIABLES db,       \* the committed rows of nodes and edges
          tables,   \* what CREATE statements have made
          version,  \* the highest row of schema_version
          pc, op, job,
          todo,     \* the CREATEs left of the first missing migration
          first,    \* merge: the node that is written first and the row read for it
          loaded,   \* what load_graph has read
          ops

\* What happened: universes saved since the last replacement, and whether each
\* operation was over before the next began.
VARIABLES saved, alone

vars == <<db, tables, version, pc, op, job, todo, first, loaded, ops, saved, alone>>

\* What each migration creates.  Migration k takes a store from version k - 1 to k.
Creates == << <<"base", "schema_version">>, <<"snapshots">>, <<"indexes">> >>
Latest == Len(Creates)

ASSUME OldAssumption == OldStores \subseteq 0 .. Latest

TablesOf(v) == UNION {Range(Creates[k]) : k \in 1 .. v}

TypeOK ==
  /\ NodesOf(db) \subseteq NodeId /\ EdgesOf(db) \subseteq EdgeKey
  /\ tables \subseteq Tables /\ version \in 0 .. Latest
  /\ pc \in [Process -> {"idle", "version", "create", "migrate", "ready", "write", "edges"}]
  /\ op \in [Process -> {"none", "replace", "merge", "load"}]
  /\ \A p \in Process : EdgesOf(loaded[p]) \subseteq EdgeKey
  /\ ops \in 0 .. MaxOps /\ alone \in BOOLEAN

\* A new file, a store of an earlier release, or one from before there were versions.
Init ==
  /\ db = Empty
  /\ \/ \E v \in OldStores : version = v /\ tables = TablesOf(v)
     \/ version = 0 /\ tables = {"base"}
  /\ pc = [p \in Process |-> "idle"]
  /\ op = [p \in Process |-> "none"]
  /\ job = [p \in Process |-> Empty]
  /\ todo = [p \in Process |-> << >>]
  /\ first = [p \in Process |-> Absent]
  /\ loaded = [p \in Process |-> Empty]
  /\ ops = 0
  /\ saved = << >> /\ alone = TRUE

Begin(p, o, g) ==
  /\ pc[p] = "idle" /\ ops < MaxOps
  /\ pc' = [pc EXCEPT ![p] = "version"]
  /\ op' = [op EXCEPT ![p] = o]
  /\ job' = [job EXCEPT ![p] = g]
  /\ ops' = ops + 1
  /\ alone' = (alone /\ \A q \in Process : pc[q] = "idle")
  /\ UNCHANGED <<db, tables, version, todo, first, loaded, saved>>

Finish(p) ==
  /\ pc' = [pc EXCEPT ![p] = "idle"]
  /\ op' = [op EXCEPT ![p] = "none"]
  /\ job' = [job EXCEPT ![p] = Empty]
  /\ first' = [first EXCEPT ![p] = Absent]

----------------------------------------------------------------------------
(* _ensure_schema *)

\* Without the table schema_version the store is at version 0.
ReadVersion(p) ==
  /\ pc[p] = "version"
  /\ pc' = [pc EXCEPT ![p] = IF version = Latest THEN "ready" ELSE "create"]
  /\ todo' = [todo EXCEPT ![p] = IF version = Latest THEN << >> ELSE Creates[version + 1]]
  /\ UNCHANGED <<db, tables, version, op, job, first, loaded, ops, saved, alone>>

\* The CREATE ... IF NOT EXISTS of the first migration take effect one by one: no
\* transaction is open yet.
Create(p) ==
  /\ pc[p] = "create"
  /\ tables' = tables \cup {Head(todo[p])}
  /\ todo' = [todo EXCEPT ![p] = Tail(@)]
  /\ pc' = [pc EXCEPT ![p] = IF Len(todo[p]) = 1 THEN "migrate" ELSE "create"]
  /\ UNCHANGED <<db, version, op, job, first, loaded, ops, saved, alone>>

\* Mutant: the last migration is recorded and not carried out.
Migrate_SkipsLast(p) ==
  /\ pc[p] = "migrate"
  /\ tables' = tables \cup TablesOf(Latest - 1)
  /\ version' = Latest
  /\ pc' = [pc EXCEPT ![p] = "ready"]
  /\ UNCHANGED <<db, op, job, todo, first, loaded, ops, saved, alone>>

\* Recording it opens the transaction in which the later migrations run.
Migrate(p) ==
  /\ pc[p] = "migrate"
  /\ tables' = tables \cup TablesOf(Latest)
  /\ version' = Latest
  /\ pc' = [pc EXCEPT ![p] = "ready"]
  /\ UNCHANGED <<db, op, job, todo, first, loaded, ops, saved, alone>>

----------------------------------------------------------------------------
(* save_graph *)

\* Mutant: only the nodes are deleted.
Replace_KeepsEdges(p) ==
  /\ pc[p] = "ready" /\ op[p] = "replace"
  /\ db' = [nodes |-> job[p].nodes, edges |-> Over(job[p].edges, db.edges)]
  /\ saved' = <<job[p]>>
  /\ Finish(p)
  /\ UNCHANGED <<tables, version, todo, loaded, ops, alone>>

\* mode="replace": the first DELETE opens the transaction.
Replace(p) ==
  /\ pc[p] = "ready" /\ op[p] = "replace"
  /\ db' = job[p]
  /\ saved' = <<job[p]>>
  /\ Finish(p)
  /\ UNCHANGED <<tables, version, todo, loaded, ops, alone>>

\* Mutant of _deep_merge: what comes in wins, lists included.
MergeValue_Incoming(base, incoming) == incoming

\* _deep_merge of two values under one key: lists are joined, else what comes in wins.
MergeValue(base, incoming) ==
  IF base.list /\ incoming.list THEN List(base.items \cup incoming.items) ELSE incoming

MergeMetadata(base, incoming) ==
  [k \in DOMAIN base \cup DOMAIN incoming |->
     IF k \notin DOMAIN incoming THEN base[k]
     ELSE IF k \notin DOMAIN base THEN incoming[k]
     ELSE MergeValue(base[k], incoming[k])]

Upsert(rows, new) ==
  [x \in DOMAIN rows \cup DOMAIN new |->
     IF x \notin DOMAIN new THEN rows[x]
     ELSE IF x \notin DOMAIN rows THEN new[x]
     ELSE MergeMetadata(rows[x], new[x])]

\* mode="merge": the row of the first node is read before any transaction is open.
ReadFirst(p, n) ==
  /\ pc[p] = "ready" /\ op[p] = "merge" /\ n \in NodesOf(job[p])
  /\ first' = [first EXCEPT ![p] = [ node |-> n,
                 row |-> IF n \in NodesOf(db) THEN db.nodes[n] ELSE Absent]]
  /\ pc' = [pc EXCEPT ![p] = "write"]
  /\ UNCHANGED <<db, tables, version, op, job, todo, loaded, ops, saved, alone>>

\* Writing it opens the transaction for all the rest.  A row that has appeared since
\* makes the INSERT raise; one that has gone, the UPDATE hit nothing.
Write(p) ==
  /\ pc[p] = "write"
  /\ LET f     == first[p]
         rest  == [n \in NodesOf(job[p]) \ {f.node} |-> job[p].nodes[n]]
         merged == IF f.row = Absent THEN job[p].nodes[f.node]
                   ELSE MergeMetadata(f.row, job[p].nodes[f.node])
         own   == IF f.row = Absent \/ f.node \in NodesOf(db)
                  THEN [n \in {f.node} |-> merged] ELSE << >>
     IN  IF f.row = Absent /\ f.node \in NodesOf(db)
         THEN UNCHANGED <<db, saved>> \* IntegrityError
         ELSE /\ db' = [ nodes |-> Over(own, Upsert(db.nodes, rest)),
                         edges |-> Upsert(db.edges, job[p].edges) ]
              /\ saved' = Append(saved, job[p])
  /\ Finish(p)
  /\ UNCHANGED <<tables, version, todo, loaded, ops, alone>>

\* A universe without nodes merges nothing.
MergeNothing(p) ==
  /\ pc[p] = "ready" /\ op[p] = "merge" /\ NodesOf(job[p]) = {}
  /\ Finish(p)
  /\ UNCHANGED <<db, tables, version, todo, loaded, ops, saved, alone>>

----------------------------------------------------------------------------
(* load_graph *)

LoadNodes(p) ==
  /\ pc[p] = "ready" /\ op[p] = "load"
  /\ loaded' = [loaded EXCEPT ![p] = [nodes |-> db.nodes, edges |-> << >>]]
  /\ pc' = [pc EXCEPT ![p] = "edges"]
  /\ UNCHANGED <<db, tables, version, op, job, todo, first, ops, saved, alone>>

\* Mutant: only the source of an edge is looked up.
LoadEdges_Source(p) ==
  /\ pc[p] = "edges"
  /\ loaded' = [loaded EXCEPT ![p].edges =
                  Restrict(db.edges, {e \in EdgesOf(db) : e[1] \in NodesOf(loaded[p])})]
  /\ Finish(p)
  /\ UNCHANGED <<db, tables, version, todo, ops, saved, alone>>

\* The edges are another SELECT; those with an end that was not loaded are skipped.
LoadEdges(p) ==
  /\ pc[p] = "edges"
  /\ loaded' = [loaded EXCEPT ![p].edges = EdgesWithin(db.edges, NodesOf(loaded[p]))]
  /\ Finish(p)
  /\ UNCHANGED <<db, tables, version, todo, ops, saved, alone>>

\* The process dies, or the database stays locked for too long: what is not committed
\* is gone.
GiveUp(p) ==
  /\ pc[p] # "idle"
  /\ Finish(p)
  /\ UNCHANGED <<db, tables, version, todo, loaded, ops, saved, alone>>

Next ==
  \E p \in Process :
    \/ \E o \in {"replace", "merge"}, g \in Universes : Begin(p, o, g)
    \/ Begin(p, "load", Empty)
    \/ ReadVersion(p) \/ Create(p) \/ Migrate(p)
    \/ Replace(p)
    \/ \E n \in NodeId : ReadFirst(p, n)
    \/ Write(p) \/ MergeNothing(p)
    \/ LoadNodes(p) \/ LoadEdges(p)
    \/ GiveUp(p)

Spec == Init /\ [][Next]_vars

----------------------------------------------------------------------------
(* Properties of the store *)

\* _ensure_schema: whoever migrates, is interrupted or races another one, the recorded
\* version never promises a table or an index that is not there, and no operation goes
\* on without all of them.
SchemaIsThere ==
  /\ TypeOK
  /\ TablesOf(version) \subseteq tables
  /\ \A p \in Process : pc[p] \in {"ready", "write", "edges"} => tables = Tables

\* store.py:12-15: merging into the store comes to the same nodes and edges as
\* merge_graphs of the same universes in memory, when no operation overlaps another.
StoreIsMergeGraphs ==
  alone => /\ NodesOf(db) = NodesOf(MergeGraphs(saved))
           /\ EdgesOf(db) = EdgesOf(MergeGraphs(saved))

\* "preserves edge metadata by deep-merging both sides": a list on an edge keeps every
\* item it was ever given since the last replacement, however processes overlap, as an
\* edge is only read and written under the lock that its universe's first node took.
EdgeListsStay ==
  \A i \in DOMAIN saved : \A e \in EdgesOf(saved[i]) :
    /\ e \in EdgesOf(db)
    /\ \A k \in DOMAIN saved[i].edges[e] :
         saved[i].edges[e][k].list => saved[i].edges[e][k].items \subseteq db.edges[e][k].items

\* What a saved universe may expect of the store: the two above.
UniversesAreKept == StoreIsMergeGraphs /\ EdgeListsStay

\* load_graph never makes an edge without its ends, whatever is saved between its two
\* queries, and it loads just what is stored if nothing is.
LoadIsSound ==
  [][\A p \in Process : pc[p] = "edges" /\ loaded'[p] # loaded[p] =>
       /\ \A e \in EdgesOf(loaded'[p]) : {e[1], e[2]} \subseteq NodesOf(loaded'[p])
       /\ alone => loaded'[p] = db]_vars

----------------------------------------------------------------------------
(* Properties of the queries, over whatever the store comes to hold.  A merge *)
(* that overlaps a replacement may leave an edge row without its node row,  *)
(* which the queries follow and load_graph skips.                           *)

Closed == \A e \in EdgesOf(db) : {e[1], e[2]} \subseteq NodesOf(db)

Depths == 1 .. Cardinality(NodeId)

\* test_store.py "test_sql_reachable_dependencies_matches_in_memory_bfs": with enough
\* depth the recursive query finds what the breadth-first search finds, cycles or not.
ReachableIsClosure ==
  Closed => \A s \in NodesOf(db) :
    SqlReachableIds(db, {s}, Cardinality(NodeId)) = ReachableDependencies(db, s) \ {s}

\* Within one and the same depth, the walk and the paths agree: what is reachable has a
\* path and what has a path is reachable.
ReachableHasPath ==
  Closed => \A s \in NodesOf(db), d \in Depths :
    SqlReachableIds(db, {s}, d) = {t \in NodesOf(db) \ {s} : SqlPaths(db, {s}, {t}, d) # {}}

\* The paths of the in-memory search are the paths of the query that meet no target on
\* the way, for a bound that is one greater, as one counts nodes and the other hops.
PathsAgree ==
  Closed => \A s \in NodesOf(db), needle \in Needle, d \in Depths :
    LET ids == MatchNodes(db, needle)
    IN  DependencyPaths(db, s, needle, d + 1) =
          {p \in SqlPaths(db, {s}, ids, d) : Len(p) > 1 /\ Range(SubSeq(p, 2, Len(p) - 1)) \cap ids = {}}

\* A store g as load_graph reads it: without the edges that lack an end.
Loadable(g) == [g EXCEPT !.edges = EdgesWithin(@, NodesOf(g))]

\* Names of the packages that need a capability which LIKE finds, and only LIKE.
FoundByLike(g, needle) ==
  {Label[s] : s \in NodesOf(g) \cap
                    UNION {Sources(g, t, RequiresRelations) : t \in Like[needle] \ Containing[needle]}}

\* The packages that need something of that name, or a capability of whose name the text
\* is a part, if LIKE finds it too.
Needing(g, needle) ==
  {id \in NodesOf(g) : \/ needle \in DependenciesOf(Loadable(g), id)
                       \/ Targets(Loadable(g), id, RequiresRelations)
                            \cap Containing[needle] \cap Like[needle] # {}}

\* store.py:580-588: how the query for dependents mirrors the search in memory.  It names
\* no other package but by a capability that only LIKE finds, and every package that
\* needs what is asked for by its name or by a part of a capability; and what the query
\* for dependencies names has the asked for among its dependents.  A row without its
\* ends confuses none of them.
DependentsMirror ==
  \A needle \in Needle :
    /\ SqlDependents(db, needle) \subseteq DependentsOf(Loadable(db), needle) \cup FoundByLike(db, needle)
    /\ {Label[id] : id \in Needing(db, needle)} \subseteq SqlDependents(db, needle)
    /\ \A t \in SqlDependencies(db, needle) \cap Needle :
         \E id \in MatchingIds(db, needle) : Label[id] \in SqlDependents(db, t)

\* The four above: a caller may ask the store or load it and search.
QueriesAgree == ReachableIsClosure /\ ReachableHasPath /\ PathsAgree /\ DependentsMirror
=============================================================================
