-------------------------- MODULE Inspector_proofs --------------------------
(***************************************************************************)
(* What holds of the inspection of any results, whatever the user does and *)
(* in whatever order the answers of the workers come.                      *)
(***************************************************************************)
EXTENDS Inspector, TLAPS

ItemsOf(r) == {id \in DOMAIN GraphOf[r].nodes : Kind(id) = "rpm"}

\* A slice that was cut from a graph.
CutFrom(g, s) ==
  /\ s = [nodes |-> s.nodes, edges |-> s.edges, focus |-> s.focus]
  /\ DOMAIN s.nodes \subseteq DOMAIN g.nodes /\ s.nodes = [id \in DOMAIN s.nodes |-> g.nodes[id]]
  /\ s.edges \subseteq g.edges
  /\ s.focus \in DOMAIN s.nodes

----------------------------------------------------------------------------
(* Every slice is cut from its graph. *)

\* The edges of a result join nodes of it.
LEMMA EndsAreThere ==
  ASSUME NEW r \in Result, NEW id, NEW relation
  PROVE  /\ Incoming(GraphOf[r], id, relation) \subseteq DOMAIN GraphOf[r].nodes
         /\ Outgoing(GraphOf[r], id, relation) \subseteq DOMAIN GraphOf[r].nodes
  BY GraphsAssumption DEF Incoming, Outgoing

\* What source_to_artifact_path puts before a path is a node of the graph.
LEMMA WithAboveStays ==
  ASSUME NEW r \in Result, NEW path \in Seq(DOMAIN GraphOf[r].nodes), path # << >>, NEW n \in 1 .. 5
  PROVE  /\ WithAbove(GraphOf[r], path, n) \in Seq(DOMAIN GraphOf[r].nodes)
         /\ WithAbove(GraphOf[r], path, n) # << >>
         /\ WithAbove(GraphOf[r], path, n)[Len(WithAbove(GraphOf[r], path, n))] = path[Len(path)]
<1> DEFINE g == GraphOf[r]
           N == DOMAIN g.nodes
           above == Incoming(g, path[1], Upwards[n])
           x == IF Upwards[n] = "built_by" THEN Preferred(g, above) ELSE FirstId(above)
<1>1. path[1] \in N
  OBVIOUS
<1>2. Upwards[n] \in Range(Upwards)
  <2>1. n \in DOMAIN Upwards
    BY DEF Upwards
  <2> HIDE DEF Upwards
  <2> QED BY <2>1 DEF Range
<1>3. above \subseteq N
  BY EndsAreThere
<1>4. ASSUME NEW ids \in SUBSET above, ids # {}
      PROVE  FirstId(ids) \in N
  <2>1. ids \in (SUBSET above) \ {{}}
    BY <1>4
  <2> QED BY <1>1, <1>2, <1>3, <2>1, FirstAssumption
<1>5. ASSUME above # {}
      PROVE  x \in N
  <2>1. FirstId(above) \in N
    BY <1>4, <1>5
  <2>2. Preferred(g, above) \in N
    <3> DEFINE evident == {id \in above : HasCasEvidence(g, id)}
    <3>1. CASE evident = {}
      <4>1. Preferred(g, above) = FirstId(above)
        BY <3>1 DEF Preferred
      <4> QED BY <2>1, <4>1
    <3>2. CASE evident # {}
      <4>1. Preferred(g, above) = FirstId(evident)
        BY <3>2 DEF Preferred
      <4>2. evident \in SUBSET above
        OBVIOUS
      <4> HIDE DEF evident, above
      <4> QED BY <1>4, <3>2, <4>1, <4>2
    <3> QED BY <3>1, <3>2
  <2> QED BY <2>1, <2>2
<1>6. WithAbove(g, path, n) = IF Len(path) < n \/ above = {} THEN path ELSE <<x>> \o path
  BY DEF WithAbove
<1> HIDE DEF g, N, above, x
<1>7. path \in Seq(N)
  BY DEF N, g
<1>8. CASE Len(path) < n \/ above = {}
  BY <1>6, <1>7, <1>8 DEF N, g
<1>9. CASE ~(Len(path) < n \/ above = {})
  <2>1. WithAbove(g, path, n) = <<x>> \o path /\ x \in N
    BY <1>5, <1>6, <1>9
  <2>2. <<x>> \o path \in Seq(N) /\ <<x>> \o path # << >> /\ Len(<<x>> \o path) = Len(path) + 1
    BY <1>7, <2>1
  <2>3. (<<x>> \o path)[Len(path) + 1] = path[Len(path)]
    <3>1. Len(path) \in Nat \ {0}
      BY <1>7
    <3> QED BY <1>7, <2>1, <3>1
  <2> QED BY <2>1, <2>2, <2>3 DEF N, g
<1> QED BY <1>8, <1>9

LEMMA PathStays ==
  ASSUME NEW r \in Result, NEW a \in DOMAIN GraphOf[r].nodes
  PROVE  /\ SourceToArtifactPath(GraphOf[r], a) \in Seq(DOMAIN GraphOf[r].nodes)
         /\ a \in Range(SourceToArtifactPath(GraphOf[r], a))
<1> DEFINE g == GraphOf[r]
           N == DOMAIN g.nodes
           Fine(path) == path \in Seq(N) /\ path # << >> /\ path[Len(path)] = a
           up1 == WithAbove(g, <<a>>, 1)
           up2 == WithAbove(g, up1, 2)
           up3 == WithAbove(g, up2, 3)
           up4 == WithAbove(g, up3, 4)
           up5 == WithAbove(g, up4, 5)
<1>1. Fine(<<a>>)
  <2>1. PICK path : path = <<a>>
    OBVIOUS
  <2>4. a \in N
    OBVIOUS
  <2> HIDE DEF N
  <2>5. path \in Seq(N)
    BY <2>1, <2>4
  <2>2. path # << >> /\ Len(path) = 1 /\ path[1] = a
    BY <2>1
  <2>3. Fine(path)
    BY <2>2, <2>5
  <2> QED BY <2>1, <2>3
<1>2. ASSUME NEW path, Fine(path), NEW n \in 1 .. 5
      PROVE  Fine(WithAbove(g, path, n))
  BY <1>2, WithAboveStays
<1> HIDE DEF Fine
<1>3. Fine(up1)
  BY <1>1, <1>2
<1>4. Fine(up2)
  <2> HIDE DEF up1
  <2> QED BY <1>2, <1>3
<1>5. Fine(up3)
  <2> HIDE DEF up2
  <2> QED BY <1>2, <1>4
<1>6. Fine(up4)
  <2> HIDE DEF up3
  <2> QED BY <1>2, <1>5
<1>7. Fine(up5)
  <2> HIDE DEF up4
  <2> QED BY <1>2, <1>6
<1>8. up5 = SourceToArtifactPath(g, a)
  BY DEF SourceToArtifactPath
<1> HIDE DEF up5
<1>9. up5 \in Seq(N) /\ a \in Range(up5)
  BY <1>7 DEF Fine, Range
<1> QED BY <1>8, <1>9

\* What is cut out of a graph around one of its nodes is cut from it.
LEMMA SubgraphIsCut ==
  ASSUME NEW g, NEW ids \in SUBSET DOMAIN g.nodes, NEW focus \in ids
  PROVE  CutFrom(g, Slice(Subgraph(g, ids), focus)) /\ Slice(Subgraph(g, ids), focus).focus = focus
  BY DEF CutFrom, Slice, Subgraph

LEMMA TrustPathIsCut ==
  ASSUME NEW r \in Result, NEW a \in DOMAIN GraphOf[r].nodes
  PROVE  CutFrom(GraphOf[r], TrustPathSlice(GraphOf[r], a))
<1> DEFINE g == GraphOf[r]
           N == DOMAIN g.nodes
           path == SourceToArtifactPath(g, a)
<1>1. path \in Seq(N) /\ a \in Range(path)
  BY PathStays
<1>2. Range(path) \subseteq N
  BY <1>1 DEF Range
<1>3. \A task : AroundTask(g, task) \subseteq N
  <2> TAKE task
  <2>1. \A id, relation : Outgoing(g, id, relation) \subseteq N /\ Incoming(g, id, relation) \subseteq N
    BY EndsAreThere
  <2> DEFINE srpms == {id \in Outgoing(g, task, "produces") : Kind(id) = "srpm"}
  <2>2. AroundTask(g, task) = Incoming(g, task, "derived_from") \cup Outgoing(g, task, "built_in") \cup srpms
                               \cup UNION {Outgoing(g, s, "authenticated_by") : s \in srpms}
    BY DEF AroundTask
  <2>3. srpms \subseteq N
    BY <2>1
  <2>4. UNION {Outgoing(g, s, "authenticated_by") : s \in srpms} \subseteq N
    BY <2>1
  <2> HIDE DEF srpms, N
  <2> QED BY <2>1, <2>2, <2>3, <2>4
<1>4. Evidence(g, a) \subseteq N
  BY EndsAreThere DEF Evidence
<1> DEFINE cves == UNION {Outgoing(g, e, "fixes") : e \in {f \in Evidence(g, a) : Kind(f) = "errata"}}
<1>5. FocusedIds(g, a) = AroundPath(g, path) \cup Evidence(g, a) \cup cves
  BY DEF FocusedIds
<1>8. cves \subseteq N
  BY EndsAreThere
<1> HIDE DEF path, N, cves
<1>6. AroundPath(g, path) \subseteq N /\ a \in AroundPath(g, path)
  BY <1>1, <1>2, <1>3 DEF AroundPath
<1>7. FocusedIds(g, a) \in SUBSET N /\ a \in FocusedIds(g, a)
  BY <1>4, <1>5, <1>6, <1>8
<1> QED BY <1>7, SubgraphIsCut DEF N, TrustPathSlice, FocusedTrustGraph

LEMMA OthersAreCut ==
  ASSUME NEW r \in Result, NEW a \in DOMAIN GraphOf[r].nodes
  PROVE  /\ CutFrom(GraphOf[r], DependencyEvidence(GraphOf[r], a))
         /\ CutFrom(GraphOf[r], SecurityContext(GraphOf[r], a))
         /\ CutFrom(GraphOf[r], NodeNeighborhood(GraphOf[r], a))
<1> DEFINE g == GraphOf[r]
           N == DOMAIN g.nodes
<1>1. CutFrom(g, DependencyEvidence(g, a))
  <2> DEFINE about(kind) == {id \in IdsOf(g, kind) : g.nodes[id].subject = a}
             specs == UNION {Incoming(g, claim, "observed_as") : claim \in about("claim")}
             ids == {a} \cup about("claim") \cup about("resolution") \cup specs
  <2>1. about("claim") \subseteq N /\ about("resolution") \subseteq N
    BY DEF IdsOf
  <2>2. specs \subseteq N
    BY EndsAreThere
  <2>3. DependencyEvidence(g, a) = Slice(Subgraph(g, ids), a)
    BY DEF DependencyEvidence
  <2>4. ids \in SUBSET N /\ a \in ids
    <3> HIDE DEF about, specs
    <3> QED BY <2>1, <2>2
  <2> HIDE DEF ids
  <2> QED BY <2>3, <2>4, SubgraphIsCut
<1>2. CutFrom(g, SecurityContext(g, a))
  <2> DEFINE frontier == UNION {Outgoing(g, a, q) : q \in {"described_by", "fixes", "affected_by", "authenticated_by"}}
             cves == UNION {Outgoing(g, id, "fixes") : id \in {f \in frontier : Kind(f) = "errata"}}
             ids == {a} \cup frontier \cup cves
  <2>4. \A id, relation : Outgoing(g, id, relation) \subseteq N
    BY EndsAreThere
  <2>1. frontier \subseteq N /\ cves \subseteq N
    <3> HIDE DEF N
    <3>1. frontier \subseteq N
      BY <2>4
    <3> HIDE DEF frontier
    <3>2. cves \subseteq N
      BY <2>4
    <3> QED BY <3>1, <3>2
  <2>2. SecurityContext(g, a) = Slice(Subgraph(g, ids), a)
    BY DEF SecurityContext
  <2>3. ids \in SUBSET N /\ a \in ids
    <3> HIDE DEF frontier, cves
    <3> QED BY <2>1
  <2> HIDE DEF ids
  <2> QED BY <2>2, <2>3, SubgraphIsCut
<1>3. CutFrom(g, NodeNeighborhood(g, a))
  <2> DEFINE around == {e[1] : e \in {f \in g.edges : f[2] = a}} \cup {e[2] : e \in {f \in g.edges : f[1] = a}}
             ids == {a} \cup around
  <2>1. around \subseteq N
    BY GraphsAssumption
  <2>2. NodeNeighborhood(g, a) = Slice(Subgraph(g, ids), a)
    BY DEF NodeNeighborhood
  <2>3. ids \in SUBSET N /\ a \in ids
    <3> HIDE DEF around
    <3> QED BY <2>1
  <2> HIDE DEF ids
  <2> QED BY <2>2, <2>3, SubgraphIsCut
<1> QED BY <1>1, <1>2, <1>3

\* Layers that are switched off take nothing in, and leave the focus.
LEMMA FilteredIsCut ==
  ASSUME NEW g, NEW s, CutFrom(g, s), NEW enabled
  PROVE  CutFrom(g, FilterGraphLayers(s, enabled))
<1> DEFINE kinds == UNION {Layers[l].kinds : l \in enabled}
           relations == UNION {Layers[l].relations : l \in enabled}
           kept == {id \in DOMAIN s.nodes : Kind(id) \in kinds} \cup ({s.focus} \cap DOMAIN s.nodes)
           sub == Subgraph(s, kept)
<1>1. FilterGraphLayers(s, enabled) = [nodes |-> sub.nodes, focus |-> s.focus, edges |-> {e \in sub.edges : e[3] \in relations}]
  BY DEF FilterGraphLayers
<1>2. kept \subseteq DOMAIN s.nodes /\ s.focus \in kept
  BY DEF CutFrom
<1>3. sub.nodes = [id \in kept |-> s.nodes[id]] /\ sub.edges \subseteq s.edges
  BY DEF Subgraph
<1> HIDE DEF kept, sub, relations
<1>4. sub.nodes = [id \in kept |-> g.nodes[id]]
  BY <1>2, <1>3 DEF CutFrom
<1> QED BY <1>1, <1>2, <1>3, <1>4 DEF CutFrom

\* What is cut from a result is a slice.
LEMMA CutsAreSlices ==
  ASSUME NEW r \in Result, NEW s, CutFrom(GraphOf[r], s)
  PROVE  s \in Slices /\ s # None /\ s.focus \in DOMAIN s.nodes /\ DOMAIN s.nodes \subseteq NodeIds /\ s.edges \subseteq EdgeIds
<1>1. DOMAIN s.nodes \in SUBSET DOMAIN GraphOf[r].nodes /\ s.nodes = [id \in DOMAIN s.nodes |-> GraphOf[r].nodes[id]]
  BY DEF CutFrom
<1>2. s.nodes \in {[id \in ids |-> GraphOf[r].nodes[id]] : ids \in SUBSET DOMAIN GraphOf[r].nodes}
  BY <1>1
<1>3. s.nodes \in Parts
  BY <1>2 DEF Parts
<1>4. s.edges \in SUBSET EdgeIds /\ s.focus \in NodeIds /\ DOMAIN s.nodes \subseteq NodeIds
  BY <1>1 DEF CutFrom, EdgeIds, NodeIds
<1>5. s \in Slices
  BY <1>3, <1>4 DEF CutFrom, Slices
<1> QED BY <1>1, <1>4, <1>5, NoneAssumption DEF CutFrom

\* The slice of each mode is cut from the result.
LEMMA CurrentIsCut ==
  ASSUME NEW v, v.result \in Result, v.artifact \in DOMAIN GraphOf[v.result].nodes, v.mode \in Modes
  PROVE  CutFrom(GraphOf[v.result], CurrentSlice(v))
<1> DEFINE g == GraphOf[v.result]
           focus == IF v.node # None /\ InResult(v, v.node) THEN v.node ELSE v.artifact
           whole == CASE v.mode = "Trust Path"          -> TrustPathSlice(g, v.artifact)
                      [] v.mode = "Dependency Evidence" -> DependencyEvidence(g, v.artifact)
                      [] v.mode = "Security Context"    -> SecurityContext(g, v.artifact)
                      [] v.mode = "Node Neighborhood"   -> NodeNeighborhood(g, focus)
<1>1. focus \in DOMAIN g.nodes
  BY DEF InResult
<1>2. CutFrom(g, TrustPathSlice(g, v.artifact))
  BY TrustPathIsCut
<1>3. CutFrom(g, DependencyEvidence(g, v.artifact)) /\ CutFrom(g, SecurityContext(g, v.artifact))
  BY OthersAreCut
<1> HIDE DEF focus
<1>4. CutFrom(g, NodeNeighborhood(g, focus))
  BY <1>1, OthersAreCut
<1>5. CutFrom(g, whole)
  <2> HIDE DEF g
  <2> QED BY <1>2, <1>3, <1>4 DEF Modes
<1>6. CurrentSlice(v) = FilterGraphLayers(whole, v.layers)
  BY DEF CurrentSlice, focus
<1> HIDE DEF whole, g
<1>7. CutFrom(g, FilterGraphLayers(whole, v.layers))
  BY <1>5, FilteredIsCut
<1> QED BY <1>6, <1>7 DEF g

----------------------------------------------------------------------------
(* The tabs *)

Paths == (UNION {FilesOf[c] : c \in NodeIds}) \cup {None}
Asks == [tab : TabNames, of : Subjects, path : Paths]

Words == {"select", "click", "fetching", "fetching diff", "shows", "of"}
Tab == [of : Subjects \cup {None}, on : BOOLEAN, header : Words \X (Subjects \cup {None}),
        body : Subjects \cup {None, Error}, files : Subjects \cup {None},
        diff : [of : Subjects, path : Paths] \cup {None}]

\* A tab that may be asked is about something, and a late answer carries its name.
TabOK(t, tab) ==
  /\ tab \in Tab
  /\ tab.on => Enabled(tab)
  /\ tab.header[1] = "fetching" => tab.of # None
  /\ t # "git" /\ tab.body \notin {None, Error} => tab.header \in {<<"shows", tab.body>>, <<"fetching", tab.of>>}

\* What a user sees who waits for each answer.
Waited(t, tab) ==
  /\ tab.of = None \/ tab.body \in {None, Error, tab.of}
  /\ t = "git" => /\ tab.files \in {None, tab.of}
                  /\ tab.diff # None => tab.diff.path \in FilesOf[tab.diff.of.id]

\* What a tab turns into is a tab, and tells a patient user no more than it should.
Turns(t, tab, new) == TabOK(t, new) /\ (Waited(t, tab) => Waited(t, new))

LEMMA EmptyIsTab ==
  /\ EmptyTab \in Tab /\ EmptyTab.of = None /\ EmptyTab.on = FALSE /\ EmptyTab.header = <<"select", None>>
  /\ EmptyTab.body = None /\ EmptyTab.files = None /\ EmptyTab.diff = None
  BY DEF EmptyTab, Tab, Words

LEMMA SetTabTurns ==
  ASSUME auto \in BOOLEAN, NEW t \in TabNames, NEW tab, TabOK(t, tab), NEW x \in Subjects \cup {None}
  PROVE  Turns(t, tab, SetTab(tab, x, auto)) /\ SetTab(tab, x, auto).of = x
<1> DEFINE known == x # None /\ x.known
           header == IF x = None THEN <<"select", None>> ELSE <<IF known /\ auto THEN "fetching" ELSE "click", x>>
           new == SetTab(tab, x, auto)
<1>2. known \in BOOLEAN /\ (known => x # None)
  BY DEF Subjects
<1>3. header \in Words \X (Subjects \cup {None}) /\ (header[1] = "fetching" => x # None)
  BY DEF Words
<1>4. tab.diff \in [of : Subjects, path : Paths] \cup {None}
  BY DEF TabOK, Tab
<1>1. new = [of |-> x, on |-> known /\ ~auto, header |-> header, body |-> None, files |-> None, diff |-> tab.diff]
  <2>1. new = [EmptyTab EXCEPT !.of = x, !.on = known /\ ~auto, !.diff = tab.diff, !.header = header]
    BY DEF SetTab
  <2>2. PICK on \in BOOLEAN : on = (known /\ ~auto)
    BY <1>2
  <2> HIDE DEF new, known, header
  <2>3. new = [EmptyTab EXCEPT !.of = x, !.on = on, !.diff = tab.diff, !.header = header]
    BY <2>1, <2>2
  <2>4. new = [of |-> x, on |-> on, header |-> header, body |-> None, files |-> None, diff |-> tab.diff]
    <3>1. PICK f : f = new
      OBVIOUS
    <3>2. PICK e \in Tab : e = EmptyTab
      BY EmptyIsTab
    <3>3. f = [e EXCEPT !.of = x, !.on = on, !.diff = tab.diff, !.header = header]
      BY <2>3, <3>1, <3>2
    <3>4. e.body = None /\ e.files = None
      BY <3>2, EmptyIsTab
    <3>5. f = [of |-> x, on |-> on, header |-> header, body |-> None, files |-> None, diff |-> tab.diff]
      BY <1>3, <1>4, <2>2, <3>2, <3>3, <3>4 DEF Tab
    <3> QED BY <3>1, <3>5
  <2> QED BY <2>2, <2>4
<1>5. new.on => Enabled(new)
  <2> HIDE DEF new, header
  <2>1. new.on = (known /\ ~auto) /\ new.of = x
    BY <1>1
  <2> QED BY <2>1 DEF Enabled
<1> HIDE DEF header, new, known
<1>6. new \in Tab
  BY <1>1, <1>2, <1>3, <1>4 DEF Tab
<1>7. TabOK(t, new)
  BY <1>1, <1>3, <1>5, <1>6 DEF TabOK
<1>8. Waited(t, tab) => Waited(t, new)
  BY <1>1 DEF Waited
<1> QED BY <1>1, <1>7, <1>8 DEF Turns, new

LEMMA ShowErrataTurns ==
  ASSUME NEW tab, NEW x \in Subjects
  PROVE  Turns("cve", tab, ShowErrata(x)) /\ ShowErrata(x).of = None
<1>1. ShowErrata(x) = [of |-> None, on |-> FALSE, header |-> <<"shows", x>>, body |-> x, files |-> None, diff |-> None]
  <2>1. PICK header \in Words \X (Subjects \cup {None}) : header = <<"shows", x>>
    BY DEF Words
  <2>2. ShowErrata(x) = [EmptyTab EXCEPT !.header = header, !.body = x]
    BY <2>1 DEF ShowErrata
  <2>3. PICK f : f = ShowErrata(x)
    OBVIOUS
  <2>4. PICK e \in Tab : e = EmptyTab
    BY EmptyIsTab
  <2>5. f = [e EXCEPT !.header = header, !.body = x]
    BY <2>2, <2>3, <2>4
  <2>6. e.of = None /\ e.on = FALSE /\ e.files = None /\ e.diff = None
    BY <2>4, EmptyIsTab
  <2>7. f = [of |-> None, on |-> FALSE, header |-> header, body |-> x, files |-> None, diff |-> None]
    BY <2>1, <2>4, <2>5, <2>6 DEF Tab
  <2> QED BY <2>1, <2>3, <2>7
<1>2. ShowErrata(x) \in Tab
  <2>1. <<"shows", x>> \in Words \X (Subjects \cup {None})
    BY DEF Words
  <2> QED BY <1>1, <2>1 DEF Tab
<1> QED BY <1>1, <1>2 DEF Turns, TabOK, Waited

LEMMA AskingTurns ==
  ASSUME NEW t \in TabNames, NEW tab, TabOK(t, tab), tab.of # None
  PROVE  Turns(t, tab, Asking(tab)) /\ Asking(tab).of = tab.of
<1>1. Asking(tab) = [tab EXCEPT !.on = FALSE, !.header = <<"fetching", tab.of>>] /\ tab \in Tab
  BY DEF Asking, TabOK
<1>2. Asking(tab) = [of |-> tab.of, on |-> FALSE, header |-> <<"fetching", tab.of>>, body |-> tab.body,
                     files |-> tab.files, diff |-> tab.diff]
  BY <1>1 DEF Tab
<1>3. Asking(tab) \in Tab
  <2>1. <<"fetching", tab.of>> \in Words \X (Subjects \cup {None})
    BY <1>1 DEF Tab, Words
  <2> QED BY <1>1, <1>2, <2>1 DEF Tab
<1> QED BY <1>2, <1>3 DEF Turns, TabOK, Waited

\* An answer leaves what its tab is about.
LEMMA AnsweredTurns ==
  ASSUME NEW t \in TabNames, NEW tab, TabOK(t, tab), NEW request \in Asks, request.tab = t,
         request.path # None => t = "git", NEW outcome
  PROVE  /\ TabOK(t, Answered(tab, request, outcome)) /\ Answered(tab, request, outcome).of = tab.of
         /\ /\ Waited(t, tab) /\ request.of = tab.of
            /\ request.path # None => request.path \in FilesOf[request.of.id]
            => Waited(t, Answered(tab, request, outcome))
<1> DEFINE new == Answered(tab, request, outcome)
           enabled == tab.of # None /\ tab.of.known
<1>0. tab \in Tab /\ enabled \in BOOLEAN /\ request.of \in Subjects /\ request.path \in Paths
  BY DEF TabOK, Tab, Subjects, Asks
<1> DEFINE Is(on, header, body, files, diff) ==
             new = [of |-> tab.of, on |-> on, header |-> header, body |-> body, files |-> files, diff |-> diff]
<1>1. CASE outcome = "failed"
  <2> DEFINE header == IF t = "git" THEN <<"of", tab.of>> ELSE tab.header
  <2>1. Is(enabled, header, Error, tab.files, tab.diff)
    BY <1>0, <1>1 DEF Answered, ShowMessage, Enabled, Tab
  <2>2. header \in Words \X (Subjects \cup {None}) /\ (header[1] = "fetching" => tab.of # None)
    BY <1>0 DEF Tab, Words, TabOK
  <2> HIDE DEF header, enabled, new
  <2>3. new \in Tab
    BY <1>0, <2>1, <2>2 DEF Tab
  <2>4. TabOK(t, new)
    BY <2>1, <2>2, <2>3 DEF TabOK, Enabled, enabled
  <2>5. Waited(t, tab) => Waited(t, new)
    BY <2>1 DEF Waited
  <2> QED BY <2>1, <2>4, <2>5 DEF new
<1>2. CASE outcome # "failed" /\ request.path # None
  <2>1. Is(enabled, <<"of", tab.of>>, tab.body, tab.files, [of |-> request.of, path |-> request.path])
    BY <1>0, <1>2 DEF Answered, ShowDiff, Enabled, Tab
  <2> HIDE DEF enabled, new
  <2>2. new \in Tab
    BY <1>0, <2>1 DEF Tab, Words
  <2>3. TabOK(t, new)
    BY <1>2, <2>1, <2>2 DEF TabOK, Enabled, enabled
  <2>4. Waited(t, tab) /\ request.path \in FilesOf[request.of.id] => Waited(t, new)
    BY <2>1 DEF Waited
  <2> QED BY <1>2, <2>1, <2>3, <2>4 DEF new
<1>3. CASE outcome # "failed" /\ request.path = None
  <2> DEFINE files == IF request.tab = "git" THEN request.of ELSE None
  <2>1. Is(enabled, <<"shows", request.of>>, request.of, files, tab.diff)
    BY <1>0, <1>3 DEF Answered, ShowAnswer, Enabled, Tab
  <2>2. files \in Subjects \cup {None} /\ files \in {None, request.of}
    BY <1>0
  <2> HIDE DEF enabled, new, files
  <2>3. new \in Tab
    BY <1>0, <2>1, <2>2 DEF Tab, Words
  <2>4. TabOK(t, new)
    BY <2>1, <2>3 DEF TabOK, Enabled, enabled
  <2>5. Waited(t, tab) /\ request.of = tab.of => Waited(t, new)
    BY <2>1, <2>2 DEF Waited
  <2> QED BY <2>1, <2>4, <2>5 DEF new
<1> QED BY <1>1, <1>2, <1>3

----------------------------------------------------------------------------
(* The views *)

PlainRequests == [tab : TabNames, of : Subjects, path : {None}]

Views == [result : Result \cup {None}, artifact : NodeIds \cup {None}, mode : Modes,
          layers : SUBSET DOMAIN Layers, slice : Slices \cup {None}, node : NodeIds \cup {None},
          edge : EdgeIds \cup {None}, tabs : [TabNames -> Tab], asked : Seq(PlainRequests)]

TabsOK(shown, waited) ==
  /\ shown \in [TabNames -> Tab]
  /\ \A t \in TabNames : TabOK(t, shown[t])
  /\ waited => \A t \in TabNames : Waited(t, shown[t])

\* A view on the way: the current artifact is one of the list.
Typed(v, waited) ==
  /\ v \in Views
  /\ TabsOK(v.tabs, waited)
  /\ v.artifact # None => v.result # None /\ v.artifact \in ItemsOf(v.result)

About(v) == \A t \in TabNames : v.tabs[t].of = None \/ v.tabs[t].of.id = v.node \/ (t = "package" /\ v.edge # None)

\* What is drawn of a result with artifacts: also what a session restores.
Cut(v) ==
  /\ v.artifact # None
  /\ CutFrom(GraphOf[v.result], v.slice)
  /\ v.mode # "Node Neighborhood" => v.slice = CurrentSlice(v)
  /\ v.edge # None => v.node = None /\ v.edge \in v.slice.edges
  /\ v.edge = None => v.node \in DOMAIN v.slice.nodes

HasItems(v) == v.result # None /\ ItemsOf(v.result) # {}

Settled(v, waited) == Typed(v, waited) /\ (HasItems(v) => Cut(v) /\ About(v))

\* What tabs that are set to a node are about.
LEMMA TabsAreFor ==
  ASSUME auto \in BOOLEAN, NEW waited \in BOOLEAN, NEW v, Typed(v, waited), NEW id \in NodeIds
  PROVE  TabsOK(TabsFor(v, id), waited) /\ \A t \in TabNames : TabsFor(v, id)[t].of = None \/ TabsFor(v, id)[t].of.id = id
<1> DEFINE Fine(t, new) == TabOK(t, new) /\ (waited => Waited(t, new)) /\ (new.of = None \/ new.of.id = id)
<1>1. ASSUME NEW t \in TabNames
      PROVE  TabOK(t, v.tabs[t]) /\ (waited => Waited(t, v.tabs[t]))
  BY DEF Typed, TabsOK
<1>2. \A known \in BOOLEAN : Subject(id, known) \in Subjects /\ Subject(id, known).id = id
  BY DEF Subject, Subjects
<1>3. ASSUME NEW t \in TabNames, NEW x \in Subjects \cup {None}, x = None \/ x.id = id
      PROVE  Fine(t, SetTab(v.tabs[t], x, auto))
  <2>1. Turns(t, v.tabs[t], SetTab(v.tabs[t], x, auto)) /\ SetTab(v.tabs[t], x, auto).of = x
    BY <1>1, SetTabTurns
  <2> QED BY <1>1, <1>3, <2>1 DEF Turns
<1>4. Fine("cve", ShowErrata(Subject(id, FALSE)))
  <2>1. "cve" \in TabNames
    BY DEF TabNames
  <2>2. PICK x \in Subjects : x = Subject(id, FALSE)
    BY <1>2
  <2>3. Turns("cve", v.tabs["cve"], ShowErrata(x)) /\ ShowErrata(x).of = None
    BY ShowErrataTurns
  <2> QED BY <1>1, <2>1, <2>2, <2>3 DEF Turns
<1> HIDE DEF Fine
<1>5. Fine("cve", CveTab(v, id))
  <2>1. "cve" \in TabNames /\ None \in Subjects \cup {None} /\ Subject(id, TRUE) \in Subjects \cup {None} /\ Subject(id, TRUE).id = id
    BY <1>2 DEF TabNames
  <2>2. Fine("cve", SetTab(v.tabs["cve"], Subject(id, TRUE), auto)) /\ Fine("cve", SetTab(v.tabs["cve"], None, auto))
    BY <1>3, <2>1
  <2> QED BY <1>4, <2>2 DEF CveTab
<1>6. Fine("package", PackageTab(v, id))
  <2> DEFINE x == IF Kind(id) \in {"rpm", "srpm", "source"} /\ InResult(v, id) THEN Subject(id, TRUE) ELSE None
  <2>1. "package" \in TabNames /\ x \in Subjects \cup {None} /\ (x = None \/ x.id = id)
    BY <1>2 DEF TabNames
  <2> HIDE DEF x
  <2>2. Fine("package", SetTab(v.tabs["package"], x, auto))
    BY <1>3, <2>1
  <2> QED BY <2>2 DEF PackageTab, x
<1>7. Fine("git", GitTab(v, id))
  <2> DEFINE x == IF Kind(id) = "commit" /\ InResult(v, id) THEN Subject(id, id \in Queryable) ELSE None
  <2>1. (id \in Queryable) \in BOOLEAN
    OBVIOUS
  <2>2. "git" \in TabNames /\ x \in Subjects \cup {None} /\ (x = None \/ x.id = id)
    BY <1>2, <2>1 DEF TabNames
  <2> HIDE DEF x
  <2>3. Fine("git", SetTab(v.tabs["git"], x, auto))
    BY <1>3, <2>2
  <2> QED BY <2>3 DEF GitTab, x
<1>8. ASSUME NEW t \in TabNames
      PROVE  Fine(t, TabsFor(v, id)[t])
  BY <1>5, <1>6, <1>7 DEF TabsFor, TabNames
<1>9. TabsFor(v, id) \in [TabNames -> Tab]
  <2> DEFINE new(t) == CASE t = "cve"     -> CveTab(v, id)
                         [] t = "package" -> PackageTab(v, id)
                         [] t = "git"     -> GitTab(v, id)
  <2>1. TabsFor(v, id) = [t \in TabNames |-> new(t)]
    BY DEF TabsFor
  <2> HIDE DEF new
  <2>2. \A t \in TabNames : new(t) \in Tab
    BY <1>8, <2>1 DEF Fine, TabOK
  <2> QED BY <2>1, <2>2
<1> QED BY <1>8, <1>9 DEF Fine, TabsOK

\* Only tabs that are about something ask, and never for a file.
LEMMA RequestsArePlain ==
  ASSUME NEW shown, TabsOK(shown, FALSE)
  PROVE  Requests(shown) \in Seq(PlainRequests)
<1> DEFINE of(t) == IF shown[t].header[1] = "fetching" THEN <<Request(t, shown[t])>> ELSE << >>
<1>1. ASSUME NEW t \in TabNames
      PROVE  of(t) \in Seq(PlainRequests)
  <2>1. CASE shown[t].header[1] = "fetching"
    <3>1. shown[t].of \in Subjects
      BY <2>1 DEF TabsOK, TabOK, Tab
    <3>2. PICK r \in PlainRequests : r = Request(t, shown[t])
      BY <3>1 DEF Request, PlainRequests
    <3>3. of(t) = <<r>>
      BY <2>1, <3>2
    <3> HIDE DEF of
    <3> QED BY <3>3
  <2>2. CASE shown[t].header[1] # "fetching"
    BY <2>2
  <2> QED BY <2>1, <2>2
<1>2. Requests(shown) = of("cve") \o of("package") \o of("git")
  BY DEF Requests
<1>3. of("cve") \in Seq(PlainRequests) /\ of("package") \in Seq(PlainRequests) /\ of("git") \in Seq(PlainRequests)
  BY <1>1 DEF TabNames
<1> HIDE DEF of
<1> QED BY <1>2, <1>3

\* A node of the slice is selected, and the tabs are about it.
LEMMA ShowNodeIs ==
  ASSUME auto \in BOOLEAN, NEW waited \in BOOLEAN, NEW v, Typed(v, waited), NEW id, InSlice(v, id)
  PROVE  LET w == ShowNode(v, id)
         IN  /\ Typed(w, waited) /\ About(w)
             /\ w.result = v.result /\ w.artifact = v.artifact /\ w.mode = v.mode /\ w.layers = v.layers
             /\ w.slice = v.slice /\ w.node = id /\ w.edge = None
<1>1. id \in NodeIds
  <2>1. v.slice \in Slices /\ id \in DOMAIN v.slice.nodes
    BY DEF Typed, Views, InSlice
  <2>2. PICK r \in Result : v.slice.nodes \in {[i \in ids |-> GraphOf[r].nodes[i]] : ids \in SUBSET DOMAIN GraphOf[r].nodes}
    BY <2>1 DEF Slices, Parts
  <2>3. id \in DOMAIN GraphOf[r].nodes
    BY <2>1, <2>2
  <2> QED BY <2>3 DEF NodeIds
<1> DEFINE shown == TabsFor(v, id)
           asked == v.asked \o Requests(shown)
<1>2. TabsOK(shown, waited) /\ \A t \in TabNames : shown[t].of = None \/ shown[t].of.id = id
  BY <1>1, TabsAreFor
<1>3. asked \in Seq(PlainRequests)
  <2>1. Requests(shown) \in Seq(PlainRequests)
    <3> HIDE DEF shown
    <3> QED BY <1>2, RequestsArePlain DEF TabsOK
  <2>2. v.asked \in Seq(PlainRequests)
    BY DEF Typed, Views
  <2> HIDE DEF shown
  <2> QED BY <2>1, <2>2
<1>4. PICK w : w = ShowNode(v, id)
  OBVIOUS
<1>5. w = [v EXCEPT !.tabs = shown, !.asked = asked, !.edge = None, !.node = id]
  <2>1. w = [WithTabs(v, shown) EXCEPT !.node = id]
    BY <1>4 DEF ShowNode
  <2>2. WithTabs(v, shown) = [v EXCEPT !.tabs = shown, !.asked = asked, !.edge = None]
    BY DEF WithTabs
  <2> HIDE DEF shown, asked
  <2> QED BY <2>1, <2>2
<1> HIDE DEF shown, asked
<1>6. v \in Views /\ shown \in [TabNames -> Tab] /\ None \in EdgeIds \cup {None} /\ id \in NodeIds \cup {None}
  BY <1>1, <1>2 DEF Typed, TabsOK
<1>7. w = [result |-> v.result, artifact |-> v.artifact, mode |-> v.mode, layers |-> v.layers, slice |-> v.slice,
           node |-> id, edge |-> None, tabs |-> shown, asked |-> asked]
  BY <1>3, <1>5, <1>6 DEF Views
<1>8. w \in Views
  BY <1>3, <1>6, <1>7 DEF Views
<1>9. Typed(w, waited)
  BY <1>2, <1>7, <1>8 DEF Typed
<1>10. About(w)
  BY <1>2, <1>7 DEF About
<1> QED BY <1>4, <1>7, <1>9, <1>10

\* An edge has no CVE and no commit.
LEMMA ShowEdgeIs ==
  ASSUME auto \in BOOLEAN, NEW waited \in BOOLEAN, NEW v, Typed(v, waited), NEW e, NEW fromSlice \in BOOLEAN,
         fromSlice => v.slice # None /\ e \in v.slice.edges
  PROVE  LET w == ShowEdge(v, e, fromSlice)
         IN  /\ Typed(w, waited)
             /\ w.result = v.result /\ w.artifact = v.artifact /\ w.mode = v.mode /\ w.layers = v.layers
             /\ w.slice = v.slice
             /\ fromSlice => w.node = None /\ w.edge = e
             /\ ~fromSlice => w.node = v.node /\ w.edge = v.edge
             /\ w.tabs["cve"].of = None /\ w.tabs["git"].of = None /\ w.tabs["package"] = v.tabs["package"]
<1>1. PICK cve : cve = SetTab(v.tabs["cve"], None, auto)
  OBVIOUS
<1>2. PICK git : git = SetTab(v.tabs["git"], None, auto)
  OBVIOUS
<1> DEFINE shown == [[v.tabs EXCEPT !["cve"] = cve] EXCEPT !["git"] = git]
<1>3. v \in Views /\ v.tabs \in [TabNames -> Tab] /\ \A t \in TabNames : TabOK(t, v.tabs[t]) /\ (waited => Waited(t, v.tabs[t]))
  BY DEF Typed, TabsOK
<1>4. {"cve", "git", "package"} = TabNames
  BY DEF TabNames
<1>5. Turns("cve", v.tabs["cve"], cve) /\ cve.of = None /\ Turns("git", v.tabs["git"], git) /\ git.of = None
  <2>1. None \in Subjects \cup {None} /\ "cve" \in TabNames /\ "git" \in TabNames
    BY DEF TabNames
  <2> QED BY <1>1, <1>2, <1>3, <2>1, SetTabTurns
<1>6. shown["cve"] = cve /\ shown["git"] = git /\ shown["package"] = v.tabs["package"] /\ DOMAIN shown = TabNames
  BY <1>3, <1>4
<1>7. cve \in Tab /\ git \in Tab
  BY <1>5 DEF Turns, TabOK
<1>8. shown \in [TabNames -> Tab]
  BY <1>3, <1>7
<1>9. TabsOK(shown, waited)
  <2> HIDE DEF shown
  <2> SUFFICES ASSUME NEW t \in TabNames PROVE TabOK(t, shown[t]) /\ (waited => Waited(t, shown[t]))
    BY <1>8 DEF TabsOK
  <2>1. CASE t = "cve"
    BY <1>3, <1>5, <1>6, <2>1 DEF Turns
  <2>2. CASE t = "git"
    BY <1>3, <1>5, <1>6, <2>2 DEF Turns
  <2>3. CASE t = "package"
    BY <1>3, <1>6, <2>3
  <2> QED BY <1>4, <2>1, <2>2, <2>3
<1>10. PICK w : w = ShowEdge(v, e, fromSlice)
  OBVIOUS
<1>11. PICK u : u = [v EXCEPT !.tabs["cve"] = SetTab(@, None, auto), !.tabs["git"] = SetTab(@, None, auto)]
  OBVIOUS
<1>12. u = [v EXCEPT !.tabs = shown]
  BY <1>1, <1>2, <1>3, <1>4, <1>11 DEF Views
<1>13. w = IF fromSlice THEN [u EXCEPT !.edge = e, !.node = None] ELSE u
  BY <1>10, <1>11 DEF ShowEdge
<1> HIDE DEF shown
<1>14. u = [result |-> v.result, artifact |-> v.artifact, mode |-> v.mode, layers |-> v.layers, slice |-> v.slice,
            node |-> v.node, edge |-> v.edge, tabs |-> shown, asked |-> v.asked]
  BY <1>3, <1>8, <1>12 DEF Views
<1>15. u \in Views
  BY <1>3, <1>8, <1>14 DEF Views
<1>16. fromSlice => e \in EdgeIds \cup {None}
  BY <1>3 DEF Views, Slices
<1>17. fromSlice => w = [result |-> u.result, artifact |-> u.artifact, mode |-> u.mode, layers |-> u.layers,
                         slice |-> u.slice, node |-> None, edge |-> e, tabs |-> u.tabs, asked |-> u.asked]
  BY <1>13, <1>15, <1>16 DEF Views
<1>18. w \in Views
  BY <1>13, <1>15, <1>16, <1>17 DEF Views
<1>19. w.result = v.result /\ w.artifact = v.artifact /\ w.tabs = shown
  BY <1>13, <1>14, <1>17
<1>20. Typed(w, waited)
  BY <1>9, <1>18, <1>19 DEF Typed
<1> QED BY <1>5, <1>6, <1>10, <1>13, <1>14, <1>17, <1>20

\* But for a neighborhood, what is drawn does not depend on what is selected.
LEMMA SameCut ==
  ASSUME NEW v, NEW w, w.result = v.result, w.artifact = v.artifact, w.mode = v.mode, w.layers = v.layers,
         v.mode \in Modes \ {"Node Neighborhood"}
  PROVE  CurrentSlice(w) = CurrentSlice(v)
<1> DEFINE g == GraphOf[v.result]
           whole == CASE v.mode = "Trust Path"          -> TrustPathSlice(g, v.artifact)
                      [] v.mode = "Dependency Evidence" -> DependencyEvidence(g, v.artifact)
                      [] v.mode = "Security Context"    -> SecurityContext(g, v.artifact)
<1>1. CurrentSlice(v) = FilterGraphLayers(whole, v.layers)
  BY DEF CurrentSlice, Modes
<1>2. CurrentSlice(w) = FilterGraphLayers(whole, v.layers)
  BY DEF CurrentSlice, Modes
<1> QED BY <1>1, <1>2

\* What is drawn is a slice of the result, and selects its focus.
LEMMA RenderSettles ==
  ASSUME auto \in BOOLEAN, NEW waited \in BOOLEAN, NEW v, Typed(v, waited), HasItems(v) => v.artifact # None
  PROVE  LET w == Render(v)
         IN  /\ Settled(w, waited)
             /\ w.result = v.result /\ w.artifact = v.artifact /\ w.mode = v.mode /\ w.layers = v.layers
             /\ v.artifact = None => w = v
             /\ v.artifact # None => w.edge = None
<1>1. CASE v.artifact = None
  <2>1. Render(v) = v
    BY <1>1 DEF Render
  <2>2. ~HasItems(v)
    BY <1>1
  <2> QED BY <1>1, <2>1, <2>2 DEF Settled
<1>2. CASE v.artifact # None
  <2> DEFINE cut == CurrentSlice(v)
  <2>1. v.result \in Result /\ v.result # None /\ v.artifact \in DOMAIN GraphOf[v.result].nodes /\ v.mode \in Modes /\ v \in Views
    BY <1>2 DEF Typed, Views, ItemsOf
  <2>2. CutFrom(GraphOf[v.result], cut)
    BY <2>1, CurrentIsCut
  <2> HIDE DEF cut
  <2>3. cut \in Slices /\ cut # None /\ cut.focus \in DOMAIN cut.nodes /\ cut.focus \in NodeIds
    BY <2>1, <2>2, CutsAreSlices
  <2>4. PICK u : u = [v EXCEPT !.slice = cut, !.node = cut.focus, !.edge = None]
    OBVIOUS
  <2>5. u = [result |-> v.result, artifact |-> v.artifact, mode |-> v.mode, layers |-> v.layers, slice |-> cut,
             node |-> cut.focus, edge |-> None, tabs |-> v.tabs, asked |-> v.asked]
    BY <2>1, <2>3, <2>4 DEF Views
  <2>6. u \in Views
    BY <2>1, <2>3, <2>5 DEF Views
  <2>7. Typed(u, waited) /\ InSlice(u, cut.focus)
    BY <2>3, <2>5, <2>6 DEF Typed, InSlice
  <2>8. PICK w : w = ShowNode(u, cut.focus)
    OBVIOUS
  <2>9. Render(v) = w
    BY <1>2, <2>1, <2>4, <2>8 DEF Render, Drawn, cut
  <2>10. /\ Typed(w, waited) /\ About(w)
         /\ w.result = u.result /\ w.artifact = u.artifact /\ w.mode = u.mode /\ w.layers = u.layers
         /\ w.slice = u.slice /\ w.node = cut.focus /\ w.edge = None
    BY <2>7, <2>8, ShowNodeIs
  <2>11. w.result = v.result /\ w.artifact = v.artifact /\ w.mode = v.mode /\ w.layers = v.layers /\ w.slice = cut
    BY <2>5, <2>10
  <2>12. w.mode # "Node Neighborhood" => cut = CurrentSlice(w)
    BY <2>1, <2>11, SameCut DEF cut
  <2>13. Cut(w)
    BY <1>2, <2>2, <2>3, <2>10, <2>11, <2>12 DEF Cut
  <2> QED BY <1>2, <2>9, <2>10, <2>11, <2>13 DEF Settled
<1> QED BY <1>1, <1>2

\* Turning to another mode or artifact draws what is selected then.
LEMMA SelectSettles ==
  ASSUME auto \in BOOLEAN, NEW waited \in BOOLEAN, NEW v, Typed(v, waited), v.result # None, NEW a \in ItemsOf(v.result)
  PROVE  LET w == SelectArtifact(v, a)
         IN  /\ Settled(w, waited)
             /\ w.result = v.result /\ w.artifact = a /\ w.mode = v.mode /\ w.layers = v.layers /\ w.edge = None
<1>1. v \in Views /\ v.result \in Result /\ a \in NodeIds
  BY DEF Typed, Views, ItemsOf, NodeIds
<1>2. a # None
  BY <1>1, NoneAssumption
<1>3. PICK u : u = Selecting(v, a)
  OBVIOUS
<1>4. Typed(u, waited) /\ u.artifact = a /\ u.result = v.result /\ u.mode = v.mode /\ u.layers = v.layers
  <2>1. CASE v.artifact = a
    <3>1. u = v
      BY <1>3, <2>1 DEF Selecting
    <3> QED BY <2>1, <3>1
  <2>2. CASE v.artifact # a
    <3>1. u = [v EXCEPT !.artifact = a, !.node = a]
      BY <1>3, <2>2 DEF Selecting
    <3>2. u = [result |-> v.result, artifact |-> a, mode |-> v.mode, layers |-> v.layers, slice |-> v.slice,
               node |-> a, edge |-> v.edge, tabs |-> v.tabs, asked |-> v.asked]
      BY <1>1, <3>1 DEF Views
    <3>3. u \in Views
      BY <1>1, <3>2 DEF Views
    <3> QED BY <3>2, <3>3 DEF Typed
  <2> QED BY <2>1, <2>2
<1>5. PICK w : w = Render(u)
  OBVIOUS
<1>6. /\ Settled(w, waited)
      /\ w.result = u.result /\ w.artifact = u.artifact /\ w.mode = u.mode /\ w.layers = u.layers /\ w.edge = None
  BY <1>2, <1>4, <1>5, RenderSettles
<1> QED BY <1>3, <1>4, <1>5, <1>6 DEF SelectArtifact

LEMMA SetModeSettles ==
  ASSUME auto \in BOOLEAN, NEW waited \in BOOLEAN, NEW v, Settled(v, waited), NEW m \in Modes
  PROVE  LET w == SetMode(v, m)
         IN  Settled(w, waited) /\ w.result = v.result /\ w.artifact = v.artifact /\ w.mode = m /\ w.layers = v.layers
<1>1. CASE m = v.mode
  BY <1>1 DEF SetMode
<1>2. CASE m # v.mode
  <2>1. v \in Views
    BY DEF Settled, Typed
  <2>2. PICK u : u = [v EXCEPT !.mode = m]
    OBVIOUS
  <2>3. u = [result |-> v.result, artifact |-> v.artifact, mode |-> m, layers |-> v.layers, slice |-> v.slice,
             node |-> v.node, edge |-> v.edge, tabs |-> v.tabs, asked |-> v.asked]
    BY <2>1, <2>2 DEF Views
  <2>4. u \in Views
    BY <2>1, <2>3 DEF Views
  <2>5. Typed(u, waited)
    BY <2>3, <2>4 DEF Settled, Typed
  <2>6. HasItems(u) => u.artifact # None
    BY <2>3 DEF Settled, HasItems, Cut
  <2>7. PICK w : w = Render(u)
    OBVIOUS
  <2>8. Settled(w, waited) /\ w.result = u.result /\ w.artifact = u.artifact /\ w.mode = u.mode /\ w.layers = u.layers
    BY <2>5, <2>6, <2>7, RenderSettles
  <2> QED BY <1>2, <2>2, <2>3, <2>7, <2>8 DEF SetMode
<1> QED BY <1>1, <1>2

\* A node that is drawn is selected in the slice; another one is drawn.
LEMMA NavigateSettles ==
  ASSUME auto \in BOOLEAN, NEW waited \in BOOLEAN, NEW v, Settled(v, waited), NEW id \in NodeIds, NEW prefer \in BOOLEAN
  PROVE  LET w == NavigateToNode(v, id, prefer)
         IN  /\ Settled(w, waited) /\ w.result = v.result /\ w.layers = v.layers
             /\ v.result # None /\ InResult(v, id) /\ InSlice(v, id) /\ ~prefer =>
                  w.artifact = v.artifact /\ w.mode = v.mode /\ w.slice = v.slice /\ w.node = id /\ w.edge = None
<1> DEFINE w == NavigateToNode(v, id, prefer)
           asArtifact == prefer /\ Kind(id) = "rpm"
<1>0. v \in Views /\ Typed(v, waited)
  BY DEF Settled, Typed
<1>1. CASE v.result = None \/ ~InResult(v, id)
  <2>1. w = v
    BY <1>1 DEF NavigateToNode
  <2> HIDE DEF w
  <2>2. w.result = v.result /\ w.layers = v.layers
    BY <2>1
  <2> QED BY <1>1, <2>1, <2>2 DEF w
<1>2. CASE v.result # None /\ InResult(v, id) /\ ~asArtifact /\ InSlice(v, id)
  <2>1. PICK u : u = ShowNode(v, id)
    OBVIOUS
  <2>2. w = u
    BY <1>2, <2>1 DEF NavigateToNode
  <2>3. /\ Typed(u, waited) /\ About(u)
        /\ u.result = v.result /\ u.artifact = v.artifact /\ u.mode = v.mode /\ u.layers = v.layers
        /\ u.slice = v.slice /\ u.node = id /\ u.edge = None
    BY <1>0, <1>2, <2>1, ShowNodeIs
  <2>4. HasItems(u) => Cut(u)
    <3> SUFFICES ASSUME HasItems(u) PROVE Cut(u)
      OBVIOUS
    <3>1. Cut(v)
      BY <2>3 DEF HasItems, Settled
    <3>2. u.mode # "Node Neighborhood" => CurrentSlice(u) = CurrentSlice(v)
      BY <1>0, <2>3, SameCut DEF Views
    <3>3. u.node \in DOMAIN u.slice.nodes
      BY <1>2, <2>3 DEF InSlice
    <3> QED BY <2>3, <3>1, <3>2, <3>3 DEF Cut
  <2> QED BY <2>2, <2>3, <2>4 DEF Settled
<1>3. CASE v.result # None /\ InResult(v, id) /\ asArtifact
  <2>1. id \in ItemsOf(v.result)
    BY <1>3 DEF InResult, ItemsOf
  <2>2. PICK u : u = SelectArtifact(v, id)
    OBVIOUS
  <2>3. w = u
    BY <1>3, <2>2 DEF NavigateToNode, SelectArtifact
  <2>4. Settled(u, waited) /\ u.result = v.result /\ u.layers = v.layers
    BY <1>0, <1>3, <2>1, <2>2, SelectSettles
  <2> QED BY <1>3, <2>3, <2>4
<1>4. CASE v.result # None /\ InResult(v, id) /\ ~asArtifact /\ ~InSlice(v, id)
  <2>1. PICK x : x = [v EXCEPT !.node = id, !.mode = "Node Neighborhood"]
    OBVIOUS
  <2>2. PICK m \in Modes : m = "Node Neighborhood"
    BY DEF Modes
  <2>3. x = [result |-> v.result, artifact |-> v.artifact, mode |-> m, layers |-> v.layers, slice |-> v.slice,
             node |-> id, edge |-> v.edge, tabs |-> v.tabs, asked |-> v.asked]
    BY <1>0, <2>1, <2>2 DEF Views
  <2>4. x \in Views
    BY <1>0, <2>3 DEF Views
  <2>5. Typed(x, waited) /\ (HasItems(x) => x.artifact # None)
    BY <1>0, <2>3, <2>4 DEF Typed, HasItems, Settled, Cut
  <2>6. PICK u : u = Render(x)
    OBVIOUS
  <2>7. Settled(u, waited) /\ u.result = v.result /\ u.layers = v.layers
    BY <2>3, <2>5, <2>6, RenderSettles
  <2>8. w = u
    BY <1>4, <2>1, <2>6 DEF NavigateToNode
  <2> QED BY <1>4, <2>7, <2>8
<1> QED BY <1>1, <1>2, <1>3, <1>4

\* With artifacts the first of them becomes the current one.
LEMMA FirstSettles ==
  ASSUME auto \in BOOLEAN, NEW waited \in BOOLEAN, NEW v, Typed(v, waited), v.result \in Result
  PROVE  Settled(FirstRow(v), waited) /\ FirstRow(v).result = v.result /\ FirstRow(v).layers = v.layers
<1> DEFINE items == ItemsOf(v.result)
<1>1. CASE items = {}
  <2>1. FirstRow(v) = v
    BY <1>1 DEF FirstRow, ItemsOf
  <2> QED BY <1>1, <2>1 DEF Settled, HasItems
<1>2. CASE items # {}
  <2>1. FirstId(items) \in items
    <3>1. items \in (SUBSET {id \in DOMAIN GraphOf[v.result].nodes : Kind(id) = "rpm"}) \ {{}}
      BY <1>2 DEF ItemsOf
    <3> QED BY <3>1, FirstAssumption
  <2>2. FirstRow(v) = SelectArtifact(v, FirstId(items))
    BY <1>2 DEF FirstRow, ItemsOf
  <2> QED BY <2>1, <2>2, SelectSettles, NoneAssumption
<1> QED BY <1>1, <1>2

\* An edge of the slice is selected instead of a node.
LEMMA EdgeSettles ==
  ASSUME auto \in BOOLEAN, NEW waited \in BOOLEAN, NEW v, Settled(v, waited), v.slice # None, NEW e \in v.slice.edges
  PROVE  LET w == ShowEdge(v, e, TRUE)
         IN  /\ Settled(w, waited) /\ w.result = v.result /\ w.artifact = v.artifact /\ w.mode = v.mode
             /\ w.layers = v.layers /\ w.slice = v.slice /\ w.node = None /\ w.edge = e
<1>1. PICK w : w = ShowEdge(v, e, TRUE)
  OBVIOUS
<1>2. v \in Views /\ Typed(v, waited)
  BY DEF Settled, Typed
<1>3. /\ Typed(w, waited)
      /\ w.result = v.result /\ w.artifact = v.artifact /\ w.mode = v.mode /\ w.layers = v.layers
      /\ w.slice = v.slice /\ w.node = None /\ w.edge = e /\ w.tabs["cve"].of = None /\ w.tabs["git"].of = None
  <2>1. PICK yes \in BOOLEAN : yes = TRUE
    OBVIOUS
  <2>2. w = ShowEdge(v, e, yes) /\ (yes => v.slice # None /\ e \in v.slice.edges)
    BY <1>1, <2>1
  <2>3. /\ Typed(w, waited)
        /\ w.result = v.result /\ w.artifact = v.artifact /\ w.mode = v.mode /\ w.layers = v.layers
        /\ w.slice = v.slice /\ w.tabs["cve"].of = None /\ w.tabs["git"].of = None
        /\ yes => w.node = None /\ w.edge = e
    BY <1>2, <2>2, ShowEdgeIs
  <2> QED BY <2>1, <2>3
<1>4. e # None
  BY <1>2, NoneAssumption DEF Views, Slices
<1>5. ASSUME HasItems(w)
      PROVE  Cut(w) /\ About(w)
  <2>1. Cut(v)
    BY <1>3, <1>5 DEF HasItems, Settled
  <2>2. w.mode # "Node Neighborhood" => CurrentSlice(w) = CurrentSlice(v)
    BY <1>2, <1>3, SameCut DEF Views
  <2>3. Cut(w)
    BY <1>3, <1>4, <2>1, <2>2 DEF Cut
  <2>4. About(w)
    BY <1>3, <1>4 DEF About, TabNames
  <2> QED BY <2>3, <2>4
<1> QED BY <1>1, <1>3, <1>5 DEF Settled

----------------------------------------------------------------------------
(* Sessions *)

Sessions == [result : Result, mode : Modes, artifact : NodeIds \cup {None}, node : NodeIds \cup {None},
             edge : EdgeIds \cup {None}, slice : Slices \cup {None}, layers : SUBSET DOMAIN Layers]

\* A session names what was drawn when it was saved.
SessionOK(s) ==
  /\ s \in Sessions
  /\ s.artifact # None => s.artifact \in ItemsOf(s.result)
  /\ HasItems(s) => Cut(s)

\* A session of a result with artifacts, where it can be restored; and what that means.
Restorable(s, r, on) == s.result = r /\ s.artifact # None /\ s.mode # "Node Neighborhood" /\ s.layers = on
Restored(w, s) ==
  /\ w.artifact = s.artifact /\ w.mode = s.mode /\ w.slice = s.slice
  /\ w.node = s.node /\ w.edge = s.edge

\* A result that was just listed, and the mode of the session.
LEMMA ListedTurns ==
  ASSUME NEW waited \in BOOLEAN, NEW v, Typed(v, waited), v.artifact = None, NEW m \in Modes
  PROVE  LET w == SetMode(v, m)
         IN  /\ Typed(w, waited) /\ w.result = v.result /\ w.artifact = None /\ w.layers = v.layers /\ w.mode = m
<1>1. CASE m = v.mode
  BY <1>1 DEF SetMode
<1>2. CASE m # v.mode
  <2>1. v \in Views
    BY DEF Typed
  <2>2. PICK u : u = [v EXCEPT !.mode = m]
    OBVIOUS
  <2>3. u = [result |-> v.result, artifact |-> v.artifact, mode |-> m, layers |-> v.layers, slice |-> v.slice,
             node |-> v.node, edge |-> v.edge, tabs |-> v.tabs, asked |-> v.asked]
    BY <2>1, <2>2 DEF Views
  <2>4. u \in Views
    BY <2>1, <2>3 DEF Views
  <2>5. SetMode(v, m) = u
    BY <1>2, <2>2, <2>3 DEF SetMode, Render
  <2> QED BY <2>3, <2>4, <2>5 DEF Typed
<1> QED BY <1>1, <1>2

\* A session is applied to any result, and restores what was saved of the same one.
LEMMA SessionSettles ==
  ASSUME auto \in BOOLEAN, NEW waited \in BOOLEAN, NEW v, Typed(v, waited), v.artifact = None, v.result \in Result,
         NEW s, SessionOK(s), NEW e \in EdgeIds \cup {None}
  PROVE  LET w == ApplySession(v, s, e)
         IN  /\ Settled(w, waited) /\ w.result = v.result /\ w.layers = v.layers
             /\ Restorable(s, v.result, v.layers) /\ (s.edge # None /\ w.slice = s.slice => e = s.edge)
                => Restored(w, s)
<1>0. s \in Sessions /\ v.result # None
  BY NoneAssumption DEF SessionOK
<1>1. PICK u : u = SetMode(v, s.mode)
  OBVIOUS
<1>2. Typed(u, waited) /\ u.result = v.result /\ u.artifact = None /\ u.layers = v.layers /\ u.mode = s.mode
  BY <1>0, <1>1, ListedTurns DEF Sessions
<1>3. PICK w : w = ApplySession(v, s, e)
  OBVIOUS
<1>4. w = SelectSaved(u, s, e)
  BY <1>1, <1>3 DEF ApplySession
<1>5. CASE s.artifact = None \/ ~InResult(u, s.artifact)
  <2>1. w = FirstRow(u)
    BY <1>4, <1>5 DEF SelectSaved
  <2>2. Settled(w, waited) /\ w.result = v.result /\ w.layers = v.layers
    BY <1>2, <2>1, FirstSettles
  <2>3. ~Restorable(s, v.result, v.layers)
    BY <1>2, <1>5 DEF SessionOK, ItemsOf, InResult, Restorable
  <2> QED BY <1>3, <2>2, <2>3
<1>6. CASE s.artifact # None /\ InResult(u, s.artifact)
  <2>1. PICK x : x = SelectArtifact(u, s.artifact)
    OBVIOUS
  <2>2. s.artifact \in ItemsOf(u.result)
    BY <1>6 DEF SessionOK, ItemsOf, InResult
  <2>3. /\ Settled(x, waited)
        /\ x.result = v.result /\ x.artifact = s.artifact /\ x.mode = s.mode /\ x.layers = v.layers /\ x.edge = None
    BY <1>0, <1>2, <2>1, <2>2, SelectSettles
  <2>4. Cut(x)
    BY <1>0, <1>2, <2>2, <2>3 DEF Settled, HasItems
  <2>5. w = Reselect(x, s, e)
    BY <1>4, <1>6, <2>1 DEF SelectSaved
  <2> DEFINE Same == Restorable(s, v.result, v.layers)
  <2>6. ASSUME Same
        PROVE  /\ x.slice = s.slice /\ (s.edge # None => s.node = None /\ s.edge \in s.slice.edges)
               /\ s.edge = None => s.node # None
               /\ s.node # None => s.edge = None /\ InSlice(x, s.node) /\ InResult(x, s.node)
    <3>1. Cut(s)
      BY <1>0, <1>2, <2>2, <2>6 DEF SessionOK, HasItems, Restorable
    <3>2. CurrentSlice(x) = CurrentSlice(s)
      BY <1>0, <2>3, <2>6, SameCut DEF Sessions, Restorable
    <3>3. x.slice = s.slice
      BY <2>3, <2>4, <2>6, <3>1, <3>2 DEF Cut, Restorable
    <3>4. CutFrom(GraphOf[x.result], x.slice) /\ x.result \in Result
      BY <2>3, <2>4 DEF Cut
    <3>5. x.slice # None /\ DOMAIN x.slice.nodes \subseteq DOMAIN GraphOf[x.result].nodes /\ None \notin DOMAIN x.slice.nodes
      BY <3>4, CutsAreSlices, NoneAssumption DEF CutFrom
    <3> QED BY <3>1, <3>3, <3>5 DEF Cut, InSlice, InResult
  <2>7. CASE s.node # None
    <3>1. PICK no \in BOOLEAN : no = FALSE
      OBVIOUS
    <3>2. w = NavigateToNode(x, s.node, no)
      BY <2>5, <2>7, <3>1 DEF Reselect
    <3>3. s.node \in NodeIds
      BY <1>0, <2>7 DEF Sessions
    <3>4. /\ Settled(w, waited) /\ w.result = x.result /\ w.layers = x.layers
          /\ x.result # None /\ InResult(x, s.node) /\ InSlice(x, s.node) /\ ~no =>
               w.artifact = x.artifact /\ w.mode = x.mode /\ w.slice = x.slice /\ w.node = s.node /\ w.edge = None
      BY <2>3, <3>2, <3>3, NavigateSettles
    <3>5. Same => Restored(w, s)
      BY <1>0, <2>3, <2>6, <2>7, <3>1, <3>4 DEF Restored
    <3> QED BY <1>3, <2>3, <3>4, <3>5
  <2>8. CASE s.node = None /\ s.edge # None /\ e \in x.slice.edges
    <3>1. w = ShowEdge(x, e, TRUE)
      BY <2>5, <2>8 DEF Reselect
    <3>2. x.slice # None
      <4>1. CutFrom(GraphOf[x.result], x.slice) /\ x.result \in Result
        BY <2>3, <2>4 DEF Cut
      <4> QED BY <4>1, CutsAreSlices
    <3>3. /\ Settled(w, waited) /\ w.result = x.result /\ w.artifact = x.artifact /\ w.mode = x.mode
          /\ w.layers = x.layers /\ w.slice = x.slice /\ w.node = None /\ w.edge = e
      BY <2>3, <2>8, <3>1, <3>2, EdgeSettles
    <3> QED BY <1>3, <2>3, <2>6, <2>8, <3>3 DEF Restored
  <2>9. CASE s.node = None /\ ~(s.edge # None /\ e \in x.slice.edges)
    <3>1. w = x
      BY <2>5, <2>9 DEF Reselect
    <3>2. Same => s.edge # None /\ s.edge \in x.slice.edges
      BY <2>6, <2>9
    <3> QED BY <1>3, <2>3, <2>6, <2>9, <3>1, <3>2 DEF Restored
  <2> QED BY <2>7, <2>8, <2>9
<1> QED BY <1>5, <1>6

----------------------------------------------------------------------------
(* The inductive invariant *)

\* Only the Git tab asks for files.
Workers == [number : Int, request : {r \in Asks : r.path # None => r.tab = "git"}, connected : BOOLEAN]

\* A request that is out asks for what its tab is still about.
Matches(request, shown) ==
  /\ request.of = shown[request.tab].of
  /\ request.path # None => request.path \in FilesOf[request.of.id]

QueuesOK ==
  /\ workers \in Seq(Workers) /\ events \in Seq(Workers \X {"done", "failed"})
  /\ patient => /\ \A i \in DOMAIN workers : Matches(workers[i].request, tabs)
                /\ \A i \in DOMAIN events : Matches(events[i][1].request, tabs)

SessionsOK ==
  /\ saved # None => SessionOK(saved)
  /\ pending # None => SessionOK(pending)

InspectorInv ==
  /\ auto \in BOOLEAN /\ patient \in BOOLEAN /\ fetches \in Nat
  /\ Settled(View, patient)
  /\ QueuesOK
  /\ SessionsOK

LEMMA InspectorInitInv == Init => InspectorInv
<1> SUFFICES ASSUME Init PROVE InspectorInv
  OBVIOUS
<1>1. "Trust Path" \in Modes /\ << >> \in Seq(PlainRequests)
  BY DEF Modes
<1>2. tabs = [t \in TabNames |-> EmptyTab] /\ tabs \in [TabNames -> Tab]
  BY EmptyIsTab DEF Init
<1>3. TabsOK(tabs, patient)
  <2>1. ASSUME NEW t \in TabNames
        PROVE  TabOK(t, tabs[t]) /\ Waited(t, tabs[t])
    BY <1>2, EmptyIsTab DEF TabOK, Waited
  <2> QED BY <1>2, <2>1 DEF TabsOK
<1>4. View \in Views
  <2>1. result = None /\ artifact = None /\ mode = "Trust Path" /\ layers = DOMAIN Layers
        /\ slice = None /\ node = None /\ edge = None
    BY DEF Init
  <2> QED BY <1>1, <1>2, <2>1 DEF View, Views
<1>5. Settled(View, patient)
  <2>1. View.result = None /\ View.artifact = None /\ View.tabs = tabs
    BY DEF View, Init
  <2> QED BY <1>3, <1>4, <2>1 DEF Settled, Typed, HasItems
<1>6. QueuesOK
  <2>1. workers = << >> /\ events = << >>
    BY DEF Init
  <2>2. workers \in Seq(Workers) /\ events \in Seq(Workers \X {"done", "failed"})
    BY <2>1
  <2>3. ~(\E i : i \in DOMAIN << >>)
    <3>1. Len(<< >>) = 0 /\ DOMAIN << >> = 1 .. Len(<< >>)
      OBVIOUS
    <3> QED BY <3>1
  <2> QED BY <2>1, <2>2, <2>3 DEF QueuesOK
<1>7. SessionsOK
  BY DEF Init, SessionsOK
<1> QED BY <1>5, <1>6, <1>7 DEF Init, InspectorInv

\* What is settled stays so while no tab turns to something else.
LEMMA SettledKeeps ==
  ASSUME NEW a, NEW v, Settled(v, a), NEW b, NEW w \in Views,
         w.result = v.result, w.artifact = v.artifact, w.mode = v.mode, w.layers = v.layers,
         w.slice = v.slice, w.node = v.node, w.edge = v.edge,
         TabsOK(w.tabs, b), \A t \in TabNames : w.tabs[t].of = v.tabs[t].of
  PROVE  Settled(w, b)
<1>1. Typed(w, b)
  BY DEF Typed, Settled
<1>2. ASSUME HasItems(w)
      PROVE  Cut(w) /\ About(w)
  <2>1. Cut(v) /\ About(v)
    BY <1>2 DEF Settled, HasItems
  <2>2. w.mode # "Node Neighborhood" => CurrentSlice(w) = CurrentSlice(v)
    BY SameCut DEF Views
  <2> QED BY <2>1, <2>2 DEF Cut, About
<1> QED BY <1>1, <1>2 DEF Settled

\* The fields of the view, and what the invariant says of them.
LEMMA ViewIs ==
  /\ View.result = result /\ View.artifact = artifact /\ View.mode = mode /\ View.layers = layers
  /\ View.slice = slice /\ View.node = node /\ View.edge = edge /\ View.tabs = tabs /\ View.asked = << >>
  BY DEF View

LEMMA ViewIsLater ==
  /\ View'.result = result' /\ View'.artifact = artifact' /\ View'.mode = mode' /\ View'.layers = layers'
  /\ View'.slice = slice' /\ View'.node = node' /\ View'.edge = edge' /\ View'.tabs = tabs' /\ View'.asked = << >>
  BY DEF View

LEMMA ViewIsSettled ==
  ASSUME InspectorInv
  PROVE  /\ View \in Views /\ Typed(View, patient) /\ TabsOK(tabs, patient)
         /\ \A t \in TabNames : tabs[t] \in Tab /\ TabOK(t, tabs[t]) /\ (patient => Waited(t, tabs[t]))
  BY ViewIs DEF InspectorInv, Settled, Typed, TabsOK

\* A request that goes out is one more that a worker has.
LEMMA AskAdds ==
  ASSUME workers \in Seq(Workers), fetches \in Nat,
         NEW requests \in Seq({r \in Asks : r.path # None => r.tab = "git"}), Ask(requests)
  PROVE  /\ fetches' \in Nat /\ workers' \in Seq(Workers)
         /\ \A i \in DOMAIN workers' :
              \/ \E j \in DOMAIN workers : workers'[i].request = workers[j].request
              \/ \E j \in DOMAIN requests : workers'[i].request = requests[j]
<1> DEFINE Requested == {r \in Asks : r.path # None => r.tab = "git"}
           W(i) == Worker(fetches + i, requests[i])
           new == [i \in DOMAIN requests |-> W(i)]
<1> HIDE DEF Requested
<1>1. requests \in Seq(Requested) /\ Workers = [number : Int, request : Requested, connected : BOOLEAN]
  BY DEF Workers, Requested
<1>2. fetches' = fetches + Len(requests) /\ workers' = workers \o new
  BY DEF Ask
<1>3. \A i \in DOMAIN requests : W(i) \in Workers /\ W(i).request = requests[i]
  BY <1>1 DEF Worker
<1> HIDE DEF W
<1>4. new \in Seq(Workers) /\ Len(new) = Len(requests) /\ \A i \in DOMAIN requests : new[i] = W(i)
  <2>1. PICK n \in Nat : n = Len(requests) /\ DOMAIN requests = 1 .. n
    BY <1>1
  <2>2. new = [i \in 1 .. n |-> W(i)]
    BY <2>1
  <2> HIDE DEF new
  <2> QED BY <1>3, <2>1, <2>2
<1> HIDE DEF new
<1>5. workers' \in Seq(Workers) /\ fetches' \in Nat
  BY <1>1, <1>2, <1>4
<1>6. ASSUME NEW i \in DOMAIN workers'
      PROVE  \/ \E j \in DOMAIN workers : workers'[i].request = workers[j].request
             \/ \E j \in DOMAIN requests : workers'[i].request = requests[j]
  <2>1. i \in 1 .. (Len(workers) + Len(requests))
    BY <1>2, <1>4, <1>5
  <2>2. CASE i <= Len(workers)
    <3>1. i \in DOMAIN workers /\ workers'[i] = workers[i]
      BY <1>2, <1>4, <2>1, <2>2
    <3> QED BY <3>1
  <2>3. CASE i > Len(workers)
    <3>1. i - Len(workers) \in DOMAIN requests /\ workers'[i] = new[i - Len(workers)]
      BY <1>1, <1>2, <1>4, <2>1, <2>3
    <3>2. workers'[i].request = requests[i - Len(workers)]
      BY <1>3, <1>4, <3>1
    <3> QED BY <3>1, <3>2
  <2> QED BY <2>1, <2>2, <2>3
<1> QED BY <1>5, <1>6

\* A handler turns to a view that is settled, and may ask: whoever had waited, and is not
\* turned to another tab while one asks, is still told what was asked for.
LEMMA TurnKeeps ==
  ASSUME InspectorInv, NEW v, Settled(v, patient), Turn(v), pending' = pending \/ pending' = None
  PROVE  InspectorInv'
<1>1. /\ result' = v.result /\ artifact' = v.artifact /\ mode' = v.mode /\ layers' = v.layers
      /\ slice' = v.slice /\ node' = v.node /\ edge' = v.edge /\ tabs' = v.tabs
      /\ Ask(v.asked) /\ auto' = auto /\ events' = events /\ saved' = saved
      /\ patient' = (patient /\ (Outstanding => v.tabs = tabs)
                     /\ \A i \in DOMAIN v.asked : v.asked[i].of = v.tabs[v.asked[i].tab].of)
  BY DEF Turn
<1>2. v \in Views /\ TabsOK(v.tabs, patient) /\ v.asked \in Seq(PlainRequests)
  BY DEF Settled, Typed, Views
<1>3. patient' \in BOOLEAN /\ auto' \in BOOLEAN /\ (patient' => patient)
  BY <1>1 DEF InspectorInv
<1>4. Settled(View', patient')
  <2>1. View' = [result |-> v.result, artifact |-> v.artifact, mode |-> v.mode, layers |-> v.layers,
                 slice |-> v.slice, node |-> v.node, edge |-> v.edge, tabs |-> v.tabs, asked |-> << >>]
    BY <1>1 DEF View
  <2>2. << >> \in Seq(PlainRequests)
    OBVIOUS
  <2>3. View' \in Views
    BY <1>2, <2>1, <2>2 DEF Views
  <2>4. TabsOK(v.tabs, patient')
    BY <1>2, <1>3 DEF TabsOK
  <2> QED BY <1>1, <2>3, <2>4, ViewIsLater, SettledKeeps
<1> DEFINE Requested == {r \in Asks : r.path # None => r.tab = "git"}
<1>5. /\ fetches' \in Nat /\ workers' \in Seq(Workers)
      /\ \A i \in DOMAIN workers' :
           \/ \E j \in DOMAIN workers : workers'[i].request = workers[j].request
           \/ \E j \in DOMAIN v.asked : workers'[i].request = v.asked[j]
  <2>1. ASSUME NEW r \in PlainRequests
        PROVE  r \in Requested
    <3>1. r = [tab |-> r.tab, of |-> r.of, path |-> None] /\ r.tab \in TabNames /\ r.of \in Subjects /\ r.path = None
      BY DEF PlainRequests
    <3>2. r \in Asks
      BY <3>1 DEF Asks, Paths
    <3> QED BY <3>1, <3>2
  <2>2. v.asked \in Seq(Requested)
    BY <1>2, <2>1
  <2> HIDE DEF Requested
  <2>3. workers \in Seq(Workers) /\ fetches \in Nat
    BY DEF InspectorInv, QueuesOK
  <2> QED BY <1>1, <2>2, <2>3, AskAdds DEF Requested
<1>6. patient' /\ Outstanding => tabs' = tabs
  BY <1>1
<1>7. QueuesOK'
  <2>1. events' \in Seq(Workers \X {"done", "failed"})
    BY <1>1 DEF InspectorInv, QueuesOK
  <2>2. ASSUME patient', NEW i \in DOMAIN events'
        PROVE  Matches(events'[i][1].request, tabs')
    <3>1. Outstanding
      <4>1. events # << >>
        BY <1>1, <2>1, <2>2
      <4> QED BY <4>1 DEF Outstanding
    <3>2. Matches(events[i][1].request, tabs)
      BY <1>1, <1>3, <2>2 DEF InspectorInv, QueuesOK
    <3> QED BY <1>1, <1>6, <2>2, <3>1, <3>2
  <2>3. ASSUME patient', NEW i \in DOMAIN workers'
        PROVE  Matches(workers'[i].request, tabs')
    <3>1. CASE \E j \in DOMAIN workers : workers'[i].request = workers[j].request
      <4>1. PICK j \in DOMAIN workers : workers'[i].request = workers[j].request
        BY <3>1
      <4>2. Matches(workers[j].request, tabs)
        BY <1>3, <2>3, <4>1 DEF InspectorInv, QueuesOK
      <4>3. Outstanding
        <5>1. workers \in Seq(Workers)
          BY DEF InspectorInv, QueuesOK
        <5>2. workers # << >>
          BY <4>1, <5>1
        <5> QED BY <5>2 DEF Outstanding
      <4> QED BY <1>6, <2>3, <4>1, <4>2, <4>3
    <3>2. CASE \E j \in DOMAIN v.asked : workers'[i].request = v.asked[j]
      <4>1. PICK j \in DOMAIN v.asked : workers'[i].request = v.asked[j]
        BY <3>2
      <4>2. v.asked[j] \in PlainRequests
        BY <1>2, <4>1
      <4>3. v.asked[j].of = v.tabs[v.asked[j].tab].of
        BY <1>1, <2>3, <4>1
      <4> QED BY <1>1, <4>1, <4>2, <4>3 DEF Matches, PlainRequests
    <3> QED BY <1>5, <2>3, <3>1, <3>2
  <2> QED BY <1>5, <2>1, <2>2, <2>3 DEF QueuesOK
<1>8. SessionsOK'
  BY <1>1 DEF InspectorInv, SessionsOK
<1> QED BY <1>3, <1>4, <1>5, <1>7, <1>8 DEF InspectorInv

LEMMA UserTurnKeeps ==
  ASSUME InspectorInv, NEW v, Settled(v, patient), UserTurns(v)
  PROVE  InspectorInv'
  BY TurnKeeps DEF UserTurns

LEMMA Standing == InspectorInv => auto \in BOOLEAN /\ patient \in BOOLEAN /\ Settled(View, patient) /\ Typed(View, patient) /\ View \in Views
  BY DEF InspectorInv, Settled, Typed

LEMMA ActivateKeeps ==
  ASSUME InspectorInv, NEW id \in NodeIds, NEW prefer \in BOOLEAN, Activate(id, prefer)
  PROVE  InspectorInv'
<1>1. Settled(NavigateToNode(View, id, prefer), patient)
  BY Standing, NavigateSettles
<1> QED BY <1>1, UserTurnKeeps DEF Activate

LEMMA ClickNodeKeeps ==
  ASSUME InspectorInv, NEW id \in NodeIds, ClickNode(id)
  PROVE  InspectorInv'
<1>1. PICK w : w = ShowNode(View, id)
  OBVIOUS
<1>2. InSlice(View, id) /\ UserTurns(w)
  BY <1>1 DEF ClickNode
<1>3. /\ Typed(w, patient) /\ About(w)
      /\ w.result = View.result /\ w.artifact = View.artifact /\ w.mode = View.mode /\ w.layers = View.layers
      /\ w.slice = View.slice /\ w.node = id /\ w.edge = None
  BY <1>1, <1>2, Standing, ShowNodeIs
<1>4. ASSUME HasItems(w)
      PROVE  Cut(w)
  <2>1. Cut(View)
    BY <1>3, <1>4, Standing DEF Settled, HasItems
  <2>2. w.mode # "Node Neighborhood" => CurrentSlice(w) = CurrentSlice(View)
    BY <1>3, Standing, SameCut DEF Views
  <2> QED BY <1>2, <1>3, <2>1, <2>2 DEF Cut, InSlice
<1>5. Settled(w, patient)
  BY <1>3, <1>4 DEF Settled
<1> QED BY <1>2, <1>5, UserTurnKeeps

LEMMA ClickEdgeKeeps ==
  ASSUME InspectorInv, NEW e, ClickEdge(e)
  PROVE  InspectorInv'
<1>1. Settled(ShowEdge(View, e, TRUE), patient)
  BY Standing, EdgeSettles, ViewIs DEF ClickEdge
<1> QED BY <1>1, UserTurnKeeps DEF ClickEdge

LEMMA ActivateEdgeKeeps ==
  ASSUME InspectorInv, ActivateEdge
  PROVE  InspectorInv'
<1>1. PICK w : w = ShowEdge(View, None, FALSE)
  OBVIOUS
<1>2. PICK no \in BOOLEAN : no = FALSE
  OBVIOUS
<1>3. /\ Typed(w, patient)
      /\ w.result = View.result /\ w.artifact = View.artifact /\ w.mode = View.mode /\ w.layers = View.layers
      /\ w.slice = View.slice /\ (~no => w.node = View.node /\ w.edge = View.edge)
      /\ w.tabs["cve"].of = None /\ w.tabs["git"].of = None /\ w.tabs["package"] = View.tabs["package"]
  <2>1. w = ShowEdge(View, None, no) /\ (no => View.slice # None /\ None \in View.slice.edges)
    BY <1>1, <1>2
  <2> QED BY <2>1, Standing, ShowEdgeIs
<1>4. ASSUME HasItems(w)
      PROVE  Cut(w) /\ About(w)
  <2>1. Cut(View) /\ About(View)
    BY <1>3, <1>4, Standing DEF Settled, HasItems
  <2>2. w.mode # "Node Neighborhood" => CurrentSlice(w) = CurrentSlice(View)
    BY <1>3, Standing, SameCut DEF Views
  <2>3. Cut(w)
    BY <1>2, <1>3, <2>1, <2>2 DEF Cut
  <2>4. About(w)
    BY <1>2, <1>3, <2>1 DEF About, TabNames
  <2> QED BY <2>3, <2>4
<1>5. Settled(w, patient)
  BY <1>3, <1>4 DEF Settled
<1> QED BY <1>1, <1>5, UserTurnKeeps DEF ActivateEdge

LEMMA ChooseArtifactKeeps ==
  ASSUME InspectorInv, result # None, NEW a \in Items, ChooseArtifact(a)
  PROVE  InspectorInv'
<1>1. a \in ItemsOf(View.result) /\ View.result # None
  BY ViewIs DEF Items, Graph, ItemsOf
<1>2. Settled(SelectArtifact(View, a), patient)
  BY <1>1, Standing, SelectSettles
<1> QED BY <1>2, UserTurnKeeps DEF ChooseArtifact

LEMMA FilterArtifactsKeeps ==
  ASSUME InspectorInv, result # None, NEW visible \in SUBSET Items, FilterArtifacts(visible)
  PROVE  InspectorInv'
<1>1. View.result # None /\ View.result \in Result /\ Items = ItemsOf(View.result)
  BY ViewIs, Standing DEF Items, Graph, ItemsOf, Views
<1>2. FirstId(visible) \in ItemsOf(View.result)
  <2>1. visible \in (SUBSET {id \in DOMAIN GraphOf[View.result].nodes : Kind(id) = "rpm"}) \ {{}}
    BY <1>1 DEF FilterArtifacts, ItemsOf
  <2>2. FirstId(visible) \in visible
    BY <1>1, <2>1, FirstAssumption
  <2> QED BY <1>1, <2>2
<1>3. Settled(SelectArtifact(View, FirstId(visible)), patient)
  BY <1>1, <1>2, Standing, SelectSettles
<1> QED BY <1>3, UserTurnKeeps DEF FilterArtifacts

LEMMA ChooseModeKeeps ==
  ASSUME InspectorInv, NEW m \in Modes, ChooseMode(m)
  PROVE  InspectorInv'
<1>1. Settled(SetMode(View, m), patient)
  BY Standing, SetModeSettles
<1> QED BY <1>1, UserTurnKeeps DEF ChooseMode

LEMMA ToggleLayerKeeps ==
  ASSUME InspectorInv, NEW l \in SwitchedLayers, ToggleLayer(l)
  PROVE  InspectorInv'
<1>1. PICK on \in SUBSET DOMAIN Layers : on = IF l \in layers THEN layers \ {l} ELSE layers \cup {l}
  <2>1. layers \in SUBSET DOMAIN Layers /\ l \in DOMAIN Layers
    BY Standing, ViewIs, InspectorAssumption DEF Views
  <2> HIDE DEF Layers
  <2> QED BY <2>1
<1>2. PICK u : u = [View EXCEPT !.layers = on]
  OBVIOUS
<1>3. u = [result |-> View.result, artifact |-> View.artifact, mode |-> View.mode, layers |-> on,
           slice |-> View.slice, node |-> View.node, edge |-> View.edge, tabs |-> View.tabs, asked |-> View.asked]
  BY <1>1, <1>2, Standing DEF Views
<1>4. u \in Views
  BY <1>1, <1>3, Standing DEF Views
<1>5. Typed(u, patient) /\ (HasItems(u) => u.artifact # None)
  BY <1>3, <1>4, Standing DEF Typed, HasItems, Settled, Cut
<1>6. Settled(Render(u), patient)
  BY <1>5, Standing, RenderSettles
<1>7. UserTurns(Render(u))
  BY <1>1, <1>2 DEF ToggleLayer, View
<1> QED BY <1>6, <1>7, UserTurnKeeps

LEMMA ActivateRecipeKeeps ==
  ASSUME InspectorInv, NEW m \in Modes, NEW subject \in NodeIds \cup {None}, ActivateRecipe(m, subject)
  PROVE  InspectorInv'
<1>1. PICK u : u = SetMode(View, m)
  OBVIOUS
<1>2. Settled(u, patient)
  BY <1>1, Standing, SetModeSettles
<1>3. PICK w : w = FollowRecipe(u, subject)
  OBVIOUS
<1>4. Settled(w, patient)
  <2>1. CASE subject = None
    <3>1. Typed(u, patient) /\ (HasItems(u) => u.artifact # None)
      BY <1>2 DEF Settled, Cut
    <3>2. w = Render(u)
      BY <1>3, <2>1 DEF FollowRecipe
    <3> QED BY <3>1, <3>2, Standing, RenderSettles
  <2>2. CASE subject # None
    <3>1. PICK yes \in BOOLEAN : yes = TRUE
      OBVIOUS
    <3>2. w = NavigateToNode(u, subject, yes)
      BY <1>3, <2>2, <3>1 DEF FollowRecipe
    <3>3. subject \in NodeIds
      BY <2>2
    <3> QED BY <1>2, <3>2, <3>3, Standing, NavigateSettles
  <2> QED BY <2>1, <2>2
<1> QED BY <1>1, <1>3, <1>4, UserTurnKeeps DEF ActivateRecipe

LEMMA AnalysisFinishedKeeps ==
  ASSUME InspectorInv, NEW r \in Result, NEW e \in EdgeIds \cup {None}, AnalysisFinished(r, e)
  PROVE  /\ InspectorInv'
         /\ result' = r
         /\ pending # None /\ Restorable(pending, r, layers) =>
              /\ artifact' = pending.artifact /\ mode' = pending.mode /\ slice' = pending.slice
              /\ node' = pending.node /\ edge' = pending.edge
<1>1. PICK listed : listed = [View EXCEPT !.result = r, !.artifact = None]
  OBVIOUS
<1>2. listed = [result |-> r, artifact |-> None, mode |-> View.mode, layers |-> View.layers, slice |-> View.slice,
                node |-> View.node, edge |-> View.edge, tabs |-> View.tabs, asked |-> View.asked]
  BY <1>1, Standing DEF Views
<1>3. listed \in Views
  BY <1>2, Standing DEF Views
<1>4. Typed(listed, patient) /\ listed.artifact = None /\ listed.result = r /\ listed.layers = layers
  BY <1>2, <1>3, Standing, ViewIs DEF Typed
<1>5. PICK v : /\ v = IF pending = None THEN FirstRow(listed) ELSE ApplySession(listed, pending, e)
               /\ pending # None /\ pending.edge # None => (v.slice = pending.slice => e = pending.edge)
               /\ Turn(v)
  BY <1>1 DEF AnalysisFinished
<1>6. /\ Settled(v, patient) /\ v.result = r
      /\ pending # None /\ Restorable(pending, r, layers) => Restored(v, pending)
  <2>1. CASE pending = None
    BY <1>4, <1>5, <2>1, Standing, FirstSettles
  <2>2. CASE pending # None
    <3>0. PICK s : s = pending
      OBVIOUS
    <3>1. v = ApplySession(listed, s, e) /\ SessionOK(s)
      BY <1>5, <2>2, <3>0 DEF InspectorInv, SessionsOK
    <3>2. /\ Settled(v, patient) /\ v.result = listed.result
          /\ Restorable(s, listed.result, listed.layers) /\ (s.edge # None /\ v.slice = s.slice => e = s.edge)
               => Restored(v, s)
      BY <1>4, <3>1, Standing, SessionSettles
    <3> QED BY <1>4, <1>5, <2>2, <3>0, <3>2
  <2> QED BY <2>1, <2>2
<1>7. pending' = None
  BY DEF AnalysisFinished
<1>8. InspectorInv'
  BY <1>5, <1>6, <1>7, TurnKeeps
<1> QED BY <1>5, <1>6, <1>8 DEF Turn, Restored

\* A tab that asks, or is answered, is about what it was.
LEMMA TabTurnKeeps ==
  ASSUME InspectorInv, NEW t \in TabNames, NEW new, NEW b \in BOOLEAN, b => patient,
         tabs' = [tabs EXCEPT ![t] = new],
         TabOK(t, new), b => Waited(t, new), new.of = tabs[t].of,
         <<result, artifact, mode, layers, slice, node, edge>>' = <<result, artifact, mode, layers, slice, node, edge>>
  PROVE  Settled(View', b) /\ \A s \in TabNames : tabs'[s].of = tabs[s].of
<1>1. tabs \in [TabNames -> Tab] /\ new \in Tab
  BY ViewIsSettled DEF TabsOK, TabOK
<1>2. tabs' \in [TabNames -> Tab] /\ \A s \in TabNames : tabs'[s] = IF s = t THEN new ELSE tabs[s]
  BY <1>1
<1>3. TabsOK(tabs', b)
  BY <1>2, ViewIsSettled DEF TabsOK
<1>4. \A s \in TabNames : tabs'[s].of = tabs[s].of
  BY <1>2
<1>5. result' = result /\ artifact' = artifact /\ mode' = mode /\ layers' = layers /\ slice' = slice /\ node' = node /\ edge' = edge
  OBVIOUS
<1>6. View' = [View EXCEPT !.tabs = tabs']
  BY <1>5 DEF View
<1>7. View' = [result |-> View.result, artifact |-> View.artifact, mode |-> View.mode, layers |-> View.layers,
               slice |-> View.slice, node |-> View.node, edge |-> View.edge, tabs |-> tabs', asked |-> View.asked]
  BY <1>5 DEF View
<1>8. View' \in Views
  BY <1>2, <1>7, Standing DEF Views
<1>9. Settled(View', b)
  <2>1. PICK w : w = View'
    OBVIOUS
  <2>2. w \in Views /\ TabsOK(w.tabs, b) /\ \A s \in TabNames : w.tabs[s].of = View.tabs[s].of
    BY <1>3, <1>4, <1>8, <2>1, ViewIs, ViewIsLater
  <2>3. w.result = View.result /\ w.artifact = View.artifact /\ w.mode = View.mode /\ w.layers = View.layers
        /\ w.slice = View.slice /\ w.node = View.node /\ w.edge = View.edge
    BY <1>5, <2>1, ViewIs, ViewIsLater
  <2>4. Settled(w, b)
    BY <2>2, <2>3, Standing, SettledKeeps
  <2> QED BY <2>1, <2>4
<1> QED BY <1>4, <1>9

\* The request of a user who waits is the only one that is out.
LEMMA OneRequestKeeps ==
  ASSUME InspectorInv, NEW request \in {r \in Asks : r.path # None => r.tab = "git"}, Ask(<<request>>),
         events' = events, patient' = (patient /\ ~Outstanding), patient' => Matches(request, tabs')
  PROVE  QueuesOK' /\ fetches' \in Nat
<1>1. PICK requests : requests = <<request>>
  OBVIOUS
<1>2. requests \in Seq({r \in Asks : r.path # None => r.tab = "git"}) /\ \A j \in DOMAIN requests : requests[j] = request
  <2>1. PICK R : R = {r \in Asks : r.path # None => r.tab = "git"}
    OBVIOUS
  <2>2. requests \in Seq(R) /\ \A j \in DOMAIN requests : requests[j] = request
    BY <1>1, <2>1
  <2> QED BY <2>1, <2>2
<1>3. workers \in Seq(Workers) /\ events \in Seq(Workers \X {"done", "failed"}) /\ fetches \in Nat
  BY DEF InspectorInv, QueuesOK
<1>4. /\ fetches' \in Nat /\ workers' \in Seq(Workers)
      /\ \A i \in DOMAIN workers' :
           \/ \E j \in DOMAIN workers : workers'[i].request = workers[j].request
           \/ \E j \in DOMAIN requests : workers'[i].request = requests[j]
  BY <1>1, <1>2, <1>3, AskAdds
<1>5. patient' => ~(\E i : i \in DOMAIN workers) /\ ~(\E i : i \in DOMAIN events')
  <2>1. patient' => workers = << >> /\ events' = << >>
    BY DEF Outstanding
  <2>2. ~(\E i : i \in DOMAIN << >>)
    <3>1. Len(<< >>) = 0 /\ DOMAIN << >> = 1 .. Len(<< >>)
      OBVIOUS
    <3> QED BY <3>1
  <2> QED BY <2>1, <2>2
<1>6. patient' => \A i \in DOMAIN workers' : Matches(workers'[i].request, tabs')
  BY <1>2, <1>4, <1>5
<1> QED BY <1>3, <1>4, <1>5, <1>6 DEF QueuesOK

LEMMA PressButtonKeeps ==
  ASSUME InspectorInv, NEW t \in TabNames, PressButton(t)
  PROVE  InspectorInv'
<1>1. TabOK(t, tabs[t]) /\ tabs[t].on /\ tabs[t] \in Tab /\ (patient => Waited(t, tabs[t]))
  BY ViewIsSettled DEF PressButton
<1>2. tabs[t].of \in Subjects /\ tabs[t].of # None
  BY <1>1 DEF TabOK, Enabled, Tab
<1>3. patient' = (patient /\ ~Outstanding) /\ patient' \in BOOLEAN /\ (patient' => patient)
  BY DEF PressButton, InspectorInv
<1>4. Turns(t, tabs[t], Asking(tabs[t])) /\ Asking(tabs[t]).of = tabs[t].of
  BY <1>1, <1>2, AskingTurns
<1>5. tabs' = [tabs EXCEPT ![t] = Asking(tabs[t])]
  BY DEF PressButton
<1>6. Settled(View', patient') /\ \A s \in TabNames : tabs'[s].of = tabs[s].of
  BY <1>1, <1>3, <1>4, <1>5, TabTurnKeeps DEF Turns, PressButton
<1>7. PICK request : request = Request(t, tabs[t])
  OBVIOUS
<1>8. request \in {r \in Asks : r.path # None => r.tab = "git"} /\ Matches(request, tabs')
  BY <1>2, <1>6, <1>7 DEF Request, Asks, Paths, Matches
<1>9. Ask(<<request>>) /\ events' = events
  BY <1>7 DEF PressButton
<1>10. QueuesOK' /\ fetches' \in Nat
  BY <1>3, <1>8, <1>9, OneRequestKeeps
<1>11. auto' = auto /\ saved' = saved /\ pending' = pending
  BY DEF PressButton
<1> QED BY <1>3, <1>6, <1>10, <1>11 DEF InspectorInv, SessionsOK

LEMMA ClickFileKeeps ==
  ASSUME InspectorInv, tabs["git"].files # None, NEW path \in FilesOf[tabs["git"].files.id], ClickFile(path)
  PROVE  InspectorInv'
<1> DEFINE tab == tabs["git"]
           new == [tab EXCEPT !.header = <<"fetching diff", tab.of>>]
<1>0. "git" \in TabNames
  BY DEF TabNames
<1>1. TabOK("git", tab) /\ tab \in Tab /\ (patient => Waited("git", tab)) /\ tab.of # None
  BY <1>0, ViewIsSettled DEF ClickFile, Enabled
<1>2. tab.of \in Subjects /\ tab.files \in Subjects
  BY <1>1 DEF Tab
<1>3. patient' = (patient /\ ~Outstanding) /\ patient' \in BOOLEAN /\ (patient' => patient)
  BY DEF ClickFile, InspectorInv
<1>4. TabOK("git", new) /\ (Waited("git", tab) => Waited("git", new)) /\ new.of = tab.of
  <2>1. <<"fetching diff", tab.of>> \in Words \X (Subjects \cup {None})
    BY <1>2 DEF Words
  <2>2. PICK f : f = new
    OBVIOUS
  <2>3. f = [of |-> tab.of, on |-> tab.on, header |-> <<"fetching diff", tab.of>>, body |-> tab.body,
             files |-> tab.files, diff |-> tab.diff]
    BY <1>1, <2>2 DEF Tab
  <2> HIDE DEF tab, new
  <2>4. f \in Tab
    BY <1>1, <2>1, <2>3 DEF Tab
  <2>5. TabOK("git", f)
    BY <1>1, <2>3, <2>4 DEF TabOK, Enabled
  <2>6. Waited("git", tab) => Waited("git", f)
    BY <2>3 DEF Waited
  <2>7. f.of = tab.of
    BY <2>3
  <2> QED BY <2>2, <2>5, <2>6, <2>7
<1>5. tabs' = [tabs EXCEPT !["git"] = new]
  <2>1. tabs \in [TabNames -> Tab]
    BY ViewIsSettled DEF TabsOK
  <2> QED BY <1>0, <2>1 DEF ClickFile
<1>6. Settled(View', patient') /\ \A s \in TabNames : tabs'[s].of = tabs[s].of
  <2> HIDE DEF new
  <2> QED BY <1>0, <1>1, <1>3, <1>4, <1>5, TabTurnKeeps DEF ClickFile
<1>7. PICK request : request = [tab |-> "git", of |-> tab.of, path |-> path]
  OBVIOUS
<1>8. request \in {r \in Asks : r.path # None => r.tab = "git"}
  <2>1. tab.files.id \in NodeIds
    BY <1>2 DEF Subjects
  <2>2. path \in Paths
    BY <2>1 DEF Paths
  <2> QED BY <1>0, <1>2, <1>7, <2>2 DEF Asks
<1>9. patient' => Matches(request, tabs')
  <2>1. patient' => tab.files = tab.of
    BY <1>1, <1>2, <1>3, NoneAssumption DEF Waited
  <2> QED BY <1>0, <1>6, <1>7, <2>1 DEF Matches
<1>10. Ask(<<request>>) /\ events' = events
  BY <1>7 DEF ClickFile
<1>11. QueuesOK' /\ fetches' \in Nat
  BY <1>3, <1>8, <1>9, <1>10, OneRequestKeeps
<1>12. auto' = auto /\ saved' = saved /\ pending' = pending
  BY DEF ClickFile
<1> QED BY <1>3, <1>6, <1>11, <1>12 DEF InspectorInv, SessionsOK

\* What leaves the view, the tabs and the patience leaves what was settled.
LEMMA ViewStays ==
  ASSUME InspectorInv, UNCHANGED <<view, patient>>
  PROVE  Settled(View', patient') /\ patient' \in BOOLEAN /\ tabs' = tabs /\ patient' = patient
<1>1. View' = View
  BY DEF View, view
<1> QED BY <1>1 DEF InspectorInv, view

LEMMA SaveSessionKeeps ==
  ASSUME InspectorInv, SaveSession
  PROVE  InspectorInv'
<1>1. PICK s : s = [result |-> result, mode |-> mode, artifact |-> artifact, node |-> node,
                    edge |-> edge, slice |-> slice, layers |-> layers]
  OBVIOUS
<1>2. s \in Sessions
  BY <1>1, Standing, ViewIs DEF Views, Sessions, SaveSession
<1>3. s.result = View.result /\ s.mode = View.mode /\ s.artifact = View.artifact /\ s.node = View.node
      /\ s.edge = View.edge /\ s.slice = View.slice /\ s.layers = View.layers
  BY <1>1, ViewIs
<1>4. s.artifact # None => s.artifact \in ItemsOf(s.result)
  BY <1>3, Standing DEF Typed
<1>5. ASSUME HasItems(s)
      PROVE  Cut(s)
  <2>1. Cut(View)
    BY <1>3, <1>5, Standing DEF Settled, HasItems
  <2>2. s.mode # "Node Neighborhood" => CurrentSlice(s) = CurrentSlice(View)
    BY <1>3, Standing, SameCut DEF Views
  <2> QED BY <1>3, <2>1, <2>2 DEF Cut
<1>6. SessionOK(s)
  BY <1>2, <1>4, <1>5 DEF SessionOK
<1>7. saved' = s /\ pending' = pending /\ auto' = auto /\ fetches' = fetches /\ workers' = workers /\ events' = events
      /\ UNCHANGED <<view, patient>>
  BY <1>1 DEF SaveSession
<1>8. SessionsOK'
  BY <1>6, <1>7 DEF InspectorInv, SessionsOK
<1>9. QueuesOK'
  BY <1>7, ViewStays DEF InspectorInv, QueuesOK
<1> QED BY <1>7, <1>8, <1>9, ViewStays DEF InspectorInv

LEMMA LoadSessionKeeps ==
  ASSUME InspectorInv, LoadSession
  PROVE  InspectorInv'
<1>1. saved' = saved /\ pending' = saved /\ saved # None /\ auto' = auto /\ fetches' = fetches /\ workers' = workers
      /\ events' = events /\ UNCHANGED <<view, patient>>
  BY DEF LoadSession
<1>2. SessionsOK'
  BY <1>1 DEF InspectorInv, SessionsOK
<1>3. QueuesOK'
  BY <1>1, ViewStays DEF InspectorInv, QueuesOK
<1> QED BY <1>1, <1>2, <1>3, ViewStays DEF InspectorInv

LEMMA ToggleAutoKeeps ==
  ASSUME InspectorInv, ToggleAuto
  PROVE  InspectorInv'
<1>1. auto' = ~auto /\ saved' = saved /\ pending' = pending /\ fetches' = fetches /\ workers' = workers
      /\ events' = events /\ UNCHANGED <<view, patient>>
  BY DEF ToggleAuto
<1>2. SessionsOK' /\ auto' \in BOOLEAN
  BY <1>1 DEF InspectorInv, SessionsOK
<1>3. QueuesOK'
  BY <1>1, ViewStays DEF InspectorInv, QueuesOK
<1> QED BY <1>1, <1>2, <1>3, ViewStays DEF InspectorInv

\* A sequence without one of its elements has only the others.
LEMMA RemoveAtKeeps ==
  ASSUME NEW S, NEW s \in Seq(S), NEW n \in DOMAIN s
  PROVE  RemoveAt(s, n) \in Seq(S) /\ \A i \in DOMAIN RemoveAt(s, n) : \E j \in DOMAIN s : RemoveAt(s, n)[i] = s[j]
<1> DEFINE a == SubSeq(s, 1, n - 1)
           b == SubSeq(s, n + 1, Len(s))
<1>1. n \in 1 .. Len(s) /\ Len(s) \in Nat
  OBVIOUS
<1>2. a \in Seq(S) /\ Len(a) = n - 1 /\ \A i \in 1 .. n - 1 : a[i] = s[i]
  BY <1>1
<1>3. b \in Seq(S) /\ Len(b) = Len(s) - n /\ \A i \in 1 .. Len(s) - n : b[i] = s[n + i]
  BY <1>1
<1>4. RemoveAt(s, n) = a \o b
  BY DEF RemoveAt
<1> HIDE DEF a, b
<1>5. a \o b \in Seq(S) /\ Len(a \o b) = Len(s) - 1 /\ DOMAIN (a \o b) = 1 .. Len(s) - 1
  BY <1>1, <1>2, <1>3
<1>6. ASSUME NEW i \in 1 .. Len(s) - 1
      PROVE  \E j \in DOMAIN s : (a \o b)[i] = s[j]
  <2>0. i \in Nat /\ i >= 1 /\ i <= Len(s) - 1
    BY <1>1
  <2>3. i \in DOMAIN s /\ i + 1 \in DOMAIN s
    BY <1>1
  <2>4. i < n \/ i >= n
    BY <1>1, <2>0
  <2>1. CASE i < n
    <3>1. i \in 1 .. n - 1
      BY <1>1, <2>0, <2>1
    <3>2. (a \o b)[i] = s[i]
      BY <1>1, <1>2, <1>3, <3>1
    <3> QED BY <2>3, <3>2
  <2>2. CASE i >= n
    <3>1. i - (n - 1) \in 1 .. Len(s) - n /\ n + (i - (n - 1)) = i + 1 /\ i > n - 1
      BY <1>1, <2>0, <2>2
    <3>2. Len(a) = n - 1 /\ i <= Len(a) + Len(b)
      BY <1>1, <1>2, <1>3, <2>0
    <3>3. (a \o b)[i] = b[i - Len(a)]
      BY <1>2, <1>3, <2>0, <3>1, <3>2
    <3>4. (a \o b)[i] = s[i + 1]
      BY <1>3, <3>1, <3>2, <3>3
    <3> QED BY <2>3, <3>4
  <2> QED BY <2>1, <2>2, <2>4
<1> QED BY <1>4, <1>5, <1>6

LEMMA WorkerEndsKeeps ==
  ASSUME InspectorInv, NEW i, NEW outcome \in {"done", "failed"}, WorkerEnds(i, outcome)
  PROVE  InspectorInv'
<1>1. /\ i \in DOMAIN workers /\ workers' = RemoveAt(workers, i)
      /\ events' = IF workers[i].connected THEN Append(events, <<workers[i], outcome>>) ELSE events
      /\ auto' = auto /\ saved' = saved /\ pending' = pending /\ fetches' = fetches
      /\ UNCHANGED <<view, patient>>
  BY DEF WorkerEnds
<1>2. workers \in Seq(Workers) /\ events \in Seq(Workers \X {"done", "failed"})
  BY DEF InspectorInv, QueuesOK
<1>3. workers' \in Seq(Workers) /\ \A k \in DOMAIN workers' : \E j \in DOMAIN workers : workers'[k] = workers[j]
  <2>1. PICK rest : rest = RemoveAt(workers, i)
    OBVIOUS
  <2>2. rest \in Seq(Workers) /\ \A k \in DOMAIN rest : \E j \in DOMAIN workers : rest[k] = workers[j]
    BY <1>1, <1>2, <2>1, RemoveAtKeeps
  <2>3. workers' = rest
    BY <1>1, <2>1
  <2> QED BY <2>2, <2>3
<1>4. PICK signal \in Workers \X {"done", "failed"} : signal = <<workers[i], outcome>>
  <2>1. workers[i] \in Workers
    BY <1>1, <1>2
  <2>2. <<workers[i], outcome>> \in Workers \X {"done", "failed"}
    BY <2>1
  <2> QED BY <2>2
<1>5. /\ events' \in Seq(Workers \X {"done", "failed"})
      /\ \A k \in DOMAIN events' : (k \in DOMAIN events /\ events'[k] = events[k]) \/ events'[k] = signal
  <2>1. CASE workers[i].connected
    <3>1. events' = Append(events, signal)
      BY <1>1, <1>4, <2>1
    <3> QED BY <1>2, <3>1
  <2>2. CASE ~workers[i].connected
    BY <1>1, <1>2, <2>2
  <2> QED BY <2>1, <2>2
<1>6. signal[1] = workers[i]
  BY <1>4
<1>7. ASSUME patient'
      PROVE  /\ \A k \in DOMAIN workers' : Matches(workers'[k].request, tabs')
             /\ \A k \in DOMAIN events' : Matches(events'[k][1].request, tabs')
  <2>1. tabs' = tabs /\ patient
    BY <1>1, <1>7, ViewStays
  <2>2. /\ \A k \in DOMAIN workers : Matches(workers[k].request, tabs)
        /\ \A k \in DOMAIN events : Matches(events[k][1].request, tabs)
    BY <2>1 DEF InspectorInv, QueuesOK
  <2>3. \A k \in DOMAIN workers' : Matches(workers'[k].request, tabs')
    BY <1>3, <2>1, <2>2
  <2>4. \A k \in DOMAIN events' : Matches(events'[k][1].request, tabs')
    BY <1>1, <1>5, <1>6, <2>1, <2>2
  <2> QED BY <2>3, <2>4
<1>8. QueuesOK'
  BY <1>3, <1>5, <1>7 DEF QueuesOK
<1>9. SessionsOK'
  BY <1>1 DEF InspectorInv, SessionsOK
<1> QED BY <1>1, <1>8, <1>9, ViewStays DEF InspectorInv

\* Whatever the order in which the answers come.
LEMMA TakeAnswerKeeps ==
  ASSUME InspectorInv, TakeAnswer
  PROVE  InspectorInv'
<1> DEFINE worker == Head(events)[1]
           request == worker.request
           outcome == Head(events)[2]
           new == Answered(tabs[request.tab], request, outcome)
<1>1. /\ events # << >> /\ events' = Tail(events)
      /\ tabs' = IF worker.connected THEN [tabs EXCEPT ![request.tab] = new] ELSE tabs
      /\ auto' = auto /\ saved' = saved /\ pending' = pending /\ fetches' = fetches /\ workers' = workers
      /\ patient' = patient
      /\ <<result, artifact, mode, layers, slice, node, edge>>' = <<result, artifact, mode, layers, slice, node, edge>>
  BY DEF TakeAnswer
<1>2. workers \in Seq(Workers) /\ events \in Seq(Workers \X {"done", "failed"})
  BY DEF InspectorInv, QueuesOK
<1>3. Head(events) \in Workers \X {"done", "failed"} /\ 1 \in DOMAIN events /\ Head(events) = events[1]
  BY <1>1, <1>2
<1>4. /\ events' \in Seq(Workers \X {"done", "failed"})
      /\ \A i \in DOMAIN events' : i + 1 \in DOMAIN events /\ events'[i] = events[i + 1]
  BY <1>1, <1>2
<1>5. request \in Asks /\ (request.path # None => request.tab = "git") /\ request.tab \in TabNames
  BY <1>3 DEF Workers, Asks
<1> HIDE DEF worker, outcome
<1>6. TabOK(request.tab, tabs[request.tab]) /\ (patient => Waited(request.tab, tabs[request.tab]))
  BY <1>5, ViewIsSettled
<1>7. patient => Matches(request, tabs)
  BY <1>3 DEF InspectorInv, QueuesOK, worker
<1>8. TabOK(request.tab, new) /\ (patient => Waited(request.tab, new)) /\ new.of = tabs[request.tab].of
  <2>1. PICK t \in TabNames : t = request.tab
    BY <1>5
  <2>2. PICK tab : tab = tabs[t]
    OBVIOUS
  <2>3. PICK r \in Asks : r = request
    BY <1>5
  <2>4. /\ TabOK(t, Answered(tab, r, outcome)) /\ Answered(tab, r, outcome).of = tab.of
        /\ /\ Waited(t, tab) /\ r.of = tab.of
           /\ r.path # None => r.path \in FilesOf[r.of.id]
           => Waited(t, Answered(tab, r, outcome))
    <3>1. TabOK(t, tab) /\ r.tab = t /\ (r.path # None => t = "git")
      BY <1>5, <1>6, <2>1, <2>2, <2>3
    <3> QED BY <3>1, AnsweredTurns
  <2>5. Answered(tab, r, outcome) = new
    BY <2>1, <2>2, <2>3
  <2>6. patient => Waited(t, tab) /\ r.of = tab.of /\ (r.path # None => r.path \in FilesOf[r.of.id])
    BY <1>6, <1>7, <2>1, <2>2, <2>3 DEF Matches
  <2> HIDE DEF new
  <2> QED BY <2>1, <2>2, <2>4, <2>5, <2>6
<1> HIDE DEF new
<1>9. Settled(View', patient') /\ \A s \in TabNames : tabs'[s].of = tabs[s].of
  <2>1. CASE worker.connected
    <3>1. tabs' = [tabs EXCEPT ![request.tab] = new]
      BY <1>1, <2>1
    <3>2. patient \in BOOLEAN
      BY Standing
    <3> HIDE DEF request
    <3>3. Settled(View', patient) /\ \A s \in TabNames : tabs'[s].of = tabs[s].of
      BY <1>1, <1>5, <1>8, <3>1, <3>2, TabTurnKeeps
    <3> QED BY <1>1, <3>3
  <2>2. CASE ~worker.connected
    <3>1. tabs' = tabs /\ UNCHANGED <<view, patient>>
      BY <1>1, <2>2 DEF view
    <3> QED BY <3>1, ViewStays
  <2> QED BY <2>1, <2>2
<1>10. ASSUME patient'
       PROVE  /\ \A i \in DOMAIN workers' : Matches(workers'[i].request, tabs')
              /\ \A i \in DOMAIN events' : Matches(events'[i][1].request, tabs')
  <2>1. /\ \A i \in DOMAIN workers : Matches(workers[i].request, tabs)
        /\ \A i \in DOMAIN events : Matches(events[i][1].request, tabs)
    BY <1>1, <1>10 DEF InspectorInv, QueuesOK
  <2>2. ASSUME NEW r, r.tab \in TabNames, Matches(r, tabs)
        PROVE  Matches(r, tabs')
    BY <1>9, <2>2 DEF Matches
  <2>3. ASSUME NEW i \in DOMAIN workers'
        PROVE  Matches(workers'[i].request, tabs')
    <3>1. PICK r : r = workers[i].request
      OBVIOUS
    <3>2. workers' = workers /\ workers[i] \in Workers /\ Matches(r, tabs)
      BY <1>1, <1>2, <2>1, <2>3, <3>1
    <3>3. r.tab \in TabNames
      BY <3>1, <3>2 DEF Workers, Asks
    <3> QED BY <2>2, <3>1, <3>2, <3>3
  <2>4. ASSUME NEW i \in DOMAIN events'
        PROVE  Matches(events'[i][1].request, tabs')
    <3>1. PICK r : r = events[i + 1][1].request
      OBVIOUS
    <3>2. events[i + 1] \in Workers \X {"done", "failed"} /\ events'[i] = events[i + 1] /\ Matches(r, tabs)
      BY <1>2, <1>4, <2>1, <2>4, <3>1
    <3>3. r.tab \in TabNames
      BY <3>1, <3>2 DEF Workers, Asks
    <3> QED BY <2>2, <3>1, <3>2, <3>3
  <2> QED BY <2>3, <2>4
<1>11. QueuesOK'
  BY <1>1, <1>2, <1>4, <1>10 DEF QueuesOK
<1>12. SessionsOK'
  BY <1>1 DEF InspectorInv, SessionsOK
<1> QED BY <1>1, <1>9, <1>11, <1>12 DEF InspectorInv

LEMMA CloseKeeps ==
  ASSUME InspectorInv, Close
  PROVE  InspectorInv'
<1> DEFINE kept == IF Len(workers) < PoolSize THEN Len(workers) ELSE PoolSize
<1>1. /\ workers' = [i \in 1 .. kept |-> Detached(workers[i])]
      /\ events' = [i \in DOMAIN events |-> <<Detached(events[i][1]), events[i][2]>>]
      /\ auto' = auto /\ saved' = saved /\ pending' = pending /\ fetches' = fetches /\ UNCHANGED <<view, patient>>
  BY DEF Close
<1>2. workers \in Seq(Workers) /\ events \in Seq(Workers \X {"done", "failed"})
  BY DEF InspectorInv, QueuesOK
<1>3. kept \in Nat /\ kept <= Len(workers)
  BY <1>2, InspectorAssumption
<1>4. \A w \in Workers : Detached(w) \in Workers /\ Detached(w).request = w.request
  BY DEF Detached, Workers
<1> HIDE DEF kept
<1>5. \A i \in 1 .. kept : i \in DOMAIN workers /\ Detached(workers[i]) \in Workers /\ Detached(workers[i]).request = workers[i].request
  BY <1>2, <1>3, <1>4
<1>6. workers' \in Seq(Workers) /\ \A i \in DOMAIN workers' : i \in DOMAIN workers /\ workers'[i].request = workers[i].request
  BY <1>1, <1>3, <1>5
<1> DEFINE signal(i) == <<Detached(events[i][1]), events[i][2]>>
<1>7. \A i \in DOMAIN events : signal(i) \in Workers \X {"done", "failed"} /\ signal(i)[1].request = events[i][1].request
  BY <1>2, <1>4
<1> HIDE DEF signal
<1>8. events' = [i \in DOMAIN events |-> signal(i)]
  BY <1>1 DEF signal
<1>9. /\ events' \in Seq(Workers \X {"done", "failed"})
      /\ \A i \in DOMAIN events' : i \in DOMAIN events /\ events'[i][1].request = events[i][1].request
  <2>1. PICK n \in Nat : DOMAIN events = 1 .. n
    BY <1>2
  <2> QED BY <1>7, <1>8, <2>1
<1>10. ASSUME patient'
       PROVE  /\ \A i \in DOMAIN workers' : Matches(workers'[i].request, tabs')
              /\ \A i \in DOMAIN events' : Matches(events'[i][1].request, tabs')
  <2>1. tabs' = tabs /\ patient
    BY <1>1, <1>10, ViewStays
  <2>2. /\ \A i \in DOMAIN workers : Matches(workers[i].request, tabs)
        /\ \A i \in DOMAIN events : Matches(events[i][1].request, tabs)
    BY <2>1 DEF InspectorInv, QueuesOK
  <2> QED BY <1>6, <1>9, <2>1, <2>2
<1>11. QueuesOK'
  BY <1>6, <1>9, <1>10 DEF QueuesOK
<1>12. SessionsOK'
  BY <1>1 DEF InspectorInv, SessionsOK
<1> QED BY <1>1, <1>11, <1>12, ViewStays DEF InspectorInv

----------------------------------------------------------------------------
(* The theorems *)

LEMMA UserKeeps ==
  ASSUME InspectorInv, User
  PROVE  InspectorInv'
<1>1. ASSUME NEW id \in NodeIds, NEW prefer \in BOOLEAN, Activate(id, prefer)
      PROVE  InspectorInv'
  BY <1>1, ActivateKeeps
<1>2. ASSUME NEW id \in NodeIds, ClickNode(id)
      PROVE  InspectorInv'
  BY <1>2, ClickNodeKeeps
<1>3. ASSUME NEW e \in EdgeIds, ClickEdge(e)
      PROVE  InspectorInv'
  BY <1>3, ClickEdgeKeeps
<1>4. CASE ActivateEdge
  BY <1>4, ActivateEdgeKeeps
<1>5. ASSUME result # None, NEW a \in Items, ChooseArtifact(a)
      PROVE  InspectorInv'
  BY <1>5, ChooseArtifactKeeps
<1>6. ASSUME result # None, NEW visible \in SUBSET Items, FilterArtifacts(visible)
      PROVE  InspectorInv'
  BY <1>6, FilterArtifactsKeeps
<1>7. ASSUME NEW m \in Modes, ChooseMode(m)
      PROVE  InspectorInv'
  BY <1>7, ChooseModeKeeps
<1>8. ASSUME NEW m \in Modes, NEW s \in NodeIds \cup {None}, ActivateRecipe(m, s)
      PROVE  InspectorInv'
  BY <1>8, ActivateRecipeKeeps
<1>9. ASSUME NEW l \in SwitchedLayers, ToggleLayer(l)
      PROVE  InspectorInv'
  BY <1>9, ToggleLayerKeeps
<1>10. CASE ToggleAuto
  BY <1>10, ToggleAutoKeeps
<1>11. ASSUME NEW t \in TabNames, PressButton(t)
       PROVE  InspectorInv'
  BY <1>11, PressButtonKeeps
<1>12. ASSUME tabs["git"].files # None, NEW path \in FilesOf[tabs["git"].files.id], ClickFile(path)
       PROVE  InspectorInv'
  BY <1>12, ClickFileKeeps
<1>13. CASE SaveSession
  BY <1>13, SaveSessionKeeps
<1>14. CASE LoadSession
  BY <1>14, LoadSessionKeeps
<1>15. CASE Close
  BY <1>15, CloseKeeps
<1> QED BY <1>1, <1>2, <1>3, <1>4, <1>5, <1>6, <1>7, <1>8, <1>9, <1>10, <1>11, <1>12, <1>13, <1>14, <1>15 DEF User

LEMMA InspectorInvNext == InspectorInv /\ [Next]_vars => InspectorInv'
<1> SUFFICES ASSUME InspectorInv, [Next]_vars PROVE InspectorInv'
  OBVIOUS
<1>1. CASE User
  BY <1>1, UserKeeps
<1>2. ASSUME NEW r \in Result, NEW e \in EdgeIds \cup {None}, AnalysisFinished(r, e)
      PROVE  InspectorInv'
  BY <1>2, AnalysisFinishedKeeps
<1>3. CASE Pool
  BY <1>3, WorkerEndsKeeps DEF Pool
<1>4. CASE TakeAnswer
  BY <1>4, TakeAnswerKeeps
<1>5. CASE UNCHANGED vars
  <2>1. /\ UNCHANGED <<view, patient>> /\ workers' = workers /\ events' = events /\ saved' = saved /\ pending' = pending
        /\ auto' = auto /\ fetches' = fetches
    BY <1>5 DEF vars, view
  <2>2. QueuesOK'
    BY <2>1, ViewStays DEF InspectorInv, QueuesOK
  <2>3. SessionsOK'
    BY <2>1 DEF InspectorInv, SessionsOK
  <2> QED BY <2>1, <2>2, <2>3, ViewStays DEF InspectorInv
<1> QED BY <1>1, <1>2, <1>3, <1>4, <1>5 DEF Next

\* Whatever is done in the window and whenever the workers answer: the view is settled,
\* the requests that are out match their tabs for a user who waits, and the sessions
\* name what was drawn.
THEOREM InspectorInvariance == Spec => []InspectorInv
  BY InspectorInitInv, InspectorInvNext, PTL DEF Spec

\* Of any result with artifacts a slice is drawn, and one node or one edge of it is
\* selected (render_current_slice, _show_node, _show_edge, _apply_session).
THEOREM SelectionCorrect == Spec => []SelectionIsDrawn
<1>1. ASSUME InspectorInv
      PROVE  SelectionIsDrawn
  <2> SUFFICES ASSUME result # None, Items # {}
               PROVE  /\ slice # None /\ DOMAIN slice.nodes \subseteq DOMAIN Graph.nodes /\ slice.edges \subseteq Graph.edges
                      /\ edge # None => node = None /\ edge \in slice.edges
                      /\ edge = None => node \in DOMAIN slice.nodes
    BY DEF SelectionIsDrawn
  <2>1. HasItems(View) /\ View.result \in Result
    BY <1>1, Standing, ViewIs DEF HasItems, ItemsOf, Items, Graph, Views
  <2>2. Cut(View)
    BY <1>1, <2>1, Standing DEF Settled
  <2>3. CutFrom(GraphOf[View.result], View.slice)
    BY <2>2 DEF Cut
  <2>4. View.slice # None /\ DOMAIN View.slice.nodes \subseteq DOMAIN GraphOf[View.result].nodes
        /\ View.slice.edges \subseteq GraphOf[View.result].edges
    BY <2>1, <2>3, CutsAreSlices DEF CutFrom
  <2> QED BY <2>2, <2>4, ViewIs DEF Cut, Graph
<1> QED BY <1>1, InspectorInvariance, PTL

\* The tabs are about what is selected, an answer that comes late carries its name, and a
\* user who waits for each answer sees only what is selected (the slots of the workers'
\* signals and the tabs' set_ and show_ functions).
THEOREM DetailsCorrect == Spec => []DetailsAreOfSelection
<1>1. ASSUME InspectorInv
      PROVE  DetailsAreOfSelection
  <2>1. \A t \in TabNames : tabs[t] \in Tab /\ TabOK(t, tabs[t]) /\ (patient => Waited(t, tabs[t]))
    BY <1>1, ViewIsSettled
  <2>2. LateAnswersAreNamed
    BY <2>1 DEF LateAnswersAreNamed, TabOK, TabNames
  <2>3. ASSUME result # None, Items # {}, NEW t \in TabNames
        PROVE  tabs[t].of = None \/ tabs[t].of.id = node \/ (t = "package" /\ edge # None)
    <3>1. HasItems(View)
      BY <2>3, ViewIs DEF HasItems, ItemsOf, Items, Graph
    <3>2. About(View)
      BY <1>1, <3>1, Standing DEF Settled
    <3> QED BY <3>2, ViewIs DEF About
  <2>4. ASSUME patient
        PROVE  /\ \A t \in TabNames : tabs[t].of = None \/ tabs[t].body \in {None, Error, tabs[t].of}
               /\ tabs["git"].files \in {None, tabs["git"].of}
               /\ tabs["git"].diff # None => tabs["git"].diff.path \in FilesOf[tabs["git"].diff.of.id]
    <3>1. \A t \in TabNames : Waited(t, tabs[t])
      BY <2>1, <2>4
    <3>2. "git" \in TabNames
      BY DEF TabNames
    <3> QED BY <3>1, <3>2 DEF Waited
  <2> QED BY <2>2, <2>3, <2>4 DEF DetailsAreOfSelection
<1> QED BY <1>1, InspectorInvariance, PTL

\* A session that is loaded over the graph it was saved of, with the same layers, restores
\* the artifact, the mode, the slice and the node or edge that was selected, whatever was
\* drawn in between (_apply_session).
THEOREM SessionCorrect == Spec => SessionRestores
<1> DEFINE loads == /\ pending # None /\ result' = pending.result /\ results' # results
                    /\ pending.artifact # None /\ pending.mode # "Node Neighborhood" /\ pending.layers = layers
           restored == /\ artifact' = pending.artifact /\ mode' = pending.mode /\ slice' = pending.slice
                       /\ node' = pending.node /\ edge' = pending.edge
<1>1. ASSUME InspectorInv, [Next]_vars, loads
      PROVE  restored
  <2>1. PICK r \in Result, e \in EdgeIds \cup {None} : AnalysisFinished(r, e)
    <3>1. ~(UNCHANGED vars) /\ ~Pool /\ ~TakeAnswer
      BY <1>1 DEF vars, Pool, WorkerEnds, TakeAnswer
    <3>2. ~User
      BY <1>1 DEF User, UserTurns, Activate, ClickNode, ClickEdge, ActivateEdge, ChooseArtifact, FilterArtifacts,
                  ChooseMode, ActivateRecipe, ToggleLayer, ToggleAuto, PressButton, ClickFile, SaveSession,
                  LoadSession, Close
    <3> QED BY <1>1, <3>1, <3>2 DEF Next
  <2>2. /\ result' = r
        /\ pending # None /\ Restorable(pending, r, layers) => restored
    BY <1>1, <2>1, AnalysisFinishedKeeps
  <2> QED BY <1>1, <2>2 DEF Restorable
<1>2. InspectorInv /\ [Next]_vars => [loads => restored]_vars
  BY <1>1
<1> QED BY <1>2, InspectorInvariance, PTL DEF Spec, SessionRestores
=============================================================================
