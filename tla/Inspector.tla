----------------------------- MODULE Inspector -----------------------------
(***************************************************************************)
(* Looking at a result in the workbench (gui/qt_app.py): the artifact, the *)
(* slice of the graph that is drawn, the node or edge that is selected in  *)
(* it, and the detail tabs that ask workers for more.  Handlers and slots  *)
(* run on the GUI thread, one at a time; workers run on the pool beside    *)
(* them and may end in any order; their signals queue up.                  *)
(*                                                                         *)
(* Results come from the analyses of module Workbench, at any time.  An    *)
(* edge stands for its index in the slice that is drawn.                   *)
(***************************************************************************)
EXTENDS GraphSlices, DetailTabs

CONSTANTS Result, GraphOf,  \* results, and their graphs
          FilesOf,          \* per commit: the files it changed
          Queryable,        \* commits whose repository has a usable URL
          PoolSize, SwitchedLayers,
          MaxSteps, MaxFetches, MaxResults  \* bounds: what the user does, what is
                                            \* fetched, and analyses that finish

NodeIds == UNION {DOMAIN GraphOf[r].nodes : r \in Result}
EdgeIds == UNION {GraphOf[r].edges : r \in Result}

ASSUME InspectorAssumption ==
  PoolSize \in Nat \ {0} /\ MaxSteps \in Nat /\ SwitchedLayers \subseteq DOMAIN Layers

\* add_edge refuses an edge whose ends are not there.
ASSUME GraphsAssumption ==
  \A r \in Result : \A e \in GraphOf[r].edges : {e[1], e[2]} \subseteq DOMAIN GraphOf[r].nodes

\* Of some artifacts, and of the nodes one relation comes from, one is the first by its
\* text (sorted()[0]): ids of one kind are told apart by their numbers.
ASSUME FirstAssumption ==
  /\ \A r \in Result : \A ids \in (SUBSET {id \in DOMAIN GraphOf[r].nodes : Kind(id) = "rpm"}) \ {{}} :
       FirstId(ids) \in ids
  /\ \A r \in Result : \A id \in DOMAIN GraphOf[r].nodes, relation \in Range(Upwards) :
       \A ids \in (SUBSET Incoming(GraphOf[r], id, relation)) \ {{}} : FirstId(ids) \in ids

\* What may be drawn, and what a tab may be about.
Parts == UNION {{[id \in ids |-> GraphOf[r].nodes[id]] : ids \in SUBSET DOMAIN GraphOf[r].nodes} : r \in Result}
Slices == [nodes : Parts, edges : SUBSET EdgeIds, focus : NodeIds]
Subjects == [id : NodeIds, known : BOOLEAN]

\* None and Error stand for themselves.
ASSUME NoneAssumption ==
  /\ None \notin Result /\ None \notin NodeIds /\ None \notin EdgeIds
  /\ None \notin Slices /\ None \notin Subjects
  /\ Error \notin Subjects /\ Error # None

VARIABLES result, artifact, \* the result, and the current item of the artifact list
          mode, layers,     \* mode_combo, and the layers that are switched on
          slice,            \* current_slice, and the result it was cut from
          node, edge,       \* selected_node_id, selected_edge_index
          tabs, auto,       \* the detail tabs, and their shared auto-fetch box
          workers, events,  \* requests not answered yet; signals not taken yet
          latest,           \* the last CVE and the last package request
          saved, pending,   \* a session that was saved; the one to be applied
          closed, steps, fetches, results,
          patient           \* no tab was turned while it was asking (a recipe
                            \* may turn one twice)

vars == <<result, artifact, mode, layers, slice, node, edge, tabs, auto, workers, events,
          latest, saved, pending, closed, steps, fetches, results, patient>>

view == <<result, artifact, mode, layers, slice, node, edge, tabs>>

Modes == {"Trust Path", "Dependency Evidence", "Security Context", "Node Neighborhood"}
TabNames == {"cve", "package", "git"}

Graph == GraphOf[result]
Items == {id \in DOMAIN Graph.nodes : Kind(id) = "rpm"}  \* GraphQueries.artifacts

Init ==
  /\ result = None /\ artifact = None /\ mode = "Trust Path"
  /\ layers = DOMAIN Layers
  /\ slice = None /\ node = None /\ edge = None
  /\ tabs = [t \in TabNames |-> EmptyTab] /\ auto = FALSE
  /\ workers = << >> /\ events = << >> /\ latest = [t \in {"cve", "package"} |-> 0]
  /\ saved = None /\ pending = None
  /\ closed = FALSE /\ steps = 0 /\ fetches = 0 /\ results = 0 /\ patient = TRUE

----------------------------------------------------------------------------
(* What the handlers do to the view v = [result, artifact, mode, layers,   *)
(* slice, node, edge, tabs, asked], one function of the window each; they  *)
(* read auto, and "asked" is the requests they have sent out so far.       *)

View == [result |-> result, artifact |-> artifact, mode |-> mode, layers |-> layers,
         slice |-> slice, node |-> node, edge |-> edge, tabs |-> tabs, asked |-> << >>]

InResult(v, id) == id \in DOMAIN GraphOf[v.result].nodes
InSlice(v, id) == v.slice # None /\ id \in DOMAIN v.slice.nodes

\* A subject of a tab: what it is called, and whether it can be fetched.
Subject(id, known) == [id |-> id, known |-> known]

\* cve_id_in, _errata_details
CveTab(v, id) ==
  IF Kind(id) = "cve" THEN SetTab(v.tabs["cve"], Subject(id, TRUE), auto)
  ELSE IF Kind(id) = "errata" /\ InResult(v, id) THEN ShowErrata(Subject(id, FALSE))
  ELSE SetTab(v.tabs["cve"], None, auto)

\* _package_node
PackageTab(v, id) ==
  SetTab(v.tabs["package"],
         IF Kind(id) \in {"rpm", "srpm", "source"} /\ InResult(v, id) THEN Subject(id, TRUE) ELSE None,
         auto)

\* _git_commit_node, _git_repo_url
GitTab(v, id) ==
  SetTab(v.tabs["git"],
         IF Kind(id) = "commit" /\ InResult(v, id) THEN Subject(id, id \in Queryable) ELSE None,
         auto)

\* What tabs that have just been set ask for.
Requests(shown) ==
  LET of(t) == IF shown[t].header[1] = "fetching" THEN <<Request(t, shown[t])>> ELSE << >>
  IN  of("cve") \o of("package") \o of("git")

TabsFor(v, id) ==
  [t \in TabNames |-> CASE t = "cve"     -> CveTab(v, id)
                       [] t = "package" -> PackageTab(v, id)
                       [] t = "git"     -> GitTab(v, id)]

WithTabs(v, shown) == [v EXCEPT !.tabs = shown, !.asked = @ \o Requests(shown), !.edge = None]

\* _show_node: an id that neither graph has changes nothing.
ShowNode(v, id) ==
  IF ~InResult(v, id) /\ ~InSlice(v, id) THEN v
  ELSE [WithTabs(v, TabsFor(v, id)) EXCEPT !.node = IF InSlice(v, id) THEN id ELSE @]

\* Mutant of _show_edge: the tabs are left alone.
ShowEdge_KeepsTabs(v, e, fromSlice) ==
  IF fromSlice THEN [v EXCEPT !.edge = e, !.node = None] ELSE v

\* _show_edge: the Package tab is left alone.
ShowEdge(v, e, fromSlice) ==
  LET shown == [v EXCEPT !.tabs["cve"] = SetTab(@, None, auto), !.tabs["git"] = SetTab(@, None, auto)]
  IN  IF fromSlice THEN [shown EXCEPT !.edge = e, !.node = None] ELSE shown

\* The slice of the mode; a neighborhood is that of the selected node if it is known.
CurrentSlice(v) ==
  LET g == GraphOf[v.result]
      focus == IF v.node # None /\ InResult(v, v.node) THEN v.node ELSE v.artifact
      whole == CASE v.mode = "Trust Path"          -> TrustPathSlice(g, v.artifact)
                 [] v.mode = "Dependency Evidence" -> DependencyEvidence(g, v.artifact)
                 [] v.mode = "Security Context"    -> SecurityContext(g, v.artifact)
                 [] v.mode = "Node Neighborhood"   -> NodeNeighborhood(g, focus)
  IN  FilterGraphLayers(whole, v.layers)

Drawn(v, cut) == ShowNode([v EXCEPT !.slice = cut, !.node = cut.focus, !.edge = None], cut.focus)

\* Mutant of render_current_slice: an edge that is selected stays so.
Render_KeepsEdge(v) ==
  IF v.result = None \/ v.artifact = None THEN v
  ELSE [Drawn(v, CurrentSlice(v)) EXCEPT !.edge = v.edge]

\* render_current_slice: nothing without a current artifact.
Render(v) == IF v.result = None \/ v.artifact = None THEN v ELSE Drawn(v, CurrentSlice(v))

\* mode_combo.setCurrentIndex, which draws if the mode is another one.
SetMode(v, m) == IF m = v.mode THEN v ELSE Render([v EXCEPT !.mode = m])

\* _select_artifact and _artifact_changed: the current one is only drawn again.
Selecting(v, a) == IF v.artifact = a THEN v ELSE [v EXCEPT !.artifact = a, !.node = a]
SelectArtifact(v, a) == Render(Selecting(v, a))

\* _navigate_to_node
NavigateToNode(v, id, preferArtifact) ==
  IF v.result = None \/ ~InResult(v, id) THEN v
  ELSE LET asArtifact == preferArtifact /\ Kind(id) = "rpm"
       IN  IF ~asArtifact /\ InSlice(v, id) THEN ShowNode(v, id)
           ELSE Render(IF asArtifact THEN Selecting(v, id)
                       ELSE [v EXCEPT !.node = id, !.mode = "Node Neighborhood"])

\* The first of the artifacts as they are listed.
FirstRow(v) ==
  LET items == {id \in DOMAIN GraphOf[v.result].nodes : Kind(id) = "rpm"}
  IN  IF items = {} THEN v ELSE SelectArtifact(v, FirstId(items))

Reselect(v, s, e) ==
  IF s.node # None THEN NavigateToNode(v, s.node, FALSE)
  ELSE IF s.edge # None /\ e \in v.slice.edges THEN ShowEdge(v, e, TRUE)
  ELSE v

SelectSaved(v, s, e) ==
  IF s.artifact = None \/ ~InResult(v, s.artifact) THEN FirstRow(v)
  ELSE Reselect(SelectArtifact(v, s.artifact), s, e)

\* Mutant of _apply_session: the mode is set when all is selected.
ApplySession_ModeLast(v, s, e) == SetMode(SelectSaved(v, s, e), s.mode)

\* _apply_session, to a result that was just listed: its mode, its artifact, then its
\* node or its edge.  An index into another slice is an edge of that slice, or none.
ApplySession(v, s, e) == SelectSaved(SetMode(v, s.mode), s, e)

----------------------------------------------------------------------------
(* The steps *)

Outstanding == workers # << >> \/ events # << >>

\* A worker is its number, its request and the signals that are still connected.
Worker(number, request) == [number |-> number, request |-> request, connected |-> TRUE]

Ask(requests) ==
  /\ fetches + Len(requests) <= MaxFetches
  /\ fetches' = fetches + Len(requests)
  /\ workers' = workers \o [i \in DOMAIN requests |-> Worker(fetches + i, requests[i])]
  /\ latest' = [t \in DOMAIN latest |->
                  LET of(r) == r.tab = t
                      mine == {i \in DOMAIN requests : of(requests[i])}
                  IN  IF mine = {} THEN latest[t] ELSE fetches + CHOOSE i \in mine : TRUE]

\* One handler: the window turns to the view v, and the tabs that ask do so.
Turn(v) ==
  /\ result' = v.result /\ artifact' = v.artifact /\ mode' = v.mode /\ layers' = v.layers
  /\ slice' = v.slice /\ node' = v.node /\ edge' = v.edge /\ tabs' = v.tabs
  /\ Ask(v.asked)
  /\ patient' = (patient /\ (Outstanding => v.tabs = tabs)
                 /\ \A i \in DOMAIN v.asked : v.asked[i].of = v.tabs[v.asked[i].tab].of)
  /\ UNCHANGED <<auto, events, closed, saved>>

UserTurns(v) ==
  /\ ~closed /\ result # None /\ steps < MaxSteps
  /\ steps' = steps + 1
  /\ Turn(v) /\ UNCHANGED <<pending, results>>

\* A row of a list or table, or the search, that names a node of any result (findings
\* of the old result and comparisons stay on screen).
Activate(id, preferArtifact) == UserTurns(NavigateToNode(View, id, preferArtifact))

\* A node of the drawn graph, of its table or found by the search in it.
ClickNode(id) == InSlice(View, id) /\ UserTurns(ShowNode(View, id))

ClickEdge(e) == slice # None /\ e \in slice.edges /\ UserTurns(ShowEdge(View, e, TRUE))

\* A row of the table of a node's edges, which names an edge of the result.
ActivateEdge == result # None /\ Graph.edges # {} /\ UserTurns(ShowEdge(View, None, FALSE))

ChooseArtifact(a) == a \in Items /\ a # artifact /\ UserTurns(SelectArtifact(View, a))
\* _filter_artifacts: the filter leaves some of them; a current one that it hides gives
\* way to the first of them.
FilterArtifacts(visible) ==
  /\ visible # {} /\ visible \subseteq Items /\ artifact \in Items \ visible
  /\ UserTurns(SelectArtifact(View, FirstId(visible)))

ChooseMode(m) == m # mode /\ UserTurns(SetMode(View, m))

ToggleLayer(l) ==
  UserTurns(Render([View EXCEPT !.layers = IF l \in @ THEN @ \ {l} ELSE @ \cup {l}]))

\* _recipe_activated: a mode, then its subject or the slice once more.
FollowRecipe(v, subject) == IF subject = None THEN Render(v) ELSE NavigateToNode(v, subject, TRUE)
ActivateRecipe(m, subject) == UserTurns(FollowRecipe(SetMode(View, m), subject))

\* _sync_auto_fetch
ToggleAuto ==
  /\ ~closed /\ steps < MaxSteps
  /\ steps' = steps + 1 /\ auto' = ~auto
  /\ UNCHANGED <<view, workers, events, latest, saved, pending, closed, fetches, results, patient>>

\* The button of a tab.
PressButton(t) ==
  /\ ~closed /\ tabs[t].on /\ steps < MaxSteps
  /\ steps' = steps + 1
  /\ tabs' = [tabs EXCEPT ![t] = Asking(@)]
  /\ Ask(<<Request(t, tabs[t])>>)
  /\ patient' = (patient /\ ~Outstanding)
  /\ UNCHANGED <<result, artifact, mode, layers, slice, node, edge, auto, events, saved,
                 pending, closed, results>>

\* _file_clicked: the path comes from the list, the commit from the selection.
ClickFile(path) ==
  LET tab == tabs["git"]
  IN  /\ ~closed /\ tab.files # None /\ path \in FilesOf[tab.files.id]
      /\ Enabled(tab) /\ steps < MaxSteps
      /\ steps' = steps + 1
      /\ tabs' = [tabs EXCEPT !["git"].header = <<"fetching diff", tab.of>>]
      /\ Ask(<<[tab |-> "git", of |-> tab.of, path |-> path]>>)
      /\ patient' = (patient /\ ~Outstanding)
      /\ UNCHANGED <<result, artifact, mode, layers, slice, node, edge, auto, events, saved,
                     pending, closed, results>>

\* save_session; load_session, which starts the analysis whose result it is applied to.
SaveSession ==
  /\ ~closed /\ steps < MaxSteps /\ result # None
  /\ steps' = steps + 1
  /\ saved' = [result |-> result, mode |-> mode, artifact |-> artifact, node |-> node,
               edge |-> edge, slice |-> slice, layers |-> layers]
  /\ UNCHANGED <<view, auto, workers, events, latest, pending, closed, fetches, results, patient>>

LoadSession ==
  /\ ~closed /\ saved # None /\ pending = None
  /\ pending' = saved
  /\ UNCHANGED <<view, auto, workers, events, latest, saved, closed, steps, fetches, results, patient>>

\* _analysis_finished: the artifacts are listed anew; then the session that waits, or the
\* first row.  Without artifacts nothing is drawn and the old slice stays.
AnalysisFinished(r, e) ==
  LET listed == [View EXCEPT !.result = r, !.artifact = None]
  IN  /\ ~closed /\ results < MaxResults
      /\ results' = results + 1
      /\ \E v \in {IF pending = None THEN FirstRow(listed) ELSE ApplySession(listed, pending, e)} :
           /\ IF pending = None \/ pending.edge = None THEN e = None
              ELSE v.slice = pending.slice => e = pending.edge
           /\ Turn(v)
      /\ pending' = None /\ UNCHANGED steps

\* Mutant of the workers' run(): a fetch that fails says nothing.
WorkerEnds_Silent(i, outcome) ==
  /\ i \in DOMAIN workers /\ i <= PoolSize
  /\ workers' = RemoveAt(workers, i)
  /\ events' = IF workers[i].connected /\ outcome # "failed" THEN Append(events, <<workers[i], outcome>>)
               ELSE events
  /\ UNCHANGED <<view, auto, latest, saved, pending, closed, steps, fetches, results, patient>>

\* run() of a worker the pool has started (the first of those that are left).
WorkerEnds(i, outcome) ==
  /\ i \in DOMAIN workers /\ i <= PoolSize
  /\ workers' = RemoveAt(workers, i)
  /\ events' = IF workers[i].connected THEN Append(events, <<workers[i], outcome>>) ELSE events
  /\ UNCHANGED <<view, auto, latest, saved, pending, closed, steps, fetches, results, patient>>

\* _on_cve_details, _on_package_info, _on_git_commit, _on_git_diff and their failures; a
\* signal that was disconnected since reaches nobody.
TakeAnswer ==
  /\ events # << >>
  /\ events' = Tail(events)
  /\ LET worker == Head(events)[1]
         request == worker.request
     IN  tabs' = IF worker.connected
                 THEN [tabs EXCEPT ![request.tab] = Answered(@, request, Head(events)[2])]
                 ELSE tabs
  /\ UNCHANGED <<result, artifact, mode, layers, slice, node, edge, auto, workers, latest,
                 saved, pending, closed, steps, fetches, results, patient>>

\* The last CVE and package workers are disconnected.
Detached(w) ==
  [w EXCEPT !.connected = ~(w.request.tab \in DOMAIN latest /\ latest[w.request.tab] = w.number)]

\* closeEvent: what the pool has not started is dropped; commits and diffs are not
\* detached.
Close ==
  /\ ~closed
  /\ closed' = TRUE
  /\ workers' = [i \in 1 .. IF Len(workers) < PoolSize THEN Len(workers) ELSE PoolSize |->
                   Detached(workers[i])]
  /\ events' = [i \in DOMAIN events |-> <<Detached(events[i][1]), events[i][2]>>]
  /\ UNCHANGED <<view, auto, latest, saved, pending, steps, fetches, results, patient>>

----------------------------------------------------------------------------
User ==
  \/ \E id \in NodeIds : (\E prefer \in BOOLEAN : Activate(id, prefer)) \/ ClickNode(id)
  \/ \E e \in EdgeIds : ClickEdge(e)
  \/ ActivateEdge
  \/ result # None /\ \E a \in Items : ChooseArtifact(a)
  \/ result # None /\ \E visible \in SUBSET Items : FilterArtifacts(visible)
  \/ \E m \in Modes : ChooseMode(m) \/ \E s \in NodeIds \cup {None} : ActivateRecipe(m, s)
  \/ \E l \in SwitchedLayers : ToggleLayer(l)
  \/ ToggleAuto
  \/ \E t \in TabNames : PressButton(t)
  \/ tabs["git"].files # None /\ \E path \in FilesOf[tabs["git"].files.id] : ClickFile(path)
  \/ SaveSession
  \/ LoadSession
  \/ Close

Pool == \E i \in 1 .. MaxFetches, outcome \in {"done", "failed"} : WorkerEnds(i, outcome)

Next ==
  \/ User
  \/ \E r \in Result, e \in EdgeIds \cup {None} : AnalysisFinished(r, e)
  \/ Pool
  \/ TakeAnswer

Spec == Init /\ [][Next]_vars

\* A fetch ends, every request has a timeout; the event loop takes what is queued.
FairSpec == Spec /\ WF_vars(Pool) /\ WF_vars(TakeAnswer)

----------------------------------------------------------------------------
(* Properties *)

\* A result with artifacts is drawn: the slice is cut from it, and either one node or
\* one edge of that slice is selected, whatever was clicked, switched off, navigated to
\* or reloaded.  (Nothing is drawn of a result without artifacts, and the slice and the
\* selection of the result before it stay.)
SelectionIsDrawn ==
  result # None /\ Items # {} =>
    /\ slice # None /\ DOMAIN slice.nodes \subseteq DOMAIN Graph.nodes /\ slice.edges \subseteq Graph.edges
    /\ edge # None => node = None /\ edge \in slice.edges
    /\ edge = None => node \in DOMAIN slice.nodes

\* The answer of a worker may come after another row was selected: it is never shown as
\* that of the selected CVE or package, but under its own name, until that is fetched.
LateAnswersAreNamed ==
  \A t \in {"cve", "package"} :
    tabs[t].body \notin {None, Error} => tabs[t].header \in {<<"shows", tabs[t].body>>, <<"fetching", tabs[t].of>>}

\* The detail tabs are about the selected node (the Package tab until an edge is
\* clicked), late answers carry their name, and for a user who waits for each answer
\* the tabs show only what is selected, and a diff only of a file of its commit.
DetailsAreOfSelection ==
  /\ LateAnswersAreNamed
  /\ result # None /\ Items # {} =>
       \A t \in TabNames : tabs[t].of = None \/ tabs[t].of.id = node \/ (t = "package" /\ edge # None)
  /\ patient =>
       /\ \A t \in TabNames : tabs[t].of = None \/ tabs[t].body \in {None, Error, tabs[t].of}
       /\ tabs["git"].files \in {None, tabs["git"].of}
       /\ tabs["git"].diff # None => tabs["git"].diff.path \in FilesOf[tabs["git"].diff.of.id]

\* A session that is loaded over the graph it was saved of restores what was drawn and
\* selected (in a neighborhood, which is not saved, and with other layers it may not).
SessionRestores ==
  [][ pending # None /\ result' = pending.result /\ results' # results
        /\ pending.artifact # None /\ pending.mode # "Node Neighborhood" /\ pending.layers = layers =>
      /\ artifact' = pending.artifact /\ mode' = pending.mode /\ slice' = pending.slice
      /\ node' = pending.node /\ edge' = pending.edge ]_vars

\* A button that is off because its tab is fetching comes on again, also when the fetch
\* fails, unless the selection moves on or the window is closed.
RequestsAreAnswered ==
  \A t \in TabNames : (Enabled(tabs[t]) /\ ~tabs[t].on) ~> (tabs[t].on \/ ~Enabled(tabs[t]) \/ closed)
=============================================================================
