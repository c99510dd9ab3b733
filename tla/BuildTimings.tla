---------------------------- MODULE BuildTimings ----------------------------
(***************************************************************************)
(* How long a build took, as the document of ALBS has it                   *)
(* (provenance/build_analysis.py), the timeline and the Gantt rows of the  *)
(* workbench, the comparison of two builds' tasks (services/workbench.py), *)
(* and the inventory of what the tasks produced (provenance/inventory.py). *)
(*                                                                         *)
(* Of a task: [arch, started, finished, stats, tests, srpm, rpms].  Its    *)
(* stats are a tree of names: path |-> [delta, start], None for what is    *)
(* missing or cannot be read; tests is one such tree for each test task.   *)
(* The times of sign tasks and of the whole build are not followed.        *)
(***************************************************************************)
EXTENDS TrustPath

Seconds(duration) == IF duration = None THEN 0 ELSE duration

\* Mutant of _iter_timing_steps: what is inside a measured step is measured again.
TimingSteps_Nested(stats) == {p \in DOMAIN stats : stats[p].delta # None}

\* _iter_timing_steps: the outermost entries that have a time.
TimingSteps(stats) ==
  {p \in DOMAIN stats : /\ stats[p].delta # None
                        /\ \A q \in DOMAIN stats : IsStrictPrefix(q, p) => stats[q].delta = None}

\* _duration_between
Wall(task) ==
  IF None \in {task.started, task.finished} THEN None ELSE task.finished - task.started

Produced(task) == Len(task.rpms) + (IF task.srpm = None THEN 0 ELSE 1)

\* _test_step_totals, and the same sum over the tasks in _totals.
StepTotals(trees) ==
  LET with(name) == {i \in DOMAIN trees : name \in TimingSteps(trees[i])}
  IN  [name \in UNION {TimingSteps(trees[i]) : i \in DOMAIN trees} |->
         MapThenSumSet(LAMBDA i : trees[i][name].delta, with(name))]

\* _totals
Totals(tasks) ==
  [ aggregate |-> MapThenSumSet(LAMBDA t : Seconds(Wall(tasks[t])), DOMAIN tasks),
    critical  |-> Max({0} \cup {Seconds(Wall(tasks[t])) : t \in DOMAIN tasks}),
    steps     |-> StepTotals([t \in DOMAIN tasks |-> tasks[t].stats]) ]

----------------------------------------------------------------------------
(* The timeline.  A row is named by the way to it from its task. *)

Item(started, duration) == [started |-> started, duration |-> duration]

\* _task_timeline_item: the rows of a task ...
TimelineIds(t, task) ==
  LET totals == StepTotals(task.tests)
      groups == {g \in {"tests", "artifacts"} : \/ g = "tests" /\ DOMAIN totals # {}
                                                \/ g = "artifacts" /\ Produced(task) > 0}
  IN  {<<t>>} \cup {<<t, "step", p>> : p \in TimingSteps(task.stats)}
        \cup {<<t, g>> : g \in groups} \cup {<<t, "tests", p>> : p \in DOMAIN totals}

\* ... and what each of them shows.
TaskTimelineItem(task, id) ==
  CASE Len(id) = 1 -> Item(task.started, Wall(task))
    [] Len(id) = 2 -> Item(None, None)
    [] Len(id) = 3 /\ id[2] = "step" -> Item(task.stats[id[3]].start, task.stats[id[3]].delta)
    [] OTHER -> Item(None, StepTotals(task.tests)[id[3]])

\* _analysis_timeline_tree
Timeline(tasks) ==
  [id \in UNION {TimelineIds(t, tasks[t]) : t \in DOMAIN tasks} |-> TaskTimelineItem(tasks[id[1]], id)]

\* timeline_gantt_rows: a row that has no start of its own begins with the row it is in.
GanttRows(items) ==
  LET started == {id \in DOMAIN items : items[id].started # None}
      base == Min({items[id].started : id \in started})
      dated(id) == {n \in DOMAIN id : SubSeq(id, 1, n) \in started}
  IN  [id \in DOMAIN items |->
         [ offset   |-> IF dated(id) = {} THEN 0
                        ELSE items[SubSeq(id, 1, Max(dated(id)))].started - base,
           duration |-> Max({0, Seconds(items[id].duration)}) ]]

----------------------------------------------------------------------------

\* _compare_build_timings: a task stands for its arch, the last one of it for all.
LastOfArch(tasks) ==
  [arch \in {tasks[t].arch : t \in DOMAIN tasks} |->
     tasks[Max({t \in DOMAIN tasks : tasks[t].arch = arch})]]

TaskTimingState(task) == <<Wall(task), Len(task.tests), Produced(task)>>

CompareBuildTimings(left, right) ==
  LET l == LastOfArch(left)
      r == LastOfArch(right)
  IN  [ removed |-> DOMAIN l \ DOMAIN r, added |-> DOMAIN r \ DOMAIN l,
        changed |-> {a \in DOMAIN l \cap DOMAIN r : TaskTimingState(l[a]) # TaskTimingState(r[a])} ]

\* rpm_artifact_inventory, and its summary by the arch of the task.
Inventory(g) ==
  {i \in {id \in DOMAIN g.nodes : Kind(id) = "task"} \X Artifacts(g) : i[2] \in Outgoing(g, i[1], "produces")}
InventoryByArch(g, archOf) ==
  [arch \in {archOf[i[1]] : i \in Inventory(g)} |-> {i[2] : i \in {j \in Inventory(g) : archOf[j[1]] = arch}}]
=============================================================================
