# A verification project for albs-provenance-explorer

The repository builds a provenance graph of an AlmaLinux build (source package,
commit, build task, RPMs), enriches it with evidence from many sources
(dependency claims, errata, signatures, SBOMs), reconciles the claims, and shows
the result on the command line and in a desktop workbench. These modules model
its core in TLA+, check it with TLC on small instances, and prove the central
invariants with TLAPS for every instance. `PROJECT.json` lists components, runs,
mutants, the map from definitions to source lines, findings, hazards and theorems.

All paths below are under `albs_graph/` unless they say otherwise.

## 1. The system's parts

| part | state it keeps | operations | hard behaviour |
|---|---|---|---|
| provenance graph (`model/graph.py`) | node dict, edge list, three indexes | add_node, add_edge, update_metadata, remove_node, remove_edges_where | indexes that must agree after any mix of insertions and removals; Node objects with mutable metadata held in two places |
| recording and patches (`model/patch.py`) | a recorder that shares the attributes of a graph; a patch | wrap, wrap a copy, record, replay | sharing that ends when a method rebinds an attribute; a patch of live objects |
| reconciliation (`provenance/reconcile.py`, `reconcile_rules.py`) | resolution nodes and verdict edges in the graph | purge, group, evaluate, link | idempotence; independent sources |
| analysis pipeline (`pipeline.py`, `services/analysis.py`) | the run's recorder | steps in order, reconcile, return the graph | a step that fails; re-enriching a graph, also one from the store |
| errata evidence (`adapters/errata_source.py`, `errata.py`) | ERRATA nodes, FIXES edges, marks on RPM nodes | attach from a file, from one source, cross-checked | steps repeated in any order with answers that change |
| HTTP cache and live feeds (`adapters/_http_cache.py`, `security/live_feeds.py`) | cache files | get_or_fetch, TTL check and delete | threads and processes without a lock; crashes in a write |
| build catalog (`services/build_catalog.py`) | one JSON file | load, merge, save | several processes rewriting one file |
| workbench analyses (`gui/qt_app.py`) | fields, one-shot flags, workers, shown result, session | start an analysis (seven ways), worker signals, close | results that arrive after the window has moved on; flags used up by a start that fails |
| ALBS metadata (`adapters/albs.py`) | a JSON cache per build | fetch with TTL, parse to a graph | several sources in one build, with fallbacks for what a task does not name; TTL, stale or foreign cache file, half-written file |
| signature and CAS verification (`adapters/rpmsig.py`, `cas.py`) | marks on RPM, signature and CAS nodes | verify | repeated runs with other verdicts; nodes shared by RPMs |
| dependency universe (`provenance/universe.py`) | none (a graph) | build from dots or claims, merge, traverse | cycles; one name with two kinds of node |
| universe store (`store.py`, `services/universe.py`) | SQLite tables | save (replace or merge), load, migrate, recursive queries | processes that save and load at once, a crash in a migration, merge of re-saved rows, depth-bounded recursion on cycles |
| trust path, coverage and reports (`provenance/*.py`, `model/graph.py`) | none (functions of a graph) | path, report, focused graph, artifacts of a source, SLSA statement | nodes shared by several sources; flags that must agree with the path and the graph shown |
| enrichment adapters (`adapters/rpm_remote.py`, `dnf.py`, `sbom.py`, `python_deps.py`, ...), resolvers (`dependency/`) | none | fetch, parse, attach claims | partial answers; namesakes; one claim id for two claims |
| security data (`security/`) | marks on RPM nodes | verify an identity, match a feed | three writers of one identity |
| view models (`services/workbench.py`) | none (functions of a graph) | matrix, findings, drilldown, recipes, queries, comparison, timeline | many tables that each derive what is missing in their own way |
| inspection (`gui/qt_app.py`) | artifact, slice, node, edge, mode, layers, four detail tabs, session | click, filter, fetch on the thread pool, save and load | late answers after the selection changed; settings that select anew while they are restored |
| panels, dialogs, CLI, rendering, export | none | sequential | |

How they interact: the pipeline calls adapters with the recorder as their graph;
adapters fetch through the HTTP cache and write through `add_node`, `add_edge`,
`update_metadata`; reconciliation removes and rebuilds through the recorder; the
workbench runs `AnalysisService.analyze` on Qt's thread pool and gets its outcome
as queued signals and shows the result in the inspection; the result's build goes
to the catalog file, its metadata came through a cache file, a graph may go to the store and come back, and `AnalysisService.analyze_graph` and
`AnalysisPipeline.run` accept a graph that was enriched before ("Run enrichment
against an already loaded graph").

## 2. Modules

| module | models | composes |
|---|---|---|
| `GraphOps` | the graph's mutating methods as operators on a graph value | |
| `ProvenanceGraph` | one graph object and its callers | `GraphOps` |
| `RecordingGraph` | a recorded session, dry run and replay | `ProvenanceGraph` |
| `ReconcileRules` | the rules and the verdict on a group of claims | |
| `AnalysisPipeline` | runs over one graph, reconciliation, save and load | `GraphOps`, `ReconcileRules` |
| `ErrataEvidence` | the two errata steps over a graph, the three-state answer | |
| `TrustPath` | the path, the trust report, the focused graph, lineage and SLSA as operators | |
| `BuildTimings` | steps, totals, timeline, Gantt rows and inventory of a build's tasks | `TrustPath` |
| `BuildGraph` | the graph of a build, task by task; verification and evidence | `BuildTimings` |
| `EvidenceReports` | matrix, security, coverage, findings, drilldown, recipes, comparison, source rows | `TrustPath` |
| `SecuritySources` | what the build SBOM, the CPE dictionary and the advisories write on RPMs | `EvidenceReports` |
| `DependencySources` | what each adapter claims of dependencies | `TrustPath` |
| `Enrichment` | a run over the default steps, between them every report | `SecuritySources`, `DependencySources`, `ReconcileRules` |
| `ReadThroughCache` | abstract: what a read-through cache promises | |
| `HttpCache` | the cache directory, one file system call per step | refines `ReadThroughCache` |
| `SharedFiles` | what the files shared by processes have in common | |
| `BuildCatalog` | the catalog file, one file operation per step | `SharedFiles` |
| `MetadataCache` | the metadata cache file, one file operation per step | `SharedFiles` |
| `BuildSources` | processes that use both files | `BuildCatalog`, `MetadataCache` |
| `Universe` | building, merging and querying a dependency universe, in memory and in SQL | |
| `UniverseStore` | the SQLite store: migrations, replace, merge, load | `Universe` |
| `Workbench` | starting, running, finishing analyses; sessions; closing | |
| `GraphSlices` | what each mode and layer draws of a graph | `TrustPath` |
| `DetailTabs` | one detail tab: its request, header, body, button | `TrustPath` |
| `Inspector` | looking at results: clicks, modes, sessions, detail workers | `GraphSlices`, `DetailTabs` |
| `RecordingGraph_proofs`, `AnalysisPipeline_proofs`, `BuildGraph_proofs`, `HttpCache_proofs`, `BuildSources_proofs`, `UniverseStore_proofs`, `Workbench_proofs`, `Inspector_proofs` | theorems | the module each is named after; `RecordingGraph_proofs` also has those of `ProvenanceGraph`, `AnalysisPipeline_proofs` those of `ErrataEvidence`, `BuildGraph_proofs` those of `Enrichment` |
| `MC*` | instances for TLC | |

### Correspondence

**ProvenanceGraph.** `graph` is the object; `meta` is the heap of metadata dicts,
indexed by the `ref` of a Node object, so that two Node objects with one id are
told apart. The edge list is the set of its edges because the code only appends or
filters and edges carry their creation number. Each public method is an action; a
call that raises is no step, as every method checks before it writes.

**RecordingGraph.** `target` is what is wrapped, `recorder` what the recorder's
attributes hold, `rebound` which of them have parted from the target's. In-place
changes go `Through` to the target; `remove_node` rebinds the edge list,
`remove_edges_where` the list and both adjacency dicts. `CopyWith` builds the new
Node objects of `copy()`. `ReplayNode`, `ReplayEdge` and `ReplayUpdate` are the
bodies of the three loops of `EvidencePatch.apply`: `Before` orders the loops,
`done` counts what is replayed of each list, and `replayOk` is FALSE once a call has
raised.

**AnalysisPipeline.** A claim is added by `AddClaim` in the order of
`DEFAULT_STEPS`; `FinishRun` reconciles the recorder and leaves in `graph` what the
wrapped graph holds then (`TargetAfter`, the same sharing as in `RecordingGraph`);
`ReconcileDirect` is the `resolve` command, `SaveAndLoad` the store in replace mode.
A loop of the reconciliation that calls one method of the graph again and again is one
bulk operator (`AddNodes`, `AddEdges`, `DropNodes`): its order is that of dicts and
sorted ids, the edges of one batch share a creation number, and the proofs show that the
result is that of the repeated calls. The purge and the rebuild keep their order.
What a claim says is the constant `ClaimInfo`: the classification of evidence, the
group key and the parsing of versions happen before the modelled part.

**ErrataEvidence.** `SingleSource` and `CrossChecked` are
`attach_errata_from_source` and `attach_errata_cross_checked` with
`_attach_advisory`; what a reachable source reports for the selected RPMs is any
set of (RPM, advisory) pairs. `FromErrataFile` is `attach_errata_file`, which
raises before it writes when the ERRATA node exists with other metadata. The NEVRA
match and the parsing of the two sources are thereby any. History
variables record what was asked and reported, and nothing but properties reads them.

**TrustPath, BuildGraph.** An id is a tuple of its kind and of numbers for names,
commits and hashes, which sort as their text does; that parallel equal edges are two
is not told apart here. `ParseBuild` is `parse_build_metadata`, `TaskRef` one
element of `build_task_refs`, `AddBuild` and each `AddTask` the body of
`_graph_from_albs_api_build` before and in its loop; `TaskNodes` and `TaskEdges` are
what one round adds beside the chain of its source. `VerifyCas` and
`VerifySignatures` take any verdicts on any of the nodes (the selection by
architecture, and debug packages, which are skipped, only narrow them); `AttachSbom`
and `AttachErrata` leave what the report reads. Explicit `package` fields, builds
read from an HTML page and environments are left out. The `...Once`,
`last...` and `hashesVerified` variables are history.

**BuildTimings.** The nested statistics of a task are a function from the path of an
entry to its own duration and start, either of which may be missing; the dates are
numbers. `TimingSteps` flattens it as `iter_build_timing_steps` does, a Gantt row
without a start begins with the nearest row it lies in, and
`compare_build_timings` keys tasks by architecture, so that the last task of one
stands for all. The times of sign tasks and of the whole build are not followed.

**Enrichment.** A graph is a function from ids to the fields that any modelled code
reads, with a set of edges; claims stay beside it as a sequence, in the order they
were added. `Enrichment` chooses the next step of `DEFAULT_STEPS` and one of the
inputs given for it (an SBOM document, the answers of dnf, the headers behind the
candidate URLs of an RPM, ...); the parsing that made the input is left out, every
rule by which the adapter picks nodes, builds claims, counts failures or raises is
kept. `AddDependencyClaim` raises as `add_node` does when the id of the claim is there
with other contents; `ReadingFails` is a file that is no CycloneDX SBOM, or a payload
on which the decompressor raises something that `rpm_payload.py:322` does not catch.
`accepted` and `last` are history. A run on a graph that has
verdicts is followed to its reconciliation, not through it (that is
`AnalysisPipeline`); the `cas` and `signatures` steps are those of `BuildGraph`; the
resolvers and the scan of source imports are commands between runs. No package,
architecture or limit is asked for. The purl and hash an SBOM adds, the licence a
header adds, and conflicts and obsoletes of dnf are not followed.

**EvidenceReports.** Each report is an operator with the name of its function; rows
keep what properties compare, never their text. Tables keyed by (package,
architecture) keep the last namesake, as the dicts of the code do.

**HttpCache.** `disk` holds the cache file of each key, `temp` the sibling each
worker is writing. One action per system call: exists, stat, unlink, exists,
read, fetch, open-and-write, flush, rename. A file is whole, or `Truncated`.
`stale` stands for an age beyond the TTL. Keys in `FeedKey` are asked for through
`_cached_get`, the others (headers, payloads) straight through `get_or_fetch`.

**BuildCatalog.** `file` is the JSON file: rows, empty while it is being
rewritten, or garbage after two interleaved writes; `Load` reads the last two as
no rows, as the code does. `Refresh` is `refresh_build_list` with a fetched page,
`Record` and `Known` are `_record_analyzed_build`, whose look-up of a known time
is a load of its own.

**MetadataCache, BuildSources.** `cache` is the file: a body of the API, of a build's
page, the page without content that older versions stored, empty, or garbage after
interleaved writes. `Begin` to `WriteCache` are the file operations and requests of
one `fetch_build_metadata`, in their order; a 404 of the API is final, other errors
lead to the page. The file may be shared by builds, as the option `--cache` allows, and
at the beginning it may be a `Nameless` document of a user's, with neither `id` nor
`build_id`. `Badge` is `_cache_file_state`. `BuildSources` lets each process fetch, then
record the build its fields name, verify or list builds, or record a local file that was
analysed instead of a fetch, under the number of its name (`RecordAnalyzedFile`).
`patient` is history: each result was fetched in a document that names its build, and
recorded under that.

**Universe, UniverseStore.** A universe is two functions, from ids and from edge
keys to metadata: the builders never make two edges of one key, and the table has it
as its primary key. What a lower-level text says (a dot, a claim) comes parsed. An
action of the store is what SQLite makes atomic under Python's transaction handling:
a SELECT or a CREATE outside of a transaction, or everything from the first INSERT,
UPDATE or DELETE to the commit. So `ReadVersion`, each `Create`, and `Migrate` (the
recorded version with the later migrations) are the steps of `_ensure_schema`;
`Replace` is one step; a merge is `ReadFirst`, the look-up of its first node, and
`Write`; a load is its two queries. `GiveUp` is a crash or a lock that is not
released in time. The recursive queries are operators on the rows: `Walk` and
`SqlPaths` build their rows depth by depth as the CTEs do. What a text finds is given by
three constants: `Exact` (the id, with or without `pkg:`), `Containing` (it is a part of
the id, as Python's `in` tells) and `Like` (SQL's `LIKE 'cap:%text%'`, for which ASCII
letters have no case, `_` is any character and `%` any text); nothing relates the last
two. The five tables and indexes of `_BASE_SCHEMA`, created one by one in autocommit,
are one `Create`, and so are the two statements of each later migration: all are `IF NOT
EXISTS`, and a crash between two of them leaves what one before the first of them does,
a version that is not recorded and a migration that is run again. `saved` and `alone`
are history.

**Workbench.** The source and SBOM fields hold files; `BuildOfName` is what
`_build_id_from_path` reads from a name, a build or nothing, and `Place` where an SBOM
lies: in one of the two directories of its build's source, in `examples/`, or where
`discover_build_sbom` does not look. `Text` is what is typed as a build id and is no
number, `Unknown` the build of a source whose name tells none, `HasCas` whether the cas
tool is there, without which a click on its badge does nothing. An `AnalysisWorker` is a
record of `jobs`; `events` is the queue of signals to the GUI thread. `RunAnalysis` is
`run_analysis` with `_load_spec`, `_autofill_build_sbom` and `_run_spec` in their
order, including the two places where it may raise and which one-shot flags are
gone by then. Each user action is the handler that sets the fields and calls it;
`TypeBuildId` is typing, which starts nothing. `clicks` and `patient` are history:
clicks on the ALBS badge, and whether the user waited for each analysis before
starting the next or typing.

**Inspector.** Each click, row, switch or recipe is one action that runs the handler
with all the signals it sets off: `NavigateToNode`, `SelectArtifact`, `SetMode`,
`Render`, `ShowNode` and `ShowEdge` take and return the whole view (a record of the
window's fields, with the requests that were sent), and `Turn` makes it the next
state. Requests go to `workers`, of which the first `PoolSize` run and end in any
order; `events` is the queue of their signals, and `Close` marks those of the workers it
disconnects, which `TakeAnswer` then drops as Qt does. An edge is named by itself where the
code has its index in the slice, so a saved index that meets another slice is any
edge of that slice or none. `AnalysisFinished` comes at any time, from `Workbench`.
`include_tests`, zoom, export, and comparison with a file are left out; the artifact
filter is applied when its text changes, and not to the list of a new result, as in
the code.

## 3. Runs

The mutants in `PROJECT.json` show for each property a plausible bug of the code
that the run would find.

| run | bounds | distinct states | shows |
|---|---|---|---|
| `ProvenanceGraph` | 2 ids, 2 types, 2 relations, 3 objects, 3 edges | | indexes equal scans, no dangling edge, after any calls |
| `RecordingGraph` | 2 ids, 4 objects, 2 edges, 2 writes of a kind | | recorder sound; dry run isolated; replay faithful, and the one reason why it may raise |
| `AnalysisPipeline` | 5 claims in 2 groups, 2 runs | 107,071 | reconciliation complete after a first run, and after any other for the run itself; verdicts current and earned, no claim lost; conflicts persist |
| `Enrichment` | 3 steps of 12 and the commands between runs, 1 to 4 inputs each; a build of three RPMs, two of them namesakes | 37,552 | identities earned; all reports tell one story after every step; repeats accepted; nothing dropped without a failure; evidence only grows; no CVE vanishes |
| `ErrataEvidence` | 2 RPMs, 2 advisories, 3 steps | 22,929 | the cell of the Security panel tells the history, with the case in which its mark does not; agreement marked only where earned; CVEs and edges once |
| `BuildGraph` | 1 or 2 tasks with every combination of what names the package, one of 4 checkouts and a hash or none, 2 packages, 2 repositories, 2 commits; 2 steps of evidence | 204,071 | path through the artifact's own task and chain, one source each; report, focused graph and source graph agree, so do timeline, totals and comparison; marks earned |
| `HttpCache` | 2 workers in 2 processes, a feed and a plain key, 2 bodies, 3 files | | no truncated body, no file gone under a plain reader, nothing stale served, refinement of `ReadThroughCache` |
| `BuildCatalog` | 2 processes that may die, 3 builds of which ALBS knows 2, 2 merges, 2 fetches or files analysed instead | 2,327,726 | nothing made up ever; nothing lost while merges do not overlap and nobody dies in one; a fetch returns its own build, or the document that names none, as the badge foretells |
| `UniverseStore` | 2 processes that may die, 3 operations, 6 universes over 5 ids (a cycle, a chain, claims with a provided soname, two builds with lists, nothing), 3 old schema versions and a legacy store, 4 texts of which one differs from a capability by the case of its letters | 51,648 | schema complete before use; merge is `merge_graphs`; list evidence kept; a load is a graph; queries agree with the searches in memory but for what only `LIKE` finds |
| `Workbench` | 2 builds, 3 sources (one gone, one whose name tells no build), 3 SBOMs (one beside its source, one in `examples/` that is made meanwhile, one whose name tells no build), 2 threads, 2 analyses, a session with the SBOM of another build, 1 change by hand | 1,038,539 | one-shots spent, status true, finished results, every analysis ends; no SBOM whose name tells another build, and none only if the search finds none; a user who waits sees and records the right build |
| `Inspector` | 2 results (one without artifacts), 3 turns of the user, 2 requests on 2 threads, 2 finished analyses | 247,921 | what is selected is drawn; detail tabs are about it or say what they are about; a session restores what was saved; every request is answered |

Why the bounds are enough: the graph needs two nodes and two edges for parallel
edges, self-loops and a removal beside a survivor, and a third object for the
re-added node; reconciliation needs two agreeing and one drifting source, two claims
of one source and a second group; the errata properties relate at most three steps;
two tasks share or miss each thing a task names, and a third would only repeat one
of them; two verdicts make the second one the last; a step of an enrichment meets the claims
or marks of at most two others, and the third step leaves room for a repeat;
every race of the caches and of
the catalog is between two actors, and the third build is the one ALBS does not know, and a third file of `HttpCache` is the fresh copy one of them
deletes; three saves or loads of the store make a merge into what a merge left,
beside any interleaving of two, and the queries are checked on all universes that
arise so; the window's races need one analysis that is out while another is started;
a detail tab goes wrong with one answer that is out while another is asked for, and a
session with one turn before it is saved and one after.
Symmetry is used only where the instance treats the values alike and no liveness is
checked.

`CHECK_DEADLOCK FALSE` is set where the system does stop: a session is over when
its patch is replayed, and elsewhere the bounds on runs, steps, merges, fetches, files
and analyses end the behaviour. `ProvenanceGraph` always has a step.

### Where the code differs from what the repository says

The run checks one property that quotes the repository and finds it violated;
`findings` in `PROJECT.json` has the quotation.

| run | what happens |
|---|---|
| `AnalysisPipelineRerun` | the graph a second run returns keeps the first run's verdict edges in its edge list |

The models have further behaviours that a reader of the code's comments would not
expect; the properties are stated so that they say when the comment is true.

- Re-adding an equal node leaves the earlier Node object in the type index
  (`PutNode`), so metadata written later is seen through the dict only;
  `IndexesAreScans` speaks of ids.
- After a removal the recorder and the wrapped graph hold different edge lists
  (`rebound`); `RecorderIsSound` speaks of the recorder.
- A second run returns a graph whose list and indexes tell two stories (`TargetAfter`):
  the verdict edges of the first are in its list, and no longer in its indexes. If a
  third run purges such a graph and finds none of them in the list, it does not rebuild
  the indexes, and old verdict edges stay there for the run itself.
  `RerunsReconcile` has the condition `SameStory`; two runs always meet it, and
  the theorem is about any number.
- A patch whose session re-added and updated a node raises on replay:
  `ReplayIsFaithful` says that nothing else does.
- A feed file may vanish between `path.exists()` and its reading, and the call then
  raises `FileNotFoundError` where its docstring says it returns or fetches
  (`Read`, `Unlink`); a plain key's file does not (`ReadsAreSafe`).
- A FIXES edge that is there when both sources agree never gets the mark, although
  the docstring says so (`CrossChecked`); `LinkedOnce` has the other direction.
- A task without a CAS hash takes that of the build, which is the first task's: its
  report then shows `has_source_cas_attestation` for a hash that authenticates
  another commit. `OriginIsOwn` lists what else nodes share: a commit if the hash is
  one, a repository if the commit is one, a source if the repository is one.
- Of two packages in one repository, the paths of both RPMs root at the first, where
  `docs/decisions.md:814-816` says that the walk leads to the artifact's own source;
  `OriginIsOwn` has the condition.
- The signature node of a build is one for all its RPMs: it is marked when one of
  them verifies, and keeps the mark when a later verdict fails (`MarksAreEarned`).
  A verdict of "unavailable" leaves the earlier one.
- A worker that saw a stale feed file may unlink the fresh one another has stored
  since; `StaleNotServed` and `ImplementsContract` hold nevertheless.
- A forced refetch is used up by a start that fails, and one asked for with a source
  file open waits for the next build id: `OneShotsAreSpent` only bounds their number.
- `closeEvent` leaves `build_not_found` connected, and all signals of earlier
  workers: `ClosedWindowIsLeftAlone` covers the others.
- The cross-check marks an RPM also when both sources agree that they know no advisory
  of it. If it has one from a file, from a run of one source before or after, or from an
  earlier cross-check, `_errata_cell` shows "advisory [x-checked]", where its docstring
  says that the mark is that of "a result the web feed and dnf agreed on"
  (`services/workbench.py:1438-1439`). `CellTellsHistory` says that this is the only
  case: a marked cell shows what the last agreement was, unless that was "clean" and
  some step listed an advisory.
- `dependency_paths` bounds the nodes of a path by `max_depth`, `sql_dependency_paths`
  its hops, so that the query finds paths that are one longer (`QueriesAgree` has the
  `+ 1`); the query also goes on through a target. The in-memory matcher finds parts
  of package names, the query only parts of capabilities; and `LIKE` finds a capability also
  by other letters than its own, "mirroring the in-memory substring matcher" as
  `store.py:581-583` may say: `libx11` finds `libX11.so.6`, `typing_extensions` finds
  `typing-extensions`. `DependentsMirror` has both directions: the query names no more
  than the search, but for what a capability that only `LIKE` finds adds
  (`FoundByLike`), and no less of what needs the text as a name or as a part of a
  capability that `LIKE` finds too. Equal ids at two depths are two rows of the
  recursive query: not UNION but the bound ends a cycle.
- `build_universe` puts `evidence` and `linkage` on an edge as scalars: of two claims
  the first stays, and a merge into the store overwrites what it held, although the
  store's introduction says that accumulation does not lose claims; `UniversesAreKept`
  speaks of lists.
- A merge that overlaps a replacement may leave edge rows without a node row
  (`ReadFirst`, `Write`): `Closed` is the condition of the query properties, and
  `LoadIsSound` shows that a load skips such rows.
- Two processes lose each other's catalog rows and build times: `RecordedStays` has
  the condition `alone`.
- A result is recorded under the build the fields name when it arrives
  (`gui/qt_app.py:1747-1750`); `LastFinishedIsShown` speaks of a user who waits.

Of the enrichment and the reports:

- An RPM without a component of its own version-release in a build SBOM takes the only
  one of its name and architecture, whatever version that has, against the docstring
  (`adapters/sbom.py:357-365`); `IdentityIsEarned` has the condition. The SBOM's
  identity is appended with `"verified": True` and no product.
- `pipeline.py` says beside the order of the steps that a CPE of the vendor must not be
  overwritten by a later check; `verify_security_identity` overwrites it when its
  dictionary knows one vendor. A dictionary that knows several leaves the CPE and marks
  its status `ambiguous_vendor`, which the comment on the status does not foresee.
- Two requirements of one package in a header (`foo >= 1.0` and `foo < 2.0`) differ in
  the key by which `rpm_remote.py` drops duplicates and have one `claim_node_id`,
  a "stable, collision-free id": the second raises and ends the run. So do two
  SBOM components of one name and version, two lines that pin one requirement, and two
  imported modules of one package. `EvidenceOnlyGrows` and `NothingIsLostQuietly` say
  what such an end leaves.
- A soname index that dnf's failure cut short, and a full one in a later run, give a
  claim two versions: the later step raises. So may the same index again, once more claims
  with its sonames were added: a claim is then bridged that was not there before, under
  an id that the first one of its name took. `RepeatsAreSafe` is about the same input, and
  the claims a soname step bridges are part of what it is given.
- Claims of a header have no namespace and those of dnf and of the graph have
  "almalinux": they are never in one group, so a header's range is never held against
  the version another source observed.
- An error of the network ends the header step, while the payload step counts it as a
  failure and goes on.
- Compared tasks, security rows and drilldowns are keyed by less than an artifact:
  namesakes show the last one's CVEs. `identify_file` may name a namesake that does not
  list the file. `source_evidence_rows` falls back to every source tree of the graph
  when the artifact's source has none, and a drilldown ends after fifty RPMs;
  `ReportsTellOneStory` has both conditions.
- The `resolve` command asks for no package by name, so a tool that fails is reported as
  "0 resolved, 0 unresolved".
- An axis over nothing is complete in the window, and 0.0 in the fraction the command
  line prints.
- A task whose clock runs backwards counts as negative in the totals and as 0 in the
  Gantt rows. No instance has one, so `ReportsAgree` does not speak of it.

Of the metadata cache and the window:

- A cached document with neither `id` nor `build_id` is accepted for every build
  (`albs.py:184-188`, as `tests/test_albs_cache.py:263-276` asserts). `CacheIsTrue`
  says that a fetch returns its own build or such a document, and that no fetch writes
  one; an analysis of it, or of a local file, is recorded under a number that nobody
  checked, which `RowsAreGenuine` excepts (`patient`).
- An SBOM whose name tells no build, or any SBOM when the source's name tells none, is
  kept in the field and used ("or we can't tell -- keep it", `gui/qt_app.py:1937-1938`,
  `1865`), also if it is another build's. A build's own SBOM is found only in the
  directory of its source, in the parent of that, and in `examples/`, and for a live
  build only in the last. `SbomFollowsBuild` is about what names tell and about these
  places.
- A build id that is no number, like a source that is gone, raises in `_load_spec`
  (`gui/qt_app.py:1838`) after the one-shots were cleared.
- The badge says "active" of a cached page without content, which a fetch deletes, and
  "missing" of a file that is not JSON, on which a fetch raises until its time to live
  is over (`BadgeForetells`, part of `CacheIsTrue`).
- `Unlink` removes whatever is there by then, also what another process has stored since.
- A result without artifacts draws nothing: slice and selection of the result before
  stay. `SelectionIsDrawn` speaks of the others.
- A click on an edge leaves the Package tab with the node selected before it.
- The list of files of a commit may be that of a late answer, while a click on a file
  asks for the diff of the commit that is selected; after a diff the header names the
  selected commit though the list may be the late one's. The header is put together from
  the package of the node selected and the commit that was fetched
  (`git_commit.py:98`, `136-138`). `DetailsAreOfSelection` has `patient` for this.
- A recipe with a mode and a subject may send two requests for one tab.
- In a Node Neighborhood a saved edge index may name another edge when the session is
  loaded, since the node is not saved with it; `SessionRestores` excludes that mode.
- `closeEvent` detaches neither commit nor diff workers.

### Fairness

`Workbench` and `Inspector` have a liveness property (`AnalysesEnd`,
`RequestsAreAnswered`). Both assume weak fairness of the pool (Qt starts queued
runnables as threads become free; every request of the adapters and of the detail
workers has a timeout, so a worker ends) and of the slots (the event loop delivers
what is queued). Nothing is assumed of the user.

## 4. Proofs

Eight modules hold theorems, which are true for all values of the constants under the
assumptions named where the constants are declared. Most of these say that bounds are
natural numbers, that model values are not among the data they stand beside, and that
every worker has a process. The others describe the input:

- `NamesAssumption`, `DocumentsAssumption` (`BuildGraph`): a build has tasks, and what a
  task names is a number or `None`; a repository's URL names a package and a package
  has a default repository (`_source_package_name`, `parse_build_metadata`). `Init` keeps
  the builds that name a package, as `_package_from_build_metadata` finds none in the
  others. A build without tasks has no artifacts and is left out.
- `TimesAssumption` (`BuildGraph`): times are numbers of seconds, a task's artifacts are
  a sequence and its stats a finite tree, and no task finished before it started. The code
  does not check the last: `_duration_between` subtracts what the document says. It is
  what the property is about (section 3 tells what a clock that runs backwards does).
- `UniverseAssumption` (`UniverseStore`): a universe that is saved has the ends of its
  edges, as the builders add an edge after its ends. `KindsAssumption`: a key of an
  edge's metadata holds a list in every universe that has it or in none, as each key is
  written in one place of the builders; without it a merge replaces a list.
  `NodesAssumption`: there are finitely many ids. `NeedleAssumption`: a text is a part of
  every id it names, which the matchers find as `id = needle` or `id = pkg:needle`, and by
  `needle in node.id` (`store.py:580`, `universe.py:347`). Of `Like` nothing is assumed.
- `FileAssumption`, `RowsAssumption` (`MetadataCache`, `BuildCatalog`): an emptied or a
  garbled file is told apart from one that holds a document. `NamelessAssumption`: a
  document without a name is told apart from one that names a build.
- `NamesAssumption`, `FilesAssumption`, `SessionAssumption` (`Workbench`): a build id is
  told apart from other texts, the name of a file tells one build or none, an SBOM is in
  one place, and a session holds fields. Nothing is assumed of which files exist.
- `GraphsAssumption` (`Inspector`): a result's edges join nodes of it, as `add_edge`
  refuses others (`NoDanglingCorrect`). `FirstAssumption`: of some artifacts, or of the
  nodes one relation comes from, one is first by its text, as `sorted(...)[0]` is one of
  what was sorted; ids are ordered by their numbers here, so it says that these tell
  apart ids of one kind.
- `RpmsAssumption`, `CandidatesAssumption`, `InputsAssumption` (`Enrichment`): the graph is
  one a build's analysis leaves (finite, without dangling edges, its RPMs with every field
  and no CPE yet: `cpe_security_identity` writes `candidate_only` and no CPE); a dictionary
  lists finitely many vendors of a product; and what a file or an answer holds in order is
  a finite sequence. No declaration or reference of a source file leads to a source tree
  (`source.py:272`, `source.py:295`), and no candidate is verified before a step says so
  (`CpeCandidate`). Nothing is assumed of what the documents say.

Each inductive invariant was checked with TLC before it was proved.

*Graph.* The indexes alone are not inductive: `remove_node` finds the incident
edges through the indexes but cleans the edge list by its ends, and looks up a
node's type list through the dict. `GraphInv` therefore joins the type of the
graph, adjacency equal to a scan, no dangling edge, a dict keyed by the id of its
object, and the complete type index. One lemma per operator of `GraphOps` shows
that it preserves `GraphInv` of any graph; the step lemma applies them, and
`TypeCorrect`, `IndexesCorrect` and `NoDanglingCorrect` follow. The lemmas are about graph values, not about the module's
variable, so the modules that own other graphs can cite them.

*Cache.* `IInv` adds to the types the shape of a call (a worker past the TTL
check asks for a feed; who writes has a temporary file with what it fetched),
that every whole body anywhere was served by upstream for its key, that file
numbers are not used twice, and that the file that was expired when a call began
is neither in the worker's way once it has passed the TTL check, nor ever comes
back. `ReadsCorrect` and `FreshnessCorrect` follow; `Refinement`
maps each file system call to a stutter and each return, failure or crash to an
action of `ReadThroughCache`.

*Pipeline.* `PipelineInv`: every edge of a graph is of one of the kinds the pipeline
writes, its ends are there, and both indexes hold the same edges (`GraphOK`); where
nothing was reconciled yet, the list agrees with the indexes and no verdict edge is there
(`Untouched`); a group's verdict is that of some of the claims that are there
(`VerdictTold`). `GraphOK` does not say that list and indexes agree, which a
second run makes false. `PurgeIsExact` and `RebuildIsExact` say, entry by entry, what a
reconciliation leaves of any such graph, `TargetIsExact` what the wrapped graph then
holds; `ReconciliationIsComplete` follows where the two told one story. That a verdict
only gains kinds of conflict is a fact about the rules alone (`ConflictsGrow`), and so
is that a consensus has two sources (`ConsensusIsEarned`): the claims of a group are a
finite set, no fold is needed. Two assumptions: `PipelineAssumption` (finitely
many claims, each with a subject and a group; ids of claims, groups and packages are
apart) and `NoVerdictAssumption` (`None` is no verdict).

*Recorded sessions.* `SessionInv`: the recorder is a graph in the sense of `GraphInv` at
all times, the wrapped graph only while it is loaded and in a dry run, when the two
have no Node object in common; and the patch names objects that exist.
`RecorderCorrect` and `DryRunCorrect` follow, by the lemmas about `GraphOps`. The replay
needs `FaithInv` beside it: while the session records, the graph, the patch and the
recorder are related entry by entry (what is in the recorder and not in the graph is in
the patch, the last update of a key is what the recorder holds), and while it is
replayed, the graph is between the two at `done`. `ReplayCorrect` follows at its end,
by no induction over the patch: one replayed entry is one step.

*Errata.* Beside the parts of the property, `MarksTell` and `ChecksTell`: an edge is
there for what was reported, an RPM is marked clean only if it was asked about and
nothing is reported, and its mark of a cross-check is that of its last one. An agreement
on an advisory leaves its edge for good, one on "clean" leaves the mark that only a
reported advisory covers: hence the one case in which a marked cell says something else.

*A build's graph.* `BuildInv` says which links lead up from an artifact: those of the
chains of the sources added so far (`LinksInv`), and that each artifact is of a task that
was added and has what the document says of it (`ArtifactsInv`). The path is then
unfolded: there is one task above an artifact, one CAS node above a task, and the least
commit, repository and source above these, which is where sources share nodes; that
the least of a set exists is proved from well-foundedness. `MarksAreEarned` is
inductive with the types of the nodes' fields (`FieldsInv`) and with what `AddTask` finds
of the build (`HeadInv`).

`ReportsCorrect` has two halves. A trust report is read off an artifact's trail (`Trail`:
what is first above it, five times); a part of the graph that holds the trail and the
artifact's evidence has the same trail, as what is first of some ids is first of any of
them (`FirstOfFewer`, `TrailStays`), and so gives the same report (`ReportOfPart`); the
focused graph and that of the source are such parts (`ViewsAgree`). The times are sums, and
a fold has no closed form here: `SumIs` shows that it counts `Units`, each row as often as
it lasts seconds, by induction over the subsets of a finite set (`SubsetsUp`), so that two
sums are equal if the rows of one are those of the other by other names (`SumRenamed`).
That a measured interval is in one step follows from prefixes of one path being nested
(`OneOutermost`), and the inventory's counts from `ProductsInv`: the graph has the
`produces` edges of the tasks that were added, all of them and no other.

*Catalog and metadata cache.* A catalog that is about to be written holds what others
recorded and what its process brings (`MergedIsTrue`); while nobody overlaps, whoever
is in a merge holds everything that was recorded, or else the file does (`AloneKeeps`).
A fetch that has its answer has its own build's or the nameless document
(`AnswersAreTrue`), and while fetches do
not overlap the file is a document unless it is being written (`UnclashedFile`).

*Store.* Tables: those of the recorded version are there, and what is left to create is
the rest (`SchemaGrows`). Contents: the store holds every list of every universe that
was saved (`SavedAreHeld`), and exactly their nodes and edges while operations do not
overlap (`AloneIsExact`); a process in the middle of a merge or a load remembers rows of
the store as it then was (`JobsAreUniverses`). `QueriesCorrect` is about any rows without
dangling ends: a recursive query adds the nodes one hop further, hop after hop. What holds
after every hop is proved by its first exception (`LeastOf`, `CountingUp`); a query without
a bound ends because each hop that adds something leaves fewer nodes (`HopsEnd`); a
shortest walk meets no node twice, so that whatever is within the bound has a path of
different nodes (`WalksHavePaths`); and a search that does not go on through a target finds
the paths of the query that meet none on the way (`StoppedPaths`). All of it holds
whatever `LIKE` finds.

*Workbench.* A signal that waits is the only one of its job (`SignalsAreSingle`); a
closed window's last worker is connected to `build_not_found` at most, and nothing of it
waits (`ClosingDetaches`); a user who waits has one analysis out at most, that of the
build entered (`PatienceHelps`); clicks that wait to be taken and refetches that were
started are no more than the clicks (`ClicksCount`). What `discover_build_sbom` returns is
one of what it finds (`SuggestedFacts`), so that the field after `_autofill_build_sbom` is
never of another build by its name, and empty only if nothing is found (`AutofillFacts`).

*Enrichment.* `EnrichmentInv`: the graph holds all that was in the build's graph, its
RPMs with the fields they were built with (`GraphGrows`), and has no dangling edge; no two
claims have one id; and of every step that was accepted, with what it was given, each claim
is still there (`IsKept`). That is what makes a repeat
safe: `add_dependency_claim` raises only for an id that holds something else. A list of
claims is added one by one (`AddAll`), which is a recursive function over positions: that a
position was reached and what it left is proved with the least position where it would be
false (`Carried`), so that no induction theorem is needed. `KeptIsPrefix` says that
claims only get longer, `AxesGrow` and `ArtifactsStay` that no report counts less of a
graph that grew. `IdentitiesAreEarned` needs that a step reads only the fields the build
wrote and the identity another step of the same run left: one lemma for the SBOM's and
one for the dictionary's. `StoryIsOne` needs of the steps that only they set a CPE and mark
a candidate (`IsIdentity`), that they add no edge but `described_by` and `fixes`
(`GraphInv`), and of each verdict that it is a conflict exactly if a rule found one
(`VerdictsHold`); the rest is a comparison of the reports' definitions, of a graph of any
size (`FirstAre`: of more RPMs than a drilldown shows it shows fifty).

*Inspection.* Every slice, whatever its mode and layers, is cut from its graph and has
its focus among its nodes (`CutsAreSlices`, `CurrentIsCut`): `source_to_artifact_path`
is unfolded five times for this, with no induction. A view is *settled* if its slice is
that of its mode, artifact and layers, one node or one edge of it is selected unless
nothing is drawn, and each tab is about the selection or says what else it is about. One lemma per
handler shows that it settles a view, so that a chain of handlers does.
`InspectorInv` adds what the answers need: a tab's button is on only for what can be
fetched and its header names a late answer's subject (`TabOK`); while the user waits for
answers, a request that is out asks for what its tab is still about (`QueuesOK`); and a
saved session names what was drawn when it was saved (`SessionsOK`). `SelectionCorrect` and
`DetailsCorrect` follow. `SessionCorrect` is an action property: outside Node
Neighborhood a slice does not depend on the selection (`SameCut`), so that loading a
session draws the slice in which its node and edge were.

Every invariant and every safety action property of the runs is stated by a theorem. Only
model-checked are `AnalysesEnd` and `RequestsAreAnswered`: liveness under fairness, which
needs ENABLED. Where an induction over numbers, subsets or positions is needed, it is the
first exception that is refuted (well-foundedness of finite sets by inclusion): the
library's induction theorems take operators as parameters, which the provers do not
instantiate.

## 5. Not modelled

- Formatting, widgets, layout, rendering, export, fixtures, the options of the command
  line and the commands that only print: no state but what is on the screen.
- Binary and text parsing (RPM headers, payloads, ELF, SBOM, dnf, NVD and OSV answers)
  and the subprocesses behind it: they decide which evidence exists, and the models
  take any, or the inputs of the instance.
- `source.py`, SPDX documents, the git and package look-ups, snapshots and search of the
  store, the drawing of universes, the evidence bundle and the HTML and Markdown
  reports. `_safe_id` of `source.py` maps "a/b" and "a_b" to one id; no module follows it.
- Of a task: its test results, and the CAS attestation of its source RPM
  (`albs.py:893-948`), so that the focused graph has neither of them here
  (`trust.py:150-161`); no property speaks of a source RPM or of a test. Nothing in the
  repository writes an AFFECTED_BY edge; where one is read, it is followed.
- Setting the filter text and the test box while a session is loaded
  (`gui/qt_app.py:3208-3209`) may select anew in the result that is still shown; that is
  the step `FilterArtifacts`, which may precede `LoadSession`.
- That a feed's body may be wrong while its time to live lasts: it is served then, as any
  cache would. `StaleNotServed` is about the time after.
- `PROJECT.json` says for each component which part is left out.

## 6. Plan

Order is by how much of the system depends on the part.

1. Evidence on the graph: done, with every default step and the reports on it. Next
   the source evidence of `source.py`, and runs narrowed by package or architecture.
2. What is kept on disk: done. Next snapshots of the store.
3. The workbench: analyses and inspection done. Next the build dialogs and the console
   process, and one instance in which `Workbench` and `Inspector` share a session.
4. Version, NEVRA and CPE orders as operators checked against reference definitions.
5. Proofs: done for every component with a run, but for the two liveness properties.
