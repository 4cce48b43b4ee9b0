# A verification project for Formshift Server

TLA+ modules that model `formshift-server`, its concurrent core first, TLC
configurations that check them on small instances, and TLAPS proofs of the
central results for every value of the constants. `PROJECT.json` maps every
definition to the lines of `src/src/formshift_server/` it models and lists the
runs, the mutants, the hazards, the findings and the theorems.

Contents: [the system](#the-system), [modules](#modules-and-the-code-they-model),
[runs](#runs), [fairness](#fairness), [proofs](#proofs),
[findings](#findings), [abstractions](#abstractions),
[not modelled](#not-modelled), [plan](#plan).

## The system

Formshift Server is an image-processing server. A client creates a session,
uploads payloads, submits a *graph* of processing modules as a job and follows
the job on an event stream. Nodes of the graph run on a thread pool; results go
to a cache shared by all sessions; modules are built in or come from extensions
that run in a process of their own.

| Component | State it keeps | Operations |
|---|---|---|
| Executor (`executor.py`) | per call: `ready`, `in_flight`, `remaining_deps`, `node_keys`, `node_results`, `emitted_outputs`, the pool's queue | `execute_graph`, `run_node` |
| Jobs (`jobs.py`) | jobs of a session, their status, error, outputs and cancel event; per run `held`, `next_index`, `gate`; the event log | `submit`, `_run`, `cancel`, `shutdown`, `get`, `EventLog.append`, `since` |
| Result cache (`cache.py`) | recipe key to results, in memory, never evicted | `get`, `put`, `recipe_key`, `content_hash` |
| Graph validation (`graph.py`) | none | `parse_graph`, `validate_graph`, `topological_order` |
| Sessions (`sessions.py`) | sessions, their payloads | `create`, `get`, `delete`, `add_payload` |
| HTTP handlers (`app.py`) | `managers`: a `JobManager` per session | create/delete session, upload/download, submit/get/cancel job, events, extensions |
| Module registry (`modules.py`) | modules by name | `register`, `register_isolated`, `unregister`, `get` |
| Extension worker (`extensions.py`, `extension_runner.py`) | the process, its pipes, a lock, a watchdog per request | `request`, `stop`, the runner's `serve` |
| Extension manager (`extensions.py`) | `_installed`, the extensions directory | `install`, `load_installed` |
| Core modules (`core/`) | none | crop, rotate, levels, threshold, invert, downsample, posterize, colormask, trace, colorize, merge |
| Guard, configuration, command line | none after start | header and argument parsing |
| Benchmarks (`scripts/`) | none | clients that time the server |

How they interact: `submit_job` validates a graph and hands it to the session's
`JobManager`, which starts a thread. That thread calls `execute_graph`, which
validates again and runs `run_node` on its pool's threads. These threads call
back into the job (`on_node`, `on_output`), which stores payloads in the session
and appends to the session's log; SSE generators on the event loop read the log.
`run_node` uses the cache that all sessions share, and a module of an extension
sends its request to the extension's one process. `delete_session` sets the
cancel events of the session's jobs. Installs run on threads of their own and
add to the registry that submissions and jobs read.

What is hard to get right, and what makes each part correct (every item is a
hazard in `PROJECT.json`, at its line, with the properties that cover it):

- **Executor.** Nodes finish in any order, in the same `wait()` batch or not,
  while another fails and the job is cancelled. Correct: a node runs once, after
  its dependencies published; what is reported is what happened; nothing goes on
  after the call; the call ends.
- **Jobs.** Callbacks of several workers interleave with each other, with the
  thread's status changes, and with readers. Correct: the log tells a well-formed
  story with one end, pinned groups appear in declared order with nothing held
  needlessly, what is announced can be fetched, "completed" is complete.
- **Cache.** Look-up and insertion are separate, keys are chained through hits.
  Modules may be nondeterministic. Correct: a node never gets the result of another
  recipe.
- **Parsing and validation.** A document may have anything missing or of a wrong
  type, a manifest may declare a port twice, and later code indexes dicts without a
  check. Correct: an accepted graph is acyclic, never makes a look-up fail, and feeds
  each port once with its type.
- **Sessions and handlers.** `submit_job` and `upload_payload` wait for their body
  between finding the session and using it, beside deletions. Correct: a delete
  stops the jobs of its session; a session is deleted once and is then gone; until
  then what was announced can be fetched.
- **Event stream.** Jobs append while a batch is sent, and the session may be
  deleted under a stream. Correct: each client gets a prefix of the log, eventually
  all of it, and is told of the end of every job it waited for.
- **Extension worker.** The process may hang, die or answer as its watchdog
  expires; the protocol has no request ids. Correct: every request ends, gets its
  own answer whenever one got out, and there is one process.
- **Extension manager.** Manifests are wrong, steps fail, and the server may die
  between any two.
  Correct: debris is not taken for an extension, a 201 is kept across restarts,
  and the server can start.
- **Core modules.** Clients compose them in any order, on pictures with clear
  pixels, thin ones, and palettes at their limit; the executor runs the branches of
  a separation and its merges in any order. Correct: what a clear pixel
  hides never shows, a draft fits, an index means the client's colour, the layers come out in palette order, and
  traps close seams without reaching past what they were given.

## Modules and the code they model

| Module | Models | Correspondence |
|---|---|---|
| `Executor` | `execute_graph` and `run_node` | The scheduler is the job thread: `sched` is where it stands, one action per statement that other threads can see (`TestCancel`, `Submit`, `WaitFirst`, `DrainResult`, `DrainError`, `CancelRaise`, `LeaveLoop`, `Join`). `phase[n]` is how far `run_node(n)` is, one action per critical section or callback. `Start` is the pool's FIFO queue. `OtherJobPut` is any other job that fills the shared cache. |
| `JobRun` | `submit`, `_run`, its callbacks, the gate | Extends `Executor`: its scheduler steps are taken by the job thread, its node steps by the workers, `OnNode` and `OnOutput` together with what the callbacks do. Each assignment to the job and each append is a step of its own. |
| `JobProtocol` | the abstract specification of a job's events | One variable, the log; `JobRun` implements it (`Protocol == INSTANCE JobProtocol WITH ...`), liveness included. |
| `RecipeCache` | `cache.py`, and `run_node` as its user | A digest stands for the value hashed, by one hash for payloads and recipes alike; results are symbolic, so that a wrong hit is visible, and say which of its possible runs (`Draws`) a module had. `Meaning` is the reference: the results the graph may have, evaluated without a cache. |
| `GraphValidation` | `parse_graph`, `validate_graph`, `topological_order`, and the look-ups that rely on them | A document is a record of lists of records in which fields may be missing or `Bad`; one disjunct per kind of error; manifests are lists of ports, in which a name may occur twice (`FirstType` is what validation compares, `LastType` what results are held against); then the job's look-ups in any order, with an install going on. |
| `SessionLife` | `create_session`, `delete_session`, `upload_payload`, `download_payload`, `submit_job`, `get_job`, `cancel_job`, `shutdown` | `pc[x]` is where the handler of request `x` stands; steps are cut at the lock, the dict and the `await`. `before[x]` is a history variable: what had been answered when `x` was made. |
| `EventStream` | `EventLog`, the SSE generator | Steps are cut where the generator yields or sleeps. |
| `SessionStreams` | the two above, composed | The jobs of `SessionLife` append to the log of `EventStream`; a stream keeps the manager it found, so both go on when the session is deleted. Each component is shown to be implemented by the whole. |
| `ExtensionWorker` | `ExtensionWorker`, `serve`, the timer threads | The pipes are queues; a process is unborn, up, dying (dead, not yet seen by `poll()`) or gone. |
| `WorkerService` | the abstract specification of the worker, as the runs of modules see it | No process, pipe or timer: the run that is served, what its module answered, what each run was told. `ExtensionWorker` implements it (`Service == INSTANCE WorkerService WITH ...`), liveness included; an answer is there from the moment it is whole in the pipe. |
| `ExtensionInstall` | `install_extension`, `parse_extension_manifest`, `ExtensionManager` | A source is its manifest, a record in which fields may be `Bad`, or none. `disk[n]` is the set of complete parts (`src`, `venv`, `state`) of a directory; a crash loses memory and keeps the disk. |
| `Raster` | `core/raster.py` | Operators: what each module makes of an image (mode, size, palette, a value and an alpha per pixel), and when it raises. Resizing takes the nearest pixel of a palette image, and mixes those of others by a filter that is a constant (`Bicubic`), colours multiplied by their alpha, as Pillow does. |
| `ColorSeparation` | `core/color.py`, `core/potrace.py`, the modules of `Raster` as nodes of a job | A chain of nodes, then a branch per palette entry and merges of neighbours in any order, one action per module's run. `twin` is a history variable: the same chain on another source, which hides other shades behind its clear pixels, or is flattened already. |
| `JobRunProofs`, `RecipeCacheProofs`, `GraphValidationProofs`, `SessionStreamsProofs`, `ExtensionWorkerProofs`, `ExtensionInstallProofs`, `ColorSeparationProofs`, `SeqLemmas` | | The proofs, and the lemmas they share. `JobRunProofs` has those of `Executor` too, `SessionStreamsProofs` those of `SessionLife` and `EventStream`. |
| `MC...` | | Instances for TLC. |

`RunsExecutor` (`ExecSpec` as a property of `JobRun`) shows that `JobRun`, hidden
variables aside, does nothing to the executor that `Executor` does not allow, and
that callbacks cannot block it: what is checked and proved of `Executor` holds
inside a job. `AcceptedIsAcyclic` is the counterpart on the other side: it shows
that validation establishes the acyclicity that `GraphAssumption` of `Executor`
asks for. Both are proved, the first in its safety part.

Definitions commented "Mutant" are wrong forms of the definition after them, of
the kind a slip in the code would make. Nothing uses them; `PROJECT.json` says
which property each of them breaks.

## Runs

To run one: `tlc -workers 2 -config <cfg> <module>`.

| Run (cfg) | Bounds | Shows |
|---|---|---|
| `executor` (`MCExecutor`) | 4 nodes, 2 workers, 3 outputs, 3 keys; 90,276 states | `TypeOK`, `DependenciesFirst`, `OutcomeHonest`, `NodeRunsOnce`, `QuietAfterReturn`, `CancelStopsDispatch`, `Terminates` |
| `job` (`MCJobRun`) | 3 nodes, 4 outputs, a pinned and a free group, 2 workers; 49,006 states | `JobTypeOK`, `AnnouncedIsStored`, `FinalStatusIsWhole`, `PinnedOutputsInOrder`, `NothingHeldNeedlessly`, `FollowsProtocol`, `RunsExecutor` |
| `recipe_cache` (`MCRecipeCache`) | 7 nodes of several jobs, a module with two outcomes; 1,600 states | `ResultsAreRight` |
| `graph_validation` (`MCGraphValidation`) | all graphs from lists of right and wrong parts, up to 3 nodes, and malformed documents; 182,648 states | `InputsAreTyped`, `AcceptedIsAcyclic`, `AcceptedNeverFails` |
| `worker` (`MCExtensionWorker`) | 2 requests; 22,044 states | `OwnAnswer`, `OneProcess`, `ServesRuns` |
| `install` (`MCExtensionInstall`) | 4 installs (two of one name, two sharing a module, one of a bad source), 2 crashes; 88,767 states | `ListedIsOnDisk`, `PromiseKept`, `StartsAgain` |
| `session_life` (`MCSessionLife`) | 1 session, a submission, an upload, a request for each, 2 deletions; 319,616 states | `DeleteStopsKnownJobs`, `DeletedIsGone`, `AnnouncedCanBeFetched` |
| `session_streams` (`MCSessionStreams`) | 1 session, 1 job (3 events), 2 deletions, 1 client, keepalive after 2 polls; 33,930 states | `StreamTypeOK`, `SentIsPrefix`, `EveryEventIsSent`, `StreamsGoOn`, `EndIsTold` |
| `color_separation` (`MCColorSeparation`) | 5 pictures of 4 to 6 pixels and one that is none, channels 0..3, palettes up to 3 entries, chains of 2 nodes; 245,984 states | `TransparencyIsPaper`, `DrawnIsShown`, `DownsampleFits`, `IndexMeansColour`, `TreeShapeIsNothing`, `SeamsAreCovered`, `TrapsStayNear` |

Why the bounds are enough. The executor's graph is the smallest in which a node
has two dependencies that may finish in one batch or in two, while a third node
waits in the queue for a worker and has the recipe of a running one. The job has a
node with two outputs, outputs held behind those of another node, both kinds of
group, and a node that is still to come when another fails. In the cache run every
part of a key (draft, the bytes, the order of inputs) is what alone tells two
nodes apart, and one module has two outcomes, so that a result of the wrong run would
show. One module of the validation run declares its input twice. Of two requests to a worker one fails in every way there is and the
other meets what it left, while it waited for the lock; a third shows nothing new
(the safety properties were also checked with three requests, up to symmetry). Two
crashes are one during an install and one after the restart that followed it.
Of the two deletions one wins and the other meets every step of the first. What is
proved (below) holds for any number of nodes, outputs, requests, installs, crashes,
sessions, events and clients, as well as pictures and palettes of any size, so the
runs need only be large enough for their liveness properties and mutants. The
pictures have pixels of every alpha; two pairs of them, one with an alpha channel and
one with palettes, hide different shades behind the same clear pixels; a strip is
halved; the filter has a negative lobe, as the bicubic one has, so that it overshoots
and is clipped; a palette has one entry too many; three layers are the fewest that can
be merged in two ways. Two nodes are one that may forget to flatten and one that
shows it.

Bounds on counters: `MaxCrashes` (crashes of the server) and `MaxNodes` (nodes of a
chain). Everything else is finite by itself: a request, a node or an event happens
once. `color_separation` runs without the check for deadlock, as a job really ends;
in the other specifications ending is a step of its own that changes nothing.

The remaining three runs expect a violation; they are the [findings](#findings).

## Fairness

- `ExecSpec`, `JobSpec`: weak fairness of the job thread and of each worker. The
  threads are ordinary operating-system threads; a module's run is assumed to
  end, which `ServesRuns` establishes for extensions (the watchdog) and which is
  an assumption for core modules. Cancels and other jobs' puts are not fair.
- `WorkerSpec`: weak fairness of the requesting threads except for a write to
  the pipe, of the timers, and of the reaping of a dead process. Nothing is assumed
  of the runner, which may neither read nor answer for ever.
- `StreamSpec`: weak fairness of each open stream (the event loop serves it).
  Jobs may say nothing more, and clients may come and go.
- `ComposedSpec`: the same of each stream, and weak fairness of the thread of each
  job that was started; that it really ends is `Terminates` and `FollowsProtocol`.
  Requests, deletions and clients are not fair.

All other specifications are checked for safety only.

## Proofs

`tlapm <module>.tla` for each of the eight modules of proofs. Every inductive
invariant below was first checked by TLC on the instance of the run.

**Executor**, for every finite acyclic graph, list of outputs, pool size and
assignment of keys, from `GraphAssumption`, `PoolAssumption` and `KeyAssumption`:

- `TypeCorrect`, `DependenciesFirstHolds`, `OutcomeHonestHolds`: the three
  invariants of the `executor` run;
- `NodeRunsOnceHolds`, `QuietAfterReturnHolds`, `CancelStopsDispatchHolds`: the
  action properties, from the same invariant.

The invariants are not inductive as they stand: that an unlooked-at future is in
flight, or that an empty `ready` means something, depends on how the scheduler's
five variables and the nodes' phases fit together. `SchedulerInv` says how:
`ReadyInv` (`ready` lists, once each, exactly the idle nodes with no dependency
left), `QueueInv` (the pool's queue lists exactly the queued nodes, once each),
`FlightInv` (a node that is not idle is in flight or has finished, inside the loop
with a result), `DepsInv` (`remaining_deps` is the dependencies not yet looked at,
none for a submitted node), `DoneInv`, `OutcomeInv` and `QuietInv` (what the places
of the scheduler imply). The step from there to `OutcomeHonest` is the lemma
`NothingForgotten`: if `ready` and `in_flight` are empty and nothing failed, the
nodes not run form a set each member of which depends on another member, which
acyclicity excludes. Each action has a lemma or a case of its own.
`SeqLemmas` has the facts about sequences without repetition that this needs.

**Job**, for every graph as above and every choice of groups, from
`GroupAssumption`: `JobTypeCorrect`, `PinnedOutputsInOrderHolds`,
`NothingHeldNeedlesslyHolds`, `AnnouncedIsStoredHolds`, `FinalStatusIsWholeHolds`,
and two refinements. `JobRunsExecutor` (every step of a job is a step or a stutter of
the executor) comes first, as it brings `SchedulerInv` into the job. `JobInv` adds
`PlaceInv` (an output that `run_node` handed to `on_output` is in exactly one place:
in the hand of one worker, held, or recorded), `GateInv` (`next_index` counts the
recorded outputs of a pinned group, which are the first ones, and a held output that
is due has a worker in the gate to flush it), `StoreInv`, `LogInv` (what the log says
is what was done), `ThreadInv` and `StatusInv` (where the job thread stands).
`FinalStatusIsWhole` needs one thought more: when all nodes are done no worker has
anything in hand, and if something were held, the *first* held output of its group
would be due, with nobody to flush it. `JobFollowsProtocol` is the refinement of
`JobProtocol`: an append to the log is the step of the protocol for that event.

**Result cache**, for any number of nodes of any number of jobs, deterministic or not,
from `WorkAssumption` (edges lead to nodes, and not in circles; a module's run has an
outcome): `ResultsAreRightHolds`, *under two hypotheses*.

- `OnePortRead`: of every module at most one output port is read. It holds of the core
  modules, each of which has one output, and of the `recipe_cache` run; without it the
  theorem is false, which is the finding `recipe_cache_ports`.
- `PayloadsAreNoRecipes`: no bound payload consists of the bytes of the canonical JSON
  of a node's recipe. `content_hash` and `recipe_key` are the same untagged blake2b
  (`cache.py:18-19`, `34-45`), so such a payload would contribute the key of that node
  without any collision, and a node bound to it would share an entry with a node that
  reads that node's result. Nothing in the code excludes it; it is an assumption about
  what is uploaded, stated because the theorem is false without it.

`Meaning`, the reference, is recursive along the edges; `MeaningExists` builds it up on
sets of nodes closed under inputs: of the nodes in none of these, the first would be in
one. The core of the invariant is `SameKeyInv`: equal keys stand for equal meanings. A
key holds the keys of the inputs; by `PayloadsAreNoRecipes` a payload's is no node's,
nodes' are those of published nodes, and equal keys name equal modules, so by
`OnePortRead` equal ports. `Meaning` takes each input from any run of the node before
it, as the cache does: of two runs of a nondeterministic node, what is downstream of
one may be served what was made from the other (see the findings).

**Validation**, for any documents, manifests and installs, port names declared more than
once included, from `DocumentsAssumption` (what a document has for a list is a list) and
`ManifestsAssumption` (a registered module has a manifest, with lists of ports):
`AcceptedNeverFailsHolds`, `AcceptedIsAcyclicHolds`; and `InputsAreTypedHolds` *under the
hypothesis* `OneTypePerName`, that no manifest declares a name with two types, without
which it is false (see the findings). The invariant is short, as the registry
only grows: from its acceptance on the graph is the parsed document and still valid
(`AcceptedInv`), the nodes run are nodes of it, all of them once it is completed
(`RanInv`), and under the hypothesis what a node received is what its manifest declares
(`TypedInv`). The work is in
`NoCycle`: Kahn's rounds (`topological_order`) are a recursive function `left`, shown to
exist by `Iterate`, and a set of nodes each of which has a predecessor in the set stays
inside `left` in every round.

**Extension worker**, for any finite set of requests, from `RequestsAssumption`:
`OwnAnswerHolds`, `OneProcessHolds`. `LockInv` (the lock is held from a request's
first step to its last), `ProcessInv` (the only process that may be alive is
`self._process`; a timer's process is that of its request), `PipeInv` (the pipes of the
process are empty except while a request is outstanding, and then hold nothing but what
belongs to that request). A line that is not whole leaves the process on its way to be
stopped, as is one whose pipe fails while it is written or read (`PipeFails`,
`ReadFails`), which is why no answer survives into the next request.
`WorkerServes` is the refinement of `WorkerService`, with `ResultInv` (a request has no
line before it reads one, and no result before it is over) beside that invariant: the
runner's response is the abstract answer, the last step of `request()` the abstract end.
It says what a run may rely on although a watchdog may fire late: an answer that got
out whole is handed on, and no other.

**Extension manager**, for any number of installs, sources and crashes, from
`InstallAssumption` and `SourcesAssumption` (a manifest's modules are a list; a
directory is not the absence of one): `ListedIsOnDiskHolds`, `PromiseKeptHolds`,
`StartsAgainHolds`. `HolderInv` says what the holder of the lock knows at each place:
its name and modules are still free, and its directory has exactly the parts written
so far. `RegistryInv` and `DiskInv` relate registry, list and disk (a state file that
was written as a whole is that of a whole extension whose modules are nobody else's),
`PromiseInv` what was answered. It follows that the rollback in `_register` cannot be
reached through a name that is taken: the checks made under the lock still hold.

**Event stream**, for any number of events and clients, from `StreamAssumption` (the
keepalive is positive): `SentIsPrefixHolds` and `StreamTypeCorrect`. The
invariant adds that log entries carry their position, that between batches the
cursor counts what was sent, and that the rest of a batch follows in the log on
what was sent; the last makes it independent of appends during a batch.

**Sessions**, for any number of sessions, submissions, uploads, fetches and
deletions, from `RequestAssumption` (kinds of requests are disjoint, and a fetch is
for something of its own session): `DeleteStopsKnownJobsHolds`,
`DeletedIsGoneHolds`, `AnnouncedCanBeFetchedHolds`. The properties speak of
finished requests only; the invariant `SessionInv` says what is true on the way:
`AnswerInv` (what a client knows is what was answered, and each code is of one kind
of request), `KeptInv` (what was announced is in the dict it is looked for in),
`CancelInv` (while shutdown goes through its list, each job the client knew of is
still on it, told to stop, or over), `GoneInv` (one deletion has won, the session is
out of the store, from the second step on its manager is out of the dict),
`FoundInv` (until a deletion begins both are there). One lemma per action.

**Composition**: `ComposedIsStream` and `ComposedIsSession` show that every step of
`SessionStreams` is a step, or a stutter, of each component, so that the theorems
above hold of the composed server (`ComposedCorrect`). The fairness part of
`StreamsGoOn` is left to TLC.

**Core modules**, for pictures, palettes, parameters and chains of any size, for any
resampling filter, from `WhiteAssumption` and `DepthAssumption` (a channel and an index
have more than one value), `SourcesAssumption` (an upload is junk, or what `_decode` makes of a PNG, whose
palette a byte can index) and `ParametersAssumption` (parameters are the integers that
`_int_param` and `_float_param` let through, palettes the lists of colours of
`_validate_palette`): `TransparencyIsPaperHolds`, `DrawnIsShownHolds`, `DownsampleFitsHolds`,
`IndexMeansColourHolds`, `TreeShapeIsNothingHolds`, `SeamsAreCoveredHolds`,
`TrapsStayNearHolds`. The invariant has three parts.

- `ChainInv`: `image` and `twin` are pictures a byte can index the palettes of, and
  `Paired`: they differ at most in what clear pixels hide, or, at full quality, look
  alike once flattened. One lemma per module shows that it makes paired pictures of
  paired ones. In a draft the stronger form is needed: a filter mixes neighbours, and
  pictures that only look alike when flattened may no longer do so after it. For
  pictures of the stronger form it is enough that a colour is multiplied by its alpha
  before it is mixed (`MultipliedAlike`, `MixedAlike`), so nothing is assumed of the
  filter, not even that it stays within a channel. The places that are sampled have to
  lie inside the picture (`SamplePlace`), levels have to stay in a channel
  (`RoundBounds`, `PowerGrows`), and an index has to stay below the palette's length.
- `BranchInv`: a branch has the mask of its index (`Region`), then a tracing between
  the mask's core and the mask, then the palette's colour. A pixel of index k is in the
  *core* of a mask that grew, which covers the seams; whatever is in the mask is near
  a pixel of index k, which bounds the traps. Where nothing grows that pixel is the one
  looked at, and `ChainInv` says what it shows: `DrawnIsShown`.
- `StackInv`: the SVGs still to be merged are the layers in order, cut into segments
  that have a metadata element each (`IsCut`). Merging two neighbours removes a cut
  (`MergedStacked`), so that in the end there is one segment, whatever the order was.

`Power` and `Merged` are recursive functions, as the table of `levels` and the loop of
`merge` are; what they compute is shown by giving the function and checking that it
satisfies the equation, with `UpTo` for the induction.

Model-checked only: liveness under fairness, which is out of the proof system's reach.
That is `Terminates`, `EveryEventIsSent`, `EndIsTold`, and the fairness
parts of `FollowsProtocol`, `RunsExecutor`, `ServesRuns` and `StreamsGoOn`, the safety
parts of which are `JobFollowsProtocol`, `JobRunsExecutor`, `WorkerServes` and
`ComposedIsStream`. Every safety property of a passing
run is proved, `ResultsAreRight` and `InputsAreTyped` under the hypotheses named above.

The induction theorems of the proof system's library cannot be used, as they take an
operator. Where an induction over numbers is needed, `SeqLemmas` has one over a
*set* of numbers (`UpTo`), which can be.

## Findings

Three runs end with a counterexample to a sentence of the repository:

1. `recipe_cache_ports` (`MCRecipeCachePorts`): the key of an input is the key of
   the upstream *node* (`executor.py:115`), so two nodes with one recipe that read
   different ports of one node share an entry, and the second is served the
   first one's result. ADR 0006: "each input key is the cache key of the upstream
   node's output port". No core module has two outputs; an extension may.
2. `session_outlived` (`MCSessionLifeOutlives`): `submit_job` uses a manager found
   before it waited for its body (`app.py:238`, `253`); a job can be entered into
   a session already deleted, and nothing cancels it. `jobs.py:114`: "so nothing
   owned by the session outlives it".
3. `worker_late_watchdog` (`MCExtensionWorkerTimeout`): a watchdog that expires as
   its request is answered kills the worker under the next request
   (`extensions.py:218-232`). Nobody gets a wrong answer (`OwnAnswer`), but a run
   fails that did not time out. ADR 0015: "fails that one run".

Smaller ones, seen in the models and without a run of their own:

- Nodes queued in the pool when the job is cancelled still run their modules:
  neither `run_node` nor the pool looks at the flag before (`executor.py:185`,
  `125`). `jobs.py:113`: "Worker threads observe the cancel at their next node
  boundary". Nothing is dispatched after it (`CancelStopsDispatch`) and nothing
  goes on behind the caller's back (`QuietAfterReturn`).
- The cancel flag is tested and the result put into the cache in two steps
  (`executor.py:145-149`), so a result can be put after the flag is set, which
  the comment there means to exclude.
- Look-up and insertion are separate (`executor.py:120`, `149`), so jobs that miss at the
  same time all run the module, and the last to finish replaces the entry (`cache.py:61`).
  ADR 0006: nondeterministic modules "rerun only when their recipe changes". If the module
  is nondeterministic each job shows another image under one key, and a job may be served
  a trace that was made from the image of the other, beside its own. That a result
  belongs to the right recipe is not affected (`ResultsAreRight`).
- An extension's manifest may declare a port name twice (`extensions.py:71-83`).
  Validation compares the first type (`modules.py:37`), results are held against the last
  (`executor.py:128`), so that with two types an accepted graph feeds a port a datum of
  another type than it declares. `graph.py:5`: "strict type matching". Both look-ups are
  in the model (`FirstType`, `LastType`); the hypothesis `OneTypePerName` of
  `InputsAreTypedHolds` excludes the case.
- `colormask` maps raw indices (`color.py:138`) and never looks at a palette image's
  transparency. An uploaded palette image that is separated without `posterize` has its
  clear pixels traced and drawn in the colour they hide. `test_potrace.py:46`:
  "Transparency must not trace as solid black". `colormask` means to take the output of
  `posterize`, which has no transparency, but tests only the mode. This is the exception
  in `DrawnIsShown`.
- Payloads and recipes go through one hash without a tag (`cache.py:18-19`, `34-45`); see
  the hypothesis `PayloadsAreNoRecipes` above.
- `job.error` is set before the status (`jobs.py:207`), so a status document can
  carry an error while it says `running` (ADR 0007: "`error` (once failed)").
  The other order would break `FinalStatusIsWhole`.
- A write of the state file that fails may leave the file; if the server then
  dies while the directory is removed, the file can outlast the source or the
  venv: `load_installed` lists a broken extension, or raises and the server does
  not start. This is the exception in `ListedIsOnDisk` and `StartsAgain`.
- An extension's manifest is parsed from the source directory before that is
  copied, and what is loaded at the next start is the copy: a source that changes
  in between is registered by one manifest and loaded by another. The model has
  sources that do not change during an install.
- A manifest that is not UTF-8 raises `UnicodeDecodeError`, which
  `parse_extension_manifest` does not catch (`extensions.py:93`): the client gets a
  500 where other bad manifests get a 422.
- In draft, a picture so thin that its shorter side is rounded to 0
  (`raster.py:179`; 1024 by 1 for a limit of 512) makes Pillow raise, and the job
  fails that succeeds at full quality. `DownsampleFits` speaks of runs that succeed.
- `_flatten` looks at an alpha channel and at the transparency of palette images
  (`raster.py:27`), not at a colour key of a grey or RGB PNG: such pixels keep their
  colour. The model's pictures have no colour keys.
- In a draft it matters which node flattens: `downsample` hands an alpha channel on and
  mixes it with the colours (`raster.py:179`), after which flattening gives other values
  than flattening first and mixing then. `TransparencyIsPaper` claims the independence
  at full quality only, and in a draft only that hidden colours do not show.
- An upload whose session is deleted while its body arrives is answered 201 for a
  payload nobody can fetch (`app.py:158`). `AnnouncedCanBeFetched` therefore ends
  when a deletion begins.

## Abstractions

- Hashes are free of collisions; ids (`token_urlsafe`) are never repeated.
- Single operations on Python dicts and lists are atomic (the interpreter's
  lock); so is what the code does under a lock of its own and nowhere else.
- A module's run returns results that honour its manifest, or raises; a breach
  of the contract is a raise.
- A process that was sent SIGKILL is gone within the 10 s `stop()` waits.
- At exit, pool and timer threads are joined before the `atexit` handlers run.
- The parts of an extension's directory are written and removed one at a time; a
  part that is not complete counts as absent, except for a state file left by a
  failed write (the part `torn`).
- In `RecipeCache` a module's run has one of a set of outcomes, whoever runs it.
- In `ExtensionInstall` operators remove directories only while the server is
  down, as the conflict message and ADR 0013 suggest.

- Pictures have one channel with an alpha, and a CIELAB distance is the difference of two
  values; a colour is compared with others and looked up, which is all the properties
  need. `Flat` rounds the blend with white once, where Pillow's integer arithmetic may
  be off by one; what is used is that it is a function of shade and alpha that leaves
  opaque pixels as they are and makes clear ones white.
- The bicubic filter is a constant operator of the plane, the two sizes and the place; its
  kernel is not modelled, and nothing is assumed of it.
- Median cut is any partition of the values into ranges, each used by some pixel.
- potrace covers a region but for pixels at its border, or all of it; the two
  extremes are taken. `turdsize`, by which it leaves out specks (2 pixels by default),
  is taken as 0: a speck left out may leave a hole. `blacklevel`, the brightness up to
  which it takes a pixel for black (`potrace.py:78-85`), is left out: a mask is black and
  white, and for any level between 0 and 1 its black pixels are what is traced. At
  0 or 1 themselves, which the module lets through, that need not be so. A value out of
  range is one of the failures of `TraceFails`.
- Rotation is by quarter turns; other angles add white corners.

## Not modelled

- The guard (host, origin and token), the configuration and the command line:
  functions of a request's headers or of the arguments, without state, order or
  concurrency; unit tests reach all there is.
- The lists of modules and extensions and the health check: one read of one dict.
- What Pillow, numpy, scikit-image and potrace compute: third-party code, and
  floating-point or curve arithmetic out of a model checker's reach. Their use, and
  what the properties need of their results, is modelled as above.
- The benchmark scripts, which are clients of the server.

## Plan

Done: the executor; the job with its protocol; parsing, validation and cache;
sessions and streams, composed; worker, with what it promises, and install with its
manifests; the core modules, with partial transparency; the safety properties of all of
them, proved. Left:

1. Several jobs of one session over one log: `JobRun` in place of the job of
   `SessionStreams`, so that what a *client* sees of each job follows `JobProtocol`.
2. Colours of three channels in `Raster`, in which a palette's entries are compared by a
   distance that is no difference of numbers.
