------------------------------- MODULE JobRun -------------------------------
(***************************************************************************)
(* One job of a JobManager (jobs.py): submit, the job thread _run around   *)
(* execute_graph, and the callbacks on_node and on_output that the pool's  *)
(* workers call, with the gate that makes the outputs of a pinned group    *)
(* appear in their declared order.  The executor is module Executor; its   *)
(* steps are taken here together with what the callbacks do.               *)
(***************************************************************************)
EXTENDS Executor

CONSTANTS
    Groups,       \* ids of the output groups of the graph
    GroupOrder,   \* GroupOrder[g]: "pinned" or "completion"
    OutputGroup,  \* OutputGroup[i]: the group of output i, or NoGroup
    NoGroup,
    NoNode        \* holder of the gate when it is free

ASSUME GroupAssumption ==
    /\ GroupOrder \in [Groups -> {"pinned", "completion"}]
    /\ NoGroup \notin Groups
    /\ OutputGroup \in [OutputIds -> Groups \cup {NoGroup}]
    /\ NoNode \notin Nodes

VARIABLES
    job,         \* where submit and then the job thread stand
    status,      \* job.status
    error,       \* job.error is not None
    events,      \* the session's event log, this job's events
    outputs,     \* job.outputs
    payloads,    \* outputs stored in the session's payloads
    held,        \* held[g]: early outputs of pinned group g
    next_index,  \* next_index[g]: how many of g's outputs were emitted
    gate,        \* the node whose worker holds the lock `gate`
    at,          \* at[n]: where n's worker stands inside on_output
    cur          \* cur[n]: the output it is emitting

threadVars == <<job, status, error>>
emitVars   == <<outputs, payloads, held, next_index, gate, at, cur>>
jobVars    == <<threadVars, events, emitVars>>
vars       == <<execVars, jobVars>>

-----------------------------------------------------------------------------
PinnedGroups == { g \in Groups : GroupOrder[g] = "pinned" }

IsPinned(i) == OutputGroup[i] \in PinnedGroups

\* The entries of i's group listed before i; their number is the position of i
\* in pinned_sequence, counted from 0.
Earlier(i)  == { j \in OutputIds : j < i /\ OutputGroup[j] = OutputGroup[i] }
Position(i) == Cardinality(Earlier(i))

StatusEvent(s) == [status |-> s]
NodeEvent(n)   == [node |-> n, cached |-> n \in hits]
OutputEvent(i) == [output |-> i]
EndEvent(s)    == [end |-> s]

Terminal == {"completed", "failed", "cancelled"}

JobInit ==
    /\ ExecInit
    /\ job = "new"
    /\ status = "pending"
    /\ error = FALSE
    /\ events = << >>
    /\ outputs = << >>
    /\ payloads = {}
    /\ held = [g \in PinnedGroups |-> {}]
    /\ next_index = [g \in PinnedGroups |-> 0]
    /\ gate = NoNode
    /\ at = [n \in Nodes |-> "none"]
    /\ cur = [n \in Nodes |-> 0]

-----------------------------------------------------------------------------
(* submit, and the job thread outside execute_graph.  Each assignment to   *)
(* the job and each append to the log can be seen by other threads.        *)

\* Step of the job thread: from one place to the next, changing the status
\* and the error to s and e, and appending the events evs.
ThreadStep(from, to, s, e, evs) ==
    /\ job = from
    /\ job' = to
    /\ status' = s
    /\ error' = e
    /\ events' = events \o evs
    /\ UNCHANGED <<execVars, emitVars>>

\* submit registers the job, then announces it and starts its thread.
SubmitJob == ThreadStep("new", "registered", "pending", error, << >>)

PendingEvent == ThreadStep("registered", "started", status, error, <<StatusEvent("pending")>>)

\* Mutant: _run begins by clearing the cancel event.
SetRunningClears ==
    /\ job = "started"
    /\ job' = "running"
    /\ status' = "running"
    /\ cancel' = FALSE
    /\ UNCHANGED <<schedVars, nodeVars, cache, error, events, emitVars>>

\* The thread begins.
SetRunning == ThreadStep("started", "running", "running", error, << >>)

RunningEvent == ThreadStep("running", "executing", status, error, <<StatusEvent("running")>>)

\* execute_graph is over: an except or the else clause.
SetError ==
    /\ sched = "returned" /\ outcome = "failed"
    /\ ThreadStep("executing", "caught", status, TRUE, << >>)

SetFinalStatus ==
    /\ sched = "returned"
    /\ IF outcome = "failed"
          THEN ThreadStep("caught", "ended", "failed", error, << >>)
          ELSE ThreadStep("executing", "ended", outcome, error, << >>)

FinalStatusEvent == ThreadStep("ended", "told", status, error, <<StatusEvent(status)>>)

FinalEvent == ThreadStep("told", "over", status, error, <<EndEvent(outcome)>>)

\* The job thread inside execute_graph.
RunScheduler ==
    /\ job = "executing"
    /\ Scheduler
    /\ UNCHANGED jobVars

JobThread ==
    \/ SubmitJob \/ PendingEvent \/ SetRunning \/ RunningEvent
    \/ RunScheduler
    \/ SetError \/ SetFinalStatus \/ FinalStatusEvent \/ FinalEvent

-----------------------------------------------------------------------------
(* The worker that runs node n.                                            *)

\* The steps of run_node that call nothing of the job.
RunNodeSilently(n) ==
    /\ at[n] = "none"
    /\ \/ Start(n) \/ Lookup(n) \/ ModuleFails(n) \/ ModuleReturns(n)
       \/ CachePut(n) \/ Publish(n) \/ ReturnNode(n)
    /\ UNCHANGED jobVars

\* The callback on_node: one append to the log.
NodeCompleted(n) ==
    /\ OnNode(n)
    /\ events' = Append(events, NodeEvent(n))
    /\ UNCHANGED <<threadVars, emitVars>>

\* on_output is called: an output of a pinned group goes through the gate.
EnterOnOutput(n, i) ==
    /\ at[n] = "none"
    /\ OnOutput(n, i)
    /\ cur' = [cur EXCEPT ![n] = i]
    /\ at' = [at EXCEPT ![n] = IF IsPinned(i) THEN "gate" ELSE "store"]
    /\ UNCHANGED <<threadVars, events, outputs, payloads, held, next_index, gate>>

\* Mutant: no lock.
GateFreeAlways == TRUE

GateFree == gate = NoNode

\* `with gate:` is entered and the output is held.
EnterGate(n) ==
    /\ at[n] = "gate"
    /\ GateFree
    /\ gate' = n
    /\ held' = [held EXCEPT ![OutputGroup[cur[n]]] = @ \cup {cur[n]}]
    /\ at' = [at EXCEPT ![n] = "flush"]
    /\ UNCHANGED <<execVars, threadVars, events, outputs, payloads, next_index, cur>>

\* Mutant: whatever is held is emitted.
DueAny(n) == held[OutputGroup[cur[n]]]

\* Mutant: only the worker's own output is tried.
DueOwn(n) ==
    { i \in held[OutputGroup[cur[n]]] \cap {cur[n]} :
        Position(i) = next_index[OutputGroup[cur[n]]] }

\* The held output whose turn it is in the group of cur[n], if any.
Due(n) == { i \in held[OutputGroup[cur[n]]] : Position(i) = next_index[OutputGroup[cur[n]]] }

\* A turn of the while loop that finds the next output held.
PopHeld(n, i) ==
    /\ at[n] = "flush"
    /\ i \in Due(n)
    /\ held' = [held EXCEPT ![OutputGroup[i]] = @ \ {i}]
    /\ cur' = [cur EXCEPT ![n] = i]
    /\ at' = [at EXCEPT ![n] = "store"]
    /\ UNCHANGED <<execVars, threadVars, events, outputs, payloads, next_index, gate>>

\* The loop ends or breaks, and the gate is left.
LeaveGate(n) ==
    /\ at[n] = "flush"
    /\ Due(n) = {}
    /\ gate' = NoNode
    /\ at' = [at EXCEPT ![n] = "none"]
    /\ UNCHANGED <<execVars, threadVars, events, outputs, payloads, held, next_index, cur>>

\* Mutant: the record is made without storing the payload.
StorePayloadSkipped(n) ==
    /\ at[n] = "store"
    /\ at' = [at EXCEPT ![n] = "record"]
    /\ UNCHANGED <<execVars, threadVars, events, outputs, payloads, held, next_index, gate, cur>>

\* emit_output: the payload is stored ...
StorePayload(n) ==
    /\ at[n] = "store"
    /\ payloads' = payloads \cup {cur[n]}
    /\ at' = [at EXCEPT ![n] = "record"]
    /\ UNCHANGED <<execVars, threadVars, events, outputs, held, next_index, gate, cur>>

\* ... its record is appended to the job's outputs ...
RecordOutput(n) ==
    /\ at[n] = "record"
    /\ outputs' = Append(outputs, cur[n])
    /\ at' = [at EXCEPT ![n] = "announce"]
    /\ UNCHANGED <<execVars, threadVars, events, payloads, held, next_index, gate, cur>>

\* ... and announced; under the gate the loop goes on with the next index.
AnnounceOutput(n) ==
    /\ at[n] = "announce"
    /\ events' = Append(events, OutputEvent(cur[n]))
    /\ IF IsPinned(cur[n])
          THEN /\ next_index' = [next_index EXCEPT ![OutputGroup[cur[n]]] = @ + 1]
               /\ at' = [at EXCEPT ![n] = "flush"]
          ELSE /\ at' = [at EXCEPT ![n] = "none"]
               /\ UNCHANGED next_index
    /\ UNCHANGED <<execVars, threadVars, outputs, payloads, held, gate, cur>>

Worker(n) ==
    \/ RunNodeSilently(n)
    \/ NodeCompleted(n)
    \/ \E i \in OutputIds : EnterOnOutput(n, i)
    \/ EnterGate(n)
    \/ \E i \in OutputIds : PopHeld(n, i)
    \/ LeaveGate(n)
    \/ StorePayload(n)
    \/ RecordOutput(n)
    \/ AnnounceOutput(n)

-----------------------------------------------------------------------------
\* JobManager.cancel, or shutdown, of a job it knows.
CancelJob ==
    /\ job # "new"
    /\ SetCancel
    /\ UNCHANGED jobVars

OtherPut(k) == OtherJobPut(k) /\ UNCHANGED jobVars

JobOver == job = "over" /\ UNCHANGED vars

JobNext ==
    \/ JobThread
    \/ \E n \in Nodes : Worker(n)
    \/ CancelJob
    \/ \E k \in Keys : OtherPut(k)
    \/ JobOver

JobSafety == JobInit /\ [][JobNext]_vars

\* As in Executor: threads that can run do run, and a module's run ends.
JobSpec ==
    /\ JobSafety
    /\ WF_vars(JobThread)
    /\ \A n \in Nodes : WF_vars(Worker(n))

-----------------------------------------------------------------------------
(* Properties.                                                             *)

\* The job's fields, the locals of _run and the callbacks' places are in their
\* ranges; the gate is held exactly by a worker that is inside it.
JobTypeOK ==
    /\ job \in {"new", "registered", "started", "running", "executing", "caught",
                "ended", "told", "over"}
    /\ status \in {"pending", "running"} \cup Terminal
    /\ error \in BOOLEAN
    /\ outputs \in Seq(OutputIds)
    /\ payloads \subseteq OutputIds
    /\ held \in [PinnedGroups -> SUBSET OutputIds]
    /\ next_index \in [PinnedGroups -> 0 .. Len(OutputNode)]
    /\ gate \in Nodes \cup {NoNode}
    /\ at \in [Nodes -> {"none", "gate", "flush", "store", "record", "announce"}]
    /\ cur \in [Nodes -> OutputIds \cup {0}]
    /\ \A n \in Nodes : gate = n <=> \/ at[n] = "flush"
                                     \/ at[n] \in {"store", "record", "announce"} /\ IsPinned(cur[n])

\* The log obeys the job's protocol, and the job is closed in the end: however
\* the workers' callbacks, the failure of a node and a cancellation interleave,
\* no event comes early, twice, out of the pinned order or after the end.
Protocol == INSTANCE JobProtocol WITH
    log          <- events,
    JobNodes     <- Nodes,
    DependsOn    <- Deps,
    JobOutputs   <- OutputIds,
    ProducedBy   <- OutputNode,
    ListedBefore <- [i \in OutputIds |-> IF IsPinned(i) THEN Earlier(i) ELSE {}]

FollowsProtocol == Protocol!ProtocolSpec

\* The callbacks neither disturb nor block the executor: what this module does
\* to the executor's variables is a fair behaviour of execute_graph.
RunsExecutor == ExecSpec

\* "outputs in a pinned group emit strictly in declared order": the entries of
\* a pinned group in job.outputs, the list GET jobs/<id> returns in the end, are
\* the first ones of the group in declared order, at any time and however the
\* job ends.
PinnedOutputsInOrder ==
    \A k \in DOMAIN outputs : IsPinned(outputs[k]) =>
        \A j \in Earlier(outputs[k]) : \E l \in 1 .. k - 1 : outputs[l] = j

\* An output is held only while one listed before it is missing: when no worker
\* is inside the gate, no held output is due, so the client sees the longest
\* prefix of the group there is.
NothingHeldNeedlessly ==
    gate = NoNode => \A g \in PinnedGroups : \A i \in held[g] : Position(i) # next_index[g]

\* A client told of an output can fetch its payload.
AnnouncedIsStored ==
    \A i \in OutputIds : OutputEvent(i) \in Range(events) => i \in payloads

\* A client that reads a final status has all there is: "completed" comes with
\* every output, each once, and no error, because the status is set after the
\* pool is joined; "failed" comes with its error.
FinalStatusIsWhole ==
    /\ status = "completed" => /\ Len(outputs) = Len(OutputNode)
                               /\ Range(outputs) = OutputIds
                               /\ \A g \in PinnedGroups : held[g] = {}
                               /\ ~error
    /\ status = "failed" => error

=============================================================================
