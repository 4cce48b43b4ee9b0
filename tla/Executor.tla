------------------------------ MODULE Executor ------------------------------
(***************************************************************************)
(* One call of execute_graph (executor.py): the scheduler loop of the job  *)
(* thread, the FIFO work queue of its ThreadPoolExecutor, and run_node on  *)
(* the pool's worker threads, over a validated graph.                      *)
(*                                                                         *)
(* A node is abstracted to its dependencies, the requested outputs it      *)
(* materializes and its recipe key; what a module computes is abstracted   *)
(* to "returns results that honour its manifest" or "raises".  The result  *)
(* cache is shared with the jobs of every other session, which may fill    *)
(* any key at any time.                                                    *)
(***************************************************************************)
EXTENDS Naturals, Sequences, FiniteSets, Functions

CONSTANTS
    Nodes,       \* ids of the graph's nodes
    Deps,        \* Deps[n]: the nodes with an edge into n (dependencies)
    OutputNode,  \* graph.outputs in request order: OutputNode[i] is its node
    Keys,        \* recipe keys of the shared result cache
    Key,         \* Key[n]: the recipe key of node n
    Workers      \* size of the thread pool, max(1, max_workers)

\* What validate_graph guarantees of a graph before execute_graph goes on:
\* every edge joins two of its nodes, and there is no cycle.
ASSUME GraphAssumption ==
    /\ IsFiniteSet(Nodes)
    /\ Deps \in [Nodes -> SUBSET Nodes]
    /\ \A S \in SUBSET Nodes : S # {} => \E n \in S : Deps[n] \cap S = {}
    /\ OutputNode \in Seq(Nodes)

ASSUME PoolAssumption == Workers \in Nat \ {0}

ASSUME KeyAssumption == Key \in [Nodes -> Keys]

VARIABLES
    sched,           \* where the scheduler loop stands
    ready,           \* the list `ready`: nodes to submit at the next dispatch
    in_flight,       \* nodes whose future is in the dict `in_flight`
    done,            \* futures of the last wait() not yet looked at
    remaining_deps,  \* dependencies of a node not yet seen to finish
    outcome,         \* how the loop was left: returned, or what it raised
    queue,           \* the pool's FIFO queue of submitted nodes
    phase,           \* phase[n]: how far run_node(n) is
    hits,            \* nodes whose result came from the cache (was_cached)
    emitted,         \* indices of the entries of emitted_outputs
    cancel,          \* the job's cancel event
    cache            \* keys present in the shared result cache

schedVars == <<sched, ready, in_flight, done, remaining_deps, outcome>>
nodeVars  == <<queue, phase, hits, emitted>>
execVars  == <<schedVars, nodeVars, cancel, cache>>

-----------------------------------------------------------------------------
OutputIds == DOMAIN OutputNode

Dependents(n) == { m \in Nodes : n \in Deps[m] }

OutputsOf(n) == { i \in OutputIds : OutputNode[i] = n }

\* All the orders in which iterating over the Python set S may visit it.
Orders(S) == Bijection(1 .. Cardinality(S), S)

\* A worker thread is busy with a node in one of these phases.
Busy == {"started", "run", "put", "publish", "notify", "emit"}

\* The future of a node is finished: with a result, or with an exception
\* (ModuleError or any other error, ExecutionCancelled).
Finished == {"done", "failed", "dropped"}

Phases == {"idle", "queued"} \cup Busy \cup Finished

SchedStates == {"loop", "dispatch", "drain", "cancelling", "join", "returned"}

Outcomes == {"none", "completed", "failed", "cancelled"}

\* The nodes whose node_keys and node_results entries are written.
Published == { n \in Nodes : phase[n] \in {"notify", "emit", "done"} }

-----------------------------------------------------------------------------
(* The conditions the scheduler tests.  A definition marked "mutant" is a   *)
(* wrong form of the one after it, of the kind a slip in the code would     *)
(* make: the properties below must notice it.                               *)

\* Mutant: `while ready`.
LoopGoesOnReady == ready # << >>

\* The loop condition `ready or in_flight`.
LoopGoesOn == ready # << >> \/ in_flight # {}

\* Mutant: the flag is looked at only while something runs.
CancelSeenBusy == cancel /\ in_flight # {}

\* cancel.is_set() at the head of an iteration.
CancelSeen == cancel

\* Mutant: all futures ever made are waited for.
FinishedFuturesAll == { n \in Nodes : phase[n] \in Finished }

\* The first result of wait(in_flight, FIRST_COMPLETED).
FinishedFutures == { n \in in_flight : phase[n] \in Finished }

\* Mutant: without the test `if not deps`.
FreedNoTest(n) == Dependents(n)

\* Mutant: all nodes are scanned for an empty set of dependencies.
FreedRescan(n) == { m \in (Nodes \ in_flight) \cup {n} : remaining_deps[m] \subseteq {n} }

\* The dependents of n left with no dependency once n is discarded.
Freed(n) == { m \in Dependents(n) : remaining_deps[m] \subseteq {n} }

\* Mutant: shutdown(wait=False).
PoolEndedNoWait == TRUE

\* shutdown(wait=True) returns: it cancels no queued future, so the queue is
\* empty and the worker threads are idle.
PoolEnded == \A n \in Nodes : phase[n] \notin {"queued"} \cup Busy

-----------------------------------------------------------------------------
ExecInit ==
    /\ sched = "loop"
    /\ remaining_deps = Deps
    /\ ready \in Orders({ n \in Nodes : Deps[n] = {} })
    /\ in_flight = {}
    /\ done = {}
    /\ outcome = "none"
    /\ queue = << >>
    /\ phase = [n \in Nodes |-> "idle"]
    /\ hits = {}
    /\ emitted = {}
    /\ cancel = FALSE
    /\ cache \in SUBSET Keys

-----------------------------------------------------------------------------
(* The scheduler: the job thread inside `with ThreadPoolExecutor`.         *)

\* The loop condition fails: leave the `with` block normally.
LeaveLoop ==
    /\ sched = "loop"
    /\ ~LoopGoesOn
    /\ sched' = "join"
    /\ outcome' = "completed"
    /\ UNCHANGED <<ready, in_flight, done, remaining_deps, nodeVars, cancel, cache>>

\* An iteration begins with the test of the cancel event.
TestCancel ==
    /\ sched = "loop"
    /\ LoopGoesOn
    /\ sched' = IF CancelSeen THEN "cancelling" ELSE "dispatch"
    /\ UNCHANGED <<ready, in_flight, done, remaining_deps, outcome, nodeVars, cancel, cache>>

\* pool.submit of the next ready node.
Submit ==
    /\ sched = "dispatch"
    /\ ready # << >>
    /\ queue' = Append(queue, Head(ready))
    /\ phase' = [phase EXCEPT ![Head(ready)] = "queued"]
    /\ in_flight' = in_flight \cup {Head(ready)}
    /\ ready' = Tail(ready)
    /\ UNCHANGED <<sched, done, remaining_deps, outcome, hits, emitted, cancel, cache>>

\* wait(in_flight, FIRST_COMPLETED) returns every future finished by then.  A
\* future that finishes while wait() returns is as good as one finishing later.
WaitFirst ==
    /\ sched = "dispatch"
    /\ ready = << >>
    /\ FinishedFutures # {}
    /\ done' = FinishedFutures
    /\ sched' = "drain"
    /\ UNCHANGED <<ready, in_flight, remaining_deps, outcome, nodeVars, cancel, cache>>

\* One turn of `for future in done` whose result() returns: the dependents
\* that waited for this node only become ready, in the set's order.
DrainResult(n) ==
    /\ sched = "drain"
    /\ n \in done
    /\ phase[n] = "done"
    /\ in_flight' = in_flight \ {n}
    /\ done' = done \ {n}
    /\ remaining_deps' = [m \in Nodes |-> remaining_deps[m] \ {n}]
    /\ \E order \in Orders(Freed(n)) : ready' = ready \o order
    /\ sched' = IF done = {n} THEN "loop" ELSE "drain"
    /\ UNCHANGED <<outcome, nodeVars, cancel, cache>>

\* One turn of it whose result() re-raises: the loop is left at once.
DrainError(n) ==
    /\ sched = "drain"
    /\ n \in done
    /\ phase[n] \in {"failed", "dropped"}
    /\ in_flight' = in_flight \ {n}
    /\ done' = done \ {n}
    /\ outcome' = IF phase[n] = "failed" THEN "failed" ELSE "cancelled"
    /\ sched' = "join"
    /\ UNCHANGED <<ready, remaining_deps, nodeVars, cancel, cache>>

\* Mutant: the wait, without the raise after it.
CancelRaiseForgotten ==
    /\ sched = "cancelling"
    /\ in_flight \subseteq FinishedFutures
    /\ sched' = "loop"
    /\ UNCHANGED <<ready, in_flight, done, remaining_deps, outcome, nodeVars, cancel, cache>>

\* The loop saw the cancel event: wait for every future, then raise.
CancelRaise ==
    /\ sched = "cancelling"
    /\ in_flight \subseteq FinishedFutures
    /\ sched' = "join"
    /\ outcome' = "cancelled"
    /\ UNCHANGED <<ready, in_flight, done, remaining_deps, nodeVars, cancel, cache>>

\* The pool's __exit__.
Join ==
    /\ sched = "join"
    /\ PoolEnded
    /\ sched' = "returned"
    /\ UNCHANGED <<ready, in_flight, done, remaining_deps, outcome, nodeVars, cancel, cache>>

Scheduler ==
    \/ LeaveLoop
    \/ TestCancel
    \/ Submit
    \/ WaitFirst
    \/ \E n \in Nodes : DrainResult(n)
    \/ \E n \in Nodes : DrainError(n)
    \/ CancelRaise
    \/ Join

-----------------------------------------------------------------------------
(* run_node(n) on a worker thread.                                         *)

\* A free worker takes the oldest work item.
Start(n) ==
    /\ queue # << >>
    /\ n = Head(queue)
    /\ Cardinality({ m \in Nodes : phase[m] \in Busy }) < Workers
    /\ queue' = Tail(queue)
    /\ phase' = [phase EXCEPT ![n] = "started"]
    /\ UNCHANGED <<schedVars, hits, emitted, cancel, cache>>

\* Inputs are gathered, the recipe key computed and looked up.
Lookup(n) ==
    /\ phase[n] = "started"
    /\ IF Key[n] \in cache
          THEN /\ phase' = [phase EXCEPT ![n] = "publish"]
               /\ hits' = hits \cup {n}
          ELSE /\ phase' = [phase EXCEPT ![n] = "run"]
               /\ UNCHANGED hits
    /\ UNCHANGED <<schedVars, queue, emitted, cancel, cache>>

\* module.run raises, or its results break the manifest contract.
ModuleFails(n) ==
    /\ phase[n] = "run"
    /\ phase' = [phase EXCEPT ![n] = "failed"]
    /\ UNCHANGED <<schedVars, queue, hits, emitted, cancel, cache>>

\* module.run returns conforming results; a cancelled job drops them.
ModuleReturns(n) ==
    /\ phase[n] = "run"
    /\ phase' = [phase EXCEPT ![n] = IF cancel THEN "dropped" ELSE "put"]
    /\ UNCHANGED <<schedVars, queue, hits, emitted, cancel, cache>>

CachePut(n) ==
    /\ phase[n] = "put"
    /\ cache' = cache \cup {Key[n]}
    /\ phase' = [phase EXCEPT ![n] = "publish"]
    /\ UNCHANGED <<schedVars, queue, hits, emitted, cancel>>

\* node_keys, node_results and executed/cached are written under state_lock.
Publish(n) ==
    /\ phase[n] = "publish"
    /\ phase' = [phase EXCEPT ![n] = "notify"]
    /\ UNCHANGED <<schedVars, queue, hits, emitted, cancel, cache>>

\* on_node(n, was_cached).
OnNode(n) ==
    /\ phase[n] = "notify"
    /\ phase' = [phase EXCEPT ![n] = "emit"]
    /\ UNCHANGED <<schedVars, queue, hits, emitted, cancel, cache>>

\* The node's next requested output is recorded and handed to on_output.
OnOutput(n, i) ==
    /\ phase[n] = "emit"
    /\ i \in OutputsOf(n) \ emitted
    /\ \A j \in OutputsOf(n) : j < i => j \in emitted
    /\ emitted' = emitted \cup {i}
    /\ UNCHANGED <<schedVars, queue, phase, hits, cancel, cache>>

ReturnNode(n) ==
    /\ phase[n] = "emit"
    /\ OutputsOf(n) \subseteq emitted
    /\ phase' = [phase EXCEPT ![n] = "done"]
    /\ UNCHANGED <<schedVars, queue, hits, emitted, cancel, cache>>

RunNode(n) ==
    \/ Start(n)
    \/ Lookup(n)
    \/ ModuleFails(n)
    \/ ModuleReturns(n)
    \/ CachePut(n)
    \/ Publish(n)
    \/ OnNode(n)
    \/ \E i \in OutputIds : OnOutput(n, i)
    \/ ReturnNode(n)

-----------------------------------------------------------------------------
(* The environment.                                                        *)

\* JobManager.cancel or shutdown sets the event; nothing clears it.
SetCancel ==
    /\ ~cancel
    /\ cancel' = TRUE
    /\ UNCHANGED <<schedVars, nodeVars, cache>>

\* A job of this or another session stores a result under key k.
OtherJobPut(k) ==
    /\ k \notin cache
    /\ cache' = cache \cup {k}
    /\ UNCHANGED <<schedVars, nodeVars, cancel>>

ExecDone == sched = "returned" /\ UNCHANGED execVars

ExecNext ==
    \/ Scheduler
    \/ \E n \in Nodes : RunNode(n)
    \/ SetCancel
    \/ \E k \in Keys : OtherJobPut(k)
    \/ ExecDone

ExecSafety == ExecInit /\ [][ExecNext]_execVars

\* The threads are scheduled by the operating system and a module's run ends
\* (an isolated one by its timeout), so no enabled step waits for ever.
ExecSpec ==
    /\ ExecSafety
    /\ WF_execVars(Scheduler)
    /\ \A n \in Nodes : WF_execVars(RunNode(n))

-----------------------------------------------------------------------------
(* Properties.                                                             *)

\* The variables hold what the code's dicts, lists and sets may hold; the
\* futures still to be looked at are futures in flight.
TypeOK ==
    /\ sched \in SchedStates
    /\ ready \in Seq(Nodes)
    /\ in_flight \subseteq Nodes
    /\ done \subseteq in_flight
    /\ remaining_deps \in [Nodes -> SUBSET Nodes]
    /\ outcome \in Outcomes
    /\ queue \in Seq(Nodes)
    /\ phase \in [Nodes -> Phases]
    /\ hits \subseteq Nodes
    /\ emitted \subseteq OutputIds
    /\ cancel \in BOOLEAN
    /\ cache \subseteq Keys

\* "read only by workers running dependents, which the scheduler starts
\* strictly afterwards" (comment on node_keys/node_results): when a node is
\* handed to the pool every node it reads from has written its entries, so
\* node_keys[src_node] and node_results[src_node] are present.
DependenciesFirst ==
    \A n \in Nodes : phase[n] # "idle" => Deps[n] \subseteq Published

\* run_node is called at most once per node: whatever the order in which
\* several dependencies finish, a dependent is appended to `ready` once.
NodeRunsOnce ==
    [][\A n \in Nodes :
          /\ phase'[n] = "queued"  => phase[n] \in {"idle", "queued"}
          /\ phase'[n] = "started" => phase[n] \in {"queued", "started"}]_execVars

\* What execute_graph reports is what happened: it returns only if every node
\* finished and every requested output was recorded (so the lookup
\* emitted_outputs[ref] cannot fail), raises a module error only if a node
\* failed, and raises ExecutionCancelled only if the job was cancelled.
OutcomeHonest ==
    /\ outcome = "completed" => /\ \A n \in Nodes : phase[n] = "done"
                               /\ emitted = OutputIds
    /\ outcome = "failed"    => \E n \in Nodes : phase[n] = "failed"
    /\ outcome = "cancelled" => cancel

\* Once execute_graph has returned or raised, no worker thread touches a node,
\* calls on_node or on_output, or writes the cache for this job any more: the
\* pool is joined first, queued nodes included.
QuietAfterReturn ==
    [][sched = "returned" => UNCHANGED nodeVars]_execVars

\* "a cancel flag stops dispatching new nodes": from the time the flag is set
\* and the dispatch then under way is over, no node is handed to the pool.
CancelStopsDispatch ==
    [](cancel /\ sched # "dispatch" => [](sched # "dispatch"))

\* execute_graph ends: whatever fails or is cancelled, in whatever order, the
\* scheduler never waits for a future that will not finish.
Terminates == <>(sched = "returned")

=============================================================================
