---------------------------- MODULE JobRunProofs ----------------------------
(***************************************************************************)
(* The scheduler of Executor is correct for every graph without a cycle,   *)
(* every number of workers and every behaviour of modules, cancellation    *)
(* and the other jobs that share the cache.  A job of JobRun runs          *)
(* execute_graph as Executor specifies it, tells the log what JobProtocol  *)
(* allows, and keeps its promises about outputs: for every grouping of the *)
(* outputs, and whatever fails, is cached or is cancelled.                 *)
(***************************************************************************)
EXTENDS JobRun, SeqLemmas

-----------------------------------------------------------------------------
(* The scheduler's inductive invariant.                                    *)

\* The nodes the scheduler has seen finish with a result.
Drained == { n \in Nodes \ in_flight : phase[n] = "done" }

\* `ready` lists, once each, idle nodes that wait for no other; and every such
\* node is in it: none is forgotten.
ReadyInv ==
    /\ IsInjective(ready)
    /\ \A n \in Nodes : n \in Range(ready)
                          <=> phase[n] = "idle" /\ remaining_deps[n] = {}

\* The pool's queue lists the queued nodes, once each.
QueueInv ==
    /\ IsInjective(queue)
    /\ \A n \in Nodes : n \in Range(queue) <=> phase[n] = "queued"

\* A future leaves in_flight only when finished; one that finished with an
\* exception ends the loop.
FlightInv ==
    /\ \A n \in in_flight : phase[n] # "idle"
    /\ \A n \in Nodes \ in_flight : phase[n] \in {"idle"} \cup Finished
    /\ sched \notin {"join", "returned"} =>
          \A n \in Nodes \ in_flight : phase[n] \in {"idle", "done"}

\* remaining_deps is what the scheduler has not yet seen finish, and nothing
\* of it is left for a node that was submitted.
DepsInv ==
    /\ \A n \in Nodes : remaining_deps[n] = Deps[n] \ Drained
    /\ \A n \in Nodes : phase[n] # "idle" => remaining_deps[n] = {}

DoneInv == \A n \in done : phase[n] \in Finished

\* Futures are looked at, and results handed on, only inside the loop.
OutcomeInv ==
    /\ sched \notin {"join", "returned"} => outcome = "none"
    /\ \A n \in Nodes : phase[n] = "dropped" => cancel
    /\ \A i \in OutputIds : phase[OutputNode[i]] = "done" => i \in emitted
    /\ outcome = "completed" => \A n \in Nodes : phase[n] = "done"
    /\ outcome = "failed"    => \E n \in Nodes : phase[n] = "failed"
    /\ outcome = "cancelled" \/ sched = "cancelling" => cancel

\* After the join no node is queued or runs.
QuietInv == sched = "returned" => \A n \in Nodes : phase[n] \notin {"queued"} \cup Busy

SchedulerInv ==
    /\ TypeOK
    /\ ReadyInv
    /\ QueueInv
    /\ FlightInv
    /\ DepsInv
    /\ DoneInv
    /\ OutcomeInv
    /\ QuietInv

-----------------------------------------------------------------------------
(* Facts about the operators.                                              *)

\* Every order of a finite set is a list of its elements without duplicates.
LEMMA OrdersFacts ==
    ASSUME NEW S, IsFiniteSet(S), NEW s \in Orders(S)
    PROVE  /\ s \in Seq(S)
           /\ Range(s) = S
           /\ IsInjective(s)
  BY FS_CardinalityType DEF Orders, Bijection, Injection, Surjection, Range

\* Every set of nodes is finite.
LEMMA SubsetFinite == ASSUME NEW S \in SUBSET Nodes PROVE IsFiniteSet(S)
  BY GraphAssumption, FS_Subset

-----------------------------------------------------------------------------
(* The invariant holds initially.                                          *)

\* The invariant holds when execute_graph enters its loop: what is ready is what
\* has no dependency.
LEMMA InitInv == ExecInit => SchedulerInv
  <1> SUFFICES ASSUME ExecInit PROVE SchedulerInv
    OBVIOUS
  <1> USE DEF ExecInit
  <1> DEFINE sources == { n \in Nodes : Deps[n] = {} }
  <1>1. /\ ready \in Seq(sources) /\ Range(ready) = sources /\ IsInjective(ready)
    BY OrdersFacts, SubsetFinite
  <1>2. ready \in Seq(Nodes)
    BY <1>1
  <1>3. TypeOK
    <2>1. remaining_deps \in [Nodes -> SUBSET Nodes]
      BY GraphAssumption
    <2>2. phase \in [Nodes -> Phases]
      BY DEF Phases
    <2>3. queue \in Seq(Nodes)
      OBVIOUS
    <2>4. sched \in SchedStates /\ outcome \in Outcomes
      BY DEF SchedStates, Outcomes
    <2> QED BY <1>2, <2>1, <2>2, <2>3, <2>4 DEF TypeOK
  <1>4. ReadyInv
    BY <1>1, GraphAssumption DEF ReadyInv
  <1>5. QueueInv
    BY DEF QueueInv, IsInjective, Range
  <1>6. FlightInv /\ DepsInv /\ DoneInv /\ OutcomeInv /\ QuietInv
    BY GraphAssumption DEF FlightInv, DepsInv, DoneInv, OutcomeInv, QuietInv, Drained, OutputIds
  <1> QED BY <1>3, <1>4, <1>5, <1>6 DEF SchedulerInv

-----------------------------------------------------------------------------
(* The invariant is preserved: first the steps of run_node.                *)

\* A step of run_node(n) that moves n from a busy phase to another or to the
\* end, and leaves the scheduler and the queue alone, preserves the invariant.
LEMMA BusyStep ==
    ASSUME SchedulerInv,
           NEW n \in Nodes, NEW p \in Busy \cup Finished,
           phase[n] \in Busy,
           phase' = [phase EXCEPT ![n] = p],
           p = "dropped" => cancel,
           p = "done" => OutputsOf(n) \subseteq emitted,
           hits' \subseteq Nodes, cache' \subseteq Keys,
           UNCHANGED <<schedVars, queue, emitted, cancel>>
    PROVE  SchedulerInv'
  <1> USE DEF SchedulerInv, schedVars
  <1>1. TypeOK'
    BY DEF TypeOK, Phases, Finished, Busy
  <1>2. n \in in_flight
    BY DEF FlightInv, Busy, Finished
  <1>3. /\ phase'[n] = p
        /\ \A m \in Nodes \ {n} : phase'[m] = phase[m]
    BY DEF TypeOK
  <1>4. p \notin {"idle", "queued"} /\ phase[n] \notin {"idle", "queued", "done", "failed", "dropped"}
    BY DEF Busy, Finished
  <1>5. Drained' = Drained
    BY <1>2, <1>3 DEF Drained
  <1>6. ReadyInv'
    BY <1>3, <1>4 DEF ReadyInv
  <1>7. QueueInv'
    BY <1>3, <1>4 DEF QueueInv
  <1>8. FlightInv'
    BY <1>2, <1>3, <1>4 DEF FlightInv
  <1>9. DepsInv'
    BY <1>3, <1>4, <1>5 DEF DepsInv
  <1>10. DoneInv'
    BY <1>3, <1>4 DEF DoneInv, Finished, TypeOK
  <1>11. sched # "returned"
    BY DEF QuietInv
  <1>12. OutcomeInv'
    <2>1. \A i \in OutputIds : phase'[OutputNode[i]] = "done" => i \in emitted
      BY <1>3, GraphAssumption DEF OutcomeInv, OutputIds, OutputsOf
    <2>2. \A m \in Nodes : phase'[m] = "dropped" => cancel
      BY <1>3 DEF OutcomeInv
    <2>3. outcome # "completed"
      BY <1>4 DEF OutcomeInv
    <2>4. outcome = "failed" => \E m \in Nodes : phase'[m] = "failed"
      BY <1>3, <1>4 DEF OutcomeInv
    <2> QED BY <2>1, <2>2, <2>3, <2>4 DEF OutcomeInv, OutputIds
  <1>13. QuietInv'
    BY <1>11 DEF QuietInv
  <1> QED BY <1>1, <1>6, <1>7, <1>8, <1>9, <1>10, <1>12, <1>13

\* A worker takes the first node of the queue.
LEMMA StartStep ==
    ASSUME SchedulerInv, NEW n \in Nodes, Start(n)
    PROVE  SchedulerInv'
  <1> USE DEF SchedulerInv, schedVars, Start
  <1>1. /\ Tail(queue) \in Seq(Nodes)
        /\ IsInjective(Tail(queue))
        /\ Range(Tail(queue)) = Range(queue) \ {n}
        /\ n \in Range(queue)
    BY TailFacts DEF TypeOK, QueueInv
  <1>2. TypeOK'
    BY <1>1 DEF TypeOK, Phases, Busy
  <1>3. /\ phase'[n] = "started" /\ phase[n] = "queued"
        /\ \A m \in Nodes \ {n} : phase'[m] = phase[m]
    BY <1>1 DEF TypeOK, QueueInv
  <1>4. n \in in_flight
    BY <1>3 DEF FlightInv, Finished
  <1>5. Drained' = Drained
    BY <1>3, <1>4 DEF Drained
  <1>6. ReadyInv'
    BY <1>3 DEF ReadyInv
  <1>7. QueueInv'
    BY <1>1, <1>3 DEF QueueInv
  <1>8. FlightInv'
    BY <1>3, <1>4 DEF FlightInv
  <1>9. DepsInv'
    BY <1>3, <1>5 DEF DepsInv
  <1>10. DoneInv'
    BY <1>3 DEF DoneInv, Finished, TypeOK
  <1>11. OutcomeInv'
    <2>1. \A i \in OutputIds : phase'[OutputNode[i]] = "done" => i \in emitted
      BY <1>3, GraphAssumption DEF OutcomeInv, OutputIds
    <2> QED BY <1>3, <2>1 DEF OutcomeInv, OutputIds
  <1>12. QuietInv'
    BY <1>3 DEF QuietInv
  <1> QED BY <1>2, <1>6, <1>7, <1>8, <1>9, <1>10, <1>11, <1>12

\* Every step of run_node, on any worker, preserves the invariant.
LEMMA RunNodeStep ==
    ASSUME SchedulerInv, NEW n \in Nodes, RunNode(n)
    PROVE  SchedulerInv'
  <1> USE DEF Busy, Finished
  <1>0. hits \subseteq Nodes /\ cache \subseteq Keys /\ Key[n] \in Keys
    BY KeyAssumption DEF SchedulerInv, TypeOK
  <1>1. CASE Start(n)
    BY <1>1, StartStep
  <1>2. CASE Lookup(n)
    <2>1. CASE Key[n] \in cache
      BY <1>0, <1>2, <2>1, BusyStep DEF Lookup
    <2>2. CASE Key[n] \notin cache
      BY <1>0, <1>2, <2>2, BusyStep DEF Lookup
    <2> QED BY <2>1, <2>2
  <1>3. CASE ModuleFails(n)
    BY <1>0, <1>3, BusyStep DEF ModuleFails
  <1>4. CASE ModuleReturns(n)
    <2>1. CASE cancel
      BY <1>0, <1>4, <2>1, BusyStep DEF ModuleReturns
    <2>2. CASE ~cancel
      BY <1>0, <1>4, <2>2, BusyStep DEF ModuleReturns
    <2> QED BY <2>1, <2>2
  <1>5. CASE CachePut(n)
    BY <1>0, <1>5, BusyStep DEF CachePut
  <1>6. CASE Publish(n)
    BY <1>0, <1>6, BusyStep DEF Publish
  <1>7. CASE OnNode(n)
    BY <1>0, <1>7, BusyStep DEF OnNode
  <1>8. ASSUME NEW i \in OutputIds, OnOutput(n, i) PROVE SchedulerInv'
    <2> USE <1>8 DEF SchedulerInv, OnOutput, schedVars
    <2>1. TypeOK' /\ ReadyInv' /\ QueueInv' /\ FlightInv' /\ DoneInv' /\ QuietInv'
      BY DEF TypeOK, ReadyInv, QueueInv, FlightInv, DoneInv, QuietInv
    <2>2. Drained' = Drained
      BY DEF Drained
    <2>3. DepsInv'
      BY <2>2 DEF DepsInv
    <2>4. OutcomeInv'
      BY DEF OutcomeInv, OutputIds
    <2> QED BY <2>1, <2>3, <2>4
  <1>9. CASE ReturnNode(n)
    BY <1>0, <1>9, BusyStep DEF ReturnNode
  <1> QED BY <1>1, <1>2, <1>3, <1>4, <1>5, <1>6, <1>7, <1>8, <1>9 DEF RunNode

-----------------------------------------------------------------------------
(* Then the steps of the scheduler.                                        *)

\* If nothing is ready and nothing in flight, every node is done: otherwise
\* some idle node depends on no idle node, so all it depends on is drained,
\* so it is ready.  This is where the graph must have no cycle.
LEMMA NothingForgotten ==
    ASSUME SchedulerInv, sched = "loop", ready = << >>, in_flight = {}
    PROVE  \A n \in Nodes : phase[n] = "done"
  <1> DEFINE idle == { n \in Nodes : phase[n] = "idle" }
  <1>1. \A n \in Nodes : phase[n] \in {"idle", "done"}
    BY DEF SchedulerInv, FlightInv
  <1>2. ASSUME idle # {} PROVE FALSE
    <2>1. PICK n \in idle : Deps[n] \cap idle = {}
      BY <1>2, GraphAssumption
    <2>2. Deps[n] \subseteq Drained
      BY <1>1, <2>1, GraphAssumption DEF Drained
    <2>3. n \in Range(ready)
      BY <2>2 DEF SchedulerInv, DepsInv, ReadyInv
    <2> QED BY <2>3 DEF Range
  <1> QED BY <1>1, <1>2

\* The first ready node is handed to the pool.
LEMMA SubmitStep ==
    ASSUME SchedulerInv, Submit
    PROVE  SchedulerInv'
  <1> USE DEF SchedulerInv, Submit
  <1> DEFINE n == Head(ready)
  <1>1. /\ n \in Nodes /\ n \in Range(ready)
        /\ Tail(ready) \in Seq(Nodes)
        /\ IsInjective(Tail(ready))
        /\ Range(Tail(ready)) = Range(ready) \ {n}
    BY TailFacts DEF TypeOK, ReadyInv
  <1>2. phase[n] = "idle" /\ remaining_deps[n] = {} /\ n \notin in_flight
    BY <1>1 DEF ReadyInv, FlightInv
  <1>3. /\ queue' \in Seq(Nodes)
        /\ IsInjective(queue')
        /\ Range(queue') = Range(queue) \cup {n}
    BY <1>1, <1>2, AppendFacts DEF TypeOK, QueueInv
  <1>4. /\ phase'[n] = "queued"
        /\ \A m \in Nodes \ {n} : phase'[m] = phase[m]
        /\ in_flight' = in_flight \cup {n}
        /\ ready' = Tail(ready)
    BY <1>1 DEF TypeOK
  <1> HIDE DEF n
  <1>5. TypeOK'
    BY <1>1, <1>3, <1>4 DEF TypeOK, Phases, n
  <1>6. Drained' = Drained
    BY <1>1, <1>2, <1>4 DEF Drained
  <1>7. ReadyInv'
    BY <1>1, <1>4 DEF ReadyInv
  <1>8. QueueInv'
    BY <1>3, <1>4, <1>1, <1>2 DEF QueueInv
  <1>9. FlightInv'
    BY <1>4, <1>1 DEF FlightInv
  <1>10. DepsInv'
    BY <1>1, <1>2, <1>4, <1>6 DEF DepsInv
  <1>11. DoneInv'
    BY <1>1, <1>2, <1>4 DEF DoneInv, TypeOK
  <1>12. OutcomeInv'
    <2>1. \A i \in OutputIds : phase'[OutputNode[i]] = "done" => i \in emitted
      BY <1>4, <1>1, GraphAssumption DEF OutcomeInv, OutputIds
    <2>2. outcome = "none"
      BY DEF OutcomeInv
    <2> QED BY <1>4, <1>1, <2>1, <2>2 DEF OutcomeInv, OutputIds
  <1>13. QuietInv'
    BY DEF QuietInv
  <1> QED BY <1>5, <1>7, <1>8, <1>9, <1>10, <1>11, <1>12, <1>13

\* A result is looked at: its dependents lose it from remaining_deps, and
\* those left with none are appended to `ready`.
LEMMA DrainResultStep ==
    ASSUME SchedulerInv, NEW n \in Nodes, DrainResult(n)
    PROVE  SchedulerInv'
  <1> USE DEF SchedulerInv
  <1> DEFINE freed == Freed(n)
  <1>1. PICK order \in Orders(freed) : ready' = ready \o order
    BY DEF DrainResult
  <1>2. /\ sched = "drain" /\ n \in done /\ phase[n] = "done"
        /\ in_flight' = in_flight \ {n} /\ done' = done \ {n}
        /\ remaining_deps' = [m \in Nodes |-> remaining_deps[m] \ {n}]
        /\ sched' \in {"loop", "drain"}
        /\ UNCHANGED <<outcome, queue, phase, hits, emitted, cancel, cache>>
    BY DEF DrainResult, nodeVars
  <1>3. n \in in_flight /\ n \notin Drained
    BY <1>2 DEF TypeOK, Drained
  <1>4. freed \subseteq Nodes /\ \A m \in freed : n \in Deps[m]
    BY DEF Freed, Dependents
  <1>5. \A m \in Nodes : n \in Deps[m] => n \in remaining_deps[m]
    BY <1>3 DEF DepsInv
  <1>6. \A m \in freed : phase[m] = "idle" /\ m \notin Range(ready)
    BY <1>4, <1>5 DEF DepsInv, ReadyInv
  <1>7. order \in Seq(freed) /\ Range(order) = freed /\ IsInjective(order)
    BY <1>4, OrdersFacts, SubsetFinite
  <1>8. order \in Seq(Nodes)
    BY <1>4, <1>7
  <1>9. /\ ready' \in Seq(Nodes)
        /\ Range(ready') = Range(ready) \cup freed
        /\ IsInjective(ready')
    BY <1>1, <1>6, <1>7, <1>8, ConcatFacts DEF TypeOK, ReadyInv
  <1>10. TypeOK'
    BY <1>2, <1>9 DEF TypeOK, SchedStates
  <1>11. Drained' = Drained \cup {n}
    BY <1>2 DEF Drained
  <1>12. \A m \in Nodes : remaining_deps'[m] = remaining_deps[m] \ {n}
    BY <1>2
  <1>13. DepsInv'
    BY <1>2, <1>11, <1>12 DEF DepsInv
  <1>14. ReadyInv'
    <2>1. ASSUME NEW m \in Nodes
          PROVE  m \in freed <=> remaining_deps[m] # {} /\ remaining_deps[m] \subseteq {n}
      <3>1. m \in freed => n \in remaining_deps[m]
        BY <1>4, <1>5
      <3>2. remaining_deps[m] # {} /\ remaining_deps[m] \subseteq {n} => n \in Deps[m]
        BY DEF DepsInv
      <3> QED BY <3>1, <3>2 DEF Freed, Dependents
    <2>2. ASSUME NEW m \in Nodes
          PROVE  remaining_deps'[m] = {}
                   <=> remaining_deps[m] = {} \/ m \in freed
      BY <1>12, <2>1
    <2> QED BY <1>2, <1>6, <1>9, <2>2 DEF ReadyInv
  <1>15. QueueInv' /\ DoneInv'
    BY <1>2 DEF QueueInv, DoneInv
  <1>16. FlightInv'
    BY <1>2 DEF FlightInv, Finished
  <1>17. OutcomeInv' /\ QuietInv'
    BY <1>2 DEF OutcomeInv, QuietInv, OutputIds
  <1> QED BY <1>10, <1>13, <1>14, <1>15, <1>16, <1>17

\* An exception is re-raised: the loop is left with its outcome.
LEMMA DrainErrorStep ==
    ASSUME SchedulerInv, NEW n \in Nodes, DrainError(n)
    PROVE  SchedulerInv'
  <1> USE DEF SchedulerInv, DrainError, nodeVars
  <1>1. n \in in_flight /\ outcome' \in {"failed", "cancelled"}
    BY DEF TypeOK
  <1>2. TypeOK'
    BY <1>1 DEF TypeOK, SchedStates, Outcomes
  <1>3. Drained' = Drained
    BY DEF Drained
  <1>4. ReadyInv' /\ QueueInv' /\ DoneInv' /\ QuietInv'
    BY DEF ReadyInv, QueueInv, DoneInv, QuietInv
  <1>5. DepsInv'
    BY <1>3 DEF DepsInv
  <1>6. FlightInv'
    BY DEF FlightInv, Finished
  <1>7. OutcomeInv'
    BY <1>1 DEF OutcomeInv, OutputIds
  <1> QED BY <1>2, <1>4, <1>5, <1>6, <1>7

\* Every step of the scheduler loop preserves the invariant.
LEMMA SchedulerStep ==
    ASSUME SchedulerInv, Scheduler
    PROVE  SchedulerInv'
  <1> USE DEF SchedulerInv, nodeVars
  <1>1. CASE LeaveLoop
    <2>1. \A n \in Nodes : phase[n] = "done"
      BY <1>1, NothingForgotten DEF LeaveLoop, LoopGoesOn
    <2>2. Drained' = Drained
      BY <1>1 DEF LeaveLoop, Drained
    <2> QED BY <1>1, <2>1, <2>2
            DEF LeaveLoop, TypeOK, SchedStates, Outcomes, ReadyInv, QueueInv, FlightInv,
                DepsInv, DoneInv, OutcomeInv, OutputIds, QuietInv, Finished
  <1>2. CASE TestCancel
    <2>1. Drained' = Drained
      BY <1>2 DEF TestCancel, Drained
    <2> QED BY <1>2, <2>1
            DEF TestCancel, CancelSeen, TypeOK, SchedStates, ReadyInv, QueueInv, FlightInv,
                DepsInv, DoneInv, OutcomeInv, OutputIds, QuietInv
  <1>3. CASE Submit
    BY <1>3, SubmitStep
  <1>4. CASE WaitFirst
    <2>1. Drained' = Drained
      BY <1>4 DEF WaitFirst, Drained
    <2> QED BY <1>4, <2>1
            DEF WaitFirst, FinishedFutures, TypeOK, SchedStates, ReadyInv, QueueInv, FlightInv,
                DepsInv, DoneInv, OutcomeInv, OutputIds, QuietInv
  <1>5. ASSUME NEW n \in Nodes, DrainResult(n) PROVE SchedulerInv'
    BY <1>5, DrainResultStep
  <1>6. ASSUME NEW n \in Nodes, DrainError(n) PROVE SchedulerInv'
    BY <1>6, DrainErrorStep
  <1>7. CASE CancelRaise
    <2>1. Drained' = Drained
      BY <1>7 DEF CancelRaise, Drained
    <2>2. cancel
      BY <1>7 DEF CancelRaise, OutcomeInv
    <2> QED BY <1>7, <2>1, <2>2
            DEF CancelRaise, TypeOK, SchedStates, Outcomes, ReadyInv, QueueInv, FlightInv,
                DepsInv, DoneInv, OutcomeInv, OutputIds, QuietInv
  <1>8. CASE Join
    <2>1. Drained' = Drained
      BY <1>8 DEF Join, Drained
    <2> QED BY <1>8, <2>1
            DEF Join, PoolEnded, TypeOK, SchedStates, ReadyInv, QueueInv, FlightInv,
                DepsInv, DoneInv, OutcomeInv, OutputIds, QuietInv
  <1> QED BY <1>1, <1>2, <1>3, <1>4, <1>5, <1>6, <1>7, <1>8 DEF Scheduler

-----------------------------------------------------------------------------
(* Every step preserves the invariant.                                     *)

\* The invariant is inductive.
LEMMA NextInv == SchedulerInv /\ [ExecNext]_execVars => SchedulerInv'
  <1> SUFFICES ASSUME SchedulerInv, [ExecNext]_execVars PROVE SchedulerInv'
    OBVIOUS
  <1>1. CASE Scheduler
    BY <1>1, SchedulerStep
  <1>2. ASSUME NEW n \in Nodes, RunNode(n) PROVE SchedulerInv'
    BY <1>2, RunNodeStep
  <1>3. ASSUME UNCHANGED <<schedVars, nodeVars>>, cancel \in BOOLEAN => cancel' \in BOOLEAN,
               cancel => cancel', cache' \subseteq Keys
        PROVE  SchedulerInv'
    <2> USE <1>3 DEF SchedulerInv, schedVars, nodeVars
    <2>1. Drained' = Drained
      BY DEF Drained
    <2> QED BY <2>1 DEF TypeOK, ReadyInv, QueueInv, FlightInv, DepsInv, DoneInv,
                        OutcomeInv, OutputIds, QuietInv
  <1>4. CASE SetCancel
    BY <1>3, <1>4 DEF SetCancel, SchedulerInv, TypeOK
  <1>5. ASSUME NEW k \in Keys, OtherJobPut(k) PROVE SchedulerInv'
    BY <1>3, <1>5 DEF OtherJobPut, SchedulerInv, TypeOK
  <1>6. CASE ExecDone \/ UNCHANGED execVars
    BY <1>3, <1>6 DEF ExecDone, execVars, SchedulerInv, TypeOK
  <1> QED BY <1>1, <1>2, <1>4, <1>5, <1>6 DEF ExecNext

-----------------------------------------------------------------------------
(* The theorems.                                                           *)

\* The inductive invariant of the scheduler holds in every reachable state of
\* every execution of execute_graph.
THEOREM SchedulerCorrect == ExecSafety => []SchedulerInv
  BY InitInv, NextInv, PTL DEF ExecSafety

\* Every variable keeps its type, and `done` only holds futures in flight.
THEOREM TypeCorrect == ExecSafety => []TypeOK
  <1>1. SchedulerInv => TypeOK
    BY DEF SchedulerInv
  <1> QED BY <1>1, SchedulerCorrect, PTL

\* No node is handed to the pool before everything it reads is written.
THEOREM DependenciesFirstHolds == ExecSafety => []DependenciesFirst
  <1>1. SchedulerInv => DependenciesFirst
    BY GraphAssumption DEF SchedulerInv, DepsInv, Drained, DependenciesFirst, Published
  <1> QED BY <1>1, SchedulerCorrect, PTL

\* execute_graph returns only when every node is done and every output is
\* recorded; it raises an error or ExecutionCancelled only for a reason.
THEOREM OutcomeHonestHolds == ExecSafety => []OutcomeHonest
  <1>1. SchedulerInv => OutcomeHonest
    <2> SUFFICES ASSUME SchedulerInv PROVE OutcomeHonest
      OBVIOUS
    <2> USE DEF SchedulerInv, OutcomeInv
    <2>1. ASSUME outcome = "completed" PROVE emitted = OutputIds
      <3>1. \A i \in OutputIds : OutputNode[i] \in Nodes
        BY GraphAssumption DEF OutputIds
      <3>2. \A i \in OutputIds : i \in emitted
        BY <2>1, <3>1
      <3>3. emitted \subseteq OutputIds
        BY DEF TypeOK
      <3> QED BY <3>2, <3>3
    <2> QED BY <2>1 DEF OutcomeHonest
  <1> QED BY <1>1, SchedulerCorrect, PTL

\* Each node is submitted at most once and begun at most once.
THEOREM NodeRunsOnceHolds == ExecSafety => NodeRunsOnce
  <1> DEFINE once == \A n \in Nodes :
                        /\ phase'[n] = "queued"  => phase[n] \in {"idle", "queued"}
                        /\ phase'[n] = "started" => phase[n] \in {"queued", "started"}
  <1>1. SchedulerInv /\ [ExecNext]_execVars => [once]_execVars
    <2> SUFFICES ASSUME SchedulerInv, ExecNext PROVE once
      OBVIOUS
    <2>0. phase \in [Nodes -> Phases]
      BY DEF SchedulerInv, TypeOK
    <2>1. CASE UNCHANGED phase
      BY <2>1
    <2>2. CASE Submit
      <3>1. Head(ready) \in Nodes /\ phase[Head(ready)] = "idle"
        BY <2>2, TailFacts DEF Submit, SchedulerInv, TypeOK, ReadyInv
      <3> QED BY <2>0, <2>2, <3>1 DEF Submit
    <2>3. ASSUME NEW n \in Nodes, Start(n) PROVE once
      <3>1. phase[n] = "queued"
        BY <2>3, TailFacts DEF Start, SchedulerInv, TypeOK, QueueInv
      <3> QED BY <2>0, <2>3, <3>1 DEF Start
    <2>4. ASSUME NEW n \in Nodes, RunNode(n), ~Start(n) PROVE once
      BY <2>0, <2>4 DEF RunNode, Lookup, ModuleFails, ModuleReturns, CachePut, Publish,
                        OnNode, OnOutput, ReturnNode
    <2> QED BY <2>1, <2>2, <2>3, <2>4
            DEF ExecNext, Scheduler, LeaveLoop, TestCancel, WaitFirst, DrainResult, DrainError,
                CancelRaise, Join, SetCancel, OtherJobPut, ExecDone, execVars, nodeVars
  <1> QED BY <1>1, SchedulerCorrect, PTL DEF ExecSafety, NodeRunsOnce

\* Nothing of the job moves in the pool once execute_graph has ended.
THEOREM QuietAfterReturnHolds == ExecSafety => QuietAfterReturn
  <1>1. SchedulerInv /\ [ExecNext]_execVars
          => [sched = "returned" => UNCHANGED nodeVars]_execVars
    <2> SUFFICES ASSUME SchedulerInv, ExecNext, sched = "returned" PROVE UNCHANGED nodeVars
      OBVIOUS
    <2>1. \A n \in Nodes : phase[n] \notin {"queued"} \cup Busy
      BY DEF SchedulerInv, QuietInv
    <2>2. ASSUME NEW n \in Nodes, RunNode(n) PROVE FALSE
      <3>1. ~Start(n)
        BY <2>1, TailFacts DEF Start, SchedulerInv, TypeOK, QueueInv
      <3> QED BY <2>1, <2>2, <3>1 DEF RunNode, Busy, Lookup, ModuleFails, ModuleReturns, CachePut,
                        Publish, OnNode, OnOutput, ReturnNode
    <2> QED BY <2>2
            DEF ExecNext, Scheduler, LeaveLoop, TestCancel, Submit, WaitFirst, DrainResult,
                DrainError, CancelRaise, Join, SetCancel, OtherJobPut, ExecDone, execVars
  <1> QED BY <1>1, SchedulerCorrect, PTL DEF ExecSafety, QuietAfterReturn

\* After the cancel flag is set and the dispatch under way is over, the
\* scheduler never dispatches again.
THEOREM CancelStopsDispatchHolds == ExecSafety => CancelStopsDispatch
  <1> DEFINE stopped == cancel /\ sched # "dispatch"
  <1>1. stopped /\ [ExecNext]_execVars => stopped'
    BY DEF ExecNext, Scheduler, LeaveLoop, TestCancel, CancelSeen, Submit, WaitFirst, DrainResult,
           DrainError, CancelRaise, Join, RunNode, Start, Lookup, ModuleFails, ModuleReturns,
           CachePut, Publish, OnNode, OnOutput, ReturnNode, SetCancel, OtherJobPut, ExecDone,
           execVars, schedVars
  <1>2. stopped => sched # "dispatch"
    OBVIOUS
  <1> HIDE DEF stopped
  <1>3. ExecSafety => [](stopped => [](sched # "dispatch"))
    BY <1>1, <1>2, PTL DEF ExecSafety
  <1> QED BY <1>3, PTL DEF CancelStopsDispatch, stopped

-----------------------------------------------------------------------------
(* The job's inductive invariant.                                          *)

Said(e) == e \in Range(events)

JobEvents ==
    { StatusEvent(s) : s \in {"pending", "running"} \cup Terminal }
    \cup { [node |-> n, cached |-> c] : n \in Nodes, c \in BOOLEAN }
    \cup { OutputEvent(i) : i \in OutputIds }
    \cup { EndEvent(s) : s \in Terminal }

\* The worker of n has an output that is neither recorded nor held.
InHand(n) == at[n] \in {"gate", "store", "record"}

\* ... or has recorded it and not yet announced it.
Has(n) == InHand(n) \/ at[n] = "announce"

Announcing(i) == \E n \in Nodes : at[n] = "announce" /\ cur[n] = i

\* A worker inside on_output is emitting an output of its node or of another
\* node of the same pinned group, and cannot leave run_node.
WorkerInv ==
    \A n \in Nodes : at[n] # "none" =>
        /\ phase[n] = "emit"
        /\ cur[n] \in OutputIds
        /\ at[n] \in {"gate", "flush"} => IsPinned(cur[n])

\* An output that run_node handed to on_output is in exactly one place: in the
\* hand of one worker, held, or recorded.
PlaceInv ==
    /\ IsInjective(outputs)
    /\ Range(outputs) \subseteq emitted
    /\ \A i \in emitted : \/ i \in Range(outputs)
                          \/ \E n \in Nodes : InHand(n) /\ cur[n] = i
                          \/ IsPinned(i) /\ i \in held[OutputGroup[i]]
    /\ \A g \in PinnedGroups : \A i \in held[g] :
          i \in emitted /\ i \notin Range(outputs) /\ OutputGroup[i] = g
    /\ \A n \in Nodes : InHand(n) =>
          /\ cur[n] \in emitted /\ cur[n] \notin Range(outputs)
          /\ IsPinned(cur[n]) => cur[n] \notin held[OutputGroup[cur[n]]]
    /\ \A n \in Nodes : at[n] = "announce" => cur[n] \in Range(outputs)
    /\ \A m, n \in Nodes : Has(m) /\ Has(n) /\ cur[m] = cur[n] => m = n
    /\ \A i \in emitted : phase[OutputNode[i]] \in {"emit", "done"}

\* next_index counts the announced outputs of a pinned group: they are the first
\* ones of the group, and the one under way is the next; a held output whose
\* turn it is has the worker in the gate to see to it.
GateInv ==
    /\ \A n \in Nodes : at[n] \in {"store", "record", "announce"} /\ IsPinned(cur[n]) =>
          Position(cur[n]) = next_index[OutputGroup[cur[n]]]
    /\ \A i \in OutputIds : IsPinned(i) =>
          (i \in Range(outputs) <=> Position(i) < next_index[OutputGroup[i]] \/ Announcing(i))
    /\ \A g \in PinnedGroups : \A i \in held[g] : Position(i) = next_index[g] =>
          \E n \in Nodes : at[n] = "flush" /\ OutputGroup[cur[n]] = g

StoreInv ==
    /\ Range(outputs) \subseteq payloads
    /\ \A n \in Nodes : at[n] \in {"record", "announce"} => cur[n] \in payloads

\* What the log says of outputs and nodes is what has been done with them.
LogInv ==
    /\ events \in Seq(JobEvents)
    /\ \A i \in OutputIds : Said(OutputEvent(i)) <=> i \in Range(outputs) /\ ~Announcing(i)
    /\ \A n \in Nodes : (\E c \in BOOLEAN : Said([node |-> n, cached |-> c]))
                          <=> phase[n] \in {"emit", "done"}

\* The pool works only while the job thread is in execute_graph, and the thread
\* ends with the outcome of it.
ThreadInv ==
    /\ job \in {"new", "registered", "started", "running"} =>
          outcome = "none" /\ ~error /\ \A n \in Nodes : phase[n] = "idle"
    /\ job = "executing" => status = "running" /\ ~error
    /\ job \in {"new", "registered", "started"} => status = "pending"
    /\ job = "running" => status = "running"
    /\ job = "caught" => status = "running" /\ error /\ outcome = "failed"
    /\ job \in {"ended", "told", "over"} =>
          status = outcome /\ outcome \in Terminal /\ (error <=> outcome = "failed")
    /\ job \in {"caught", "ended", "told", "over"} => sched = "returned"
    /\ sched \in {"join", "returned"} => outcome \in Terminal

\* The statuses the log has told so far.
StatusInv ==
    /\ job \in {"new", "registered"} => events = << >>
    /\ job \in {"started", "running"} => events = <<StatusEvent("pending")>>
    /\ job \in {"executing", "caught", "ended"} =>
          Said(StatusEvent("running")) /\ \A e \in Terminal : ~Said(StatusEvent(e)) /\ ~Said(EndEvent(e))
    /\ job = "told" => Said(StatusEvent(outcome)) /\ \A e \in Terminal : ~Said(EndEvent(e))

JobInv ==
    /\ JobTypeOK
    /\ WorkerInv
    /\ PlaceInv
    /\ GateInv
    /\ PinnedOutputsInOrder
    /\ StoreInv
    /\ LogInv
    /\ ThreadInv
    /\ StatusInv

-----------------------------------------------------------------------------
(* Facts about the operators.                                              *)

\* Events of different kinds differ, and an event determines what it is about.
LEMMA EventsApart ==
    ASSUME NEW x, NEW y, NEW c
    PROVE  /\ OutputEvent(x) # StatusEvent(y) /\ OutputEvent(x) # EndEvent(y)
           /\ OutputEvent(x) # [node |-> y, cached |-> c]
           /\ StatusEvent(x) # EndEvent(y)
           /\ StatusEvent(x) # [node |-> y, cached |-> c]
           /\ EndEvent(x) # [node |-> y, cached |-> c]
           /\ OutputEvent(x) = OutputEvent(y) => x = y
           /\ StatusEvent(x) = StatusEvent(y) => x = y
           /\ EndEvent(x) = EndEvent(y) => x = y
  BY DEF OutputEvent, StatusEvent, EndEvent

\* The indices of the requested outputs.
LEMMA OutputIdsAre ==
    /\ OutputIds = 1 .. Len(OutputNode) /\ Len(OutputNode) \in Nat
    /\ \A i \in OutputIds : i \in Nat /\ OutputNode[i] \in Nodes
  BY GraphAssumption DEF OutputIds

\* The group of a pinned output is a key of held and next_index.
LEMMA PinnedHasGroup ==
    \A i \in OutputIds : IsPinned(i) => OutputGroup[i] \in PinnedGroups
  BY DEF IsPinned

\* An output has a place in its group, before the end of the list.
LEMMA PositionType ==
    ASSUME NEW i \in OutputIds
    PROVE  /\ IsFiniteSet(Earlier(i))
           /\ Position(i) \in Nat
           /\ Position(i) < Len(OutputNode)
  <1>1. i \in 1 .. Len(OutputNode) /\ Len(OutputNode) \in Nat
    BY OutputIdsAre
  <1>2. IsFiniteSet(1 .. i - 1) /\ Cardinality(1 .. i - 1) = i - 1
    <2>1. 1 \in Int /\ i - 1 \in Int /\ i \in Nat \ {0}
      BY <1>1
    <2>2. /\ IsFiniteSet(1 .. i - 1)
          /\ Cardinality(1 .. i - 1) = IF 1 > i - 1 THEN 0 ELSE i - 1 - 1 + 1
      BY <2>1, FS_Interval
    <2> QED BY <2>1, <2>2
  <1>3. Earlier(i) \subseteq 1 .. i - 1
    BY <1>1, OutputIdsAre DEF Earlier
  <1>4. IsFiniteSet(Earlier(i)) /\ Cardinality(Earlier(i)) <= i - 1
    BY <1>2, <1>3, FS_Subset
  <1>5. Cardinality(Earlier(i)) \in Nat
    BY <1>4, FS_CardinalityType
  <1> QED BY <1>1, <1>4, <1>5 DEF Position

\* Places are in the order of the list.
LEMMA PositionOrder ==
    ASSUME NEW i \in OutputIds, NEW j \in OutputIds, OutputGroup[i] = OutputGroup[j]
    PROVE  /\ j < i => Position(j) < Position(i)
           /\ Position(j) < Position(i) => j \in Earlier(i)
           /\ Position(j) = Position(i) => j = i
  <1>1. ASSUME NEW a \in OutputIds, NEW b \in OutputIds, OutputGroup[a] = OutputGroup[b], a < b
        PROVE  Position(a) < Position(b)
    <2>1. a \in Nat /\ b \in Nat /\ \A k \in OutputIds : k \in Nat
      BY OutputIdsAre
    <2>2. Earlier(a) \subseteq Earlier(b)
      <3>1. \A k \in OutputIds : k < a => k < b
        BY <1>1, <2>1
      <3> QED BY <1>1, <3>1 DEF Earlier
    <2>3. a \in Earlier(b) /\ a \notin Earlier(a)
      BY <1>1, <2>1 DEF Earlier
    <2>4. IsFiniteSet(Earlier(b)) /\ Position(a) \in Nat /\ Position(b) \in Nat
      BY PositionType
    <2>5. /\ Cardinality(Earlier(a)) <= Cardinality(Earlier(b))
          /\ Cardinality(Earlier(b)) = Cardinality(Earlier(a)) => Earlier(b) = Earlier(a)
      BY <2>2, <2>4, FS_Subset
    <2>6. Cardinality(Earlier(b)) # Cardinality(Earlier(a))
      BY <2>3, <2>5
    <2> QED BY <2>4, <2>5, <2>6 DEF Position
  <1>2. i \in Nat /\ j \in Nat /\ Position(i) \in Nat /\ Position(j) \in Nat
    BY OutputIdsAre, PositionType
  <1>3. j < i => Position(j) < Position(i)
    BY <1>1
  <1>4. i < j => Position(i) < Position(j)
    BY <1>1
  <1> QED BY <1>2, <1>3, <1>4 DEF Earlier

\* Positions have no gap: the output just before i in its group, the last of
\* Earlier(i), is one place before it.
LEMMA PreviousPosition ==
    ASSUME NEW i \in OutputIds, Position(i) # 0
    PROVE  \E j \in Earlier(i) : Position(j) = Position(i) - 1
  <1>1. IsFiniteSet(Earlier(i)) /\ Position(i) \in Nat /\ \A k \in OutputIds : k \in Nat
    BY PositionType, OutputIdsAre
  <1>2. Earlier(i) # {}
    BY FS_EmptySet DEF Position
  <1>3. PICK j \in Earlier(i) : \A k \in Earlier(i) : k <= j
    BY <1>1, <1>2, LastOf DEF Earlier
  <1>4. j \in OutputIds /\ OutputGroup[j] = OutputGroup[i] /\ j < i
    BY DEF Earlier
  <1>5. Earlier(j) = Earlier(i) \ {j}
    <2>1. \A k \in Earlier(j) : k \in Earlier(i) /\ k # j
      <3>1. \A k \in OutputIds : k < j => k < i /\ k # j
        BY <1>1, <1>4
      <3> QED BY <1>4, <3>1 DEF Earlier
    <2>2. \A k \in Earlier(i) : k # j => k \in Earlier(j)
      <3>1. \A k \in OutputIds : k <= j /\ k # j => k < j
        BY <1>1, <1>4
      <3> QED BY <1>3, <1>4, <3>1 DEF Earlier
    <2> QED BY <2>1, <2>2
  <1>6. Cardinality(Earlier(j)) = Cardinality(Earlier(i)) - 1
    BY <1>1, <1>5, FS_RemoveElement
  <1> QED BY <1>6 DEF Position

\* Appending to the log adds the event.
LEMMA LogAppend ==
    ASSUME events \in Seq(JobEvents), NEW e \in JobEvents
    PROVE  /\ Append(events, e) \in Seq(JobEvents)
           /\ Range(Append(events, e)) = Range(events) \cup {e}
  BY AppendFacts

-----------------------------------------------------------------------------
(* What the job does to the executor's variables.                          *)

\* Every step of the job is a step of execute_graph or leaves it alone.
LEMMA JobStepRunsExecutor == [JobNext]_vars => [ExecNext]_execVars
  <1> SUFFICES ASSUME JobNext PROVE [ExecNext]_execVars
    BY DEF vars
  <1>1. CASE JobThread
    BY <1>1 DEF JobThread, SubmitJob, PendingEvent, SetRunning, RunningEvent, RunScheduler, SetError,
                SetFinalStatus, FinalStatusEvent, FinalEvent, ThreadStep, ExecNext
  <1>2. ASSUME NEW n \in Nodes, Worker(n) PROVE [ExecNext]_execVars
    <2>1. RunNode(n) \/ UNCHANGED execVars
      BY <1>2 DEF Worker, RunNodeSilently, NodeCompleted, EnterOnOutput, EnterGate, PopHeld, LeaveGate,
                  StorePayload, RecordOutput, AnnounceOutput, RunNode
    <2> QED BY <2>1 DEF ExecNext
  <1>3. CASE CancelJob
    BY <1>3 DEF CancelJob, ExecNext
  <1>4. ASSUME NEW k \in Keys, OtherPut(k) PROVE [ExecNext]_execVars
    BY <1>4 DEF OtherPut, ExecNext
  <1>5. CASE JobOver
    BY <1>5 DEF JobOver, vars
  <1> QED BY <1>1, <1>2, <1>3, <1>4, <1>5 DEF JobNext

\* A worker is at a node only while the job thread is inside execute_graph.
LEMMA PoolWorksInside ==
    ASSUME SchedulerInv, ThreadInv, job \in {"new", "registered", "started", "running", "executing",
                                             "caught", "ended", "told", "over"},
           NEW n \in Nodes, phase[n] \in {"queued"} \cup Busy
    PROVE  job = "executing"
  <1>1. phase[n] # "idle"
    BY DEF Busy
  <1>2. sched # "returned"
    BY DEF SchedulerInv, QuietInv
  <1> QED BY <1>1, <1>2 DEF ThreadInv

-----------------------------------------------------------------------------
(* The invariant holds initially.                                          *)

\* When submit makes the job nothing is emitted, held or told.
LEMMA JobInitInv == JobInit => JobInv
  <1> SUFFICES ASSUME JobInit PROVE JobInv
    OBVIOUS
  <1> USE DEF JobInit, ExecInit
  <1>1. Range(outputs) = {} /\ Range(events) = {} /\ IsInjective(outputs)
    BY DEF Range, IsInjective
  <1>2. JobTypeOK
    <2>1. next_index \in [PinnedGroups -> 0 .. Len(OutputNode)]
      BY OutputIdsAre
    <2>2. outputs \in Seq(OutputIds)
      OBVIOUS
    <2>3. \A n \in Nodes : gate # n
      BY GroupAssumption
    <2> QED BY <2>1, <2>2, <2>3 DEF JobTypeOK
  <1>3. WorkerInv /\ StoreInv
    BY <1>1 DEF WorkerInv, StoreInv
  <1>4. PlaceInv
    BY <1>1 DEF PlaceInv, InHand, Has
  <1>5. GateInv
    <2>1. \A i \in OutputIds : IsPinned(i) => ~(Position(i) < next_index[OutputGroup[i]])
      BY PositionType, PinnedHasGroup
    <2> QED BY <1>1, <2>1 DEF GateInv, Announcing
  <1>6. PinnedOutputsInOrder
    BY <1>1 DEF PinnedOutputsInOrder, Range
  <1>7. LogInv
    <2>1. events \in Seq(JobEvents)
      OBVIOUS
    <2>2. \A n \in Nodes : phase[n] = "idle"
      OBVIOUS
    <2> QED BY <1>1, <2>1, <2>2 DEF LogInv, Said
  <1>8. ThreadInv /\ StatusInv
    BY DEF ThreadInv, StatusInv
  <1> QED BY <1>2, <1>3, <1>4, <1>5, <1>6, <1>7, <1>8 DEF JobInv

-----------------------------------------------------------------------------
(* The invariant is preserved: first the steps of the executor that call   *)
(* nothing of the job.                                                     *)

\* A step of the pool or the scheduler that leaves the job's variables alone, as
\* long as it moves no node that is inside on_output and tells nobody.
LEMMA SilentStep ==
    ASSUME SchedulerInv, JobInv,
           UNCHANGED <<jobVars, emitted>>,
           phase' \in [Nodes -> Phases],
           \A n \in Nodes : at[n] # "none" => phase'[n] = phase[n],
           \A n \in Nodes : phase'[n] \in {"emit", "done"} <=> phase[n] \in {"emit", "done"},
           job # "executing" => UNCHANGED <<sched, phase, outcome>>,
           sched' \in {"join", "returned"} => outcome' \in Terminal
    PROVE  JobInv'
  <1> USE DEF JobInv, jobVars, threadVars, emitVars
  <1>1. JobTypeOK' /\ PinnedOutputsInOrder' /\ StoreInv'
    BY DEF JobTypeOK, PinnedOutputsInOrder, StoreInv
  <1>2. WorkerInv'
    BY DEF WorkerInv
  <1>3. PlaceInv'
    <2>1. \A i \in emitted : phase'[OutputNode[i]] \in {"emit", "done"}
      <3>1. \A i \in emitted : i \in OutputIds
        BY DEF SchedulerInv, TypeOK
      <3> QED BY <3>1, OutputIdsAre DEF PlaceInv
    <2> QED BY <2>1 DEF PlaceInv, InHand, Has
  <1>4. GateInv'
    BY DEF GateInv, Announcing
  <1>5. LogInv'
    BY DEF LogInv, Said, Announcing
  <1>6. ThreadInv'
    BY DEF ThreadInv, JobTypeOK
  <1>7. StatusInv'
    BY DEF StatusInv, Said, ThreadInv
  <1> QED BY <1>1, <1>2, <1>3, <1>4, <1>5, <1>6, <1>7

\* The steps of run_node before on_node, the put into the cache and the return.
LEMMA RunNodeSilentlyStep ==
    ASSUME SchedulerInv, SchedulerInv', JobInv, NEW n \in Nodes, RunNodeSilently(n)
    PROVE  JobInv'
  <1>1. phase' \in [Nodes -> Phases] /\ phase \in [Nodes -> Phases]
    BY DEF SchedulerInv, TypeOK
  <1>2. phase[n] = "queued" \/ ~Start(n)
    BY TailFacts DEF Start, SchedulerInv, TypeOK, QueueInv
  <1>3. phase[n] \in {"queued"} \cup Busy
    BY <1>2 DEF RunNodeSilently, Busy, Lookup, ModuleFails, ModuleReturns, CachePut, Publish, ReturnNode
  <1>4. job = "executing"
    BY <1>3, PoolWorksInside DEF JobInv, JobTypeOK
  <1>5. /\ at[n] = "none"
        /\ UNCHANGED <<jobVars, emitted, sched, outcome>>
        /\ \A m \in Nodes \ {n} : phase'[m] = phase[m]
        /\ phase'[n] \in {"emit", "done"} <=> phase[n] \in {"emit", "done"}
    BY <1>1, <1>2 DEF RunNodeSilently, Start, Lookup, ModuleFails, ModuleReturns, CachePut, Publish,
                ReturnNode, schedVars
  <1>6. sched' \in {"join", "returned"} => outcome' \in Terminal
    BY <1>5 DEF JobInv, ThreadInv
  <1> QED BY <1>1, <1>4, <1>5, <1>6, SilentStep

\* The steps of the scheduler loop.
LEMMA RunSchedulerStep ==
    ASSUME SchedulerInv, SchedulerInv', JobInv, RunScheduler
    PROVE  JobInv'
  <1>1. phase' \in [Nodes -> Phases] /\ phase \in [Nodes -> Phases]
    BY DEF SchedulerInv, TypeOK
  <1>2. UNCHANGED jobVars /\ job = "executing" /\ Scheduler
    BY DEF RunScheduler
  <1>3. CASE Submit
    <2>1. Head(ready) \in Nodes /\ phase[Head(ready)] = "idle"
      BY <1>3, TailFacts DEF Submit, SchedulerInv, TypeOK, ReadyInv
    <2>2. at[Head(ready)] = "none"
      BY <2>1 DEF JobInv, WorkerInv
    <2>3. /\ UNCHANGED <<emitted, sched, outcome>>
          /\ phase' = [phase EXCEPT ![Head(ready)] = "queued"]
      BY <1>3 DEF Submit
    <2>4. \A m \in Nodes : at[m] # "none" => phase'[m] = phase[m]
      BY <1>1, <2>1, <2>2, <2>3
    <2>5. \A m \in Nodes : phase'[m] \in {"emit", "done"} <=> phase[m] \in {"emit", "done"}
      BY <1>1, <2>1, <2>3
    <2>6. sched' \in {"join", "returned"} => outcome' \in Terminal
      BY <2>3 DEF JobInv, ThreadInv
    <2> QED BY <1>1, <1>2, <2>3, <2>4, <2>5, <2>6, SilentStep
  <1>4. CASE ~Submit
    <2>1. UNCHANGED <<emitted, phase>>
      BY <1>2, <1>4 DEF Scheduler, LeaveLoop, TestCancel, WaitFirst, DrainResult, DrainError, CancelRaise,
                  Join, nodeVars
    <2>2. sched' \in {"join", "returned"} => outcome' \in Terminal
      BY <1>2, <1>4 DEF Scheduler, LeaveLoop, TestCancel, WaitFirst, DrainResult, DrainError, CancelRaise,
                  Join, JobInv, ThreadInv, Terminal
    <2> QED BY <1>1, <1>2, <2>1, <2>2, SilentStep
  <1> QED BY <1>3, <1>4

-----------------------------------------------------------------------------
(* Then the job thread outside execute_graph.                              *)

\* A step of the thread that tells no output and no node, if the log and the
\* thread's own part of the invariant are right after it.
LEMMA ThreadStepKeeps ==
    ASSUME SchedulerInv, JobInv,
           NEW from, NEW to, NEW s, NEW e, NEW evs,
           ThreadStep(from, to, s, e, evs),
           evs = << >> \/ (\E x \in JobEvents : evs = <<x>>
                             /\ (\A y \in OutputIds : x # OutputEvent(y))
                             /\ (\A y \in Nodes, c \in BOOLEAN : x # [node |-> y, cached |-> c])),
           job' \in {"registered", "started", "running", "executing", "caught", "ended", "told", "over"},
           status' \in {"pending", "running"} \cup Terminal,
           error' \in BOOLEAN,
           ThreadInv', StatusInv'
    PROVE  JobInv'
  <1> USE DEF JobInv, ThreadStep, execVars, nodeVars, schedVars, emitVars
  <1>1. /\ events' \in Seq(JobEvents)
        /\ \A y \in OutputIds : OutputEvent(y) \in Range(events') <=> OutputEvent(y) \in Range(events)
        /\ \A y \in Nodes, c \in BOOLEAN :
              [node |-> y, cached |-> c] \in Range(events') <=> [node |-> y, cached |-> c] \in Range(events)
    <2>0. events \in Seq(JobEvents)
      BY DEF LogInv
    <2>1. CASE evs = << >>
      <3>1. events' = events
        BY <2>0, <2>1
      <3> QED BY <2>0, <3>1
    <2>2. CASE evs # << >>
      <3>1. PICK x \in JobEvents : /\ evs = <<x>>
                                   /\ \A y \in OutputIds : x # OutputEvent(y)
                                   /\ \A y \in Nodes, c \in BOOLEAN : x # [node |-> y, cached |-> c]
        BY <2>2
      <3>2. events' = Append(events, x)
        BY <2>0, <3>1
      <3>3. events' \in Seq(JobEvents) /\ Range(events') = Range(events) \cup {x}
        BY <2>0, <3>2, LogAppend
      <3> QED BY <3>1, <3>3
    <2> QED BY <2>1, <2>2
  <1>2. JobTypeOK' /\ PinnedOutputsInOrder' /\ StoreInv' /\ WorkerInv'
    BY DEF JobTypeOK, PinnedOutputsInOrder, StoreInv, WorkerInv
  <1>3. PlaceInv'
    BY DEF PlaceInv, InHand, Has
  <1>4. GateInv'
    BY DEF GateInv, Announcing
  <1>5. LogInv'
    BY <1>1 DEF LogInv, Said, Announcing
  <1> QED BY <1>2, <1>3, <1>4, <1>5

\* Status and closing events are events, and neither of an output nor of a node.
LEMMA StatusEventKind ==
    /\ \A s \in {"pending", "running"} \cup Terminal :
          /\ StatusEvent(s) \in JobEvents
          /\ \A y \in OutputIds : StatusEvent(s) # OutputEvent(y)
          /\ \A y \in Nodes, c \in BOOLEAN : StatusEvent(s) # [node |-> y, cached |-> c]
    /\ \A s \in Terminal :
          /\ EndEvent(s) \in JobEvents
          /\ \A y \in OutputIds : EndEvent(s) # OutputEvent(y)
          /\ \A y \in Nodes, c \in BOOLEAN : EndEvent(s) # [node |-> y, cached |-> c]
  BY EventsApart DEF JobEvents

\* Every step of the job thread preserves the invariant.
LEMMA JobThreadStep ==
    ASSUME SchedulerInv, SchedulerInv', JobInv, JobThread
    PROVE  JobInv'
  <1> USE DEF execVars, nodeVars, schedVars
  <1>0. /\ ThreadInv /\ StatusInv /\ events \in Seq(JobEvents)
        /\ status \in {"pending", "running"} \cup Terminal /\ error \in BOOLEAN
    BY DEF JobInv, LogInv, JobTypeOK
  <1>1. CASE SubmitJob
    <2>1. ThreadStep("new", "registered", "pending", error, << >>)
      BY <1>1 DEF SubmitJob
    <2>2. ThreadInv' /\ StatusInv'
      BY <1>0, <2>1 DEF ThreadStep, ThreadInv, StatusInv
    <2>3. job' = "registered" /\ status' = "pending" /\ error' \in BOOLEAN
      BY <1>0, <2>1 DEF ThreadStep
    <2> QED BY <2>1, <2>2, <2>3, ThreadStepKeeps
  <1>2. CASE PendingEvent
    <2>1. ThreadStep("registered", "started", status, error, <<StatusEvent("pending")>>)
      BY <1>2 DEF PendingEvent
    <2>2. events' = <<StatusEvent("pending")>>
      BY <1>0, <2>1 DEF ThreadStep, StatusInv
    <2>3. ThreadInv' /\ StatusInv'
      BY <1>0, <2>1, <2>2 DEF ThreadStep, ThreadInv, StatusInv
    <2>4. job' = "started" /\ status' = status /\ error' \in BOOLEAN
      BY <1>0, <2>1 DEF ThreadStep
    <2> QED BY <1>0, <2>1, <2>3, <2>4, StatusEventKind, ThreadStepKeeps
  <1>3. CASE SetRunning
    <2>1. ThreadStep("started", "running", "running", error, << >>)
      BY <1>3 DEF SetRunning
    <2>2. ThreadInv' /\ StatusInv'
      BY <1>0, <2>1 DEF ThreadStep, ThreadInv, StatusInv
    <2>3. job' = "running" /\ status' = "running" /\ error' \in BOOLEAN
      BY <1>0, <2>1 DEF ThreadStep
    <2> QED BY <2>1, <2>2, <2>3, ThreadStepKeeps
  <1>4. CASE RunningEvent
    <2>1. ThreadStep("running", "executing", status, error, <<StatusEvent("running")>>)
      BY <1>4 DEF RunningEvent
    <2>2. events' = Append(events, StatusEvent("running")) /\ events = <<StatusEvent("pending")>>
      BY <1>0, <2>1 DEF ThreadStep, StatusInv
    <2>3. Range(events') = {StatusEvent("pending"), StatusEvent("running")}
      <3>1. Range(events') = Range(events) \cup {StatusEvent("running")}
        BY <1>0, <2>2, StatusEventKind, LogAppend
      <3>2. Range(events) = {StatusEvent("pending")}
        BY <2>2 DEF Range
      <3> QED BY <3>1, <3>2
    <2>4. \A e \in Terminal : /\ StatusEvent(e) \notin Range(events') /\ EndEvent(e) \notin Range(events')
      BY <2>3, EventsApart DEF Terminal
    <2>5. ThreadInv' /\ StatusInv'
      BY <1>0, <2>1, <2>3, <2>4 DEF ThreadStep, ThreadInv, StatusInv, Said
    <2>6. job' = "executing" /\ status' = status /\ error' \in BOOLEAN
      BY <1>0, <2>1 DEF ThreadStep
    <2> QED BY <1>0, <2>1, <2>5, <2>6, StatusEventKind, ThreadStepKeeps
  <1>5. CASE RunScheduler
    BY <1>5, RunSchedulerStep
  <1>6. CASE SetError
    <2>1. ThreadStep("executing", "caught", status, TRUE, << >>) /\ sched = "returned" /\ outcome = "failed"
      BY <1>6 DEF SetError
    <2>2. events' = events
      BY <1>0, <2>1 DEF ThreadStep
    <2>3. ThreadInv' /\ StatusInv'
      BY <1>0, <2>1, <2>2 DEF ThreadStep, ThreadInv, StatusInv, Said
    <2>4. job' = "caught" /\ status' = status /\ error' \in BOOLEAN
      BY <1>0, <2>1 DEF ThreadStep
    <2> QED BY <1>0, <2>1, <2>3, <2>4, ThreadStepKeeps
  <1>7. CASE SetFinalStatus
    <2>1. PICK from \in {"executing", "caught"} :
             /\ ThreadStep(from, "ended", outcome, error, << >>)
             /\ sched = "returned"
             /\ from = "caught" <=> outcome = "failed"
      BY <1>7 DEF SetFinalStatus
    <2>2. events' = events
      BY <1>0, <2>1 DEF ThreadStep
    <2>3. outcome \in Terminal
      BY <1>0, <2>1 DEF ThreadInv
    <2>4. ThreadInv' /\ StatusInv'
      BY <1>0, <2>1, <2>2, <2>3 DEF ThreadStep, ThreadInv, StatusInv, Said
    <2>5. job' = "ended" /\ status' = outcome /\ error' \in BOOLEAN
      BY <1>0, <2>1 DEF ThreadStep
    <2> QED BY <1>0, <2>1, <2>3, <2>4, <2>5, ThreadStepKeeps
  <1>8. CASE FinalStatusEvent
    <2>1. ThreadStep("ended", "told", status, error, <<StatusEvent(status)>>)
      BY <1>8 DEF FinalStatusEvent
    <2>2. status = outcome /\ outcome \in Terminal
      BY <1>0, <2>1 DEF ThreadStep, ThreadInv
    <2>3. events' = Append(events, StatusEvent(status))
      BY <1>0, <2>1 DEF ThreadStep
    <2>4. Range(events') = Range(events) \cup {StatusEvent(status)}
      BY <1>0, <2>3, StatusEventKind, LogAppend
    <2>5. ThreadInv' /\ StatusInv'
      BY <1>0, <2>1, <2>2, <2>4, EventsApart DEF ThreadStep, ThreadInv, StatusInv, Said
    <2>6. job' = "told" /\ status' = status /\ error' \in BOOLEAN
      BY <1>0, <2>1 DEF ThreadStep
    <2> QED BY <1>0, <2>1, <2>5, <2>6, StatusEventKind, ThreadStepKeeps
  <1>9. CASE FinalEvent
    <2>1. ThreadStep("told", "over", status, error, <<EndEvent(outcome)>>)
      BY <1>9 DEF FinalEvent
    <2>2. outcome \in Terminal
      BY <1>0, <2>1 DEF ThreadStep, ThreadInv
    <2>3. ThreadInv' /\ StatusInv'
      BY <1>0, <2>1 DEF ThreadStep, ThreadInv, StatusInv
    <2>4. job' = "over" /\ status' = status /\ error' \in BOOLEAN
      BY <1>0, <2>1 DEF ThreadStep
    <2> QED BY <1>0, <2>1, <2>2, <2>3, <2>4, StatusEventKind, ThreadStepKeeps
  <1> QED BY <1>1, <1>2, <1>3, <1>4, <1>5, <1>6, <1>7, <1>8, <1>9 DEF JobThread

-----------------------------------------------------------------------------
(* Then the callbacks.                                                     *)

\* on_node tells the log of the node.
LEMMA NodeCompletedStep ==
    ASSUME SchedulerInv, SchedulerInv', JobInv, NEW n \in Nodes, NodeCompleted(n)
    PROVE  JobInv'
  <1> USE DEF JobInv, NodeCompleted, OnNode, threadVars, emitVars, schedVars
  <1>1. phase \in [Nodes -> Phases] /\ phase' = [phase EXCEPT ![n] = "emit"] /\ phase[n] = "notify"
    BY DEF SchedulerInv, TypeOK
  <1>2. phase'[n] = "emit" /\ \A m \in Nodes \ {n} : phase'[m] = phase[m]
    BY <1>1
  <1>3. job = "executing"
    BY <1>1, PoolWorksInside DEF JobTypeOK, Busy
  <1>4. PICK c \in BOOLEAN : NodeEvent(n) = [node |-> n, cached |-> c]
    <2>1. (n \in hits) \in BOOLEAN
      OBVIOUS
    <2> QED BY <2>1, Zenon DEF NodeEvent
  <1>5. NodeEvent(n) \in JobEvents
    BY <1>4 DEF JobEvents
  <1>6. events' \in Seq(JobEvents) /\ Range(events') = Range(events) \cup {[node |-> n, cached |-> c]}
    BY <1>4, <1>5, LogAppend DEF LogInv
  <1>7. \A i \in emitted : OutputNode[i] \in Nodes
    BY OutputIdsAre DEF SchedulerInv, TypeOK
  <1>8. JobTypeOK' /\ PinnedOutputsInOrder' /\ StoreInv'
    BY DEF JobTypeOK, PinnedOutputsInOrder, StoreInv
  <1>9. WorkerInv'
    BY <1>1, <1>2 DEF WorkerInv
  <1>10. PlaceInv'
    BY <1>2, <1>7 DEF PlaceInv, InHand, Has
  <1>11. GateInv'
    BY DEF GateInv, Announcing
  <1>12. LogInv'
    <2>1. \A i \in OutputIds : OutputEvent(i) \in Range(events') <=> OutputEvent(i) \in Range(events)
      BY <1>6, EventsApart
    <2>2. \A m \in Nodes \ {n}, d \in BOOLEAN :
             [node |-> m, cached |-> d] \in Range(events') <=> [node |-> m, cached |-> d] \in Range(events)
      BY <1>6
    <2>3. [node |-> n, cached |-> c] \in Range(events')
      BY <1>6
    <2> QED BY <1>1, <1>2, <1>6, <2>1, <2>2, <2>3 DEF LogInv, Said, Announcing
  <1>13. ThreadInv'
    BY <1>3 DEF ThreadInv
  <1>14. StatusInv'
    BY <1>3, <1>6, EventsApart DEF StatusInv, Said
  <1> QED BY <1>8, <1>9, <1>10, <1>11, <1>12, <1>13, <1>14

\* run_node hands output i to on_output.
LEMMA EnterOnOutputStep ==
    ASSUME SchedulerInv, JobInv, NEW n \in Nodes, NEW i \in OutputIds, EnterOnOutput(n, i)
    PROVE  JobInv'
  <1> USE DEF JobInv
  <1>1. /\ at[n] = "none" /\ phase[n] = "emit" /\ i \notin emitted /\ OutputNode[i] = n
        /\ emitted' = emitted \cup {i}
        /\ cur' = [cur EXCEPT ![n] = i]
        /\ at' = [at EXCEPT ![n] = IF IsPinned(i) THEN "gate" ELSE "store"]
        /\ UNCHANGED <<job, status, error, events, outputs, payloads, held, next_index, gate,
                       sched, phase, outcome>>
    BY DEF EnterOnOutput, OnOutput, OutputsOf, threadVars, schedVars
  <1>2. /\ cur'[n] = i /\ at'[n] \in {"gate", "store"} /\ (at'[n] = "gate" <=> IsPinned(i))
        /\ \A m \in Nodes \ {n} : cur'[m] = cur[m] /\ at'[m] = at[m]
    BY <1>1 DEF JobTypeOK
  <1>3. i \notin Range(outputs) /\ \A g \in PinnedGroups : i \notin held[g]
    BY <1>1 DEF PlaceInv
  <1>4. JobTypeOK'
    BY <1>1, <1>2 DEF JobTypeOK
  <1>5. WorkerInv'
    BY <1>1, <1>2 DEF WorkerInv
  <1>6. PlaceInv'
    <2>1. \A m \in Nodes \ {n} : InHand(m)' = InHand(m) /\ Has(m)' = Has(m)
      BY <1>2 DEF InHand, Has
    <2>2. InHand(n)' /\ Has(n)' /\ ~InHand(n)
      BY <1>1, <1>2 DEF InHand, Has
    <2>3. \A m \in Nodes : Has(m) => cur[m] \in emitted
      BY DEF Has, PlaceInv
    <2>4. \A k \in emitted' : \/ k \in Range(outputs)
                              \/ \E m \in Nodes : InHand(m)' /\ cur'[m] = k
                              \/ IsPinned(k) /\ k \in held[OutputGroup[k]]
      BY <1>1, <1>2, <2>1, <2>2 DEF PlaceInv
    <2>5. \A m \in Nodes : InHand(m)' =>
             /\ cur'[m] \in emitted' /\ cur'[m] \notin Range(outputs)
             /\ IsPinned(cur'[m]) => cur'[m] \notin held[OutputGroup[cur'[m]]]
      BY <1>1, <1>2, <1>3, <2>1, <2>2, PinnedHasGroup DEF PlaceInv
    <2>6. \A k, m \in Nodes : Has(k)' /\ Has(m)' /\ cur'[k] = cur'[m] => k = m
      BY <1>1, <1>2, <2>1, <2>2, <2>3 DEF PlaceInv
    <2>7. \A k \in emitted' : phase'[OutputNode[k]] \in {"emit", "done"}
      BY <1>1 DEF PlaceInv
    <2> QED BY <1>1, <1>2, <2>4, <2>5, <2>6, <2>7 DEF PlaceInv
  <1>7. \A k \in OutputIds : Announcing(k)' <=> Announcing(k)
    BY <1>1, <1>2 DEF Announcing
  <1>8. GateInv'
    BY <1>1, <1>2, <1>7 DEF GateInv
  <1>9. PinnedOutputsInOrder' /\ StoreInv'
    BY <1>1, <1>2 DEF PinnedOutputsInOrder, StoreInv
  <1>10. LogInv'
    BY <1>1, <1>7 DEF LogInv, Said
  <1>11. ThreadInv' /\ StatusInv'
    BY <1>1 DEF ThreadInv, StatusInv, Said
  <1> QED BY <1>4, <1>5, <1>6, <1>8, <1>9, <1>10, <1>11

\* The worker enters the gate and its output is held.
LEMMA EnterGateStep ==
    ASSUME SchedulerInv, JobInv, NEW n \in Nodes, EnterGate(n)
    PROVE  JobInv'
  <1> USE DEF JobInv
  <1> DEFINE i == cur[n]
             g == OutputGroup[i]
  <1>1. /\ at[n] = "gate" /\ gate = NoNode /\ gate' = n
        /\ held' = [held EXCEPT ![g] = @ \cup {i}]
        /\ at' = [at EXCEPT ![n] = "flush"]
        /\ UNCHANGED <<job, status, error, events, outputs, payloads, next_index, cur,
                       sched, phase, outcome, emitted>>
    BY DEF EnterGate, GateFree, threadVars, execVars, schedVars, nodeVars
  <1>2. i \in OutputIds /\ IsPinned(i) /\ g \in PinnedGroups
    BY <1>1, PinnedHasGroup DEF WorkerInv
  <1>3. i \in emitted /\ i \notin Range(outputs)
    BY <1>1 DEF PlaceInv, InHand
  <1> HIDE DEF i, g
  <1>4. /\ at'[n] = "flush" /\ \A m \in Nodes \ {n} : at'[m] = at[m]
        /\ held'[g] = held[g] \cup {i} /\ \A h \in PinnedGroups \ {g} : held'[h] = held[h]
    BY <1>1, <1>2 DEF JobTypeOK
  <1>5. JobTypeOK'
    <2>1. held' \in [PinnedGroups -> SUBSET OutputIds]
      BY <1>1, <1>2 DEF JobTypeOK
    <2>2. \A m \in Nodes \ {n} : ~(gate = m) /\ ~(gate' = m)
      BY <1>1, GroupAssumption
    <2>3. \A m \in Nodes : gate' = m <=> \/ at'[m] = "flush"
                                         \/ at'[m] \in {"store", "record", "announce"} /\ IsPinned(cur[m])
      BY <1>1, <1>4, <2>2 DEF JobTypeOK
    <2> QED BY <1>1, <2>1, <2>3 DEF JobTypeOK
  <1>6. WorkerInv'
    BY <1>1, <1>2, <1>4 DEF WorkerInv, i
  <1>7. PlaceInv'
    <2>1. /\ \A m \in Nodes \ {n} : InHand(m)' = InHand(m) /\ Has(m)' = Has(m)
          /\ InHand(n) /\ Has(n) /\ ~InHand(n)' /\ ~Has(n)'
      BY <1>1, <1>4 DEF InHand, Has
    <2>2. \A k \in emitted : \/ k \in Range(outputs)
                             \/ \E m \in Nodes : InHand(m)' /\ cur[m] = k
                             \/ IsPinned(k) /\ k \in held'[OutputGroup[k]]
      <3>1. i \in held'[OutputGroup[i]]
        BY <1>4 DEF g
      <3>2. \A k \in emitted : IsPinned(k) /\ k \in held[OutputGroup[k]] => k \in held'[OutputGroup[k]]
        BY <1>4, PinnedHasGroup DEF SchedulerInv, TypeOK
      <3> QED BY <1>2, <2>1, <3>1, <3>2 DEF PlaceInv, i
    <2>3. \A h \in PinnedGroups : \A k \in held'[h] :
             k \in emitted /\ k \notin Range(outputs) /\ OutputGroup[k] = h
      BY <1>2, <1>3, <1>4 DEF PlaceInv, g
    <2>4. \A m \in Nodes : InHand(m)' =>
             /\ cur[m] \in emitted /\ cur[m] \notin Range(outputs)
             /\ IsPinned(cur[m]) => cur[m] \notin held'[OutputGroup[cur[m]]]
      <3> SUFFICES ASSUME NEW m \in Nodes, InHand(m)', IsPinned(cur[m])
                   PROVE  cur[m] \notin held'[OutputGroup[cur[m]]]
        BY <2>1 DEF PlaceInv
      <3>1. m # n /\ InHand(m) /\ cur[m] # i
        BY <2>1 DEF PlaceInv, Has, i
      <3>2. OutputGroup[cur[m]] \in PinnedGroups
        BY <3>1 DEF IsPinned
      <3> QED BY <1>4, <3>1, <3>2 DEF PlaceInv
    <2> QED BY <1>1, <1>4, <2>1, <2>2, <2>3, <2>4 DEF PlaceInv
  <1>8. \A k \in OutputIds : Announcing(k)' <=> Announcing(k)
    BY <1>1, <1>4 DEF Announcing
  <1>9. GateInv'
    <2>1. ASSUME NEW h \in PinnedGroups, NEW k \in held'[h], Position(k) = next_index[h]
          PROVE  \E m \in Nodes : at'[m] = "flush" /\ OutputGroup[cur[m]] = h
      <3>1. CASE k \in held[h]
        <4>1. PICK m \in Nodes : at[m] = "flush" /\ OutputGroup[cur[m]] = h
          BY <2>1, <3>1 DEF GateInv
        <4> QED BY <1>1, <1>4, <4>1
      <3>2. CASE k \notin held[h]
        BY <1>4, <2>1, <3>2 DEF g, i
      <3> QED BY <3>1, <3>2
    <2> QED BY <1>1, <1>4, <1>8, <2>1 DEF GateInv
  <1>10. PinnedOutputsInOrder' /\ StoreInv'
    BY <1>1, <1>4 DEF PinnedOutputsInOrder, StoreInv
  <1>11. LogInv'
    BY <1>1, <1>8 DEF LogInv, Said
  <1>12. ThreadInv' /\ StatusInv'
    BY <1>1 DEF ThreadInv, StatusInv, Said
  <1> QED BY <1>5, <1>6, <1>7, <1>9, <1>10, <1>11, <1>12

\* The worker in the gate takes the held output whose turn it is.
LEMMA PopHeldStep ==
    ASSUME SchedulerInv, JobInv, NEW n \in Nodes, NEW i \in OutputIds, PopHeld(n, i)
    PROVE  JobInv'
  <1> USE DEF JobInv
  <1> DEFINE g == OutputGroup[i]
  <1>1. /\ at[n] = "flush" /\ i \in Due(n)
        /\ held' = [held EXCEPT ![g] = @ \ {i}]
        /\ cur' = [cur EXCEPT ![n] = i]
        /\ at' = [at EXCEPT ![n] = "store"]
        /\ UNCHANGED <<job, status, error, events, outputs, payloads, next_index, gate,
                       sched, phase, outcome, emitted>>
    BY DEF PopHeld, threadVars, execVars, schedVars, nodeVars
  <1>2. OutputGroup[cur[n]] \in PinnedGroups /\ phase[n] = "emit"
    BY <1>1 DEF WorkerInv, IsPinned
  <1>3. /\ OutputGroup[cur[n]] = g /\ g \in PinnedGroups /\ IsPinned(i)
        /\ i \in held[g] /\ Position(i) = next_index[g]
        /\ i \in emitted /\ i \notin Range(outputs)
    BY <1>1, <1>2 DEF Due, PlaceInv, IsPinned
  <1> HIDE DEF g
  <1>4. /\ at'[n] = "store" /\ cur'[n] = i
        /\ \A m \in Nodes \ {n} : at'[m] = at[m] /\ cur'[m] = cur[m]
        /\ held'[g] = held[g] \ {i} /\ \A h \in PinnedGroups \ {g} : held'[h] = held[h]
    BY <1>1, <1>3 DEF JobTypeOK
  <1>5. JobTypeOK'
    <2>1. held' \in [PinnedGroups -> SUBSET OutputIds]
      BY <1>1, <1>3 DEF JobTypeOK
    <2>2. \A m \in Nodes : gate = m <=> \/ at'[m] = "flush"
                                        \/ at'[m] \in {"store", "record", "announce"} /\ IsPinned(cur'[m])
      BY <1>1, <1>3, <1>4 DEF JobTypeOK
    <2> QED BY <1>1, <2>1, <2>2 DEF JobTypeOK
  <1>6. WorkerInv'
    BY <1>1, <1>2, <1>4 DEF WorkerInv
  <1>7. PlaceInv'
    <2>1. /\ \A m \in Nodes \ {n} : InHand(m)' = InHand(m) /\ Has(m)' = Has(m)
          /\ InHand(n)' /\ Has(n)' /\ ~InHand(n) /\ ~Has(n)
      BY <1>1, <1>4 DEF InHand, Has
    <2>2. \A m \in Nodes : Has(m) => cur[m] # i
      BY <1>3 DEF Has, PlaceInv, g
    <2>3. \A k \in emitted : \/ k \in Range(outputs)
                             \/ \E m \in Nodes : InHand(m)' /\ cur'[m] = k
                             \/ IsPinned(k) /\ k \in held'[OutputGroup[k]]
      <3> SUFFICES ASSUME NEW k \in emitted, k \notin Range(outputs), k # i
                   PROVE  \/ \E m \in Nodes : InHand(m)' /\ cur'[m] = k
                          \/ IsPinned(k) /\ k \in held'[OutputGroup[k]]
        BY <1>4, <2>1
      <3>1. CASE \E m \in Nodes : InHand(m) /\ cur[m] = k
        BY <1>4, <2>1, <3>1
      <3>2. CASE IsPinned(k) /\ k \in held[OutputGroup[k]]
        BY <1>4, <3>2 DEF IsPinned
      <3> QED BY <3>1, <3>2 DEF PlaceInv
    <2>4. \A h \in PinnedGroups : \A k \in held'[h] :
             k \in emitted /\ k \notin Range(outputs) /\ OutputGroup[k] = h
      BY <1>3, <1>4 DEF PlaceInv
    <2>5. \A m \in Nodes : InHand(m)' =>
             /\ cur'[m] \in emitted /\ cur'[m] \notin Range(outputs)
             /\ IsPinned(cur'[m]) => cur'[m] \notin held'[OutputGroup[cur'[m]]]
      <3>1. i \notin held'[OutputGroup[i]]
        BY <1>4 DEF g
      <3>2. \A h \in PinnedGroups : held'[h] \subseteq held[h]
        BY <1>3, <1>4
      <3> QED BY <1>3, <1>4, <2>1, <3>1, <3>2 DEF PlaceInv, IsPinned
    <2>6. \A k, m \in Nodes : Has(k)' /\ Has(m)' /\ cur'[k] = cur'[m] => k = m
      BY <1>4, <2>1, <2>2 DEF PlaceInv
    <2> QED BY <1>1, <1>4, <2>3, <2>4, <2>5, <2>6 DEF PlaceInv
  <1>8. \A k \in OutputIds : Announcing(k)' <=> Announcing(k)
    BY <1>1, <1>4 DEF Announcing
  <1>9. GateInv'
    <2>1. ASSUME NEW h \in PinnedGroups, NEW k \in held'[h], Position(k) = next_index[h]
          PROVE  FALSE
      <3>1. k \in held[h] /\ k \in OutputIds /\ OutputGroup[k] = h
        BY <1>3, <1>4 DEF PlaceInv, JobTypeOK
      <3>2. PICK m \in Nodes : at[m] = "flush" /\ OutputGroup[cur[m]] = h
        BY <2>1, <3>1 DEF GateInv
      <3>3. m = n /\ h = g
        BY <1>1, <1>3, <3>2 DEF JobTypeOK
      <3>4. k = i
        BY <1>3, <2>1, <3>1, <3>3, PositionOrder DEF g
      <3> QED BY <1>4, <3>3, <3>4
    <2> QED BY <1>1, <1>3, <1>4, <1>8, <2>1 DEF GateInv, g
  <1>10. PinnedOutputsInOrder' /\ StoreInv'
    BY <1>1, <1>4 DEF PinnedOutputsInOrder, StoreInv
  <1>11. LogInv'
    BY <1>1, <1>8 DEF LogInv, Said
  <1>12. ThreadInv' /\ StatusInv'
    BY <1>1 DEF ThreadInv, StatusInv, Said
  <1> QED BY <1>5, <1>6, <1>7, <1>9, <1>10, <1>11, <1>12

\* No held output is next: the worker leaves the gate.
LEMMA LeaveGateStep ==
    ASSUME SchedulerInv, JobInv, NEW n \in Nodes, LeaveGate(n)
    PROVE  JobInv'
  <1> USE DEF JobInv
  <1>1. /\ at[n] = "flush" /\ Due(n) = {} /\ gate' = NoNode
        /\ at' = [at EXCEPT ![n] = "none"]
        /\ UNCHANGED <<job, status, error, events, outputs, payloads, held, next_index, cur,
                       sched, phase, outcome, emitted>>
    BY DEF LeaveGate, threadVars, execVars, schedVars, nodeVars
  <1>2. at'[n] = "none" /\ \A m \in Nodes \ {n} : at'[m] = at[m]
    BY <1>1 DEF JobTypeOK
  <1>3. JobTypeOK'
    <2>1. \A m \in Nodes : ~(gate' = m)
      BY <1>1, GroupAssumption
    <2>2. \A m \in Nodes \ {n} : ~(gate = m)
      BY <1>1 DEF JobTypeOK
    <2>3. \A m \in Nodes : ~( \/ at'[m] = "flush"
                              \/ at'[m] \in {"store", "record", "announce"} /\ IsPinned(cur[m]) )
      BY <1>2, <2>2 DEF JobTypeOK
    <2> QED BY <1>1, <2>1, <2>3 DEF JobTypeOK
  <1>4. WorkerInv'
    BY <1>1, <1>2 DEF WorkerInv
  <1>5. PlaceInv'
    <2>1. \A m \in Nodes : InHand(m)' = InHand(m) /\ Has(m)' = Has(m)
      BY <1>1, <1>2 DEF InHand, Has
    <2> QED BY <1>1, <1>2, <2>1 DEF PlaceInv
  <1>6. \A k \in OutputIds : Announcing(k)' <=> Announcing(k)
    BY <1>1, <1>2 DEF Announcing
  <1>7. GateInv'
    <2>1. ASSUME NEW h \in PinnedGroups, NEW k \in held[h], Position(k) = next_index[h]
          PROVE  FALSE
      <3>1. PICK m \in Nodes : at[m] = "flush" /\ OutputGroup[cur[m]] = h
        BY <2>1 DEF GateInv
      <3>2. m = n /\ OutputGroup[cur[n]] = h
        BY <1>1, <3>1 DEF JobTypeOK
      <3> QED BY <1>1, <2>1, <3>2 DEF Due
    <2> QED BY <1>1, <1>2, <1>6, <2>1 DEF GateInv
  <1>8. PinnedOutputsInOrder' /\ StoreInv'
    BY <1>1, <1>2 DEF PinnedOutputsInOrder, StoreInv
  <1>9. LogInv'
    BY <1>1, <1>6 DEF LogInv, Said
  <1>10. ThreadInv' /\ StatusInv'
    BY <1>1 DEF ThreadInv, StatusInv, Said
  <1> QED BY <1>3, <1>4, <1>5, <1>7, <1>8, <1>9, <1>10

\* emit_output stores the payload.
LEMMA StorePayloadStep ==
    ASSUME SchedulerInv, JobInv, NEW n \in Nodes, StorePayload(n)
    PROVE  JobInv'
  <1> USE DEF JobInv
  <1>1. /\ at[n] = "store" /\ payloads' = payloads \cup {cur[n]}
        /\ at' = [at EXCEPT ![n] = "record"]
        /\ UNCHANGED <<job, status, error, events, outputs, held, next_index, gate, cur,
                       sched, phase, outcome, emitted>>
    BY DEF StorePayload, threadVars, execVars, schedVars, nodeVars
  <1>2. at'[n] = "record" /\ \A m \in Nodes \ {n} : at'[m] = at[m]
    BY <1>1 DEF JobTypeOK
  <1>3. JobTypeOK'
    <2>1. cur[n] \in OutputIds
      BY <1>1 DEF WorkerInv
    <2> QED BY <1>1, <1>2, <2>1 DEF JobTypeOK
  <1>4. WorkerInv'
    BY <1>1, <1>2 DEF WorkerInv
  <1>5. PlaceInv'
    <2>1. \A m \in Nodes : InHand(m)' = InHand(m) /\ Has(m)' = Has(m)
      BY <1>1, <1>2 DEF InHand, Has
    <2> QED BY <1>1, <1>2, <2>1 DEF PlaceInv
  <1>6. \A k \in OutputIds : Announcing(k)' <=> Announcing(k)
    BY <1>1, <1>2 DEF Announcing
  <1>7. GateInv'
    BY <1>1, <1>2, <1>6 DEF GateInv
  <1>8. PinnedOutputsInOrder' /\ StoreInv'
    BY <1>1, <1>2 DEF PinnedOutputsInOrder, StoreInv
  <1>9. LogInv'
    BY <1>1, <1>6 DEF LogInv, Said
  <1>10. ThreadInv' /\ StatusInv'
    BY <1>1 DEF ThreadInv, StatusInv, Said
  <1> QED BY <1>3, <1>4, <1>5, <1>7, <1>8, <1>9, <1>10

\* emit_output records the output.
LEMMA RecordOutputStep ==
    ASSUME SchedulerInv, JobInv, NEW n \in Nodes, RecordOutput(n)
    PROVE  JobInv'
  <1> USE DEF JobInv
  <1> DEFINE i == cur[n]
  <1>1. /\ at[n] = "record" /\ outputs' = Append(outputs, i)
        /\ at' = [at EXCEPT ![n] = "announce"]
        /\ UNCHANGED <<job, status, error, events, payloads, held, next_index, gate, cur,
                       sched, phase, outcome, emitted>>
    BY DEF RecordOutput, threadVars, execVars, schedVars, nodeVars
  <1>2. at'[n] = "announce" /\ \A m \in Nodes \ {n} : at'[m] = at[m]
    BY <1>1 DEF JobTypeOK
  <1>3. /\ i \in OutputIds /\ i \in emitted /\ i \notin Range(outputs)
        /\ IsPinned(i) => i \notin held[OutputGroup[i]]
    BY <1>1 DEF WorkerInv, PlaceInv, InHand
  <1>4. outputs \in Seq(OutputIds)
    BY DEF JobTypeOK
  <1>5. /\ outputs' \in Seq(OutputIds)
        /\ Range(outputs') = Range(outputs) \cup {i}
        /\ IsInjective(outputs')
    BY <1>1, <1>3, <1>4, AppendFacts DEF PlaceInv
  <1>6. JobTypeOK'
    BY <1>1, <1>2, <1>5 DEF JobTypeOK
  <1>7. WorkerInv'
    BY <1>1, <1>2 DEF WorkerInv
  <1>8. PlaceInv'
    <2>1. /\ \A m \in Nodes : Has(m)' = Has(m)
          /\ \A m \in Nodes \ {n} : InHand(m)' = InHand(m)
          /\ ~InHand(n)' /\ InHand(n) /\ Has(n)
      BY <1>1, <1>2 DEF InHand, Has
    <2>2. \A m \in Nodes \ {n} : InHand(m) => cur[m] # i
      BY <2>1 DEF PlaceInv, Has
    <2>3. \A g \in PinnedGroups : i \notin held[g]
      BY <1>3 DEF PlaceInv, IsPinned
    <2>4. \A k \in emitted : \/ k \in Range(outputs')
                             \/ \E m \in Nodes : InHand(m)' /\ cur[m] = k
                             \/ IsPinned(k) /\ k \in held[OutputGroup[k]]
      BY <1>5, <2>1 DEF PlaceInv
    <2>5. \A m \in Nodes : InHand(m)' =>
             /\ cur[m] \in emitted /\ cur[m] \notin Range(outputs')
             /\ IsPinned(cur[m]) => cur[m] \notin held[OutputGroup[cur[m]]]
      BY <1>5, <2>1, <2>2 DEF PlaceInv
    <2>6. \A m \in Nodes : at'[m] = "announce" => cur[m] \in Range(outputs')
      BY <1>2, <1>5 DEF PlaceInv
    <2> HIDE DEF i
    <2> QED BY <1>1, <1>3, <1>5, <2>1, <2>3, <2>4, <2>5, <2>6 DEF PlaceInv
  <1>9. \A k \in OutputIds : Announcing(k)' <=> Announcing(k) \/ k = i
    BY <1>1, <1>2 DEF Announcing
  <1>10. GateInv'
    BY <1>1, <1>2, <1>5, <1>9 DEF GateInv
  <1>11. PinnedOutputsInOrder'
    <2> SUFFICES ASSUME NEW k \in DOMAIN outputs', IsPinned(outputs'[k]),
                        NEW j \in Earlier(outputs'[k])
                 PROVE  \E l \in 1 .. k - 1 : outputs'[l] = j
      BY DEF PinnedOutputsInOrder, Earlier
    <2>1. /\ Len(outputs) \in Nat /\ DOMAIN outputs = 1 .. Len(outputs)
          /\ DOMAIN outputs' = 1 .. Len(outputs) + 1
          /\ outputs'[Len(outputs) + 1] = i
          /\ \A l \in 1 .. Len(outputs) : outputs'[l] = outputs[l]
      BY <1>1, <1>3, <1>4
    <2>2. CASE k \in 1 .. Len(outputs)
      <3>1. PICK l \in 1 .. k - 1 : outputs[l] = j
        BY <2>1, <2>2 DEF PinnedOutputsInOrder
      <3> QED BY <2>1, <2>2, <3>1
    <2>3. CASE k = Len(outputs) + 1
      <3>1. outputs'[k] = i /\ IsPinned(i) /\ j \in OutputIds /\ OutputGroup[j] = OutputGroup[i] /\ j < i
        BY <2>1, <2>3 DEF Earlier
      <3>2. Position(j) < Position(i)
        BY <1>3, <3>1, PositionOrder
      <3>3. Position(i) = next_index[OutputGroup[i]]
        BY <1>1, <3>1 DEF GateInv
      <3>4. j \in Range(outputs)
        BY <3>1, <3>2, <3>3 DEF GateInv, IsPinned
      <3>5. PICK l \in 1 .. Len(outputs) : outputs[l] = j
        BY <2>1, <3>4 DEF Range
      <3> QED BY <2>1, <2>3, <3>5
    <2> QED BY <2>1, <2>2, <2>3
  <1>12. StoreInv'
    BY <1>1, <1>2, <1>5 DEF StoreInv
  <1>13. LogInv'
    BY <1>1, <1>3, <1>5, <1>9 DEF LogInv, Said
  <1>14. ThreadInv' /\ StatusInv'
    BY <1>1 DEF ThreadInv, StatusInv, Said
  <1> QED BY <1>6, <1>7, <1>8, <1>10, <1>11, <1>12, <1>13, <1>14

\* emit_output announces the output; the turn of the next one comes.
LEMMA AnnounceOutputStep ==
    ASSUME SchedulerInv, JobInv, NEW n \in Nodes, AnnounceOutput(n)
    PROVE  JobInv'
  <1> USE DEF JobInv
  <1> DEFINE i == cur[n]
             g == OutputGroup[i]
  <1>1. /\ at[n] = "announce" /\ events' = Append(events, OutputEvent(i))
        /\ at' = [at EXCEPT ![n] = IF IsPinned(i) THEN "flush" ELSE "none"]
        /\ UNCHANGED <<job, status, error, outputs, payloads, held, gate, cur,
                       sched, phase, outcome, emitted>>
    BY DEF AnnounceOutput, threadVars, execVars, schedVars, nodeVars
  <1>2. at'[n] = (IF IsPinned(i) THEN "flush" ELSE "none") /\ \A m \in Nodes \ {n} : at'[m] = at[m]
    BY <1>1 DEF JobTypeOK
  <1>3. i \in OutputIds /\ i \in Range(outputs) /\ phase[n] = "emit"
    BY <1>1 DEF WorkerInv, PlaceInv
  <1>4. next_index' = IF IsPinned(i) THEN [next_index EXCEPT ![g] = @ + 1] ELSE next_index
    BY DEF AnnounceOutput
  <1>5. /\ IsPinned(i) => /\ g \in PinnedGroups
                          /\ Position(i) = next_index[g] /\ next_index'[g] = next_index[g] + 1
        /\ \A h \in PinnedGroups : h # g \/ ~IsPinned(i) => next_index'[h] = next_index[h]
    BY <1>1, <1>3, <1>4, PinnedHasGroup DEF GateInv, JobTypeOK
  <1>6. \A h \in PinnedGroups : next_index[h] \in Nat
    BY DEF JobTypeOK
  <1> HIDE DEF i, g
  <1>7. events' \in Seq(JobEvents) /\ Range(events') = Range(events) \cup {OutputEvent(i)}
    <2>1. OutputEvent(i) \in JobEvents
      BY <1>3 DEF JobEvents
    <2> QED BY <1>1, <2>1, LogAppend DEF LogInv
  <1>8. JobTypeOK'
    <2>1. next_index' \in [PinnedGroups -> 0 .. Len(OutputNode)]
      <3>1. CASE IsPinned(i)
        <4>1. next_index[g] + 1 \in 0 .. Len(OutputNode)
          BY <1>3, <1>5, <3>1, PositionType, OutputIdsAre
        <4> QED BY <1>4, <3>1, <4>1 DEF JobTypeOK
      <3>2. CASE ~IsPinned(i)
        BY <1>4, <3>2 DEF JobTypeOK
      <3> QED BY <3>1, <3>2
    <2>2. \A m \in Nodes : gate = m <=> \/ at'[m] = "flush"
                                        \/ at'[m] \in {"store", "record", "announce"} /\ IsPinned(cur[m])
      BY <1>1, <1>2 DEF JobTypeOK, i
    <2>3. at' \in [Nodes -> {"none", "gate", "flush", "store", "record", "announce"}]
      BY <1>1 DEF JobTypeOK
    <2> QED BY <1>1, <2>1, <2>2, <2>3 DEF JobTypeOK
  <1>9. WorkerInv'
    BY <1>1, <1>2 DEF WorkerInv, i
  <1>10. PlaceInv'
    <2>1. /\ \A m \in Nodes : InHand(m)' = InHand(m)
          /\ \A m \in Nodes : Has(m)' => Has(m)
      BY <1>1, <1>2 DEF InHand, Has
    <2> QED BY <1>1, <1>2, <2>1 DEF PlaceInv
  <1>11. \A k \in OutputIds : Announcing(k)' <=> Announcing(k) /\ k # i
    <2>1. \A m \in Nodes \ {n} : at[m] = "announce" => cur[m] # i
      BY <1>1 DEF PlaceInv, Has, i
    <2>2. at'[n] # "announce"
      BY <1>2
    <2> QED BY <1>1, <1>2, <2>1, <2>2 DEF Announcing, i
  <1>12. GateInv'
    <2>1. \A m \in Nodes : at'[m] \in {"store", "record", "announce"} /\ IsPinned(cur[m]) =>
             Position(cur[m]) = next_index'[OutputGroup[cur[m]]]
      <3> SUFFICES ASSUME NEW m \in Nodes, at'[m] \in {"store", "record", "announce"}, IsPinned(cur[m])
                   PROVE  Position(cur[m]) = next_index'[OutputGroup[cur[m]]]
        OBVIOUS
      <3>1. m # n /\ at[m] = at'[m]
        BY <1>2
      <3>2. ~IsPinned(i)
        BY <1>1, <3>1 DEF JobTypeOK, i
      <3> QED BY <1>5, <3>1, <3>2 DEF GateInv, IsPinned
    <2>2. ASSUME NEW k \in OutputIds, IsPinned(k)
          PROVE  k \in Range(outputs) <=> Position(k) < next_index'[OutputGroup[k]] \/ Announcing(k)'
      <3>1. OutputGroup[k] \in PinnedGroups /\ Position(k) \in Nat /\ next_index[OutputGroup[k]] \in Nat
        BY <1>6, <2>2, PositionType DEF IsPinned
      <3>2. k \in Range(outputs) <=> Position(k) < next_index[OutputGroup[k]] \/ Announcing(k)
        BY <2>2 DEF GateInv
      <3>3. CASE ~IsPinned(i)
        BY <1>5, <1>11, <2>2, <3>1, <3>2, <3>3
      <3>4. CASE IsPinned(i) /\ OutputGroup[k] # g
        BY <1>5, <1>11, <3>1, <3>2, <3>4 DEF g
      <3>5. CASE IsPinned(i) /\ OutputGroup[k] = g /\ k # i
        <4>1. Position(k) # Position(i)
          BY <1>3, <3>5, PositionOrder DEF g
        <4> QED BY <1>5, <1>11, <3>1, <3>2, <3>5, <4>1
      <3>6. CASE IsPinned(i) /\ k = i
        BY <1>3, <1>5, <3>1, <3>6 DEF g
      <3> QED BY <3>3, <3>4, <3>5, <3>6
    <2>3. ASSUME NEW h \in PinnedGroups, NEW k \in held[h], Position(k) = next_index'[h]
          PROVE  \E m \in Nodes : at'[m] = "flush" /\ OutputGroup[cur[m]] = h
      <3>1. CASE IsPinned(i) /\ h = g
        BY <1>2, <3>1 DEF g, i
      <3>2. CASE ~(IsPinned(i) /\ h = g)
        <4>1. next_index'[h] = next_index[h]
          BY <1>5, <3>2
        <4>2. PICK m \in Nodes : at[m] = "flush" /\ OutputGroup[cur[m]] = h
          BY <2>3, <4>1 DEF GateInv
        <4> QED BY <1>1, <1>2, <4>2
      <3> QED BY <3>1, <3>2
    <2> QED BY <1>1, <2>1, <2>2, <2>3 DEF GateInv
  <1>13. PinnedOutputsInOrder' /\ StoreInv'
    BY <1>1, <1>2 DEF PinnedOutputsInOrder, StoreInv
  <1>14. LogInv'
    <2>1. \A k \in OutputIds : OutputEvent(k) \in Range(events')
                                 <=> OutputEvent(k) \in Range(events) \/ k = i
      BY <1>7, EventsApart
    <2>2. \A k \in OutputIds : OutputEvent(k) \in Range(events') <=> k \in Range(outputs) /\ ~Announcing(k)'
      BY <1>3, <1>11, <2>1 DEF LogInv, Said
    <2>3. \A m \in Nodes, c \in BOOLEAN :
             [node |-> m, cached |-> c] \in Range(events') <=> [node |-> m, cached |-> c] \in Range(events)
      BY <1>7, EventsApart
    <2> QED BY <1>1, <1>7, <2>2, <2>3 DEF LogInv, Said
  <1>15. job = "executing"
    BY <1>3, PoolWorksInside DEF JobTypeOK, Busy
  <1>16. ThreadInv'
    BY <1>1 DEF ThreadInv
  <1>17. StatusInv'
    BY <1>1, <1>7, <1>15, EventsApart DEF StatusInv, Said
  <1> QED BY <1>8, <1>9, <1>10, <1>12, <1>13, <1>14, <1>16, <1>17

-----------------------------------------------------------------------------
(* Every step preserves the invariant.                                     *)

\* The job's invariant is inductive, given the executor's.
LEMMA JobNextInv ==
    SchedulerInv /\ SchedulerInv' /\ JobInv /\ [JobNext]_vars => JobInv'
  <1> SUFFICES ASSUME SchedulerInv, SchedulerInv', JobInv, [JobNext]_vars PROVE JobInv'
    OBVIOUS
  <1>1. CASE JobThread
    BY <1>1, JobThreadStep
  <1>2. ASSUME NEW n \in Nodes, Worker(n) PROVE JobInv'
    <2>1. CASE RunNodeSilently(n)
      BY <2>1, RunNodeSilentlyStep
    <2>2. CASE NodeCompleted(n)
      BY <2>2, NodeCompletedStep
    <2>3. ASSUME NEW i \in OutputIds, EnterOnOutput(n, i) PROVE JobInv'
      BY <2>3, EnterOnOutputStep
    <2>4. CASE EnterGate(n)
      BY <2>4, EnterGateStep
    <2>5. ASSUME NEW i \in OutputIds, PopHeld(n, i) PROVE JobInv'
      BY <2>5, PopHeldStep
    <2>6. CASE LeaveGate(n)
      BY <2>6, LeaveGateStep
    <2>7. CASE StorePayload(n)
      BY <2>7, StorePayloadStep
    <2>8. CASE RecordOutput(n)
      BY <2>8, RecordOutputStep
    <2>9. CASE AnnounceOutput(n)
      BY <2>9, AnnounceOutputStep
    <2> QED BY <1>2, <2>1, <2>2, <2>3, <2>4, <2>5, <2>6, <2>7, <2>8, <2>9 DEF Worker
  <1>3. ASSUME UNCHANGED <<schedVars, nodeVars, jobVars>> PROVE JobInv'
    <2>1. phase \in [Nodes -> Phases] /\ UNCHANGED <<jobVars, emitted, phase, sched, outcome>>
      BY <1>3 DEF SchedulerInv, TypeOK, schedVars, nodeVars
    <2>2. sched' \in {"join", "returned"} => outcome' \in Terminal
      BY <2>1 DEF JobInv, ThreadInv
    <2> QED BY <2>1, <2>2, SilentStep
  <1>4. CASE CancelJob
    BY <1>3, <1>4 DEF CancelJob, SetCancel
  <1>5. ASSUME NEW k \in Keys, OtherPut(k) PROVE JobInv'
    BY <1>3, <1>5 DEF OtherPut, OtherJobPut
  <1>6. CASE JobOver \/ UNCHANGED vars
    BY <1>3, <1>6 DEF JobOver, vars, execVars
  <1> QED BY <1>1, <1>2, <1>4, <1>5, <1>6 DEF JobNext

-----------------------------------------------------------------------------
(* The theorems.                                                           *)

\* What the job does to execute_graph's variables is what Executor specifies:
\* the callbacks on_node and on_output disturb nothing (the safety part of
\* RunsExecutor).  So all that is proved of Executor holds of a job.
THEOREM JobRunsExecutor == JobSafety => ExecSafety
  <1>1. JobInit => ExecInit
    BY DEF JobInit
  <1> QED BY <1>1, JobStepRunsExecutor, PTL DEF JobSafety, ExecSafety

\* The inductive invariants of the scheduler and of the job hold in every
\* reachable state of every job.
THEOREM JobCorrect == JobSafety => [](SchedulerInv /\ JobInv)
  <1>1. JobSafety => []SchedulerInv
    BY JobRunsExecutor, SchedulerCorrect, PTL
  <1> QED BY <1>1, JobInitInv, JobNextInv, PTL DEF JobSafety

\* The job's variables keep their types, and the gate is a lock: it is held
\* exactly by the worker that is emitting outputs of pinned groups.
THEOREM JobTypeCorrect == JobSafety => []JobTypeOK
  <1>1. JobInv => JobTypeOK
    BY DEF JobInv
  <1> QED BY <1>1, JobCorrect, PTL

\* job.outputs has the outputs of a pinned group in their declared order without
\* a gap, whichever workers finish first and however the job ends.
THEOREM PinnedOutputsInOrderHolds == JobSafety => []PinnedOutputsInOrder
  <1>1. JobInv => PinnedOutputsInOrder
    BY DEF JobInv
  <1> QED BY <1>1, JobCorrect, PTL

\* Whenever no worker is in the gate, no held output is due.
THEOREM NothingHeldNeedlesslyHolds == JobSafety => []NothingHeldNeedlessly
  <1>1. JobInv => NothingHeldNeedlessly
    <2> SUFFICES ASSUME JobInv, gate = NoNode, NEW g \in PinnedGroups, NEW i \in held[g],
                        Position(i) = next_index[g]
                 PROVE  FALSE
      BY DEF NothingHeldNeedlessly
    <2>1. PICK n \in Nodes : at[n] = "flush"
      BY DEF JobInv, GateInv
    <2>2. gate = n
      BY <2>1 DEF JobInv, JobTypeOK
    <2> QED BY <2>2, GroupAssumption
  <1> QED BY <1>1, JobCorrect, PTL

\* An output the log announces has its payload in the session.
THEOREM AnnouncedIsStoredHolds == JobSafety => []AnnouncedIsStored
  <1>1. JobInv => AnnouncedIsStored
    BY DEF JobInv, LogInv, StoreInv, Said, AnnouncedIsStored
  <1> QED BY <1>1, JobCorrect, PTL

\* Once every node is done nothing is held any more: otherwise the first held
\* output of a group would be the next one, as all before it are recorded, and
\* no worker is in the gate.
LEMMA NothingLeftHeld ==
    ASSUME SchedulerInv, JobInv, \A n \in Nodes : phase[n] = "done"
    PROVE  /\ Range(outputs) = OutputIds
           /\ \A g \in PinnedGroups : held[g] = {}
           /\ \A i \in OutputIds : ~Announcing(i)
  <1>1. \A n \in Nodes : at[n] = "none"
    BY DEF JobInv, WorkerInv
  <1>2. \A i \in OutputIds : ~Announcing(i)
    BY <1>1 DEF Announcing
  <1>3. emitted = OutputIds
    <2>1. \A i \in OutputIds : i \in emitted
      BY OutputIdsAre DEF SchedulerInv, OutcomeInv
    <2>2. emitted \subseteq OutputIds
      BY DEF SchedulerInv, TypeOK
    <2> QED BY <2>1, <2>2
  <1>4. \A i \in OutputIds : i \in Range(outputs) \/ (IsPinned(i) /\ i \in held[OutputGroup[i]])
    <2>1. \A n \in Nodes : ~InHand(n)
      BY <1>1 DEF InHand
    <2>2. \A i \in emitted : \/ i \in Range(outputs)
                             \/ \E n \in Nodes : InHand(n) /\ cur[n] = i
                             \/ IsPinned(i) /\ i \in held[OutputGroup[i]]
      BY DEF JobInv, PlaceInv
    <2> QED BY <1>3, <2>1, <2>2
  <1>5. ASSUME NEW g \in PinnedGroups, held[g] # {} PROVE FALSE
    <2>1. held[g] \subseteq OutputIds /\ next_index[g] \in Nat
      BY DEF JobInv, JobTypeOK
    <2>2. held[g] \in SUBSET Nat /\ IsFiniteSet(held[g])
      <3>1. IsFiniteSet(OutputIds) /\ OutputIds \subseteq Nat
        BY OutputIdsAre, FS_Interval
      <3> QED BY <2>1, <3>1, FS_Subset
    <2>3. PICK i \in held[g] : \A j \in held[g] : i <= j
      BY <1>5, <2>2, FirstOf
    <2>4. i \in OutputIds /\ OutputGroup[i] = g /\ IsPinned(i) /\ i \notin Range(outputs)
      BY <2>1 DEF JobInv, PlaceInv, IsPinned
    <2>5. Position(i) \in Nat /\ Position(i) >= next_index[g]
      BY <1>2, <2>1, <2>4, PositionType DEF JobInv, GateInv
    <2>6. \A j \in Earlier(i) : j \in OutputIds /\ OutputGroup[j] = g /\ Position(j) < next_index[g]
      <3> TAKE j \in Earlier(i)
      <3>1. j \in OutputIds /\ OutputGroup[j] = g /\ IsPinned(j) /\ j < i
        BY <2>4 DEF Earlier, IsPinned
      <3>2. j \notin held[g]
        BY <2>2, <2>3, <3>1
      <3>3. j \in Range(outputs)
        BY <1>4, <3>1, <3>2
      <3> QED BY <1>2, <3>1, <3>3 DEF JobInv, GateInv
    <2>7. Position(i) # next_index[g]
      BY <1>1 DEF JobInv, GateInv
    <2>8. PICK j \in Earlier(i) : Position(j) = Position(i) - 1
      BY <2>1, <2>4, <2>5, <2>7, PreviousPosition
    <2> QED BY <2>1, <2>4, <2>5, <2>6, <2>7, <2>8, PositionType
  <1>6. Range(outputs) \subseteq OutputIds
    BY <1>3 DEF JobInv, PlaceInv
  <1> QED BY <1>2, <1>4, <1>5, <1>6 DEF IsPinned

\* A final status is whole: "completed" comes with every output once, nothing
\* held and no error, "failed" with its error.
THEOREM FinalStatusIsWholeHolds == JobSafety => []FinalStatusIsWhole
  <1>1. SchedulerInv /\ JobInv => FinalStatusIsWhole
    <2> SUFFICES ASSUME SchedulerInv, JobInv PROVE FinalStatusIsWhole
      OBVIOUS
    <2>1. status \in Terminal => job \in {"ended", "told", "over"} /\ status = outcome
      BY DEF JobInv, ThreadInv, JobTypeOK, Terminal
    <2>2. status = "failed" => error
      BY <2>1 DEF JobInv, ThreadInv, Terminal
    <2>3. ASSUME status = "completed"
          PROVE  /\ Len(outputs) = Len(OutputNode)
                 /\ Range(outputs) = OutputIds
                 /\ \A g \in PinnedGroups : held[g] = {}
                 /\ ~error
      <3>1. job \in {"ended", "told", "over"} /\ outcome = "completed"
        BY <2>1, <2>3 DEF Terminal
      <3>2. \A n \in Nodes : phase[n] = "done"
        BY <3>1 DEF SchedulerInv, OutcomeInv
      <3>3. Range(outputs) = OutputIds /\ \A g \in PinnedGroups : held[g] = {}
        BY <3>2, NothingLeftHeld
      <3>4. ~error
        BY <3>1 DEF JobInv, ThreadInv
      <3>5. Len(outputs) = Len(OutputNode)
        <4>1. outputs \in Seq(OutputIds) /\ IsInjective(outputs)
          BY DEF JobInv, JobTypeOK, PlaceInv
        <4>2. Len(outputs) = Cardinality(OutputIds)
          BY <3>3, <4>1, LenOfBijection
        <4>3. OutputIds = 1 .. Len(OutputNode) /\ Len(OutputNode) \in Nat /\ 1 \in Int
          BY OutputIdsAre
        <4>4. Cardinality(1 .. Len(OutputNode)) = IF 1 > Len(OutputNode) THEN 0 ELSE Len(OutputNode) - 1 + 1
          BY <4>3, FS_Interval
        <4> QED BY <4>2, <4>3, <4>4
      <3> QED BY <3>3, <3>4, <3>5
    <2> QED BY <2>2, <2>3 DEF FinalStatusIsWhole
  <1> QED BY <1>1, JobCorrect, PTL

\* What the protocol's operators mean for a job.
LEMMA ProtocolSays ==
    ASSUME JobInv
    PROVE  /\ \A e : Protocol!Said(e) <=> Said(e)
           /\ Protocol!NodesTold = { n \in Nodes : phase[n] \in {"emit", "done"} }
           /\ Protocol!Shown = { i \in OutputIds : i \in Range(outputs) /\ ~Announcing(i) }
           /\ Protocol!Ends = Terminal
  <1>1. \A e : Protocol!Said(e) <=> Said(e)
    BY DEF Protocol!Said, Said, Protocol!Range, Range
  <1>2. Protocol!NodesTold = { n \in Nodes : phase[n] \in {"emit", "done"} }
    <2>1. \A n \in Nodes : (\E c \in BOOLEAN : Protocol!Said([node |-> n, cached |-> c]))
                             <=> phase[n] \in {"emit", "done"}
      BY <1>1 DEF JobInv, LogInv
    <2> QED BY <2>1 DEF Protocol!NodesTold
  <1>3. Protocol!Shown = { i \in OutputIds : i \in Range(outputs) /\ ~Announcing(i) }
    BY <1>1 DEF Protocol!Shown, JobInv, LogInv, OutputEvent
  <1>4. Protocol!Ends = Terminal
    BY DEF Protocol!Ends, Terminal
  <1> QED BY <1>1, <1>2, <1>3, <1>4

\* While the job is inside execute_graph, or has just left it, it is running for
\* the reader of the log.
LEMMA ProtocolRuns ==
    ASSUME JobInv, job \in {"executing", "caught", "ended"}
    PROVE  Protocol!IsRunning
  BY ProtocolSays DEF Protocol!IsRunning, JobInv, StatusInv, StatusEvent

\* Every step of the job is a step of the protocol or adds nothing to the log.
LEMMA JobStepFollowsProtocol ==
    SchedulerInv /\ JobInv /\ [JobNext]_vars => [Protocol!Tell]_events
  <1> SUFFICES ASSUME SchedulerInv, JobInv, JobNext PROVE [Protocol!Tell]_events
    BY DEF vars, jobVars
  <1>0. events \in Seq(JobEvents)
    BY DEF JobInv, LogInv
  <1>1. CASE JobThread
    <2>1. CASE PendingEvent
      <3>1. events = << >> /\ events' = events \o <<StatusEvent("pending")>>
        BY <2>1 DEF PendingEvent, ThreadStep, JobInv, StatusInv
      <3>2. events' = <<StatusEvent("pending")>>
        BY <3>1
      <3> QED BY <3>1, <3>2 DEF Protocol!Tell, Protocol!TellPending, StatusEvent
    <2>2. CASE RunningEvent
      <3>1. events = <<StatusEvent("pending")>> /\ events' = events \o <<StatusEvent("running")>>
        BY <2>2 DEF RunningEvent, ThreadStep, JobInv, StatusInv
      <3>2. events' = Append(events, StatusEvent("running"))
        BY <1>0, <3>1
      <3> QED BY <3>1, <3>2 DEF Protocol!Tell, Protocol!TellRunning, StatusEvent
    <2>3. CASE FinalStatusEvent
      <3>1. job = "ended" /\ events' = events \o <<StatusEvent(status)>>
        BY <2>3 DEF FinalStatusEvent, ThreadStep
      <3>2. events' = Append(events, StatusEvent(status))
        BY <1>0, <3>1
      <3>3. status = outcome /\ outcome \in Terminal
        BY <3>1 DEF JobInv, ThreadInv
      <3>4. Protocol!IsRunning
        BY <3>1, ProtocolRuns
      <3>5. status = "completed" => Protocol!NodesTold = Nodes /\ Protocol!Shown = OutputIds
        <4> HAVE status = "completed"
        <4>1. \A n \in Nodes : phase[n] = "done"
          BY <3>3 DEF SchedulerInv, OutcomeInv
        <4> QED BY <4>1, NothingLeftHeld, ProtocolSays
      <3>6. Protocol!TellEnd(status)
        BY <3>2, <3>4, <3>5 DEF Protocol!TellEnd, StatusEvent
      <3> QED BY <3>3, <3>6, ProtocolSays DEF Protocol!Tell
    <2>4. CASE FinalEvent
      <3>1. job = "told" /\ events' = events \o <<EndEvent(outcome)>>
        BY <2>4 DEF FinalEvent, ThreadStep
      <3>2. events' = Append(events, EndEvent(outcome))
        BY <1>0, <3>1
      <3>3. outcome \in Terminal /\ Said(StatusEvent(outcome)) /\ ~Said(EndEvent(outcome))
        BY <3>1 DEF JobInv, ThreadInv, StatusInv
      <3>4. Protocol!Close(outcome)
        BY <3>2, <3>3, ProtocolSays DEF Protocol!Close, StatusEvent, EndEvent
      <3> QED BY <3>3, <3>4, ProtocolSays DEF Protocol!Tell
    <2>5. CASE ~(PendingEvent \/ RunningEvent \/ FinalStatusEvent \/ FinalEvent)
      <3>1. events' = events \/ events' = events \o << >>
        BY <1>1, <2>5 DEF JobThread, SubmitJob, SetRunning, RunScheduler, SetError, SetFinalStatus,
                          ThreadStep, jobVars
      <3> QED BY <1>0, <3>1
    <2> QED BY <2>1, <2>2, <2>3, <2>4, <2>5
  <1>2. ASSUME NEW n \in Nodes, Worker(n) PROVE [Protocol!Tell]_events
    <2>1. CASE NodeCompleted(n)
      <3>1. phase[n] = "notify" /\ events' = Append(events, NodeEvent(n))
        BY <2>1 DEF NodeCompleted, OnNode
      <3>2. job = "executing"
        BY <3>1, PoolWorksInside DEF JobInv, JobTypeOK, Busy
      <3>3. Deps[n] \subseteq { m \in Nodes : phase[m] \in {"emit", "done"} }
        BY <3>1, GraphAssumption DEF SchedulerInv, DepsInv, Drained
      <3>4. PICK c \in BOOLEAN : NodeEvent(n) = [node |-> n, cached |-> c]
        <4>1. (n \in hits) \in BOOLEAN
          OBVIOUS
        <4> QED BY <4>1, Zenon DEF NodeEvent
      <3>5. Protocol!TellNode(n, c)
        BY <3>1, <3>2, <3>3, <3>4, ProtocolRuns, ProtocolSays DEF Protocol!TellNode
      <3> QED BY <3>5 DEF Protocol!Tell
    <2>2. CASE AnnounceOutput(n)
      <3> DEFINE i == cur[n]
                 listed == [k \in OutputIds |-> IF IsPinned(k) THEN Earlier(k) ELSE {}]
      <3>1. at[n] = "announce" /\ events' = Append(events, OutputEvent(i))
        BY <2>2 DEF AnnounceOutput
      <3>2. phase[n] = "emit" /\ i \in OutputIds /\ i \in Range(outputs) /\ i \in emitted
        BY <3>1 DEF JobInv, WorkerInv, PlaceInv
      <3>3. job = "executing"
        BY <3>2, PoolWorksInside DEF JobInv, JobTypeOK, Busy
      <3>4. i \notin Protocol!Shown
        BY <3>1, ProtocolSays DEF Announcing
      <3>5. OutputNode[i] \in Protocol!NodesTold
        BY <3>2, OutputIdsAre, ProtocolSays DEF JobInv, PlaceInv
      <3>6. listed[i] \subseteq Protocol!Shown
        <4> SUFFICES ASSUME IsPinned(i), NEW j \in Earlier(i) PROVE j \in Protocol!Shown
          BY <3>2
        <4>1. j \in OutputIds /\ OutputGroup[j] = OutputGroup[i] /\ j < i /\ IsPinned(j)
          BY DEF Earlier, IsPinned
        <4>2. Position(j) < Position(i) /\ Position(i) = next_index[OutputGroup[i]]
          BY <3>1, <3>2, <4>1, PositionOrder DEF JobInv, GateInv
        <4>3. j \in Range(outputs)
          BY <4>1, <4>2 DEF JobInv, GateInv
        <4>4. ASSUME NEW m \in Nodes, at[m] = "announce", cur[m] = j PROVE FALSE
          <5>1. m = n
            BY <3>1, <4>1, <4>4 DEF JobInv, JobTypeOK
          <5> QED BY <3>2, <4>1, <4>4, <5>1, OutputIdsAre
        <4> QED BY <4>1, <4>3, <4>4, ProtocolSays DEF Announcing
      <3>7. Protocol!Show(i)
        BY <3>1, <3>3, <3>4, <3>5, <3>6, ProtocolRuns DEF Protocol!Show, OutputEvent
      <3> QED BY <3>2, <3>7 DEF Protocol!Tell
    <2>3. CASE ~(NodeCompleted(n) \/ AnnounceOutput(n))
      BY <1>2, <2>3 DEF Worker, RunNodeSilently, EnterOnOutput, EnterGate, PopHeld, LeaveGate,
                  StorePayload, RecordOutput, jobVars
    <2> QED BY <2>1, <2>2, <2>3
  <1>3. CASE CancelJob \/ (\E k \in Keys : OtherPut(k)) \/ JobOver
    BY <1>3 DEF CancelJob, OtherPut, JobOver, vars, jobVars
  <1> QED BY <1>1, <1>2, <1>3 DEF JobNext

\* The log of a job obeys JobProtocol (the safety part of FollowsProtocol): no
\* event comes early, twice, out of the pinned order or after the end, and
\* "completed" is told only when every node and output has been.
THEOREM JobFollowsProtocol == JobSafety => Protocol!ProtocolSafety
  <1>1. JobInit => events = << >>
    BY DEF JobInit
  <1> QED BY <1>1, JobCorrect, JobStepFollowsProtocol, PTL DEF JobSafety, Protocol!ProtocolSafety

=============================================================================
