-------------------------- MODULE ExtensionWorker --------------------------
(***************************************************************************)
(* The worker process of one extension (ExtensionWorker, extensions.py):   *)
(* request() as the runs of the extension's modules call it from the       *)
(* threads of any job, the watchdog timer of each request, and at the      *)
(* other end of the pipes the runner (extension_runner.py), which may      *)
(* answer, hang or die at any time.                                        *)
(*                                                                         *)
(* Processes are numbered in the order they are spawned.  A process that   *)
(* was killed or crashed is "dying" until poll() sees it: it does nothing  *)
(* more, its pipes are closed or about to be, and poll() still says None.  *)
(***************************************************************************)
EXTENDS Naturals, Sequences, FiniteSets

CONSTANTS
    Requests,  \* the runs of the extension's modules; each makes one request
    NoRequest

ASSUME RequestsAssumption == IsFiniteSet(Requests) /\ NoRequest \notin Requests

\* Every process is spawned by a request.  0 is no process.
Processes == 1 .. Cardinality(Requests)

VARIABLES
    pc,        \* pc[r]: where request() stands for r
    lock,      \* the request that holds self._lock
    process,   \* self._process, or 0
    target,    \* target[r]: the local variable `process` of r's request
    line,      \* line[r]: what readline returned
    result,    \* result[r]: what request() returned or raised
    watchdog,  \* watchdog[r]: r's timer thread
    timed_out, \* requests whose event timed_out is set
    state,     \* state[p]: the process p
    stdin,     \* stdin[p]: requests in the pipe to p
    serving,   \* serving[p]: the request the runner works on
    stdout,    \* stdout[p]: lines in the pipe from p
    exited     \* the server has run its atexit handlers

callVars   == <<pc, lock, process, target, line, result>>
timerVars  == <<watchdog, timed_out>>
runnerVars == <<state, stdin, serving, stdout>>
workerVars == <<callVars, timerVars, runnerVars, exited>>

Eof == [eof |-> TRUE]

\* The part of a response that was written when its process died.
Truncated == [truncated |-> TRUE]

Response(r, ok) == [to |-> r, ok |-> ok]

Responses == { Response(r, ok) : r \in Requests, ok \in BOOLEAN }

WorkerInit ==
    /\ pc = [r \in Requests |-> "new"]
    /\ lock = NoRequest
    /\ process = 0
    /\ target = [r \in Requests |-> 0]
    /\ line = [r \in Requests |-> Eof]
    /\ result = [r \in Requests |-> "none"]
    /\ watchdog = [r \in Requests |-> "off"]
    /\ timed_out = {}
    /\ state = [p \in Processes |-> "unborn"]
    /\ stdin = [p \in Processes |-> << >>]
    /\ serving = [p \in Processes |-> NoRequest]
    /\ stdout = [p \in Processes |-> << >>]
    /\ exited = FALSE

-----------------------------------------------------------------------------
(* request(), on the thread that runs a module.                            *)

\* Mutant: no lock.
LockFreeAlways == TRUE

LockFree == lock = NoRequest

AcquireLock(r) ==
    /\ pc[r] = "new" /\ ~exited
    /\ LockFree
    /\ lock' = r
    /\ pc' = [pc EXCEPT ![r] = "locked"]
    /\ UNCHANGED <<process, target, line, result, timerVars, runnerVars, exited>>

\* poll() is not None.
Polled(p) == state[p] = "gone"

NeedsProcess == IF process = 0 THEN TRUE ELSE Polled(process)

\* _ensure_started finds a process that poll() knows nothing against ...
ReuseProcess(r) ==
    /\ pc[r] = "locked"
    /\ ~NeedsProcess
    /\ target' = [target EXCEPT ![r] = process]
    /\ pc' = [pc EXCEPT ![r] = "ready"]
    /\ UNCHANGED <<lock, process, line, result, timerVars, runnerVars, exited>>

\* ... or spawns one ...
SpawnProcess(r, p) ==
    /\ pc[r] = "locked"
    /\ NeedsProcess
    /\ state[p] = "unborn" /\ \A q \in 1 .. p - 1 : state[q] # "unborn"
    /\ state' = [state EXCEPT ![p] = "up"]
    /\ process' = p
    /\ target' = [target EXCEPT ![r] = p]
    /\ pc' = [pc EXCEPT ![r] = "ready"]
    /\ UNCHANGED <<lock, line, result, timerVars, stdin, serving, stdout, exited>>

\* The lock is released and the caller gets its result.
Leave(r, res) ==
    /\ result' = [result EXCEPT ![r] = res]
    /\ pc' = [pc EXCEPT ![r] = "over"]
    /\ lock' = NoRequest

\* ... or cannot (OSError).
SpawnFails(r) ==
    /\ pc[r] = "locked"
    /\ NeedsProcess
    /\ Leave(r, "not started")
    /\ UNCHANGED <<process, target, line, timerVars, runnerVars, exited>>

StartWatchdog(r) ==
    /\ pc[r] = "ready"
    /\ watchdog' = [watchdog EXCEPT ![r] = "armed"]
    /\ pc' = [pc EXCEPT ![r] = "write"]
    /\ UNCHANGED <<lock, process, target, line, result, timed_out, runnerVars, exited>>

\* The request has gone into the pipe, which takes it until the process is gone.
\* A long one goes only as the runner reads it, so this step may never come.
WriteRequest(r) ==
    /\ pc[r] = "write"
    /\ ~Polled(target[r])
    /\ stdin' = [stdin EXCEPT ![target[r]] = Append(@, r)]
    /\ pc' = [pc EXCEPT ![r] = "read"]
    /\ UNCHANGED <<lock, process, target, line, result, timerVars, state, serving, stdout, exited>>

\* Mutant: the process is forgotten, not killed.
StopForgets ==
    /\ process' = 0
    /\ UNCHANGED <<state, stdin, serving, stdout>>

\* stop(): a process poll() still knows as running is killed and waited for.
Stop ==
    /\ process' = 0
    /\ state' = IF process # 0 THEN [state EXCEPT ![process] = "gone"] ELSE state
    /\ UNCHANGED <<stdin, serving, stdout>>

\* Timer.cancel() disarms a timer that has not yet called its function.
Disarmed(r) == [watchdog EXCEPT ![r] = IF @ = "armed" THEN "cancelled" ELSE @]

\* Writing fails (OSError: broken pipe).
PipeFails(r) ==
    /\ pc[r] = "write"
    /\ state[target[r]] # "up"
    /\ Stop
    /\ watchdog' = Disarmed(r)
    /\ Leave(r, "pipe failed")
    /\ UNCHANGED <<target, line, timed_out, exited>>

\* readline returns the oldest line there is, or "" once the pipe is closed.
ReadLine(r) ==
    /\ pc[r] = "read"
    /\ \/ /\ stdout[target[r]] # << >>
          /\ line' = [line EXCEPT ![r] = Head(stdout[target[r]])]
          /\ stdout' = [stdout EXCEPT ![target[r]] = Tail(@)]
       \/ /\ stdout[target[r]] = << >>
          /\ state[target[r]] # "up"
          /\ line' = [line EXCEPT ![r] = Eof]
          /\ UNCHANGED stdout
    /\ pc' = [pc EXCEPT ![r] = "cancel"]
    /\ UNCHANGED <<lock, process, target, result, timerVars, state, stdin, serving, exited>>

\* readline raises instead: no whole line has come and the pipe cannot be read on,
\* or what has come of one cannot be decoded.
ReadFails(r) ==
    /\ pc[r] = "read"
    /\ state[target[r]] # "up"
    /\ stdout[target[r]] \in {<< >>, <<Truncated>>}
    /\ Stop
    /\ watchdog' = Disarmed(r)
    /\ Leave(r, "pipe failed")
    /\ UNCHANGED <<target, line, timed_out, exited>>

CancelWatchdog(r) ==
    /\ pc[r] = "cancel"
    /\ watchdog' = Disarmed(r)
    /\ pc' = [pc EXCEPT ![r] = "decide"]
    /\ UNCHANGED <<lock, process, target, line, result, timed_out, runnerVars, exited>>

\* No line: the worker hung and was killed, or it died.
NoAnswer(r) ==
    /\ pc[r] = "decide"
    /\ line[r] = Eof
    /\ Stop
    /\ Leave(r, IF r \in timed_out THEN "timed out" ELSE "worker exited")
    /\ UNCHANGED <<target, line, timerVars, exited>>

\* A line that is not JSON: the worker is stopped as well.
InvalidAnswer(r) ==
    /\ pc[r] = "decide"
    /\ line[r] = Truncated
    /\ Stop
    /\ Leave(r, "invalid output")
    /\ UNCHANGED <<target, line, timerVars, exited>>

\* What IsolatedModule.run makes of a response: it raises the error reported.
Told(response) == IF response.ok THEN "ok" ELSE "module error"

\* Mutant: the timer is asked first.
AnswerUnlessLate(r) ==
    /\ pc[r] = "decide"
    /\ line[r] \in Responses
    /\ Leave(r, IF r \in timed_out THEN "timed out" ELSE Told(line[r]))
    /\ UNCHANGED <<process, target, line, timerVars, runnerVars, exited>>

\* A response, even one that came as the time was over.
Answer(r) ==
    /\ pc[r] = "decide"
    /\ line[r] \in Responses
    /\ Leave(r, Told(line[r]))
    /\ UNCHANGED <<process, target, line, timerVars, runnerVars, exited>>

\* The steps of request() that do not wait for the runner to read its stdin.
Proceed(r) ==
    \/ AcquireLock(r)
    \/ ReuseProcess(r) \/ (\E p \in Processes : SpawnProcess(r, p)) \/ SpawnFails(r)
    \/ StartWatchdog(r)
    \/ PipeFails(r)
    \/ ReadLine(r) \/ ReadFails(r) \/ CancelWatchdog(r)
    \/ NoAnswer(r) \/ InvalidAnswer(r) \/ Answer(r)

Call(r) == Proceed(r) \/ WriteRequest(r)

-----------------------------------------------------------------------------
(* The runner process and its death.                                       *)

\* Process p begins to die; a response under way may have got out in part.
Dies(p) ==
    /\ state' = [state EXCEPT ![p] = "dying"]
    /\ \/ UNCHANGED stdout
       \/ /\ serving[p] # NoRequest
          /\ stdout' = [stdout EXCEPT ![p] = Append(@, Truncated)]
    /\ UNCHANGED <<stdin, serving>>

\* serve(): the next line of stdin ...
TakeRequest(p) ==
    /\ state[p] = "up"
    /\ serving[p] = NoRequest /\ stdin[p] # << >>
    /\ serving' = [serving EXCEPT ![p] = Head(stdin[p])]
    /\ stdin' = [stdin EXCEPT ![p] = Tail(@)]
    /\ UNCHANGED <<callVars, timerVars, state, stdout, exited>>

\* ... is answered with the outputs, or with the exception it raised.
Respond(p, ok) ==
    /\ state[p] = "up"
    /\ serving[p] # NoRequest
    /\ stdout' = [stdout EXCEPT ![p] = Append(@, Response(serving[p], ok))]
    /\ serving' = [serving EXCEPT ![p] = NoRequest]
    /\ UNCHANGED <<callVars, timerVars, state, stdin, exited>>

\* The process crashes by itself, at work or idle.
Crash(p) ==
    /\ state[p] = "up"
    /\ Dies(p)
    /\ UNCHANGED <<callVars, timerVars, exited>>

\* poll() and wait() now see that it is gone.
Reap(p) ==
    /\ state[p] = "dying"
    /\ state' = [state EXCEPT ![p] = "gone"]
    /\ UNCHANGED <<callVars, timerVars, stdin, serving, stdout, exited>>

Runner(p) ==
    \/ TakeRequest(p)
    \/ \E ok \in BOOLEAN : Respond(p, ok)
    \/ Crash(p)
    \/ Reap(p)

-----------------------------------------------------------------------------
(* The timer thread of r: threading.Timer tests that it was not cancelled, *)
(* and then calls kill_hung_worker.                                        *)

Expire(r) ==
    /\ watchdog[r] = "armed"
    /\ watchdog' = [watchdog EXCEPT ![r] = "expired"]
    /\ UNCHANGED <<callVars, timed_out, runnerVars, exited>>

SetTimedOut(r) ==
    /\ watchdog[r] = "expired"
    /\ watchdog' = [watchdog EXCEPT ![r] = "killing"]
    /\ timed_out' = timed_out \cup {r}
    /\ UNCHANGED <<callVars, runnerVars, exited>>

\* Mutant: the timer only notes that the time is over.
KillHungNot(r) ==
    /\ watchdog[r] = "killing"
    /\ watchdog' = [watchdog EXCEPT ![r] = "fired"]
    /\ UNCHANGED <<callVars, timed_out, runnerVars, exited>>

\* process.kill() does nothing to a process known to be gone.
KillHung(r) ==
    /\ watchdog[r] = "killing"
    /\ watchdog' = [watchdog EXCEPT ![r] = "fired"]
    /\ IF state[target[r]] = "up" THEN Dies(target[r]) ELSE UNCHANGED runnerVars
    /\ UNCHANGED <<callVars, timed_out, exited>>

Watchdog(r) == Expire(r) \/ SetTimedOut(r) \/ KillHung(r)

-----------------------------------------------------------------------------
\* The interpreter exits: pool threads and timer threads are joined, then the
\* atexit handler stops the worker.
ServerExit ==
    /\ ~exited
    /\ \A r \in Requests : pc[r] \in {"new", "over"} /\ watchdog[r] \notin {"armed", "expired", "killing"}
    /\ Stop
    /\ exited' = TRUE
    /\ UNCHANGED <<pc, lock, target, line, result, timerVars>>

AfterExit == exited /\ UNCHANGED workerVars

WorkerNext ==
    \/ \E r \in Requests : Call(r)
    \/ \E p \in Processes : Runner(p)
    \/ \E r \in Requests : Watchdog(r)
    \/ ServerExit
    \/ AfterExit

WorkerSafety == WorkerInit /\ [][WorkerNext]_workerVars

\* Threads that can run do run, timers expire, a killed process dies.  Nothing
\* is assumed of the runner: it may neither read nor answer for ever.
WorkerSpec ==
    /\ WorkerSafety
    /\ \A r \in Requests : WF_workerVars(Proceed(r)) /\ WF_workerVars(Watchdog(r))
    /\ \A p \in Processes : WF_workerVars(Reap(p))

-----------------------------------------------------------------------------
(* Properties.                                                             *)

\* A module run gets the answer to its own request: after a timeout, a crash or
\* a truncated line, no answer meant for an earlier request is left in a pipe
\* that a later one reads from.  The protocol has no request ids to tell.
OwnAnswer == \A r \in Requests : line[r] \in Responses => line[r].to = r

\* "keeping a single copy of model memory" (ADR 0015): a process is spawned
\* only when the one before it is gone, and none is left when the server exits.
OneProcess ==
    /\ \A p, q \in Processes : state[p] \in {"up", "dying"} /\ state[q] \in {"up", "dying"} => p = q
    /\ exited => \A p \in Processes : state[p] \notin {"up", "dying"}

\* What has arrived of r's answer: it is whole in the pipe, or read.
Arrived(r) == { a \in Responses : a = line[r] \/ (pc[r] = "read" /\ stdout[target[r]] = <<a>>) }

Answered == [r \in Requests |-> { Told(a) : a \in Arrived(r) }]

Service == INSTANCE WorkerService WITH
    Runs    <- Requests,
    Nobody  <- NoRequest,
    served  <- lock,
    answer  <- Answered,
    outcome <- result,
    closed  <- exited

\* "kill and report if the worker hangs or dies" (docstring of request): the worker
\* serves the runs as WorkerService promises.  No answer that got out whole is lost
\* to a timer, a crash or a kill, no run is told of a success its module did not
\* have, and however the runner behaves, every run is served and told something,
\* unless the server exits before.
ServesRuns == Service!ServiceSpec

\* A worker that "hangs (per-request watchdog kills it ...) fails that one run"
\* (ADR 0015): a watchdog never kills the worker while it serves another run.
TimeoutFailsThatOneRun ==
    [][\A r \in Requests :
          watchdog[r] = "killing" /\ watchdog'[r] = "fired" /\ state[target[r]] = "up" =>
              serving[target[r]] \in {r, NoRequest}]_workerVars

=============================================================================
