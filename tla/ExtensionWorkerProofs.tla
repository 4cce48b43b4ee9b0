----------------------- MODULE ExtensionWorkerProofs -----------------------
(***************************************************************************)
(* OwnAnswer and OneProcess of ExtensionWorker, for every finite set of    *)
(* requests: however the runner crashes, hangs or is killed by a late      *)
(* timer.                                                                  *)
(***************************************************************************)
EXTENDS ExtensionWorker, FiniteSetTheorems, TLAPS

-----------------------------------------------------------------------------
(* The inductive invariant.                                                *)

Positions == {"new", "locked", "ready", "write", "read", "cancel", "decide", "over"}

\* The variables have their types, and a line is nothing but an answer to the
\* request that reads it, a part of one, or the end of the pipe.
WorkerTypeOK ==
    /\ pc \in [Requests -> Positions]
    /\ lock \in Requests \cup {NoRequest}
    /\ process \in Processes \cup {0}
    /\ target \in [Requests -> Processes \cup {0}]
    /\ DOMAIN line = Requests
    /\ watchdog \in [Requests -> {"off", "armed", "expired", "killing", "fired", "cancelled"}]
    /\ state \in [Processes -> {"unborn", "up", "dying", "gone"}]
    /\ stdin \in [Processes -> Seq(Requests)]
    /\ serving \in [Processes -> Requests \cup {NoRequest}]
    /\ stdout \in [Processes -> Seq(Responses \cup {Truncated})]
    /\ exited \in BOOLEAN

\* self._lock is held from the first step of request() to the last, and by
\* nobody once the server has exited.
LockInv ==
    /\ \A r \in Requests : lock = r <=> pc[r] \notin {"new", "over"}
    /\ exited => lock = NoRequest /\ process = 0

\* self._process is the one process that may be alive; the holder of the lock
\* talks to it, and a timer knows the process it is to kill.
ProcessInv ==
    /\ \A p \in Processes : state[p] \in {"up", "dying"} => p = process
    /\ process # 0 => state[process] # "unborn"
    /\ \A r \in Requests :
          /\ pc[r] \in {"ready", "write", "read", "cancel", "decide"} => target[r] = process /\ process # 0
          /\ watchdog[r] # "off" => target[r] # 0

PipesEmpty(p) == stdin[p] = << >> /\ serving[p] = NoRequest /\ stdout[p] = << >>

\* The one request under way is r: in the pipe, at work, or answered.
Outstanding(r, p) ==
    \/ stdin[p] = <<r>> /\ serving[p] = NoRequest /\ stdout[p] = << >>
    \/ stdin[p] = << >> /\ serving[p] = r /\ stdout[p] = << >>
    \/ stdin[p] = << >> /\ serving[p] = r /\ stdout[p] = <<Truncated>> /\ state[p] # "up"
    \/ stdin[p] = << >> /\ serving[p] = NoRequest /\ \E ok \in BOOLEAN : stdout[p] = <<Response(r, ok)>>

\* A request that is not answered in full has the process stopped, so the next
\* request finds the pipes of its process empty.
PipeInv ==
    /\ \A p \in Processes : state[p] = "unborn" => PipesEmpty(p)
    /\ process # 0 /\ (\A r \in Requests : pc[r] \notin {"read", "cancel", "decide"}) => PipesEmpty(process)
    /\ \A r \in Requests :
          /\ pc[r] = "read" => Outstanding(r, process)
          /\ pc[r] \in {"cancel", "decide"} => line[r] \in {Eof, Truncated} \/ PipesEmpty(process)
          /\ line[r] \in {Eof, Truncated} \cup { Response(r, ok) : ok \in BOOLEAN }

WorkerInv == WorkerTypeOK /\ LockInv /\ ProcessInv /\ PipeInv

-----------------------------------------------------------------------------
(* Lines, processes, and the ends of a pipe.                               *)

\* An answer can be told from a part of one and from the end of the pipe.
LEMMA Lines ==
    /\ Eof \notin Responses /\ Truncated \notin Responses
    /\ \A r \in Requests, ok \in BOOLEAN :
          Response(r, ok) \in Responses /\ Response(r, ok).to = r
<1>1. \A r, ok : DOMAIN Response(r, ok) = {"to", "ok"}
  BY DEF Response
<1>2. DOMAIN Eof = {"eof"} /\ DOMAIN Truncated = {"truncated"}
  BY DEF Eof, Truncated
<1>3. \A r, ok : Response(r, ok) # Eof /\ Response(r, ok) # Truncated
  BY <1>1, <1>2
<1>4. \A r \in Requests, ok \in BOOLEAN : Response(r, ok) \in Responses
  BY DEF Responses
<1>5. \A r, ok : Response(r, ok).to = r
  BY DEF Response
<1> QED BY <1>3, <1>4, <1>5 DEF Responses

\* 0 is no process.
LEMMA ProcessesAreNumbers == Processes \subseteq Nat /\ 0 \notin Processes
<1>1. Cardinality(Requests) \in Nat
  BY RequestsAssumption, FS_CardinalityType
<1> QED BY <1>1 DEF Processes

\* What Append, Head and Tail do to pipes that hold one thing at most.
LEMMA ShortPipes ==
    ASSUME NEW S, NEW x \in S
    PROVE  /\ Append(<< >>, x) = <<x>> /\ <<x>> # << >>
           /\ Head(<<x>>) = x /\ Tail(<<x>>) = << >>
           /\ << >> \in Seq(S) /\ <<x>> \in Seq(S)
  OBVIOUS

LEMMA WorkerInit_WorkerInv == WorkerInit => WorkerInv
<1> SUFFICES ASSUME WorkerInit PROVE WorkerInv
  OBVIOUS
<1>1. WorkerTypeOK
  <2>1. /\ pc \in [Requests -> Positions]
        /\ lock \in Requests \cup {NoRequest}
        /\ process \in Processes \cup {0}
        /\ target \in [Requests -> Processes \cup {0}]
        /\ watchdog \in [Requests -> {"off", "armed", "expired", "killing", "fired", "cancelled"}]
        /\ state \in [Processes -> {"unborn", "up", "dying", "gone"}]
    BY DEF WorkerInit, Positions
  <2>2. /\ stdin \in [Processes -> Seq(Requests)]
        /\ serving \in [Processes -> Requests \cup {NoRequest}]
        /\ stdout \in [Processes -> Seq(Responses \cup {Truncated})]
    BY DEF WorkerInit
  <2>3. DOMAIN line = Requests /\ exited \in BOOLEAN
    BY DEF WorkerInit
  <2> QED BY <2>1, <2>2, <2>3 DEF WorkerTypeOK
<1>2. LockInv
  BY RequestsAssumption DEF WorkerInit, LockInv
<1>3. ProcessInv
  BY DEF WorkerInit, ProcessInv
<1>4. PipeInv
  BY DEF WorkerInit, PipeInv, PipesEmpty
<1> QED BY <1>1, <1>2, <1>3, <1>4 DEF WorkerInv

-----------------------------------------------------------------------------
(* Every step keeps it.                                                    *)

\* The lock is taken.
LEMMA AcquireLockKeeps ==
    ASSUME WorkerInv, NEW r \in Requests, AcquireLock(r)
    PROVE  WorkerInv'
<1>1. WorkerTypeOK'
  BY DEF WorkerInv, WorkerTypeOK, Positions, AcquireLock, LockFree, timerVars, runnerVars
<1>2. LockInv'
  BY RequestsAssumption DEF WorkerInv, WorkerTypeOK, LockInv, AcquireLock, LockFree
<1>3. ProcessInv'
  BY ProcessesAreNumbers DEF WorkerInv, WorkerTypeOK, LockInv, ProcessInv, AcquireLock, LockFree,
                             timerVars, runnerVars
<1>4. PipeInv'
  BY ProcessesAreNumbers, Lines DEF WorkerInv, WorkerTypeOK, LockInv, ProcessInv, PipeInv,
                                    PipesEmpty, Outstanding, AcquireLock, LockFree, runnerVars
<1> QED BY <1>1, <1>2, <1>3, <1>4 DEF WorkerInv

\* The process is there.
LEMMA ReuseProcessKeeps ==
    ASSUME WorkerInv, NEW r \in Requests, ReuseProcess(r)
    PROVE  WorkerInv'
<1>1. WorkerTypeOK'
  BY DEF WorkerInv, WorkerTypeOK, Positions, ReuseProcess, NeedsProcess, Polled, timerVars,
         runnerVars
<1>2. LockInv'
  BY RequestsAssumption DEF WorkerInv, WorkerTypeOK, LockInv, ReuseProcess, NeedsProcess, Polled
<1>3. ProcessInv'
  BY ProcessesAreNumbers DEF WorkerInv, WorkerTypeOK, LockInv, ProcessInv, ReuseProcess,
                             NeedsProcess, Polled, timerVars, runnerVars
<1>4. PipeInv'
  BY ProcessesAreNumbers, Lines DEF WorkerInv, WorkerTypeOK, LockInv, ProcessInv, PipeInv,
                                    PipesEmpty, Outstanding, ReuseProcess, NeedsProcess, Polled,
                                    runnerVars
<1> QED BY <1>1, <1>2, <1>3, <1>4 DEF WorkerInv

\* A process is spawned.
LEMMA SpawnProcessKeeps ==
    ASSUME WorkerInv, NEW r \in Requests, NEW p \in Processes, SpawnProcess(r, p)
    PROVE  WorkerInv'
<1>1. WorkerTypeOK'
  BY DEF WorkerInv, WorkerTypeOK, Positions, SpawnProcess, NeedsProcess, Polled, timerVars
<1>2. LockInv'
  BY RequestsAssumption DEF WorkerInv, WorkerTypeOK, LockInv, SpawnProcess, NeedsProcess, Polled
<1>3. ProcessInv'
  BY ProcessesAreNumbers DEF WorkerInv, WorkerTypeOK, LockInv, ProcessInv, SpawnProcess,
                             NeedsProcess, Polled, timerVars
<1>4. PipeInv'
  BY ProcessesAreNumbers, Lines DEF WorkerInv, WorkerTypeOK, LockInv, ProcessInv, PipeInv,
                                    PipesEmpty, Outstanding, SpawnProcess, NeedsProcess, Polled
<1> QED BY <1>1, <1>2, <1>3, <1>4 DEF WorkerInv

\* None can be.
LEMMA SpawnFailsKeeps ==
    ASSUME WorkerInv, NEW r \in Requests, SpawnFails(r)
    PROVE  WorkerInv'
<1>1. WorkerTypeOK'
  BY DEF WorkerInv, WorkerTypeOK, Positions, SpawnFails, Leave, timerVars, runnerVars
<1>2. LockInv'
  BY RequestsAssumption DEF WorkerInv, WorkerTypeOK, LockInv, SpawnFails, Leave
<1>3. ProcessInv'
  BY ProcessesAreNumbers DEF WorkerInv, WorkerTypeOK, LockInv, ProcessInv, SpawnFails, Leave,
                             timerVars, runnerVars
<1>4. PipeInv'
  <2>1. \A q \in Requests : pc'[q] \in {"new", "over"}
    BY DEF WorkerInv, WorkerTypeOK, LockInv, Positions, SpawnFails, Leave
  <2>2. line' = line /\ stdin' = stdin /\ serving' = serving /\ stdout' = stdout
    BY DEF SpawnFails, Leave, runnerVars, timerVars, callVars
  <2>3. process' = process /\ state' = state
    BY DEF SpawnFails, Leave, runnerVars, timerVars, callVars
  <2>4. \A q \in Requests : pc[q] \notin {"read", "cancel", "decide"}
    BY DEF WorkerInv, WorkerTypeOK, LockInv, Positions, SpawnFails
  <2> QED BY <2>1, <2>2, <2>3, <2>4 DEF WorkerInv, PipeInv, PipesEmpty
<1> QED BY <1>1, <1>2, <1>3, <1>4 DEF WorkerInv

\* The timer is started.
LEMMA StartWatchdogKeeps ==
    ASSUME WorkerInv, NEW r \in Requests, StartWatchdog(r)
    PROVE  WorkerInv'
<1>1. WorkerTypeOK'
  BY DEF WorkerInv, WorkerTypeOK, Positions, StartWatchdog, runnerVars
<1>2. LockInv'
  BY RequestsAssumption DEF WorkerInv, WorkerTypeOK, LockInv, StartWatchdog
<1>3. ProcessInv'
  BY ProcessesAreNumbers DEF WorkerInv, WorkerTypeOK, LockInv, ProcessInv, StartWatchdog, runnerVars
<1>4. PipeInv'
  BY ProcessesAreNumbers, Lines DEF WorkerInv, WorkerTypeOK, LockInv, ProcessInv, PipeInv,
                                    PipesEmpty, Outstanding, StartWatchdog, runnerVars
<1> QED BY <1>1, <1>2, <1>3, <1>4 DEF WorkerInv

\* The request is in the pipe.
LEMMA WriteRequestKeeps ==
    ASSUME WorkerInv, NEW r \in Requests, WriteRequest(r)
    PROVE  WorkerInv'
<1>1. WorkerTypeOK'
  <2>1. stdin' \in [Processes -> Seq(Requests)]
    <3>1. target[r] \in Processes
      BY DEF WorkerInv, WorkerTypeOK, ProcessInv, WriteRequest
    <3>2. Append(stdin[target[r]], r) \in Seq(Requests)
      BY <3>1 DEF WorkerInv, WorkerTypeOK
    <3> QED BY <3>1, <3>2 DEF WorkerInv, WorkerTypeOK, WriteRequest
  <2> QED BY <2>1 DEF WorkerInv, WorkerTypeOK, Positions, WriteRequest, timerVars
<1>2. LockInv'
  BY RequestsAssumption DEF WorkerInv, WorkerTypeOK, LockInv, WriteRequest, Polled
<1>3. ProcessInv'
  BY ProcessesAreNumbers DEF WorkerInv, WorkerTypeOK, LockInv, ProcessInv, WriteRequest, Polled,
                             timerVars
<1>4. PipeInv'
  <2>1. target[r] = process /\ process \in Processes /\ state[process] # "unborn"
    BY DEF WorkerInv, WorkerTypeOK, ProcessInv, WriteRequest
  <2>2. \A q \in Requests : pc[q] \notin {"read", "cancel", "decide"}
    BY DEF WorkerInv, WorkerTypeOK, LockInv, WriteRequest
  <2>3. PipesEmpty(process)
    BY <2>1, <2>2, ProcessesAreNumbers DEF WorkerInv, PipeInv
  <2>4. stdin'[process] = <<r>>
    BY <2>1, <2>3, ShortPipes DEF WorkerInv, WorkerTypeOK, PipesEmpty, WriteRequest
  <2>5. Outstanding(r, process)'
    BY <2>1, <2>3, <2>4 DEF Outstanding, PipesEmpty, WriteRequest
  <2>6. \A q \in Requests : q # r => pc'[q] \notin {"read", "cancel", "decide"}
    BY <2>2 DEF WorkerInv, WorkerTypeOK, WriteRequest
  <2>7. pc'[r] = "read"
    BY DEF WorkerInv, WorkerTypeOK, WriteRequest
  <2>8. \A p \in Processes : state'[p] = "unborn" => PipesEmpty(p)'
    BY <2>1 DEF WorkerInv, WorkerTypeOK, PipeInv, PipesEmpty, WriteRequest
  <2> QED BY <2>5, <2>6, <2>7, <2>8 DEF WorkerInv, PipeInv, WriteRequest
<1> QED BY <1>1, <1>2, <1>3, <1>4 DEF WorkerInv

\* The pipe is broken.
LEMMA PipeFailsKeeps ==
    ASSUME WorkerInv, NEW r \in Requests, PipeFails(r)
    PROVE  WorkerInv'
<1>1. WorkerTypeOK'
  BY DEF WorkerInv, WorkerTypeOK, Positions, PipeFails, Leave, Stop, Disarmed
<1>2. LockInv'
  BY RequestsAssumption DEF WorkerInv, WorkerTypeOK, LockInv, PipeFails, Leave, Stop, Disarmed
<1>3. ProcessInv'
  BY ProcessesAreNumbers DEF WorkerInv, WorkerTypeOK, LockInv, ProcessInv, PipeFails, Leave, Stop,
                             Disarmed
<1>4. PipeInv'
  <2>1. \A q \in Requests : pc'[q] \in {"new", "over"}
    BY DEF WorkerInv, WorkerTypeOK, LockInv, Positions, PipeFails, Leave, Stop
  <2>2. line' = line /\ stdin' = stdin /\ serving' = serving /\ stdout' = stdout
    BY DEF PipeFails, Leave, Stop, runnerVars, timerVars, callVars
  <2>3. process' = 0 /\ \A p \in Processes : state'[p] = "unborn" => state[p] = "unborn"
    BY DEF WorkerInv, WorkerTypeOK, PipeFails, Leave, Stop
  <2> QED BY <2>1, <2>2, <2>3 DEF WorkerInv, PipeInv, PipesEmpty
<1> QED BY <1>1, <1>2, <1>3, <1>4 DEF WorkerInv

\* Nor is anything left to read.
LEMMA ReadFailsKeeps ==
    ASSUME WorkerInv, NEW r \in Requests, ReadFails(r)
    PROVE  WorkerInv'
<1>1. WorkerTypeOK'
  BY DEF WorkerInv, WorkerTypeOK, Positions, ReadFails, Leave, Stop, Disarmed
<1>2. LockInv'
  BY RequestsAssumption DEF WorkerInv, WorkerTypeOK, LockInv, ReadFails, Leave, Stop, Disarmed
<1>3. ProcessInv'
  BY ProcessesAreNumbers DEF WorkerInv, WorkerTypeOK, LockInv, ProcessInv, ReadFails, Leave, Stop,
                             Disarmed
<1>4. PipeInv'
  <2>1. \A q \in Requests : pc'[q] \in {"new", "over"}
    BY DEF WorkerInv, WorkerTypeOK, LockInv, Positions, ReadFails, Leave, Stop
  <2>2. line' = line /\ stdin' = stdin /\ serving' = serving /\ stdout' = stdout
    BY DEF ReadFails, Leave, Stop, runnerVars, timerVars, callVars
  <2>3. process' = 0 /\ \A p \in Processes : state'[p] = "unborn" => state[p] = "unborn"
    BY DEF WorkerInv, WorkerTypeOK, ReadFails, Leave, Stop
  <2> QED BY <2>1, <2>2, <2>3 DEF WorkerInv, PipeInv, PipesEmpty
<1> QED BY <1>1, <1>2, <1>3, <1>4 DEF WorkerInv

\* A line, or the end of the pipe, is read.
LEMMA ReadLineKeeps ==
    ASSUME WorkerInv, NEW r \in Requests, ReadLine(r)
    PROVE  WorkerInv'
<1>1. WorkerTypeOK'
  <2>1. stdout' \in [Processes -> Seq(Responses \cup {Truncated})]
    <3>1. target[r] \in Processes
      BY DEF WorkerInv, WorkerTypeOK, ProcessInv, ReadLine
    <3>2. stdout[target[r]] # << >> => Tail(stdout[target[r]]) \in Seq(Responses \cup {Truncated})
      BY <3>1 DEF WorkerInv, WorkerTypeOK
    <3> QED BY <3>1, <3>2 DEF WorkerInv, WorkerTypeOK, ReadLine
  <2> QED BY <2>1 DEF WorkerInv, WorkerTypeOK, Positions, ReadLine, timerVars
<1>2. LockInv'
  BY RequestsAssumption DEF WorkerInv, WorkerTypeOK, LockInv, ReadLine
<1>3. ProcessInv'
  BY ProcessesAreNumbers DEF WorkerInv, WorkerTypeOK, LockInv, ProcessInv, ReadLine, timerVars
<1>4. PipeInv'
  BY ProcessesAreNumbers, Lines DEF WorkerInv, WorkerTypeOK, LockInv, ProcessInv, PipeInv,
                                    PipesEmpty, Outstanding, ReadLine
<1> QED BY <1>1, <1>2, <1>3, <1>4 DEF WorkerInv

\* The timer is cancelled.
LEMMA CancelWatchdogKeeps ==
    ASSUME WorkerInv, NEW r \in Requests, CancelWatchdog(r)
    PROVE  WorkerInv'
<1>1. WorkerTypeOK'
  BY DEF WorkerInv, WorkerTypeOK, Positions, CancelWatchdog, Disarmed, runnerVars
<1>2. LockInv'
  BY RequestsAssumption DEF WorkerInv, WorkerTypeOK, LockInv, CancelWatchdog, Disarmed
<1>3. ProcessInv'
  BY ProcessesAreNumbers DEF WorkerInv, WorkerTypeOK, LockInv, ProcessInv, CancelWatchdog, Disarmed,
                             runnerVars
<1>4. PipeInv'
  BY ProcessesAreNumbers, Lines DEF WorkerInv, WorkerTypeOK, LockInv, ProcessInv, PipeInv,
                                    PipesEmpty, Outstanding, CancelWatchdog, Disarmed, runnerVars
<1> QED BY <1>1, <1>2, <1>3, <1>4 DEF WorkerInv

\* No line.
LEMMA NoAnswerKeeps ==
    ASSUME WorkerInv, NEW r \in Requests, NoAnswer(r)
    PROVE  WorkerInv'
<1>1. WorkerTypeOK'
  BY DEF WorkerInv, WorkerTypeOK, Positions, NoAnswer, Leave, Stop, timerVars
<1>2. LockInv'
  BY RequestsAssumption DEF WorkerInv, WorkerTypeOK, LockInv, NoAnswer, Leave, Stop
<1>3. ProcessInv'
  BY ProcessesAreNumbers DEF WorkerInv, WorkerTypeOK, LockInv, ProcessInv, NoAnswer, Leave, Stop,
                             timerVars
<1>4. PipeInv'
  <2>1. \A q \in Requests : pc'[q] \in {"new", "over"}
    BY DEF WorkerInv, WorkerTypeOK, LockInv, Positions, NoAnswer, Leave, Stop
  <2>2. line' = line /\ stdin' = stdin /\ serving' = serving /\ stdout' = stdout
    BY DEF NoAnswer, Leave, Stop, runnerVars, timerVars, callVars
  <2>3. process' = 0 /\ \A p \in Processes : state'[p] = "unborn" => state[p] = "unborn"
    BY DEF WorkerInv, WorkerTypeOK, NoAnswer, Leave, Stop
  <2> QED BY <2>1, <2>2, <2>3 DEF WorkerInv, PipeInv, PipesEmpty
<1> QED BY <1>1, <1>2, <1>3, <1>4 DEF WorkerInv

\* Part of a line.
LEMMA InvalidAnswerKeeps ==
    ASSUME WorkerInv, NEW r \in Requests, InvalidAnswer(r)
    PROVE  WorkerInv'
<1>1. WorkerTypeOK'
  BY DEF WorkerInv, WorkerTypeOK, Positions, InvalidAnswer, Leave, Stop, timerVars
<1>2. LockInv'
  BY RequestsAssumption DEF WorkerInv, WorkerTypeOK, LockInv, InvalidAnswer, Leave, Stop
<1>3. ProcessInv'
  BY ProcessesAreNumbers DEF WorkerInv, WorkerTypeOK, LockInv, ProcessInv, InvalidAnswer, Leave,
                             Stop, timerVars
<1>4. PipeInv'
  <2>1. \A q \in Requests : pc'[q] \in {"new", "over"}
    BY DEF WorkerInv, WorkerTypeOK, LockInv, Positions, InvalidAnswer, Leave, Stop
  <2>2. line' = line /\ stdin' = stdin /\ serving' = serving /\ stdout' = stdout
    BY DEF InvalidAnswer, Leave, Stop, runnerVars, timerVars, callVars
  <2>3. process' = 0 /\ \A p \in Processes : state'[p] = "unborn" => state[p] = "unborn"
    BY DEF WorkerInv, WorkerTypeOK, InvalidAnswer, Leave, Stop
  <2> QED BY <2>1, <2>2, <2>3 DEF WorkerInv, PipeInv, PipesEmpty
<1> QED BY <1>1, <1>2, <1>3, <1>4 DEF WorkerInv

\* A response.
LEMMA AnswerKeeps ==
    ASSUME WorkerInv, NEW r \in Requests, Answer(r)
    PROVE  WorkerInv'
<1>1. WorkerTypeOK'
  BY DEF WorkerInv, WorkerTypeOK, Positions, Answer, Leave, timerVars, runnerVars
<1>2. LockInv'
  BY RequestsAssumption DEF WorkerInv, WorkerTypeOK, LockInv, Answer, Leave
<1>3. ProcessInv'
  BY ProcessesAreNumbers DEF WorkerInv, WorkerTypeOK, LockInv, ProcessInv, Answer, Leave, timerVars,
                             runnerVars
<1>4. PipeInv'
  <2>1. \A q \in Requests : pc'[q] \in {"new", "over"}
    BY DEF WorkerInv, WorkerTypeOK, LockInv, Positions, Answer, Leave
  <2>2. line' = line /\ stdin' = stdin /\ serving' = serving /\ stdout' = stdout
    BY DEF Answer, Leave, runnerVars, timerVars, callVars
  <2>3. process' = process /\ state' = state
    BY DEF Answer, Leave, runnerVars, timerVars, callVars
  <2>4. PipesEmpty(process)
    BY Lines DEF WorkerInv, PipeInv, Answer
  <2> QED BY <2>1, <2>2, <2>3, <2>4 DEF WorkerInv, PipeInv, PipesEmpty
<1> QED BY <1>1, <1>2, <1>3, <1>4 DEF WorkerInv

\* The runner takes a request.
LEMMA TakeRequestKeeps ==
    ASSUME WorkerInv, NEW p \in Processes, TakeRequest(p)
    PROVE  WorkerInv'
<1>1. WorkerTypeOK'
  BY DEF WorkerInv, WorkerTypeOK, Positions, TakeRequest, callVars, timerVars
<1>2. LockInv'
  BY RequestsAssumption DEF WorkerInv, WorkerTypeOK, LockInv, TakeRequest, callVars
<1>3. ProcessInv'
  BY ProcessesAreNumbers DEF WorkerInv, WorkerTypeOK, LockInv, ProcessInv, TakeRequest, callVars,
                             timerVars
<1>4. PipeInv'
  BY ProcessesAreNumbers, Lines DEF WorkerInv, WorkerTypeOK, LockInv, ProcessInv, PipeInv,
                                    PipesEmpty, Outstanding, TakeRequest, callVars
<1> QED BY <1>1, <1>2, <1>3, <1>4 DEF WorkerInv

\* The runner answers.
LEMMA RespondKeeps ==
    ASSUME WorkerInv, NEW p \in Processes, NEW ok \in BOOLEAN, Respond(p, ok)
    PROVE  WorkerInv'
<1>1. WorkerTypeOK'
  <2>1. stdout' \in [Processes -> Seq(Responses \cup {Truncated})]
    BY Lines DEF WorkerInv, WorkerTypeOK, Respond
  <2> QED BY <2>1 DEF WorkerInv, WorkerTypeOK, Positions, Respond, callVars, timerVars
<1>2. LockInv'
  BY RequestsAssumption DEF WorkerInv, WorkerTypeOK, LockInv, Respond, callVars
<1>3. ProcessInv'
  BY ProcessesAreNumbers DEF WorkerInv, WorkerTypeOK, LockInv, ProcessInv, Respond, callVars,
                             timerVars
<1>4. PipeInv'
  <2>1. p = process /\ p # 0
    BY ProcessesAreNumbers DEF WorkerInv, WorkerTypeOK, ProcessInv, Respond
  <2>2. ~PipesEmpty(p)
    BY DEF PipesEmpty, Respond
  <2>3. UNCHANGED <<pc, process, line, stdin, state>>
    BY DEF Respond, callVars
  <2>4. \A q \in Requests : pc[q] = "read" => Outstanding(q, process)'
    <3> SUFFICES ASSUME NEW q \in Requests, pc[q] = "read" PROVE Outstanding(q, process)'
      OBVIOUS
    <3>1. stdin[p] = << >> /\ serving[p] = q /\ stdout[p] = << >>
      BY <2>1 DEF WorkerInv, PipeInv, Outstanding, Respond
    <3>2. Response(q, ok) \in Responses
      BY Lines
    <3>3. stdout'[p] = <<Response(q, ok)>>
      BY <3>1, <3>2, ShortPipes DEF WorkerInv, WorkerTypeOK, Respond
    <3>4. serving'[p] = NoRequest
      BY DEF WorkerInv, WorkerTypeOK, Respond
    <3> QED BY <2>1, <2>3, <3>1, <3>3, <3>4 DEF Outstanding
  <2>5. \A u \in Processes : state[u] = "unborn" => PipesEmpty(u)'
    BY <2>3 DEF WorkerInv, WorkerTypeOK, PipeInv, PipesEmpty, Respond
  <2> QED BY <2>1, <2>2, <2>3, <2>4, <2>5 DEF WorkerInv, PipeInv
<1> QED BY <1>1, <1>2, <1>3, <1>4 DEF WorkerInv

\* The process p begins to die, by itself or killed by a timer.
LEMMA DiesKeeps ==
    ASSUME WorkerInv, NEW p \in Processes, state[p] = "up", Dies(p),
           callVars' = callVars, exited' = exited,
           watchdog' \in [Requests -> {"off", "armed", "expired", "killing", "fired", "cancelled"}],
           \A r \in Requests : watchdog'[r] # "off" => watchdog[r] # "off"
    PROVE  WorkerInv'
<1>1. WorkerTypeOK'
  <2>1. stdout' \in [Processes -> Seq(Responses \cup {Truncated})]
    <3>1. Append(stdout[p], Truncated) \in Seq(Responses \cup {Truncated})
      BY DEF WorkerInv, WorkerTypeOK
    <3> QED BY <3>1 DEF WorkerInv, WorkerTypeOK, Dies
  <2>2. state' \in [Processes -> {"unborn", "up", "dying", "gone"}]
    BY DEF WorkerInv, WorkerTypeOK, Dies
  <2> QED BY <2>1, <2>2 DEF WorkerInv, WorkerTypeOK, Dies, callVars
<1>2. LockInv'
  BY DEF WorkerInv, LockInv, callVars
<1>3. ProcessInv'
  BY DEF WorkerInv, WorkerTypeOK, ProcessInv, Dies, callVars
<1>4. PipeInv'
  <2>1. p = process /\ p # 0
    BY ProcessesAreNumbers DEF WorkerInv, ProcessInv
  <2>2. UNCHANGED <<pc, process, line, stdin, serving>>
    BY DEF Dies, callVars
  <2>3. PipesEmpty(p) => PipesEmpty(p)'
    BY DEF PipesEmpty, Dies
  <2>4. state'[p] = "dying"
    BY DEF WorkerInv, WorkerTypeOK, Dies
  <2>5. \A q \in Requests : pc[q] = "read" => Outstanding(q, process)'
    <3> SUFFICES ASSUME NEW q \in Requests, pc[q] = "read" PROVE Outstanding(q, process)'
      OBVIOUS
    <3>1. Outstanding(q, p)
      BY <2>1 DEF WorkerInv, PipeInv
    <3>2. CASE stdout' = stdout
      BY <2>1, <2>2, <2>4, <3>1, <3>2 DEF Outstanding
    <3>3. CASE /\ serving[p] # NoRequest
               /\ stdout' = [stdout EXCEPT ![p] = Append(@, Truncated)]
      <4>1. stdin[p] = << >> /\ serving[p] = q /\ stdout[p] = << >>
        BY <3>1, <3>3 DEF Outstanding
      <4>2. stdout'[p] = <<Truncated>>
        BY <3>3, <4>1, ShortPipes DEF WorkerInv, WorkerTypeOK
      <4> QED BY <2>1, <2>2, <2>4, <4>1, <4>2 DEF Outstanding
    <3> QED BY <3>2, <3>3 DEF Dies
  <2>6. \A u \in Processes : state'[u] = "unborn" => PipesEmpty(u)'
    BY DEF WorkerInv, WorkerTypeOK, PipeInv, PipesEmpty, Dies
  <2> QED BY <2>1, <2>2, <2>3, <2>5, <2>6 DEF WorkerInv, PipeInv
<1> QED BY <1>1, <1>2, <1>3, <1>4 DEF WorkerInv

\* The runner crashes.
LEMMA CrashKeeps ==
    ASSUME WorkerInv, NEW p \in Processes, Crash(p)
    PROVE  WorkerInv'
  BY DiesKeeps DEF WorkerInv, WorkerTypeOK, Crash, timerVars

\* The runner is gone.
LEMMA ReapKeeps ==
    ASSUME WorkerInv, NEW p \in Processes, Reap(p)
    PROVE  WorkerInv'
<1>1. WorkerTypeOK'
  BY DEF WorkerInv, WorkerTypeOK, Positions, Reap, callVars, timerVars
<1>2. LockInv'
  BY RequestsAssumption DEF WorkerInv, WorkerTypeOK, LockInv, Reap, callVars
<1>3. ProcessInv'
  BY ProcessesAreNumbers DEF WorkerInv, WorkerTypeOK, LockInv, ProcessInv, Reap, callVars, timerVars
<1>4. PipeInv'
  BY ProcessesAreNumbers, Lines DEF WorkerInv, WorkerTypeOK, LockInv, ProcessInv, PipeInv,
                                    PipesEmpty, Outstanding, Reap, callVars
<1> QED BY <1>1, <1>2, <1>3, <1>4 DEF WorkerInv

\* A timer expires.
LEMMA ExpireKeeps ==
    ASSUME WorkerInv, NEW r \in Requests, Expire(r)
    PROVE  WorkerInv'
<1>1. WorkerTypeOK'
  BY DEF WorkerInv, WorkerTypeOK, Positions, Expire, callVars, runnerVars
<1>2. LockInv'
  BY RequestsAssumption DEF WorkerInv, WorkerTypeOK, LockInv, Expire, callVars
<1>3. ProcessInv'
  BY ProcessesAreNumbers DEF WorkerInv, WorkerTypeOK, LockInv, ProcessInv, Expire, callVars,
                             runnerVars
<1>4. PipeInv'
  BY ProcessesAreNumbers, Lines DEF WorkerInv, WorkerTypeOK, LockInv, ProcessInv, PipeInv,
                                    PipesEmpty, Outstanding, Expire, callVars, runnerVars
<1> QED BY <1>1, <1>2, <1>3, <1>4 DEF WorkerInv

\* It notes that.
LEMMA SetTimedOutKeeps ==
    ASSUME WorkerInv, NEW r \in Requests, SetTimedOut(r)
    PROVE  WorkerInv'
<1>1. WorkerTypeOK'
  BY DEF WorkerInv, WorkerTypeOK, Positions, SetTimedOut, callVars, runnerVars
<1>2. LockInv'
  BY RequestsAssumption DEF WorkerInv, WorkerTypeOK, LockInv, SetTimedOut, callVars
<1>3. ProcessInv'
  BY ProcessesAreNumbers DEF WorkerInv, WorkerTypeOK, LockInv, ProcessInv, SetTimedOut, callVars,
                             runnerVars
<1>4. PipeInv'
  BY ProcessesAreNumbers, Lines DEF WorkerInv, WorkerTypeOK, LockInv, ProcessInv, PipeInv,
                                    PipesEmpty, Outstanding, SetTimedOut, callVars, runnerVars
<1> QED BY <1>1, <1>2, <1>3, <1>4 DEF WorkerInv

\* It kills the worker.
LEMMA KillHungKeeps ==
    ASSUME WorkerInv, NEW r \in Requests, KillHung(r)
    PROVE  WorkerInv'
<1>1. target[r] \in Processes
  BY DEF WorkerInv, WorkerTypeOK, ProcessInv, KillHung
<1>2. /\ watchdog' \in [Requests -> {"off", "armed", "expired", "killing", "fired", "cancelled"}]
      /\ \A q \in Requests : watchdog'[q] # "off" => watchdog[q] # "off"
      /\ callVars' = callVars /\ exited' = exited
  BY DEF WorkerInv, WorkerTypeOK, KillHung
<1>3. CASE state[target[r]] = "up"
  BY <1>1, <1>2, <1>3, DiesKeeps DEF KillHung
<1>4. CASE state[target[r]] # "up"
  BY <1>2, <1>4 DEF WorkerInv, WorkerTypeOK, LockInv, ProcessInv, PipeInv, PipesEmpty, Outstanding,
                    KillHung, callVars, runnerVars
<1> QED BY <1>3, <1>4

\* The server exits.
LEMMA ServerExitKeeps ==
    ASSUME WorkerInv, ServerExit
    PROVE  WorkerInv'
<1>1. WorkerTypeOK'
  BY DEF WorkerInv, WorkerTypeOK, Positions, ServerExit, Stop, timerVars
<1>2. LockInv'
  BY RequestsAssumption DEF WorkerInv, WorkerTypeOK, LockInv, ServerExit, Stop
<1>3. ProcessInv'
  BY ProcessesAreNumbers DEF WorkerInv, WorkerTypeOK, LockInv, ProcessInv, ServerExit, Stop,
                             timerVars
<1>4. PipeInv'
  BY ProcessesAreNumbers, Lines DEF WorkerInv, WorkerTypeOK, LockInv, ProcessInv, PipeInv,
                                    PipesEmpty, Outstanding, ServerExit, Stop
<1> QED BY <1>1, <1>2, <1>3, <1>4 DEF WorkerInv

LEMMA WorkerNext_WorkerInv == WorkerInv /\ [WorkerNext]_workerVars => WorkerInv'
<1> SUFFICES ASSUME WorkerInv, [WorkerNext]_workerVars PROVE WorkerInv'
  OBVIOUS
<1>1. CASE \E r \in Requests : Call(r)
  BY <1>1, AcquireLockKeeps, ReuseProcessKeeps, SpawnProcessKeeps, SpawnFailsKeeps, StartWatchdogKeeps,
     WriteRequestKeeps, PipeFailsKeeps, ReadLineKeeps, ReadFailsKeeps, CancelWatchdogKeeps, NoAnswerKeeps,
     InvalidAnswerKeeps, AnswerKeeps DEF Call, Proceed
<1>2. CASE \E p \in Processes : Runner(p)
  BY <1>2, TakeRequestKeeps, RespondKeeps, CrashKeeps, ReapKeeps DEF Runner
<1>3. CASE \E r \in Requests : Watchdog(r)
  BY <1>3, ExpireKeeps, SetTimedOutKeeps, KillHungKeeps DEF Watchdog
<1>4. CASE ServerExit
  BY <1>4, ServerExitKeeps
<1>5. CASE UNCHANGED workerVars
  BY <1>5 DEF WorkerInv, WorkerTypeOK, LockInv, ProcessInv, PipeInv, PipesEmpty, Outstanding,
              workerVars, callVars, timerVars, runnerVars
<1> QED BY <1>1, <1>2, <1>3, <1>4, <1>5 DEF WorkerNext, AfterExit

-----------------------------------------------------------------------------
(* The theorems.                                                           *)

\* The invariant holds whatever the runner does and whenever the timers fire.
THEOREM WorkerCorrect == WorkerSafety => []WorkerInv
  BY WorkerInit_WorkerInv, WorkerNext_WorkerInv, PTL DEF WorkerSafety

\* No run of a module gets the answer meant for another: request() in
\* extensions.py needs no request ids.
THEOREM OwnAnswerHolds == WorkerSafety => []OwnAnswer
<1>1. WorkerInv => OwnAnswer
  BY Lines DEF WorkerInv, PipeInv, OwnAnswer
<1> QED BY <1>1, WorkerCorrect, PTL

\* One worker process at a time, and none after the atexit handler.
THEOREM OneProcessHolds == WorkerSafety => []OneProcess
<1>1. WorkerInv => OneProcess
  BY ProcessesAreNumbers DEF WorkerInv, LockInv, ProcessInv, OneProcess
<1> QED BY <1>1, WorkerCorrect, PTL

-----------------------------------------------------------------------------
(* The worker implements WorkerService.                                    *)

\* Until a request is over it has no result, and until it has read no line.
ResultInv ==
    /\ DOMAIN result = Requests
    /\ \A r \in Requests :
          /\ pc[r] # "over" => result[r] = "none"
          /\ pc[r] \notin {"cancel", "decide", "over"} => line[r] = Eof

LEMMA ResultInit == WorkerInit => ResultInv
  BY DEF WorkerInit, ResultInv

LEMMA ResultStep ==
    ASSUME WorkerInv, ResultInv, [WorkerNext]_workerVars
    PROVE  ResultInv'
<1>1. DOMAIN pc = Requests /\ DOMAIN line = Requests /\ DOMAIN result = Requests
  BY DEF WorkerInv, WorkerTypeOK, ResultInv
<1>2. ASSUME NEW r \in Requests, Call(r) PROVE ResultInv'
  <2>1. CASE AcquireLock(r)
    BY <1>1, <2>1 DEF ResultInv, AcquireLock
  <2>2. CASE ReuseProcess(r)
    BY <1>1, <2>2 DEF ResultInv, ReuseProcess
  <2>3. CASE \E p \in Processes : SpawnProcess(r, p)
    BY <1>1, <2>3 DEF ResultInv, SpawnProcess
  <2>4. CASE SpawnFails(r)
    BY <1>1, <2>4 DEF ResultInv, SpawnFails, Leave
  <2>5. CASE StartWatchdog(r)
    BY <1>1, <2>5 DEF ResultInv, StartWatchdog
  <2>6. CASE WriteRequest(r)
    BY <1>1, <2>6 DEF ResultInv, WriteRequest
  <2>7. CASE PipeFails(r)
    BY <1>1, <2>7 DEF ResultInv, PipeFails, Leave
  <2>8. CASE ReadLine(r)
    BY <1>1, <2>8 DEF ResultInv, ReadLine
  <2>9. CASE CancelWatchdog(r)
    BY <1>1, <2>9 DEF ResultInv, CancelWatchdog
  <2>10. CASE NoAnswer(r)
    BY <1>1, <2>10 DEF ResultInv, NoAnswer, Leave
  <2>11. CASE InvalidAnswer(r)
    BY <1>1, <2>11 DEF ResultInv, InvalidAnswer, Leave
  <2>12. CASE Answer(r)
    BY <1>1, <2>12 DEF ResultInv, Answer, Leave
  <2>13. CASE ReadFails(r)
    BY <1>1, <2>13 DEF ResultInv, ReadFails, Leave
  <2> QED BY <1>2, <2>1, <2>2, <2>3, <2>4, <2>5, <2>6, <2>7, <2>8, <2>9, <2>10, <2>11, <2>12, <2>13
          DEF Call, Proceed
<1>3. CASE UNCHANGED <<pc, line, result>>
  BY <1>3 DEF ResultInv
<1>4. ASSUME NEW p \in Processes, Runner(p) PROVE UNCHANGED <<pc, line, result>>
  BY <1>4 DEF Runner, TakeRequest, Respond, Crash, Reap, callVars
<1>5. ASSUME NEW r \in Requests, Watchdog(r) PROVE UNCHANGED <<pc, line, result>>
  BY <1>5 DEF Watchdog, Expire, SetTimedOut, KillHung, callVars
<1>6. ASSUME ServerExit \/ UNCHANGED workerVars PROVE UNCHANGED <<pc, line, result>>
  BY <1>6 DEF ServerExit, workerVars, callVars
<1> QED BY <1>2, <1>3, <1>4, <1>5, <1>6 DEF WorkerNext, AfterExit

\* What has arrived for a request changes only with its line or its pipe.
LEMMA ArrivedKept ==
    ASSUME NEW q \in Requests, line'[q] = line[q], pc'[q] = "read" <=> pc[q] = "read",
           pc[q] = "read" => stdout'[target'[q]] = stdout[target[q]]
    PROVE  Arrived(q)' = Arrived(q)
  BY DEF Arrived, Responses, Response

LEMMA AnsweredKept ==
    ASSUME \A q \in Requests : Arrived(q)' = Arrived(q)
    PROVE  Answered' = Answered
  BY DEF Answered, Told

\* Nothing has arrived for a request that has neither a line nor a full pipe.
LEMMA NothingArrived ==
    ASSUME NEW q \in Requests, line[q] \in {Eof, Truncated},
           pc[q] = "read" => stdout[target[q]] \in {<< >>, <<Truncated>>}
    PROVE  Arrived(q) = {} /\ Answered[q] = {}
<1>1. \A a \in Responses : <<a>> # << >> /\ <<a>> # <<Truncated>> /\ a # Eof /\ a # Truncated
  BY Lines
<1>2. Arrived(q) = {}
  BY <1>1 DEF Arrived
<1> QED BY <1>2 DEF Answered

\* Only the holder of the lock reads.
LEMMA OneReader ==
    ASSUME WorkerInv, NEW r \in Requests, pc[r] \notin {"new", "over"}, NEW q \in Requests, q # r
    PROVE  pc[q] \in {"new", "over"} /\ lock = r
  BY DEF WorkerInv, LockInv

\* A step that takes nothing from the pipe that is read, nor puts anything into it.
LEMMA QuietStep ==
    ASSUME WorkerInv, NEW r \in Requests, pc[r] # "read", pc'[r] # "read",
           line' = line, stdout' = stdout,
           \A q \in Requests : q # r => pc'[q] = pc[q] /\ target'[q] = target[q]
    PROVE  Answered' = Answered
<1>1. ASSUME NEW q \in Requests PROVE Arrived(q)' = Arrived(q)
  <2>1. CASE q = r
    BY <2>1, ArrivedKept
  <2>2. CASE q # r
    BY <2>2, ArrivedKept
  <2> QED BY <2>1, <2>2
<1> QED BY <1>1, AnsweredKept

\* A request that fails has no answer.
LEMMA FailureEnds ==
    ASSUME WorkerInv, ResultInv, NEW r \in Requests, pc[r] \notin {"new", "read", "over"},
           line[r] \in {Eof, Truncated}, line' = line, stdout' = stdout, target' = target,
           NEW told \in {"not started", "pipe failed", "timed out", "worker exited", "invalid output"},
           Leave(r, told), UNCHANGED exited
    PROVE  Service!End(r)
<1>1. Answered[r] = {}
  BY NothingArrived
<1>2. Answered' = Answered
  <2>1. pc' = [pc EXCEPT ![r] = "over"] /\ DOMAIN pc = Requests
    BY DEF Leave, WorkerInv, WorkerTypeOK
  <2>2. pc'[r] # "read" /\ \A q \in Requests : q # r => pc'[q] = pc[q]
    BY <2>1
  <2> QED BY <2>2, QuietStep
<1>3. lock = r
  BY DEF WorkerInv, LockInv
<1> QED BY <1>1, <1>2, <1>3 DEF Leave, Service!End, Service!Failures

LEMMA CallServes ==
    ASSUME WorkerInv, ResultInv, NEW r \in Requests, Call(r)
    PROVE  [Service!ServiceNext]_(Service!serviceVars)
<1>1. DOMAIN pc = Requests /\ DOMAIN line = Requests /\ DOMAIN target = Requests /\ exited \in BOOLEAN
  BY DEF WorkerInv, WorkerTypeOK
<1>2. CASE AcquireLock(r)
  <2>1. Answered' = Answered
    BY <1>1, <1>2, QuietStep DEF AcquireLock, runnerVars
  <2>2. result[r] = "none" /\ lock = NoRequest
    BY <1>2 DEF AcquireLock, LockFree, ResultInv
  <2>3. Service!Begin(r)
    BY <1>2, <2>1, <2>2 DEF AcquireLock, Service!Begin
  <2> QED BY <2>3 DEF Service!ServiceNext
<1>3. CASE ReuseProcess(r) \/ (\E p \in Processes : SpawnProcess(r, p)) \/ StartWatchdog(r) \/ CancelWatchdog(r)
  <2>1. /\ pc[r] # "read" /\ pc'[r] # "read" /\ line' = line /\ stdout' = stdout
        /\ \A q \in Requests : q # r => pc'[q] = pc[q] /\ target'[q] = target[q]
    BY <1>1, <1>3 DEF ReuseProcess, SpawnProcess, StartWatchdog, CancelWatchdog, runnerVars
  <2>2. UNCHANGED <<lock, result, exited>>
    BY <1>3 DEF ReuseProcess, SpawnProcess, StartWatchdog, CancelWatchdog
  <2>3. Answered' = Answered
    BY <2>1, QuietStep
  <2> QED BY <2>2, <2>3 DEF Service!serviceVars
<1>4. CASE SpawnFails(r)
  <2>1. line[r] = Eof
    BY <1>4 DEF SpawnFails, ResultInv
  <2>2. Service!End(r)
    BY <1>4, <2>1, FailureEnds DEF SpawnFails, runnerVars
  <2> QED BY <2>2 DEF Service!ServiceNext
<1>5. CASE PipeFails(r)
  <2>1. line[r] = Eof
    BY <1>5 DEF PipeFails, ResultInv
  <2>2. Service!End(r)
    BY <1>5, <2>1, FailureEnds DEF PipeFails, Stop
  <2> QED BY <2>2 DEF Service!ServiceNext
<1>6. CASE NoAnswer(r)
  <2>1. PICK told \in {"timed out", "worker exited"} : Leave(r, told)
    BY <1>6 DEF NoAnswer
  <2>2. Service!End(r)
    BY <1>6, <2>1, FailureEnds DEF NoAnswer, Stop
  <2> QED BY <2>2 DEF Service!ServiceNext
<1>7. CASE InvalidAnswer(r)
  <2>1. Service!End(r)
    BY <1>7, FailureEnds DEF InvalidAnswer, Stop
  <2> QED BY <2>1 DEF Service!ServiceNext
<1>8. CASE Answer(r)
  <2>1. /\ pc[r] = "decide" /\ line[r] \in Responses /\ Leave(r, Told(line[r]))
        /\ UNCHANGED <<target, line, stdout, exited>>
    BY <1>8 DEF Answer, runnerVars
  <2>2. pc'[r] # "read" /\ \A q \in Requests : q # r => pc'[q] = pc[q]
    BY <1>1, <2>1 DEF Leave
  <2>3. Answered' = Answered
    BY <2>1, <2>2, QuietStep
  <2>4. Answered[r] = {Told(line[r])}
    <3>1. Arrived(r) = {line[r]}
      BY <2>1 DEF Arrived
    <3> QED BY <3>1 DEF Answered
  <2>5. lock = r
    BY <2>1 DEF WorkerInv, LockInv
  <2>6. Service!End(r)
    BY <2>1, <2>3, <2>4, <2>5 DEF Leave, Service!End
  <2> QED BY <2>6 DEF Service!ServiceNext
<1>9. CASE WriteRequest(r)
  <2>1. /\ pc[r] = "write" /\ pc' = [pc EXCEPT ![r] = "read"]
        /\ UNCHANGED <<lock, target, line, result, stdout, exited>>
    BY <1>9 DEF WriteRequest
  <2>2. line[r] = Eof /\ target[r] = process /\ process # 0
    BY <2>1 DEF ResultInv, WorkerInv, ProcessInv
  <2>3. stdout[target[r]] = << >>
    <3>1. \A q \in Requests : pc[q] \notin {"read", "cancel", "decide"}
      BY <2>1, OneReader
    <3> QED BY <2>2, <3>1 DEF WorkerInv, PipeInv, PipesEmpty
  <2>4. Arrived(r) = {}
    BY <2>1, <2>2, NothingArrived
  <2>5. Arrived(r)' = {}
    <3>1. \A a \in Responses : <<a>> # << >> /\ a # Eof
      BY Lines
    <3> QED BY <2>1, <2>2, <2>3, <3>1 DEF Arrived, Responses, Response
  <2>6. ASSUME NEW q \in Requests, q # r PROVE Arrived(q)' = Arrived(q)
    BY <1>1, <2>1, <2>6, ArrivedKept
  <2>7. Answered' = Answered
    BY <2>4, <2>5, <2>6, AnsweredKept
  <2> QED BY <2>1, <2>7 DEF Service!serviceVars
<1>10. CASE ReadLine(r)
  <2> DEFINE p == target[r]
  <2>1. /\ pc[r] = "read" /\ pc' = [pc EXCEPT ![r] = "cancel"]
        /\ UNCHANGED <<lock, target, result, exited>>
    BY <1>10 DEF ReadLine
  <2>2. line[r] = Eof /\ p = process /\ p \in Processes /\ Outstanding(r, p)
    BY <2>1 DEF ResultInv, WorkerInv, WorkerTypeOK, ProcessInv, PipeInv
  <2>3. line' = [line EXCEPT ![r] = IF stdout[p] = << >> THEN Eof ELSE Head(stdout[p])]
    BY <1>10 DEF ReadLine
  <2>4. Arrived(r)' = { a \in Responses : a = line'[r] }
    BY <1>1, <2>1 DEF Arrived, Responses, Response
  <2>5. Arrived(r) = { a \in Responses : <<a>> = stdout[p] }
    BY <2>1, <2>2, Lines DEF Arrived
  <2> HIDE DEF p
  <2>6. Arrived(r)' = Arrived(r)
    <3>1. CASE stdout[p] = << >>
      <4>1. line'[r] = Eof
        BY <1>1, <2>3, <3>1
      <4>2. \A a \in Responses : <<a>> # << >> /\ a # Eof
        BY Lines
      <4> QED BY <2>4, <2>5, <3>1, <4>1, <4>2
    <3>2. CASE stdout[p] # << >>
      <4>1. PICK x : stdout[p] = <<x>>
        BY <2>2, <3>2 DEF Outstanding
      <4>2. line'[r] = x
        BY <1>1, <2>3, <3>2, <4>1
      <4>3. \A a : <<a>> = <<x>> <=> a = x
        OBVIOUS
      <4> QED BY <2>4, <2>5, <4>1, <4>2, <4>3
    <3> QED BY <3>1, <3>2
  <2>7. ASSUME NEW q \in Requests, q # r PROVE Arrived(q)' = Arrived(q)
    <3>1. pc[q] # "read" /\ pc'[q] = pc[q] /\ line'[q] = line[q]
      BY <1>1, <2>1, <2>3, <2>7, OneReader
    <3> QED BY <3>1, ArrivedKept
  <2>8. Answered' = Answered
    BY <2>6, <2>7, AnsweredKept
  <2> QED BY <2>1, <2>8 DEF Service!serviceVars
<1>11. CASE ReadFails(r)
  <2>1. /\ pc[r] = "read" /\ stdout[target[r]] \in {<< >>, <<Truncated>>}
        /\ Leave(r, "pipe failed") /\ UNCHANGED <<line, target, stdout, exited>>
    BY <1>11 DEF ReadFails, Stop
  <2>2. line[r] = Eof
    BY <2>1 DEF ResultInv
  <2>3. Arrived(r) = {} /\ Answered[r] = {}
    BY <2>1, <2>2, NothingArrived
  <2>4. pc' = [pc EXCEPT ![r] = "over"] /\ lock' = NoRequest /\ result' = [result EXCEPT ![r] = "pipe failed"]
    BY <2>1 DEF Leave
  <2>5. Arrived(r)' = {}
    <3>1. \A a \in Responses : a # Eof
      BY Lines
    <3>2. line'[r] = Eof /\ pc'[r] # "read"
      BY <1>1, <2>1, <2>2, <2>4
    <3> QED BY <3>1, <3>2 DEF Arrived, Responses, Response
  <2>6. ASSUME NEW q \in Requests, q # r PROVE Arrived(q)' = Arrived(q)
    BY <1>1, <2>1, <2>4, <2>6, ArrivedKept
  <2>7. Answered' = Answered
    BY <2>3, <2>5, <2>6, AnsweredKept
  <2>8. lock = r
    BY <2>1 DEF WorkerInv, LockInv
  <2>9. Service!End(r)
    BY <2>1, <2>3, <2>4, <2>7, <2>8 DEF Service!End, Service!Failures
  <2> QED BY <2>9 DEF Service!ServiceNext
<1> QED BY <1>2, <1>3, <1>4, <1>5, <1>6, <1>7, <1>8, <1>9, <1>10, <1>11 DEF Call, Proceed

\* The runner answers the request that is being read for, or one given up.
LEMMA RespondServes ==
    ASSUME WorkerInv, ResultInv, NEW p \in Processes, NEW ok \in BOOLEAN, Respond(p, ok)
    PROVE  [Service!ServiceNext]_(Service!serviceVars)
<1>1. /\ state[p] = "up" /\ serving[p] # NoRequest
      /\ stdout' = [stdout EXCEPT ![p] = Append(@, Response(serving[p], ok))]
      /\ UNCHANGED <<pc, lock, target, line, result, exited>>
  BY DEF Respond, callVars
<1>2. p = process /\ DOMAIN stdout = Processes
  BY <1>1 DEF WorkerInv, WorkerTypeOK, ProcessInv
<1>3. ASSUME NEW r \in Requests, pc[r] = "read" PROVE Service!ServiceNext
  <2>1. line[r] = Eof /\ target[r] = p /\ Outstanding(r, p)
    BY <1>2, <1>3 DEF ResultInv, WorkerInv, ProcessInv, PipeInv
  <2>2. serving[p] = r /\ stdout[p] = << >>
    BY <1>1, <2>1 DEF Outstanding
  <2>3. stdout'[p] = <<Response(r, ok)>>
    BY <1>1, <1>2, <2>2
  <2>4. Answered[r] = {}
    BY <1>3, <2>1, <2>2, NothingArrived
  <2>5. Arrived(r)' = {Response(r, ok)}
    <3>1. Arrived(r)' = { a \in Responses : a = Eof \/ <<Response(r, ok)>> = <<a>> }
      BY <1>1, <1>3, <2>1, <2>3 DEF Arrived, Responses, Response
    <3>2. Response(r, ok) \in Responses /\ Eof \notin Responses
      BY Lines
    <3> QED BY <3>1, <3>2
  <2>6. ASSUME NEW q \in Requests, q # r PROVE Arrived(q)' = Arrived(q)
    <3>1. pc[q] # "read"
      BY <1>3, <2>6, OneReader
    <3> QED BY <1>1, <3>1, ArrivedKept
  <2>7. Answered' = [Answered EXCEPT ![r] = {Told(Response(r, ok))}]
    <3>1. Answered' = [q \in Requests |-> { Told(a) : a \in Arrived(q)' }]
      BY DEF Answered, Told
    <3>2. { Told(a) : a \in Arrived(r)' } = {Told(Response(r, ok))}
      BY <2>5
    <3>3. \A q \in Requests : q # r => Answered[q] = { Told(a) : a \in Arrived(q)' }
      BY <2>6 DEF Answered
    <3>4. DOMAIN Answered = Requests /\ Answered = [q \in Requests |-> Answered[q]]
      BY DEF Answered
    <3> QED BY <3>1, <3>2, <3>3, <3>4
  <2>8. Told(Response(r, ok)) \in {"ok", "module error"}
    BY DEF Told
  <2>9. lock = r
    BY <1>3 DEF WorkerInv, LockInv
  <2>10. Service!AnswerRun(r, Told(Response(r, ok)))
    BY <1>1, <2>4, <2>7, <2>9 DEF Service!AnswerRun
  <2> QED BY <2>8, <2>10 DEF Service!ServiceNext, Service!Answers
<1>4. CASE \A r \in Requests : pc[r] # "read"
  <2>1. Answered' = Answered
    BY <1>1, <1>4, ArrivedKept, AnsweredKept
  <2> QED BY <1>1, <2>1 DEF Service!serviceVars
<1> QED BY <1>3, <1>4

\* A process that dies leaves a whole answer in the pipe, or none.
LEMMA DiesServes ==
    ASSUME WorkerInv, ResultInv, NEW p \in Processes, state[p] = "up", Dies(p),
           UNCHANGED <<pc, lock, target, line, result, exited>>
    PROVE  UNCHANGED Service!serviceVars
<1>1. p = process /\ DOMAIN stdout = Processes
  BY DEF WorkerInv, WorkerTypeOK, ProcessInv
<1>2. ASSUME NEW r \in Requests PROVE Arrived(r)' = Arrived(r)
  <2>1. CASE pc[r] # "read" \/ UNCHANGED stdout
    BY <2>1, ArrivedKept
  <2>2. CASE pc[r] = "read" /\ ~UNCHANGED stdout
    <3>1. serving[p] # NoRequest /\ stdout' = [stdout EXCEPT ![p] = Append(@, Truncated)]
      BY <2>2 DEF Dies
    <3>2. line[r] = Eof /\ target[r] = p /\ Outstanding(r, p)
      BY <1>1, <2>2 DEF ResultInv, WorkerInv, ProcessInv, PipeInv
    <3>3. stdout[p] = << >>
      BY <3>1, <3>2 DEF Outstanding
    <3>4. stdout'[p] = <<Truncated>>
      BY <1>1, <3>1, <3>3
    <3>5. Arrived(r) = {}
      BY <3>2, <3>3, NothingArrived
    <3>6. Arrived(r)' = {}
      <4>1. Arrived(r)' = { a \in Responses : a = Eof \/ <<Truncated>> = <<a>> }
        BY <2>2, <3>2, <3>4 DEF Arrived, Responses, Response
      <4>2. \A a \in Responses : a # Eof /\ a # Truncated
        BY Lines
      <4> QED BY <4>1, <4>2
    <3> QED BY <3>5, <3>6
  <2> QED BY <2>1, <2>2
<1>3. Answered' = Answered
  BY <1>2, AnsweredKept
<1> QED BY <1>3 DEF Service!serviceVars

LEMMA WorkerStepServes ==
    ASSUME WorkerInv, ResultInv, [WorkerNext]_workerVars
    PROVE  [Service!ServiceNext]_(Service!serviceVars)
<1>1. ASSUME UNCHANGED <<pc, lock, target, line, result, stdout, exited>>
      PROVE  UNCHANGED Service!serviceVars
  <2>1. Answered' = Answered
    BY <1>1, ArrivedKept, AnsweredKept
  <2> QED BY <1>1, <2>1 DEF Service!serviceVars
<1>2. ASSUME NEW p \in Processes, Runner(p) PROVE [Service!ServiceNext]_(Service!serviceVars)
  <2>1. CASE TakeRequest(p) \/ Reap(p)
    BY <1>1, <2>1 DEF TakeRequest, Reap, callVars
  <2>2. ASSUME NEW ok \in BOOLEAN, Respond(p, ok) PROVE [Service!ServiceNext]_(Service!serviceVars)
    BY <2>2, RespondServes
  <2>3. CASE Crash(p)
    BY <2>3, DiesServes DEF Crash, callVars
  <2> QED BY <1>2, <2>1, <2>2, <2>3 DEF Runner
<1>3. ASSUME NEW r \in Requests, Watchdog(r) PROVE UNCHANGED Service!serviceVars
  <2>1. CASE Expire(r) \/ SetTimedOut(r)
    BY <1>1, <2>1 DEF Expire, SetTimedOut, callVars, runnerVars
  <2>2. CASE KillHung(r)
    <3>1. CASE state[target[r]] = "up"
      <4>1. target[r] \in Processes
        BY <2>2 DEF KillHung, WorkerInv, WorkerTypeOK, ProcessInv
      <4> QED BY <2>2, <3>1, <4>1, DiesServes DEF KillHung, callVars
    <3>2. CASE state[target[r]] # "up"
      BY <1>1, <2>2, <3>2 DEF KillHung, callVars, runnerVars
    <3> QED BY <3>1, <3>2
  <2> QED BY <1>3, <2>1, <2>2 DEF Watchdog
<1>4. CASE ServerExit
  <2>1. UNCHANGED <<pc, lock, target, line, result, stdout>> /\ ~exited /\ exited' = TRUE
    BY <1>4 DEF ServerExit, Stop
  <2>2. lock = NoRequest
    BY <1>4 DEF ServerExit, WorkerInv, WorkerTypeOK, LockInv
  <2>3. Answered' = Answered
    BY <2>1, ArrivedKept, AnsweredKept
  <2>4. Service!CloseDown
    BY <2>1, <2>2, <2>3 DEF Service!CloseDown
  <2> QED BY <2>4 DEF Service!ServiceNext
<1>5. CASE UNCHANGED workerVars
  BY <1>1, <1>5 DEF workerVars, callVars, runnerVars
<1> QED BY <1>2, <1>3, <1>4, <1>5, CallServes DEF WorkerNext, AfterExit

\* The worker implements WorkerService (the safety part of ServesRuns): one run at
\* a time is served, each is told once, with what its own module answered, and with
\* an error of the worker only when no answer got out; request() loses none.
THEOREM WorkerServes == WorkerSafety => Service!ServiceSafety
<1>1. WorkerInit => Service!ServiceInit
  <2> SUFFICES ASSUME WorkerInit PROVE Service!ServiceInit
    OBVIOUS
  <2>1. ASSUME NEW r \in Requests PROVE Answered[r] = {}
    BY NothingArrived DEF WorkerInit
  <2>2. Answered = [r \in Requests |-> Answered[r]]
    BY DEF Answered
  <2>3. Answered = [r \in Requests |-> {}]
    BY <2>1, <2>2
  <2> QED BY <2>3 DEF WorkerInit, Service!ServiceInit
<1>2. WorkerSafety => [](WorkerInv /\ ResultInv)
  BY WorkerInit_WorkerInv, WorkerNext_WorkerInv, ResultInit, ResultStep, PTL DEF WorkerSafety
<1>3. (WorkerInv /\ ResultInv) /\ [WorkerNext]_workerVars => [Service!ServiceNext]_(Service!serviceVars)
  BY WorkerStepServes
<1> QED BY <1>1, <1>2, <1>3, PTL DEF WorkerSafety, Service!ServiceSafety

=============================================================================
