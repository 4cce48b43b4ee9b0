--------------------------- MODULE SessionStreams ---------------------------
(***************************************************************************)
(* A session together with the event log of its JobManager and the SSE     *)
(* responses that follow it: SessionLife and EventStream composed.  The    *)
(* log belongs to the manager, which the handlers, the jobs' threads and   *)
(* the generators each keep once they have found it, so that it goes on    *)
(* after the session is deleted.  Of a job's events (JobRun has them all)  *)
(* two status events and the closing one are kept.                         *)
(***************************************************************************)
EXTENDS SessionLife, EventStream

CONSTANT Here  \* the session whose events are followed

Tell == {"pending", "running", "closed"}

ASSUME HereAssumption ==
    /\ Here \in Sessions
    /\ Events = Submits \X Tell
    /\ \A q \in Submits : Of[q] = Here

allVars == <<sessionVars, streamVars>>

ComposedInit == SessionInit /\ StreamInit

\* JobManager.submit: the status is announced, then the thread started.
StartAndTell(q) == StartJob(q) /\ AppendEvent(<<q, "pending">>)

\* The head of _run.
BeginAndTell(q) == JobBegins(q) /\ AppendEvent(<<q, "running">>)

\* Mutant: a job that was cancelled ends without a closing event.
CloseJobUncancelled(q) ==
    /\ status[q] \in {"completed", "failed"}
    /\ AppendEvent(<<q, "closed">>)
    /\ UNCHANGED sessionVars

\* The end of _run: the status is terminal, and the closing event follows.
CloseJob(q) ==
    /\ status[q] \in TERMINAL
    /\ AppendEvent(<<q, "closed">>)
    /\ UNCHANGED sessionVars

\* Mutant: a client that connects again goes on where it was.
ConnectWhereItWas(c) ==
    /\ Here \in managers
    /\ place[c] = "off"
    /\ place' = [place EXCEPT ![c] = "poll"]
    /\ UNCHANGED <<log, cursor, fresh, idle, sent, sessionVars>>

\* events: the manager is looked up once, when the client connects.
ConnectIfManaged(c) == Here \in managers /\ Connect(c) /\ UNCHANGED sessionVars

\* The handlers and jobs as in SessionLife; StartJob and JobBegins have events.
SessionStep ==
    /\ \/ \E s \in Sessions : StoreSession(s) \/ CreateManager(s)
       \/ \E q \in Submits : \/ FindSession(q) \/ FindManager(q) \/ RejectBody(q)
                             \/ RegisterJob(q) \/ CancelJob(q)
       \/ \E q \in Submits, end \in TERMINAL : JobEnds(q, end)
       \/ \E d \in Deletes : Delete(d)
    /\ UNCHANGED streamVars

StreamStep(c) == Serve(c) /\ UNCHANGED sessionVars

ComposedNext ==
    \/ SessionStep
    \/ \E q \in Submits : StartAndTell(q) \/ BeginAndTell(q) \/ CloseJob(q)
    \/ \E c \in Streams : ConnectIfManaged(c) \/ StreamStep(c)
    \/ \E c \in Streams : Disconnect(c) /\ UNCHANGED sessionVars
    \/ AllAnswered /\ UNCHANGED streamVars

JobThread(q) ==
    \/ BeginAndTell(q) \/ CloseJob(q)
    \/ (\E end \in TERMINAL : JobEnds(q, end)) /\ UNCHANGED streamVars

ComposedSafety == ComposedInit /\ [][ComposedNext]_allVars

\* The event loop serves every open connection, and a job's thread goes on to
\* its end.  Clients, handlers and deletions may come or not.
ComposedSpec ==
    /\ ComposedSafety
    /\ \A c \in Streams : WF_allVars(StreamStep(c))
    /\ \A q \in Submits : WF_allVars(JobThread(q))

-----------------------------------------------------------------------------
(* Properties.                                                             *)

\* Here too the streams are those of EventStream, whose results (SentIsPrefix is
\* proved there) so hold of the composed server: nothing that happens to the
\* session, its deletion included, disturbs the log or a stream, or keeps an
\* event from being sent.
StreamsGoOn == StreamSpec

\* The event job.completed, job.failed or job.cancelled that is "terminal" (ADR
\* 0007) reaches those who wait for it: a client that is connected when a job is
\* answered 201, or connects later, is told that the job is over, though the
\* session may be deleted, by somebody else, at any moment; unless the client
\* goes away itself.
EndIsTold ==
    \A q \in Submits, c \in Streams :
        (answer[q] = 201 /\ place[c] # "off") ~>
            (place[c] = "off" \/ \E k \in DOMAIN sent[c] : sent[c][k].event = <<q, "closed">>)

=============================================================================
