---------------------------- MODULE SessionLife ----------------------------
(***************************************************************************)
(* Sessions and the handlers of app.py that work on them.  submit_job and  *)
(* upload_payload run on the event loop and wait for their body half way;  *)
(* the others run on threads of their own, so any of their steps may come  *)
(* in between.  Of a job only its status and its cancel event are kept:    *)
(* JobRun has the rest.                                                    *)
(***************************************************************************)
EXTENDS Naturals, FiniteSets

CONSTANTS
    Sessions,  \* ids the server may hand out
    Submits,   \* requests POST .../jobs; a job is named after its request
    Uploads,   \* requests POST .../payloads; a payload is named after its request
    Gets,      \* requests GET .../payloads/<id> and GET .../jobs/<id>
    Deletes,   \* requests DELETE .../sessions/<id>
    Of,        \* Of[x]: the session request x names
    Wanted     \* Wanted[x]: the payload or the job that x \in Gets names

Posts    == Submits \cup Uploads
Requests == Posts \cup Gets \cup Deletes

ASSUME RequestAssumption ==
    /\ Submits \cap Uploads = {} /\ Posts \cap Gets = {} /\ (Posts \cup Gets) \cap Deletes = {}
    /\ \A x \in Requests : Of[x] \in Sessions
    /\ \A x \in Gets : Wanted[x] \in Posts /\ Of[Wanted[x]] = Of[x]

VARIABLES
    created,   \* sessions whose id the client has been given
    store,     \* sessions in the SessionStore
    managers,  \* sessions with an entry in the dict managers
    pc,        \* pc[x]: where the handler of x stands
    answer,    \* answer[x]: the status code of its response
    payloads,  \* payloads[s]: the payloads in the Session object of s
    jobs,      \* jobs[s]: the jobs of s's JobManager
    status,    \* status[q]: job.status
    cancel,    \* jobs whose cancel event is set
    listed,    \* listed[d]: jobs the shutdown of d has still to look at
    before     \* before[x]: requests answered 201 or 204 when x was received (history)

handlerVars == <<pc, answer, listed, before>>
jobVars     == <<jobs, status, cancel>>
dictVars    == <<created, store, managers, payloads>>
sessionVars == <<dictVars, handlerVars, jobVars>>

TERMINAL == {"completed", "failed", "cancelled"}

SessionInit ==
    /\ created = {}
    /\ store = {}
    /\ managers = {}
    /\ payloads = [s \in Sessions |-> {}]
    /\ pc = [x \in Requests |-> "new"]
    /\ answer = [x \in Requests |-> 0]
    /\ jobs = [s \in Sessions |-> {}]
    /\ status = [q \in Submits |-> "none"]
    /\ cancel = {}
    /\ listed = [d \in Deletes |-> {}]
    /\ before = [x \in Requests |-> {}]

-----------------------------------------------------------------------------
\* create_session: the id is known to nobody before the response.
StoreSession(s) ==
    /\ s \notin created /\ s \notin store /\ s \notin managers
    /\ store' = store \cup {s}
    /\ UNCHANGED <<created, managers, payloads, handlerVars, jobVars>>

CreateManager(s) ==
    /\ s \in store \ created
    /\ managers' = managers \cup {s}
    /\ created' = created \cup {s}
    /\ UNCHANGED <<store, payloads, handlerVars, jobVars>>

\* The handler of x goes on to the next place, or answers.
Goto(x, from, to) ==
    /\ pc[x] = from
    /\ pc' = [pc EXCEPT ![x] = to]
    /\ UNCHANGED answer

Respond(x, from, code) ==
    /\ pc[x] = from
    /\ pc' = [pc EXCEPT ![x] = "over"]
    /\ answer' = [answer EXCEPT ![x] = code]

\* What a client knows when it makes a request.
Received(x) ==
    /\ Of[x] \in created
    /\ before' = [before EXCEPT ![x] = { y \in Requests : answer[y] \in {201, 204} }]

-----------------------------------------------------------------------------
(* upload_payload, submit_job with JobManager.submit, download_payload and *)
(* get_job.                                                                *)

\* Where a request goes that has found its session.
AfterSession(x) == IF x \in Submits THEN "session" ELSE IF x \in Uploads THEN "body" ELSE "fetch"

\* _session_or_404
FindSession(x) ==
    /\ x \in Gets => Wanted[x] \in Uploads
    /\ Received(x)
    /\ IF Of[x] \in store THEN Goto(x, "new", AfterSession(x)) ELSE Respond(x, "new", 404)
    /\ UNCHANGED <<dictVars, listed, jobVars>>

\* _manager_or_404, second in submit_job ...
FindManager(q) ==
    /\ IF Of[q] \in managers THEN Goto(q, "session", "body") ELSE Respond(q, "session", 404)
    /\ UNCHANGED <<dictVars, listed, before, jobVars>>

\* ... and first in get_job.
FindManagerOnly(x) ==
    /\ Wanted[x] \in Submits
    /\ Received(x)
    /\ IF Of[x] \in managers THEN Goto(x, "new", "fetch") ELSE Respond(x, "new", 404)
    /\ UNCHANGED <<dictVars, listed, jobVars>>

\* The body has arrived and is empty, not JSON (400) or not a valid graph (422).
RejectBody(x) ==
    /\ Respond(x, "body", 422)
    /\ UNCHANGED <<dictVars, listed, before, jobVars>>

\* Mutant: the upload is answered and the payload is not kept.
AddPayloadLost(u) ==
    /\ Respond(u, "body", 201)
    /\ UNCHANGED <<dictVars, listed, before, jobVars>>

\* It has arrived, and the payload goes into the session found before.
AddPayload(u) ==
    /\ Respond(u, "body", 201)
    /\ payloads' = [payloads EXCEPT ![Of[u]] = @ \cup {u}]
    /\ UNCHANGED <<created, store, managers, listed, before, jobVars>>

\* It has, and the job is entered into the manager found before.
RegisterJob(q) ==
    /\ Goto(q, "body", "registered")
    /\ jobs' = [jobs EXCEPT ![Of[q]] = @ \cup {q}]
    /\ status' = [status EXCEPT ![q] = "pending"]
    /\ UNCHANGED <<dictVars, listed, before, cancel>>

\* The job's thread is started.
StartJob(q) ==
    /\ Respond(q, "registered", 201)
    /\ UNCHANGED <<dictVars, listed, before, jobVars>>

\* The look-up in the session or manager found before, which may be dropped by now.
Fetch(x) ==
    /\ Respond(x, "fetch", IF Wanted[x] \in payloads[Of[x]] \cup jobs[Of[x]] THEN 200 ELSE 404)
    /\ UNCHANGED <<dictVars, listed, before, jobVars>>

Upload(u) == FindSession(u) \/ RejectBody(u) \/ AddPayload(u)
Submit(q) == FindSession(q) \/ FindManager(q) \/ RejectBody(q) \/ RegisterJob(q) \/ StartJob(q)
Get(x)    == FindSession(x) \/ FindManagerOnly(x) \/ Fetch(x)

\* cancel_job: a client cancels a job it knows of.
CancelJob(q) ==
    /\ answer[q] = 201
    /\ Of[q] \in managers
    /\ cancel' = cancel \cup {q}
    /\ UNCHANGED <<dictVars, handlerVars, jobs, status>>

-----------------------------------------------------------------------------
(* The job's thread, from outside: only a cancelled job ends as cancelled, *)
(* but one may be cancelled too late to.                                   *)

JobBegins(q) ==
    /\ status[q] = "pending" /\ pc[q] = "over"
    /\ status' = [status EXCEPT ![q] = "running"]
    /\ UNCHANGED <<dictVars, handlerVars, jobs, cancel>>

JobEnds(q, end) ==
    /\ status[q] = "running"
    /\ end = "cancelled" => q \in cancel
    /\ status' = [status EXCEPT ![q] = end]
    /\ UNCHANGED <<dictVars, handlerVars, jobs, cancel>>

-----------------------------------------------------------------------------
(* delete_session and JobManager.shutdown.                                 *)

\* Mutant: the result of the pop is not looked at.
WasStoredAlways(d) == TRUE

\* SessionStore.delete found the session.
WasStored(d) == Of[d] \in store

DropSession(d) ==
    /\ Received(d)
    /\ store' = store \ {Of[d]}
    /\ IF WasStored(d) THEN Goto(d, "new", "dropped") ELSE Respond(d, "new", 404)
    /\ UNCHANGED <<created, managers, payloads, listed, jobVars>>

\* managers.pop
PopManager(d) ==
    /\ Goto(d, "dropped", "popped")
    /\ managers' = managers \ {Of[d]}
    /\ UNCHANGED <<created, store, payloads, listed, before, jobVars>>

\* shutdown lists the jobs under its lock ...
ListJobs(d) ==
    /\ Goto(d, "popped", "cancelling")
    /\ listed' = [listed EXCEPT ![d] = jobs[Of[d]]]
    /\ UNCHANGED <<dictVars, before, jobVars>>

\* Mutant: only a job that is running is cancelled.
ToCancelRunning(q) == status[q] = "running"

\* The test of shutdown: job.status not in TERMINAL.
ToCancel(q) == status[q] \notin TERMINAL

\* ... and then goes through them.
CancelListed(d, q) ==
    /\ pc[d] = "cancelling"
    /\ q \in listed[d]
    /\ listed' = [listed EXCEPT ![d] = @ \ {q}]
    /\ cancel' = IF ToCancel(q) THEN cancel \cup {q} ELSE cancel
    /\ UNCHANGED <<dictVars, pc, answer, before, jobs, status>>

Deleted(d) ==
    /\ listed[d] = {}
    /\ Respond(d, "cancelling", 204)
    /\ UNCHANGED <<dictVars, listed, before, jobVars>>

Delete(d) ==
    \/ DropSession(d) \/ PopManager(d) \/ ListJobs(d)
    \/ (\E q \in Submits : CancelListed(d, q))
    \/ Deleted(d)

-----------------------------------------------------------------------------
AllAnswered ==
    /\ \A x \in Requests : pc[x] = "over"
    /\ \A q \in Submits : status[q] \in TERMINAL \cup {"none"}
    /\ UNCHANGED sessionVars

SessionNext ==
    \/ \E s \in Sessions : StoreSession(s) \/ CreateManager(s)
    \/ \E q \in Submits : Submit(q) \/ CancelJob(q)
    \/ \E u \in Uploads : Upload(u)
    \/ \E x \in Gets : Get(x)
    \/ \E q \in Submits : JobBegins(q) \/ \E end \in TERMINAL : JobEnds(q, end)
    \/ \E d \in Deletes : Delete(d)
    \/ AllAnswered

SessionSpec == SessionInit /\ [][SessionNext]_sessionVars

-----------------------------------------------------------------------------
(* Properties.                                                             *)

Before(x, y) == y \in before[x] /\ Of[y] = Of[x]

\* `DELETE /v1/sessions/{id}` "drops it and everything it owns" (ADR 0004), for
\* what the client knew of: when the response 204 comes, every job answered 201
\* before the request was made is over or told to stop, whichever step of its
\* start it had reached.
DeleteStopsKnownJobs ==
    \A d \in Deletes : answer[d] = 204 =>
        \A q \in Submits : Before(d, q) => q \in cancel \/ status[q] \in TERMINAL

\* A session is deleted once, and is then gone: of several requests that race to
\* delete it one is answered 204, and whatever a client asks of the session after
\* that answer, it is answered 404, requests for what the session held included.
DeletedIsGone ==
    \A d \in Deletes : answer[d] = 204 =>
        /\ \A e \in Deletes \ {d} : Of[e] = Of[d] => answer[e] # 204
        /\ \A x \in Requests : Before(x, d) /\ pc[x] = "over" => answer[x] = 404

\* What was answered 201 can be fetched: a request for a payload or a job made
\* after the response that announced it finds it, unless somebody began to
\* delete the session; uploads and submissions beside it change nothing.
AnnouncedCanBeFetched ==
    \A x \in Gets : pc[x] = "over" /\ Before(x, Wanted[x]) =>
        answer[x] = 200 \/ \E d \in Deletes : Of[d] = Of[x] /\ pc[d] # "new"

\* "so nothing owned by the session outlives it" (shutdown, jobs.py): when the
\* session is deleted, all its jobs are over or told to stop.
NothingOutlivesSession ==
    \A d \in Deletes : answer[d] = 204 =>
        \A q \in jobs[Of[d]] : q \in cancel \/ status[q] \in TERMINAL

=============================================================================
