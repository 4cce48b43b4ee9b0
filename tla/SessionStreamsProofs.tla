------------------------ MODULE SessionStreamsProofs ------------------------
(***************************************************************************)
(* What a session promises to its clients, for any number of sessions,     *)
(* requests and deletions that race; that every client is sent a prefix of *)
(* the session's log, for any number of events, of streams and of polls    *)
(* between keepalives; and that the composed server is a server of         *)
(* sessions and a server of streams, so that both hold of it.              *)
(***************************************************************************)
EXTENDS SessionStreams, SequenceTheorems, TLAPS

-----------------------------------------------------------------------------
(* SessionLife: the inductive invariant.                                   *)

Places == {"new", "session", "body", "registered", "fetch", "dropped", "popped", "cancelling", "over"}

SessionTypeOK ==
    /\ created \subseteq Sessions /\ store \subseteq Sessions /\ managers \subseteq Sessions
    /\ payloads \in [Sessions -> SUBSET Uploads]
    /\ pc \in [Requests -> Places]
    /\ answer \in [Requests -> {0, 200, 201, 204, 404, 422}]
    /\ jobs \in [Sessions -> SUBSET Submits]
    /\ status \in [Submits -> TERMINAL \cup {"none", "pending", "running"}]
    /\ cancel \subseteq Submits
    /\ listed \in [Deletes -> SUBSET Submits]
    /\ before \in [Requests -> SUBSET Requests]

\* A response is the last thing a handler does, 204 is a deletion's and 201 that
\* of a request that makes something; what a client knows is what it was told.
AnswerInv ==
    \A x \in Requests : /\ answer[x] # 0 => pc[x] = "over"
                        /\ pc[x] = "new" => before[x] = {}
                        /\ answer[x] = 204 => x \in Deletes
                        /\ answer[x] = 201 => x \in Posts
                        /\ \A y \in before[x] : answer[y] \in {201, 204}

\* What was announced is where it is looked for.
KeptInv ==
    /\ \A q \in Submits : pc[q] = "registered" \/ answer[q] = 201 => q \in jobs[Of[q]]
    /\ \A u \in Uploads : answer[u] = 201 => u \in payloads[Of[u]]

\* shutdown misses no job that was announced before the deletion was asked for.
CancelInv ==
    \A d \in Deletes :
        /\ answer[d] = 204 => listed[d] = {}
        /\ pc[d] = "cancelling" \/ answer[d] = 204 =>
              \A q \in Submits : Before(d, q) => q \in listed[d] \/ q \in cancel \/ status[q] \in TERMINAL

\* The deletion d has won.
Won(d) == pc[d] \in {"dropped", "popped", "cancelling"} \/ answer[d] = 204

\* One deletion of a session wins; from then on the session is not in the store,
\* from its second step on its manager is not in the dict, and those who ask
\* after its answer are told so.
GoneInv ==
    \A d \in Deletes :
        /\ Won(d) => /\ Of[d] \in created /\ Of[d] \notin store
                     /\ \A e \in Deletes : Won(e) /\ Of[e] = Of[d] => e = d
                     /\ pc[d] # "dropped" => Of[d] \notin managers
        /\ \A x \in Requests : Before(x, d) => answer[x] = 404

Deleting(s) == \E d \in Deletes : Of[d] = s /\ pc[d] # "new"

\* Until somebody deletes it a session is found, and so is what is in it.
FoundInv ==
    /\ \A s \in created : (s \in store /\ s \in managers) \/ Deleting(s)
    /\ \A x \in Gets : Before(x, Wanted[x]) => pc[x] = "fetch" \/ answer[x] = 200 \/ Deleting(Of[x])

SessionInv == SessionTypeOK /\ AnswerInv /\ KeptInv /\ CancelInv /\ GoneInv /\ FoundInv

-----------------------------------------------------------------------------
\* The invariant holds when the server starts.
LEMMA SessionInitInv == SessionInit => SessionInv
  <1> SUFFICES ASSUME SessionInit PROVE SessionInv
    OBVIOUS
  <1>1. SessionTypeOK
    BY DEF SessionInit, SessionTypeOK, Places
  <1>2. AnswerInv /\ KeptInv
    BY DEF SessionInit, AnswerInv, KeptInv, Requests, Posts
  <1>3. CancelInv /\ GoneInv /\ FoundInv
    BY RequestAssumption
    DEF SessionInit, CancelInv, GoneInv, FoundInv, Won, Before, Requests, Posts
  <1> QED BY <1>1, <1>2, <1>3 DEF SessionInv

\* A new session is nobody's: no request can name it yet.
LEMMA StoreSessionInv ==
    ASSUME SessionInv, NEW s \in Sessions, StoreSession(s)
    PROVE  SessionInv'
  <1> USE RequestAssumption DEF StoreSession, SessionInv, SessionTypeOK, Requests, Posts, dictVars, handlerVars, jobVars
  <1>1. SessionTypeOK'
    BY DEF Places
  <1>2. AnswerInv'
    BY DEF AnswerInv
  <1>3. KeptInv'
    BY DEF KeptInv, AnswerInv
  <1>4. CancelInv'
    BY DEF CancelInv, AnswerInv, KeptInv, Before
  <1>5. GoneInv'
    BY DEF GoneInv, AnswerInv, Won, Before
  <1>6. FoundInv'
    BY DEF FoundInv, AnswerInv, KeptInv, Deleting, Before
  <1> QED BY <1>1, <1>2, <1>3, <1>4, <1>5, <1>6

\* Its manager is there when its id is given out.
LEMMA CreateManagerInv ==
    ASSUME SessionInv, NEW s \in Sessions, CreateManager(s)
    PROVE  SessionInv'
  <1> USE RequestAssumption DEF CreateManager, SessionInv, SessionTypeOK, Requests, Posts, dictVars, handlerVars, jobVars
  <1>1. SessionTypeOK'
    BY DEF Places
  <1>2. AnswerInv'
    BY DEF AnswerInv
  <1>3. KeptInv'
    BY DEF KeptInv, AnswerInv
  <1>4. CancelInv'
    BY DEF CancelInv, AnswerInv, KeptInv, Before
  <1>5. GoneInv'
    BY DEF GoneInv, AnswerInv, Won, Before
  <1>6. FoundInv'
    BY DEF FoundInv, AnswerInv, KeptInv, Deleting, Before
  <1> QED BY <1>1, <1>2, <1>3, <1>4, <1>5, <1>6

\* A request that finds its session, or is told that there is none.
LEMMA FindSessionInv ==
    ASSUME SessionInv, NEW z \in Posts \cup Gets, FindSession(z)
    PROVE  SessionInv'
  <1> USE RequestAssumption DEF FindSession, Received, AfterSession, Goto, Respond, SessionInv, SessionTypeOK, Requests, Posts, dictVars, handlerVars, jobVars
  <1>1. SessionTypeOK'
    BY DEF Places
  <1>2. AnswerInv'
    BY DEF AnswerInv
  <1>3. KeptInv'
    BY DEF KeptInv, AnswerInv
  <1>4. CancelInv'
    BY DEF CancelInv, AnswerInv, KeptInv, Before
  <1>5. GoneInv'
    BY DEF GoneInv, AnswerInv, Won, Before
  <1>6. FoundInv'
    BY DEF FoundInv, AnswerInv, KeptInv, Deleting, Before
  <1> QED BY <1>1, <1>2, <1>3, <1>4, <1>5, <1>6

\* A submission looks for the manager.
LEMMA FindManagerInv ==
    ASSUME SessionInv, NEW z \in Submits, FindManager(z)
    PROVE  SessionInv'
  <1> USE RequestAssumption DEF FindManager, Goto, Respond, SessionInv, SessionTypeOK, Requests, Posts, dictVars, handlerVars, jobVars
  <1>1. SessionTypeOK'
    BY DEF Places
  <1>2. AnswerInv'
    BY DEF AnswerInv
  <1>3. KeptInv'
    BY DEF KeptInv, AnswerInv
  <1>4. CancelInv'
    BY DEF CancelInv, AnswerInv, KeptInv, Before
  <1>5. GoneInv'
    BY DEF GoneInv, AnswerInv, Won, Before
  <1>6. FoundInv'
    BY DEF FoundInv, AnswerInv, KeptInv, Deleting, Before
  <1> QED BY <1>1, <1>2, <1>3, <1>4, <1>5, <1>6

\* A request for a job does.
LEMMA FindManagerOnlyInv ==
    ASSUME SessionInv, NEW z \in Gets, FindManagerOnly(z)
    PROVE  SessionInv'
  <1> USE RequestAssumption DEF FindManagerOnly, Received, Goto, Respond, SessionInv, SessionTypeOK, Requests, Posts, dictVars, handlerVars, jobVars
  <1>1. SessionTypeOK'
    BY DEF Places
  <1>2. AnswerInv'
    BY DEF AnswerInv
  <1>3. KeptInv'
    BY DEF KeptInv, AnswerInv
  <1>4. CancelInv'
    BY DEF CancelInv, AnswerInv, KeptInv, Before
  <1>5. GoneInv'
    BY DEF GoneInv, AnswerInv, Won, Before
  <1>6. FoundInv'
    BY DEF FoundInv, AnswerInv, KeptInv, Deleting, Before
  <1> QED BY <1>1, <1>2, <1>3, <1>4, <1>5, <1>6

\* A body that is refused.
LEMMA RejectBodyInv ==
    ASSUME SessionInv, NEW z \in Posts, RejectBody(z)
    PROVE  SessionInv'
  <1> USE RequestAssumption DEF RejectBody, Respond, SessionInv, SessionTypeOK, Requests, Posts, dictVars, handlerVars, jobVars
  <1>1. SessionTypeOK'
    BY DEF Places
  <1>2. AnswerInv'
    BY DEF AnswerInv
  <1>3. KeptInv'
    BY DEF KeptInv, AnswerInv
  <1>4. CancelInv'
    BY DEF CancelInv, AnswerInv, KeptInv, Before
  <1>5. GoneInv'
    BY DEF GoneInv, AnswerInv, Won, Before
  <1>6. FoundInv'
    BY DEF FoundInv, AnswerInv, KeptInv, Deleting, Before
  <1> QED BY <1>1, <1>2, <1>3, <1>4, <1>5, <1>6

\* A payload is kept before it is announced.
LEMMA AddPayloadInv ==
    ASSUME SessionInv, NEW z \in Uploads, AddPayload(z)
    PROVE  SessionInv'
  <1> USE RequestAssumption DEF AddPayload, Respond, SessionInv, SessionTypeOK, Requests, Posts, dictVars, handlerVars, jobVars
  <1>1. SessionTypeOK'
    BY DEF Places
  <1>2. AnswerInv'
    BY DEF AnswerInv
  <1>3. KeptInv'
    BY DEF KeptInv, AnswerInv
  <1>4. CancelInv'
    BY DEF CancelInv, AnswerInv, KeptInv, Before
  <1>5. GoneInv'
    BY DEF GoneInv, AnswerInv, Won, Before
  <1>6. FoundInv'
    BY DEF FoundInv, AnswerInv, KeptInv, Deleting, Before
  <1> QED BY <1>1, <1>2, <1>3, <1>4, <1>5, <1>6

\* A job is entered before it is announced.
LEMMA RegisterJobInv ==
    ASSUME SessionInv, NEW z \in Submits, RegisterJob(z)
    PROVE  SessionInv'
  <1> USE RequestAssumption DEF RegisterJob, Goto, SessionInv, SessionTypeOK, Requests, Posts, dictVars, handlerVars, jobVars
  <1>1. SessionTypeOK'
    BY DEF Places
  <1>2. AnswerInv'
    BY DEF AnswerInv
  <1>3. KeptInv'
    BY DEF KeptInv, AnswerInv
  <1>4. CancelInv'
    BY DEF CancelInv, AnswerInv, KeptInv, Before
  <1>5. GoneInv'
    BY DEF GoneInv, AnswerInv, Won, Before
  <1>6. FoundInv'
    BY DEF FoundInv, AnswerInv, KeptInv, Deleting, Before
  <1> QED BY <1>1, <1>2, <1>3, <1>4, <1>5, <1>6

\* And then announced.
LEMMA StartJobInv ==
    ASSUME SessionInv, NEW z \in Submits, StartJob(z)
    PROVE  SessionInv'
  <1> USE RequestAssumption DEF StartJob, Respond, SessionInv, SessionTypeOK, Requests, Posts, dictVars, handlerVars, jobVars
  <1>1. SessionTypeOK'
    BY DEF Places
  <1>2. AnswerInv'
    BY DEF AnswerInv
  <1>3. KeptInv'
    BY DEF KeptInv, AnswerInv
  <1>4. CancelInv'
    BY DEF CancelInv, AnswerInv, KeptInv, Before
  <1>5. GoneInv'
    BY DEF GoneInv, AnswerInv, Won, Before
  <1>6. FoundInv'
    BY DEF FoundInv, AnswerInv, KeptInv, Deleting, Before
  <1> QED BY <1>1, <1>2, <1>3, <1>4, <1>5, <1>6

\* A fetch finds what was announced before it was made.
LEMMA FetchInv ==
    ASSUME SessionInv, NEW z \in Gets, Fetch(z)
    PROVE  SessionInv'
  <1> USE RequestAssumption DEF Fetch, Respond, SessionInv, SessionTypeOK, Requests, Posts, dictVars, handlerVars, jobVars
  <1>1. SessionTypeOK'
    BY DEF Places
  <1>2. AnswerInv'
    BY DEF AnswerInv
  <1>3. KeptInv'
    BY DEF KeptInv, AnswerInv
  <1>4. CancelInv'
    BY DEF CancelInv, AnswerInv, KeptInv, Before
  <1>5. GoneInv'
    BY DEF GoneInv, AnswerInv, Won, Before
  <1>6. FoundInv'
    BY DEF FoundInv, AnswerInv, KeptInv, Deleting, Before
  <1> QED BY <1>1, <1>2, <1>3, <1>4, <1>5, <1>6

\* What jobs do, and a cancellation: a job that is over or told to stop remains so.
LEMMA JobChangesInv ==
    ASSUME SessionInv, NEW q \in Submits, CancelJob(q) \/ JobBegins(q) \/ \E end \in TERMINAL : JobEnds(q, end)
    PROVE  SessionInv'
  <1> USE RequestAssumption DEF CancelJob, JobBegins, JobEnds, TERMINAL, SessionInv, SessionTypeOK, Requests, Posts, dictVars, handlerVars, jobVars
  <1>1. SessionTypeOK'
    BY DEF Places
  <1>2. AnswerInv'
    BY DEF AnswerInv
  <1>3. KeptInv'
    BY DEF KeptInv, AnswerInv
  <1>4. CancelInv'
    BY DEF CancelInv, AnswerInv, KeptInv, Before
  <1>5. GoneInv'
    BY DEF GoneInv, AnswerInv, Won, Before
  <1>6. FoundInv'
    BY DEF FoundInv, AnswerInv, KeptInv, Deleting, Before
  <1> QED BY <1>1, <1>2, <1>3, <1>4, <1>5, <1>6

\* One deletion finds the session in the store.
LEMMA DropSessionInv ==
    ASSUME SessionInv, NEW z \in Deletes, DropSession(z)
    PROVE  SessionInv'
  <1> USE RequestAssumption DEF DropSession, WasStored, Received, Goto, Respond, SessionInv, SessionTypeOK, Requests, Posts, dictVars, handlerVars, jobVars
  <1>1. SessionTypeOK'
    BY DEF Places
  <1>2. AnswerInv'
    BY DEF AnswerInv
  <1>3. KeptInv'
    BY DEF KeptInv, AnswerInv
  <1>4. CancelInv'
    BY DEF CancelInv, AnswerInv, KeptInv, Before
  <1>5. GoneInv'
    BY DEF GoneInv, AnswerInv, Won, Before
  <1>6. FoundInv'
    BY DEF FoundInv, AnswerInv, KeptInv, Deleting, Before
  <1> QED BY <1>1, <1>2, <1>3, <1>4, <1>5, <1>6

\* The manager is taken out of the dict.
LEMMA PopManagerInv ==
    ASSUME SessionInv, NEW z \in Deletes, PopManager(z)
    PROVE  SessionInv'
  <1> USE RequestAssumption DEF PopManager, Goto, SessionInv, SessionTypeOK, Requests, Posts, dictVars, handlerVars, jobVars
  <1>1. SessionTypeOK'
    BY DEF Places
  <1>2. AnswerInv'
    BY DEF AnswerInv
  <1>3. KeptInv'
    BY DEF KeptInv, AnswerInv
  <1>4. CancelInv'
    BY DEF CancelInv, AnswerInv, KeptInv, Before
  <1>5. GoneInv'
    BY DEF GoneInv, AnswerInv, Won, Before
  <1>6. FoundInv'
    BY DEF FoundInv, AnswerInv, KeptInv, Deleting, Before
  <1> QED BY <1>1, <1>2, <1>3, <1>4, <1>5, <1>6

\* All jobs announced by then are listed.
LEMMA ListJobsInv ==
    ASSUME SessionInv, NEW z \in Deletes, ListJobs(z)
    PROVE  SessionInv'
  <1> USE RequestAssumption DEF ListJobs, Goto, SessionInv, SessionTypeOK, Requests, Posts, dictVars, handlerVars, jobVars
  <1>1. SessionTypeOK'
    BY DEF Places
  <1>2. AnswerInv'
    BY DEF AnswerInv
  <1>3. KeptInv'
    BY DEF KeptInv, AnswerInv
  <1>4. CancelInv'
    BY DEF CancelInv, AnswerInv, KeptInv, Before
  <1>5. GoneInv'
    BY DEF GoneInv, AnswerInv, Won, Before
  <1>6. FoundInv'
    BY DEF FoundInv, AnswerInv, KeptInv, Deleting, Before
  <1> QED BY <1>1, <1>2, <1>3, <1>4, <1>5, <1>6

\* A job that is looked at is told to stop, or over.
LEMMA CancelListedInv ==
    ASSUME SessionInv, NEW z \in Deletes, NEW q \in Submits, CancelListed(z, q)
    PROVE  SessionInv'
  <1> USE RequestAssumption DEF CancelListed, ToCancel, SessionInv, SessionTypeOK, Requests, Posts, dictVars, handlerVars, jobVars
  <1>1. SessionTypeOK'
    BY DEF Places
  <1>2. AnswerInv'
    BY DEF AnswerInv
  <1>3. KeptInv'
    BY DEF KeptInv, AnswerInv
  <1>4. CancelInv'
    BY DEF CancelInv, AnswerInv, KeptInv, Before
  <1>5. GoneInv'
    BY DEF GoneInv, AnswerInv, Won, Before
  <1>6. FoundInv'
    BY DEF FoundInv, AnswerInv, KeptInv, Deleting, Before
  <1> QED BY <1>1, <1>2, <1>3, <1>4, <1>5, <1>6

\* When none is left the deletion is answered.
LEMMA DeletedInv ==
    ASSUME SessionInv, NEW z \in Deletes, Deleted(z)
    PROVE  SessionInv'
  <1> USE RequestAssumption DEF Deleted, Respond, SessionInv, SessionTypeOK, Requests, Posts, dictVars, handlerVars, jobVars
  <1>1. SessionTypeOK'
    BY DEF Places
  <1>2. AnswerInv'
    BY DEF AnswerInv
  <1>3. KeptInv'
    BY DEF KeptInv, AnswerInv
  <1>4. CancelInv'
    BY DEF CancelInv, AnswerInv, KeptInv, Before
  <1>5. GoneInv'
    BY DEF GoneInv, AnswerInv, Won, Before
  <1>6. FoundInv'
    BY DEF FoundInv, AnswerInv, KeptInv, Deleting, Before
  <1> QED BY <1>1, <1>2, <1>3, <1>4, <1>5, <1>6

\* Every step keeps the invariant.
LEMMA SessionNextInv == SessionInv /\ [SessionNext]_sessionVars => SessionInv'
  <1> SUFFICES ASSUME SessionInv, [SessionNext]_sessionVars PROVE SessionInv'
    OBVIOUS
  <1>1. CASE \E s \in Sessions : StoreSession(s) \/ CreateManager(s)
    BY <1>1, StoreSessionInv, CreateManagerInv
  <1>2. CASE \E q \in Submits : Submit(q)
    BY <1>2, FindSessionInv, FindManagerInv, RejectBodyInv, RegisterJobInv, StartJobInv DEF Submit, Posts
  <1>3. CASE \E u \in Uploads : Upload(u)
    BY <1>3, FindSessionInv, RejectBodyInv, AddPayloadInv DEF Upload, Posts
  <1>4. CASE \E x \in Gets : Get(x)
    BY <1>4, FindSessionInv, FindManagerOnlyInv, FetchInv DEF Get
  <1>5. CASE \E q \in Submits : CancelJob(q) \/ JobBegins(q) \/ \E end \in TERMINAL : JobEnds(q, end)
    BY <1>5, JobChangesInv
  <1>6. CASE \E d \in Deletes : Delete(d)
    BY <1>6, DropSessionInv, PopManagerInv, ListJobsInv, CancelListedInv, DeletedInv DEF Delete
  <1>7. CASE UNCHANGED sessionVars
    BY <1>7 DEF sessionVars, dictVars, handlerVars, jobVars, SessionInv, SessionTypeOK, AnswerInv,
        KeptInv, CancelInv, GoneInv, FoundInv, Won, Deleting, Before
  <1> QED BY <1>1, <1>2, <1>3, <1>4, <1>5, <1>6, <1>7 DEF SessionNext, AllAnswered

\* The invariant of sessions holds for every number of them, of requests and of
\* deletions.
THEOREM SessionsCorrect == SessionSpec => []SessionInv
  BY SessionInitInv, SessionNextInv, PTL DEF SessionSpec

\* A deletion that is answered has stopped every job announced before it was
\* asked for, whatever the jobs and other requests do meanwhile.
THEOREM DeleteStopsKnownJobsHolds == SessionSpec => []DeleteStopsKnownJobs
  <1>1. SessionInv => DeleteStopsKnownJobs
    BY DEF SessionInv, CancelInv, DeleteStopsKnownJobs
  <1> QED BY <1>1, SessionsCorrect, PTL

\* A session is deleted once, and what is asked of it after that is answered 404.
THEOREM DeletedIsGoneHolds == SessionSpec => []DeletedIsGone
  <1>1. SessionInv => DeletedIsGone
    BY DEF SessionInv, GoneInv, Won, DeletedIsGone
  <1> QED BY <1>1, SessionsCorrect, PTL

\* What was announced can be fetched until somebody begins to delete the session.
THEOREM AnnouncedCanBeFetchedHolds == SessionSpec => []AnnouncedCanBeFetched
  <1>1. SessionInv => AnnouncedCanBeFetched
    BY DEF SessionInv, FoundInv, Deleting, AnnouncedCanBeFetched
  <1> QED BY <1>1, SessionsCorrect, PTL

-----------------------------------------------------------------------------
(* EventStream: the inductive invariant.                                   *)

Entries == [index : Nat, event : Events]

\* Entries of the log carry their position, counted from 0.
IndexInv == \A k \in 1 .. Len(log) : log[k].index = k - 1

\* What was sent is a prefix of the log.
PrefixInv ==
    \A c \in Streams : /\ Len(sent[c]) <= Len(log)
                       /\ \A k \in 1 .. Len(sent[c]) : sent[c][k] = log[k]

\* Between batches the cursor counts what was sent.
CursorInv == \A c \in Streams : place[c] \in {"poll", "sleep"} => cursor[c] = Len(sent[c])

\* Within a batch, what is left of it follows in the log on what was sent.
FreshInv ==
    \A c \in Streams : place[c] = "send" =>
        /\ Len(sent[c]) + Len(fresh[c]) <= Len(log)
        /\ \A k \in 1 .. Len(fresh[c]) : fresh[c][k] = log[Len(sent[c]) + k]

StreamInv ==
    /\ StreamTypeOK
    /\ IndexInv
    /\ PrefixInv
    /\ CursorInv
    /\ FreshInv

-----------------------------------------------------------------------------
\* The invariant holds when the session is created: nothing is logged or sent.
LEMMA StreamInitInv == StreamInit => StreamInv
  <1> SUFFICES ASSUME StreamInit PROVE StreamInv
    OBVIOUS
  <1>1. StreamTypeOK
    BY StreamAssumption DEF StreamInit, StreamTypeOK
  <1>2. IndexInv /\ PrefixInv /\ CursorInv /\ FreshInv
    BY DEF StreamInit, IndexInv, PrefixInv, CursorInv, FreshInv
  <1> QED BY <1>1, <1>2 DEF StreamInv

\* What fits in n entries fits in n + 1, and positions after the first a of them
\* are positions of the n.
LEMMA FitsAfterAppend ==
    ASSUME NEW a \in Nat, NEW b \in Nat, NEW n \in Nat, a + b <= n
    PROVE  a + b <= n + 1 /\ \A k \in 1 .. b : a + k \in 1 .. n
  OBVIOUS

\* An append to the log leaves every prefix, and every pending batch, as it is.
LEMMA AppendEventStep ==
    ASSUME StreamInv, NEW e \in Events, AppendEvent(e)
    PROVE  StreamInv'
  <1> DEFINE entry == [index |-> Len(log), event |-> e]
  <1>1. log \in Seq(Entries) /\ entry \in Entries /\ log' = Append(log, entry)
    BY DEF StreamInv, StreamTypeOK, AppendEvent, Entries
  <1>2. /\ log' \in Seq(Entries)
        /\ Len(log') = Len(log) + 1
        /\ \A k \in 1 .. Len(log) : log'[k] = log[k]
        /\ log'[Len(log) + 1] = entry
    BY <1>1, AppendProperties
  <1>3. StreamTypeOK'
    BY <1>2 DEF StreamInv, StreamTypeOK, AppendEvent, Entries
  <1>4. IndexInv'
    BY <1>1, <1>2 DEF StreamInv, IndexInv
  <1>5. \A c \in Streams : Len(sent[c]) \in Nat /\ Len(fresh[c]) \in Nat
    BY DEF StreamInv, StreamTypeOK
  <1>6. Len(log) \in Nat
    BY <1>1
  <1>7. PrefixInv'
    BY <1>2, <1>5, <1>6 DEF StreamInv, PrefixInv, AppendEvent
  <1>8. FreshInv'
    <2> SUFFICES ASSUME NEW c \in Streams, place[c] = "send"
                 PROVE  /\ Len(sent[c]) + Len(fresh[c]) <= Len(log')
                        /\ \A k \in 1 .. Len(fresh[c]) : fresh[c][k] = log'[Len(sent[c]) + k]
      BY DEF FreshInv, AppendEvent
    <2>1. /\ Len(sent[c]) + Len(fresh[c]) <= Len(log)
          /\ \A k \in 1 .. Len(fresh[c]) : fresh[c][k] = log[Len(sent[c]) + k]
      BY DEF StreamInv, FreshInv
    <2>2. Len(sent[c]) \in Nat /\ Len(fresh[c]) \in Nat
      BY <1>5
    <2>3. Len(sent[c]) + Len(fresh[c]) <= Len(log) /\ Len(log') = Len(log) + 1
      BY <1>2, <2>1
    <2>4. ASSUME NEW k \in 1 .. Len(fresh[c]) PROVE fresh[c][k] = log'[Len(sent[c]) + k]
      <3>1. Len(sent[c]) + k \in 1 .. Len(log)
        BY <1>6, <2>1, <2>2, FitsAfterAppend
      <3> QED BY <1>2, <2>1, <3>1
    <2>5. Len(sent[c]) + Len(fresh[c]) <= Len(log')
      BY <1>6, <2>2, <2>3, FitsAfterAppend
    <2> QED BY <2>4, <2>5
  <1>9. CursorInv'
    BY DEF StreamInv, CursorInv, AppendEvent
  <1> QED BY <1>3, <1>4, <1>7, <1>8, <1>9 DEF StreamInv

\* A poll copies the part of the log that follows on what was sent.
LEMMA PollStep ==
    ASSUME StreamInv, NEW c \in Streams, Poll(c)
    PROVE  StreamInv'
  <1> DEFINE news == Since(cursor[c])
  <1>1. /\ log \in Seq(Entries)
        /\ sent \in [Streams -> Seq(Entries)] /\ fresh \in [Streams -> Seq(Entries)]
        /\ place \in [Streams -> {"off", "poll", "send", "sleep"}]
        /\ cursor \in [Streams -> Nat]
        /\ place[c] = "poll"
    BY DEF StreamInv, StreamTypeOK, Poll, Entries
  <1>2. /\ Len(log) \in Nat /\ cursor[c] \in Nat
        /\ cursor[c] = Len(sent[c]) /\ cursor[c] <= Len(log)
        /\ news \in Seq(Entries)
        /\ Len(news) = Len(log) - cursor[c]
        /\ \A k \in 1 .. Len(news) : news[k] = log[cursor[c] + k]
    <2> HIDE DEF Entries
    <2>1. Len(log) \in Nat /\ cursor[c] \in Nat
      BY <1>1
    <2>2. cursor[c] = Len(sent[c]) /\ cursor[c] <= Len(log)
      BY <1>1 DEF StreamInv, CursorInv, PrefixInv
    <2>3. \A k \in cursor[c] + 1 .. Len(log) : log[k] \in Entries
      BY <1>1, <2>1
    <2>4. /\ news \in Seq(Entries)
          /\ Len(news) = IF cursor[c] + 1 <= Len(log) THEN Len(log) - (cursor[c] + 1) + 1 ELSE 0
          /\ \A k \in 1 .. Len(log) - (cursor[c] + 1) + 1 : news[k] = log[cursor[c] + 1 + k - 1]
      BY <2>1, <2>3, SubSeqProperties DEF Since
    <2> HIDE DEF news
    <2>5. Len(news) = Len(log) - cursor[c]
      <3>1. CASE cursor[c] + 1 <= Len(log)
        BY <2>1, <2>4, <3>1
      <3>2. CASE ~(cursor[c] + 1 <= Len(log))
        <4>1. cursor[c] = Len(log)
          BY <2>1, <2>2, <3>2
        <4>2. Len(news) = 0
          BY <2>4, <3>2
        <4> QED BY <2>1, <4>1, <4>2
      <3> QED BY <3>1, <3>2
    <2>6. ASSUME NEW k \in 1 .. Len(news) PROVE news[k] = log[cursor[c] + k]
      <3>1. cursor[c] + 1 + k - 1 = cursor[c] + k /\ k \in 1 .. Len(log) - (cursor[c] + 1) + 1
        BY <2>1, <2>5
      <3> QED BY <2>4, <3>1
    <2> QED BY <2>1, <2>2, <2>4, <2>5, <2>6
  <1>3. fresh' = [fresh EXCEPT ![c] = news]
    BY DEF Poll
  <1>4. place' = [place EXCEPT ![c] = IF news # << >> THEN "send" ELSE "sleep"]
    BY DEF Poll
  <1>5. UNCHANGED <<log, cursor, idle, sent>>
    BY DEF Poll
  <1> HIDE DEF news
  <1>6. StreamTypeOK'
    BY <1>2, <1>3, <1>4, <1>5 DEF StreamInv, StreamTypeOK, Entries
  <1>7. IndexInv' /\ PrefixInv'
    BY <1>5 DEF StreamInv, IndexInv, PrefixInv
  <1>8. CursorInv'
    BY <1>1, <1>4, <1>5 DEF StreamInv, CursorInv, StreamTypeOK
  <1>9. FreshInv'
    <2> SUFFICES ASSUME NEW d \in Streams, place'[d] = "send"
                 PROVE  /\ Len(sent[d]) + Len(fresh'[d]) <= Len(log)
                        /\ \A k \in 1 .. Len(fresh'[d]) : fresh'[d][k] = log[Len(sent[d]) + k]
      BY <1>5 DEF FreshInv
    <2>1. CASE d = c
      <3>1. fresh'[d] = news
        BY <1>1, <1>3, <2>1
      <3>2. Len(sent[d]) + Len(news) = Len(log)
        BY <1>2, <2>1
      <3>3. Len(sent[d]) + Len(news) <= Len(log)
        BY <1>2, <3>2
      <3>4. \A k \in 1 .. Len(news) : news[k] = log[Len(sent[d]) + k]
        BY <1>2, <2>1
      <3> QED BY <3>1, <3>3, <3>4
    <2>2. CASE d # c
      <3>1. place[d] = "send" /\ fresh'[d] = fresh[d]
        BY <1>1, <1>3, <1>4, <2>2
      <3> QED BY <3>1 DEF StreamInv, FreshInv
    <2> QED BY <2>1, <2>2
  <1> QED BY <1>6, <1>7, <1>8, <1>9 DEF StreamInv

\* The first event of the batch is the one that follows on what was sent; after
\* the last one the cursor is its index plus one, the number of events sent.
LEMMA SendEventStep ==
    ASSUME StreamInv, NEW c \in Streams, SendEvent(c)
    PROVE  StreamInv'
  <1> DEFINE s == sent[c]
             f == fresh[c]
  <1>1. /\ place[c] = "send" /\ log' = log
        /\ sent' = [sent EXCEPT ![c] = Append(s, Head(f))]
        /\ fresh' = [fresh EXCEPT ![c] = Tail(f)]
        /\ IF Len(f) = 1
              THEN /\ cursor' = [cursor EXCEPT ![c] = Head(f).index + 1]
                   /\ idle' = [idle EXCEPT ![c] = 0]
                   /\ place' = [place EXCEPT ![c] = "poll"]
              ELSE UNCHANGED <<cursor, idle, place>>
    BY DEF SendEvent, CursorAfter
  <1>2. /\ sent \in [Streams -> Seq(Entries)] /\ fresh \in [Streams -> Seq(Entries)]
        /\ place \in [Streams -> {"off", "poll", "send", "sleep"}]
        /\ cursor \in [Streams -> Nat]
        /\ idle \in [Streams -> 0 .. KeepAlive - 1]
        /\ log \in Seq(Entries)
        /\ \A d \in Streams : place[d] = "send" => fresh[d] # << >>
    BY DEF StreamInv, StreamTypeOK, Entries
  <1>3. s \in Seq(Entries) /\ f \in Seq(Entries) /\ f # << >>
    BY <1>1, <1>2
  <1> HIDE DEF s, f
  <1>4. Len(log) \in Nat /\ Len(s) \in Nat /\ Len(f) \in Nat /\ Len(f) >= 1
    BY <1>2, <1>3
  <1>5. /\ Head(f) \in Entries /\ Head(f) = f[1]
        /\ Tail(f) \in Seq(Entries) /\ Len(Tail(f)) = Len(f) - 1
        /\ \A k \in 1 .. Len(f) - 1 : Tail(f)[k] = f[k + 1]
    BY <1>3, <1>4
  <1>6. /\ Append(s, Head(f)) \in Seq(Entries)
        /\ Len(Append(s, Head(f))) = Len(s) + 1
        /\ \A k \in 1 .. Len(s) : Append(s, Head(f))[k] = s[k]
        /\ Append(s, Head(f))[Len(s) + 1] = Head(f)
    BY <1>3, <1>5, AppendProperties
  <1>7. /\ Len(s) + Len(f) <= Len(log)
        /\ \A k \in 1 .. Len(f) : f[k] = log[Len(s) + k]
        /\ Len(s) <= Len(log)
        /\ \A k \in 1 .. Len(s) : s[k] = log[k]
    BY <1>1 DEF StreamInv, FreshInv, PrefixInv, s, f
  <1>8. Head(f) = log[Len(s) + 1]
    BY <1>4, <1>5, <1>7
  <1>9. Head(f).index = Len(s)
    <2>1. Len(s) + 1 \in 1 .. Len(log)
      BY <1>4, <1>7
    <2>2. log[Len(s) + 1].index = Len(s) + 1 - 1
      BY <2>1 DEF StreamInv, IndexInv
    <2> QED BY <1>4, <1>8, <2>2
  <1>10. \/ /\ Len(f) = 1
            /\ cursor' = [cursor EXCEPT ![c] = Len(s) + 1]
            /\ idle' = [idle EXCEPT ![c] = 0]
            /\ place' = [place EXCEPT ![c] = "poll"]
         \/ Len(f) # 1 /\ cursor' = cursor /\ idle' = idle /\ place' = place
    BY <1>1, <1>9
  <1>11. StreamTypeOK'
    <2>1. sent' \in [Streams -> Seq(Entries)] /\ fresh' \in [Streams -> Seq(Entries)]
      BY <1>1, <1>2, <1>5, <1>6
    <2>2. place' \in [Streams -> {"off", "poll", "send", "sleep"}]
      BY <1>2, <1>10
    <2>3. cursor' \in [Streams -> Nat]
      BY <1>2, <1>4, <1>10
    <2>4. idle' \in [Streams -> 0 .. KeepAlive - 1]
      <3>1. 0 \in 0 .. KeepAlive - 1
        BY StreamAssumption
      <3> QED BY <1>2, <1>10, <3>1
    <2>5. ASSUME NEW d \in Streams, place'[d] = "send" PROVE fresh'[d] # << >>
      <3>1. CASE d = c
        <4>1. Len(f) # 1
          BY <1>2, <1>10, <2>5, <3>1
        <4>2. Tail(f) # << >>
          BY <1>4, <1>5, <4>1
        <4>3. fresh'[d] = Tail(f)
          BY <1>1, <1>2, <3>1
        <4> QED BY <4>2, <4>3
      <3>2. CASE d # c
        BY <1>1, <1>2, <1>10, <2>5, <3>2
      <3> QED BY <3>1, <3>2
    <2> QED BY <1>1, <1>2, <2>1, <2>2, <2>3, <2>4, <2>5 DEF StreamTypeOK, Entries
  <1>12. ASSUME NEW d \in Streams
         PROVE  /\ d = c => sent'[d] = Append(s, Head(f)) /\ fresh'[d] = Tail(f)
                /\ d = c /\ Len(f) = 1 => cursor'[d] = Len(s) + 1 /\ place'[d] = "poll"
                /\ d = c /\ Len(f) # 1 => place'[d] = "send"
                /\ d # c => sent'[d] = sent[d] /\ fresh'[d] = fresh[d]
                /\ d # c => cursor'[d] = cursor[d] /\ place'[d] = place[d]
    <2>1. /\ d = c => sent'[d] = Append(s, Head(f)) /\ fresh'[d] = Tail(f)
          /\ d # c => sent'[d] = sent[d] /\ fresh'[d] = fresh[d]
      BY <1>1, <1>2
    <2>2. CASE Len(f) = 1
      BY <1>2, <1>10, <2>1, <2>2
    <2>3. CASE Len(f) # 1
      BY <1>1, <1>2, <1>10, <2>1, <2>3
    <2> QED BY <2>2, <2>3
  <1>13. PrefixInv'
    <2> SUFFICES ASSUME NEW d \in Streams
                 PROVE  /\ Len(sent'[d]) <= Len(log)
                        /\ \A k \in 1 .. Len(sent'[d]) : sent'[d][k] = log[k]
      BY <1>1 DEF PrefixInv
    <2>1. CASE d = c
      <3>1. Len(sent'[d]) = Len(s) + 1 /\ Len(s) + 1 <= Len(log)
        BY <1>4, <1>6, <1>7, <1>12, <2>1
      <3>2. ASSUME NEW k \in 1 .. Len(s) + 1 PROVE Append(s, Head(f))[k] = log[k]
        BY <1>4, <1>6, <1>7, <1>8
      <3> QED BY <1>12, <2>1, <3>1, <3>2
    <2>2. CASE d # c
      BY <1>12, <2>2 DEF StreamInv, PrefixInv
    <2> QED BY <2>1, <2>2
  <1>14. CursorInv'
    BY <1>6, <1>12 DEF StreamInv, CursorInv
  <1>15. FreshInv'
    <2> SUFFICES ASSUME NEW d \in Streams, place'[d] = "send"
                 PROVE  /\ Len(sent'[d]) + Len(fresh'[d]) <= Len(log')
                        /\ \A k \in 1 .. Len(fresh'[d]) : fresh'[d][k] = log'[Len(sent'[d]) + k]
      BY DEF FreshInv
    <2>1. CASE d = c
      <3>1. ASSUME NEW k \in 1 .. Len(f) - 1 PROVE Tail(f)[k] = log[Len(s) + 1 + k]
        <4>1. k + 1 \in 1 .. Len(f) /\ Len(s) + (k + 1) = Len(s) + 1 + k
          BY <1>4
        <4>2. Tail(f)[k] = f[k + 1] /\ f[k + 1] = log[Len(s) + (k + 1)]
          BY <1>5, <1>7, <4>1
        <4> QED BY <4>1, <4>2
      <3>2. /\ sent'[d] = Append(s, Head(f)) /\ fresh'[d] = Tail(f) /\ log' = log
            /\ Len(sent'[d]) = Len(s) + 1 /\ Len(fresh'[d]) = Len(f) - 1
        BY <1>1, <1>5, <1>6, <1>12, <2>1
      <3>3. Len(sent'[d]) + Len(fresh'[d]) <= Len(log')
        <4>1. Len(s) + Len(f) <= Len(log)
          BY <1>7
        <4>2. Len(s) + 1 + (Len(f) - 1) <= Len(log)
          BY <1>4, <4>1
        <4> QED BY <3>2, <4>2
      <3>4. \A k \in 1 .. Len(fresh'[d]) : fresh'[d][k] = log'[Len(sent'[d]) + k]
        BY <3>1, <3>2
      <3> QED BY <3>3, <3>4
    <2>2. CASE d # c
      <3>1. place[d] = "send" /\ sent'[d] = sent[d] /\ fresh'[d] = fresh[d] /\ log' = log
        BY <1>1, <1>12, <2>2
      <3> QED BY <3>1 DEF StreamInv, FreshInv
    <2> QED BY <2>1, <2>2
  <1>16. IndexInv'
    BY <1>1 DEF StreamInv, IndexInv
  <1> QED BY <1>11, <1>13, <1>14, <1>15, <1>16 DEF StreamInv

\* Every step preserves the invariant.
LEMMA StreamNextInv == StreamInv /\ [StreamNext]_streamVars => StreamInv'
  <1> SUFFICES ASSUME StreamInv, [StreamNext]_streamVars PROVE StreamInv'
    OBVIOUS
  <1>1. CASE \E e \in Events : AppendEvent(e)
    BY <1>1, AppendEventStep
  <1>2. ASSUME NEW c \in Streams, Connect(c) PROVE StreamInv'
    <2>1. StreamTypeOK'
      <3>1. << >> \in Seq([index : Nat, event : Events]) /\ 0 \in 0 .. KeepAlive - 1
        BY StreamAssumption
      <3> QED BY <1>2, <3>1 DEF Connect, StreamInv, StreamTypeOK
    <2>2. IndexInv' /\ CursorInv' /\ FreshInv'
      BY <1>2 DEF Connect, StreamInv, StreamTypeOK, IndexInv, CursorInv, FreshInv
    <2>3. PrefixInv'
      <3>1. Len(log) >= 0
        BY DEF StreamInv, StreamTypeOK
      <3> QED BY <1>2, <3>1 DEF Connect, StreamInv, StreamTypeOK, PrefixInv
    <2> QED BY <2>1, <2>2, <2>3 DEF StreamInv
  <1>3. ASSUME NEW c \in Streams, Poll(c) PROVE StreamInv'
    BY <1>3, PollStep
  <1>4. ASSUME NEW c \in Streams, SendEvent(c) PROVE StreamInv'
    BY <1>4, SendEventStep
  <1>5. ASSUME NEW c \in Streams, Sleep(c) PROVE StreamInv'
    <2>1. NextIdle(c) \in 0 .. KeepAlive - 1
      BY StreamAssumption DEF NextIdle, StreamInv, StreamTypeOK
    <2>2. StreamTypeOK'
      BY <1>5, <2>1 DEF Sleep, StreamInv, StreamTypeOK
    <2>3. IndexInv' /\ PrefixInv' /\ CursorInv' /\ FreshInv'
      BY <1>5 DEF Sleep, StreamInv, StreamTypeOK, IndexInv, PrefixInv, CursorInv, FreshInv
    <2> QED BY <2>2, <2>3 DEF StreamInv
  <1>6. ASSUME NEW c \in Streams, Disconnect(c) PROVE StreamInv'
    BY <1>6 DEF Disconnect, StreamInv, StreamTypeOK, IndexInv, PrefixInv, CursorInv, FreshInv
  <1>7. CASE UNCHANGED streamVars
    BY <1>7 DEF streamVars, StreamInv, StreamTypeOK, IndexInv, PrefixInv, CursorInv, FreshInv
  <1> QED BY <1>1, <1>2, <1>3, <1>4, <1>5, <1>6, <1>7 DEF StreamNext, Serve

\* The generators' locals keep their types: no batch is empty when it is sent, and
\* the count of idle polls stays below the keepalive.
THEOREM StreamTypeCorrect == StreamSafety => []StreamTypeOK
  <1>1. StreamInv => StreamTypeOK
    BY DEF StreamInv
  <1> QED BY <1>1, StreamInitInv, StreamNextInv, PTL DEF StreamSafety

\* What the client of GET .../events is sent is the log from its beginning, in
\* order and without a gap, whatever the jobs append meanwhile.
THEOREM SentIsPrefixHolds == StreamSafety => []SentIsPrefix
  <1>1. StreamInv => SentIsPrefix
    <2> SUFFICES ASSUME StreamInv, NEW c \in Streams, NEW k \in 1 .. Len(sent[c])
                 PROVE  sent[c][k] = log[k] /\ sent[c][k].index = k - 1
      BY DEF StreamInv, PrefixInv, SentIsPrefix
    <2>1. Len(sent[c]) \in Nat /\ Len(log) \in Nat /\ Len(sent[c]) <= Len(log)
      BY DEF StreamInv, StreamTypeOK, PrefixInv
    <2>2. sent[c][k] = log[k] /\ log[k].index = k - 1
      BY <2>1 DEF StreamInv, PrefixInv, IndexInv
    <2> QED BY <2>2
  <1> QED BY <1>1, StreamInitInv, StreamNextInv, PTL DEF StreamSafety

-----------------------------------------------------------------------------
(* SessionStreams implements EventStream and SessionLife.                  *)

\* Every step of the composition is a step of a stream or leaves the streams as
\* they are.
LEMMA StreamStepOrStutter == [ComposedNext]_allVars => [StreamNext]_streamVars
  <1> SUFFICES ASSUME ComposedNext PROVE [StreamNext]_streamVars
    BY DEF allVars, streamVars
  <1>1. CASE SessionStep
    BY <1>1 DEF SessionStep
  <1>2. CASE \E q \in Submits : StartAndTell(q) \/ BeginAndTell(q) \/ CloseJob(q)
    <2>1. PICK e : AppendEvent(e)
      BY <1>2 DEF StartAndTell, BeginAndTell, CloseJob
    <2>2. e \in Events
      BY <2>1 DEF AppendEvent
    <2> QED BY <2>1, <2>2 DEF StreamNext
  <1>3. CASE \E c \in Streams : ConnectIfManaged(c) \/ StreamStep(c)
    BY <1>3 DEF ConnectIfManaged, StreamStep, StreamNext
  <1>4. CASE \E c \in Streams : Disconnect(c) /\ UNCHANGED sessionVars
    BY <1>4 DEF StreamNext
  <1>5. CASE AllAnswered /\ UNCHANGED streamVars
    BY <1>5
  <1> QED BY <1>1, <1>2, <1>3, <1>4, <1>5 DEF ComposedNext

\* And a step of a handler or a job, or one that leaves the sessions as they are.
LEMMA SessionStepOrStutter == [ComposedNext]_allVars => [SessionNext]_sessionVars
  <1> SUFFICES ASSUME ComposedNext PROVE [SessionNext]_sessionVars
    BY DEF allVars, sessionVars
  <1>1. CASE SessionStep
    BY <1>1 DEF SessionStep, SessionNext, Submit
  <1>2. CASE \E q \in Submits : StartAndTell(q) \/ BeginAndTell(q) \/ CloseJob(q)
    BY <1>2 DEF StartAndTell, BeginAndTell, CloseJob, SessionNext, Submit
  <1>3. CASE \E c \in Streams : ConnectIfManaged(c) \/ StreamStep(c)
    BY <1>3 DEF ConnectIfManaged, StreamStep
  <1>4. CASE \E c \in Streams : Disconnect(c) /\ UNCHANGED sessionVars
    BY <1>4
  <1>5. CASE AllAnswered /\ UNCHANGED streamVars
    BY <1>5 DEF SessionNext
  <1> QED BY <1>1, <1>2, <1>3, <1>4, <1>5 DEF ComposedNext

\* The streams of a session, which may be deleted at any moment, are streams as
\* EventStream specifies them (the safety part of StreamsGoOn).
THEOREM ComposedIsStream == ComposedSafety => StreamSafety
  <1>1. ComposedInit => StreamInit
    BY DEF ComposedInit
  <1> QED BY <1>1, StreamStepOrStutter, PTL DEF ComposedSafety, StreamSafety

\* The handlers and jobs, with the log they write and the clients that read it,
\* are as SessionLife specifies them.
THEOREM ComposedIsSession == ComposedSafety => SessionSpec
  <1>1. ComposedInit => SessionInit
    BY DEF ComposedInit
  <1> QED BY <1>1, SessionStepOrStutter, PTL DEF ComposedSafety, SessionSpec

\* So in the composed server, too, a client is sent a prefix of the log, what is
\* deleted is gone, and a deletion stops the jobs the client knew of.
THEOREM ComposedCorrect ==
    ComposedSafety => [](SentIsPrefix /\ DeletedIsGone /\ DeleteStopsKnownJobs)
  BY ComposedIsStream, ComposedIsSession, SentIsPrefixHolds, DeletedIsGoneHolds,
     DeleteStopsKnownJobsHolds, PTL

=============================================================================
