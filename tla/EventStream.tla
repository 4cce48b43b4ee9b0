---------------------------- MODULE EventStream ----------------------------
(***************************************************************************)
(* The event log of a session (EventLog, jobs.py), appended to by the      *)
(* threads of its jobs, and the SSE responses that follow it (events,      *)
(* app.py): each polls the log from its own cursor, sends what is new one  *)
(* event at a time, and sends a keepalive when it was idle for long.       *)
(***************************************************************************)
EXTENDS Naturals, Sequences

CONSTANTS
    Events,     \* what the jobs' threads have to say, each once
    Streams,    \* connections to GET .../events
    KeepAlive   \* polls after which an idle stream sends a comment

ASSUME StreamAssumption == KeepAlive \in Nat \ {0}

VARIABLES
    log,     \* the list _events, as records of an index and an event
    place,   \* place[c]: where the generator of c stands
    cursor,  \* cursor[c]
    fresh,   \* fresh[c]: rest of the last result of since(cursor) to be sent
    idle,    \* idle[c]: polls without news since something was sent
    sent     \* sent[c]: the events the client of c was sent since it connected

streamVars == <<log, place, cursor, fresh, idle, sent>>

Said == { log[k].event : k \in DOMAIN log }

StreamInit ==
    /\ log = << >>
    /\ place = [c \in Streams |-> "off"]
    /\ cursor = [c \in Streams |-> 0]
    /\ fresh = [c \in Streams |-> << >>]
    /\ idle = [c \in Streams |-> 0]
    /\ sent = [c \in Streams |-> << >>]

\* EventLog.append, under the condition's lock.
AppendEvent(e) ==
    /\ e \in Events \ Said
    /\ log' = Append(log, [index |-> Len(log), event |-> e])
    /\ UNCHANGED <<place, cursor, fresh, idle, sent>>

\* A client connects: the generator begins at the start of the log.
Connect(c) ==
    /\ place[c] = "off"
    /\ place' = [place EXCEPT ![c] = "poll"]
    /\ cursor' = [cursor EXCEPT ![c] = 0]
    /\ fresh' = [fresh EXCEPT ![c] = << >>]
    /\ idle' = [idle EXCEPT ![c] = 0]
    /\ sent' = [sent EXCEPT ![c] = << >>]
    /\ UNCHANGED log

\* Mutant: the slice stops short of the last event.
SinceButLast(index) == SubSeq(log, index + 1, Len(log) - 1)

\* EventLog.since: a copy of the list from index on.
Since(index) == SubSeq(log, index + 1, Len(log))

\* The head of the loop: is there anything new?
Poll(c) ==
    /\ place[c] = "poll"
    /\ fresh' = [fresh EXCEPT ![c] = Since(cursor[c])]
    /\ place' = [place EXCEPT ![c] = IF Since(cursor[c]) # << >> THEN "send" ELSE "sleep"]
    /\ UNCHANGED <<log, cursor, idle, sent>>

\* Mutant: the cursor stays on the last event sent.
CursorAfterLast(event) == event.index

\* fresh[-1].index + 1
CursorAfter(event) == event.index + 1

\* yield event.sse(); after the last one the cursor is moved past it.
SendEvent(c) ==
    LET event == Head(fresh[c]) IN
    /\ place[c] = "send"
    /\ sent' = [sent EXCEPT ![c] = Append(@, event)]
    /\ fresh' = [fresh EXCEPT ![c] = Tail(@)]
    /\ IF Len(fresh[c]) = 1
          THEN /\ cursor' = [cursor EXCEPT ![c] = CursorAfter(event)]
               /\ idle' = [idle EXCEPT ![c] = 0]
               /\ place' = [place EXCEPT ![c] = "poll"]
          ELSE UNCHANGED <<cursor, idle, place>>
    /\ UNCHANGED log

\* Mutant: the count is not begun anew.
NextIdleNoReset(c) == idle[c] + 1

\* `idle` after one more poll without news: a keepalive begins it anew.
NextIdle(c) == IF idle[c] + 1 >= KeepAlive THEN 0 ELSE idle[c] + 1

\* await asyncio.sleep, and perhaps the keepalive.
Sleep(c) ==
    /\ place[c] = "sleep"
    /\ idle' = [idle EXCEPT ![c] = NextIdle(c)]
    /\ place' = [place EXCEPT ![c] = "poll"]
    /\ UNCHANGED <<log, cursor, fresh, sent>>

\* The client goes away; the generator is closed where it waits.
Disconnect(c) ==
    /\ place[c] \in {"send", "sleep"}
    /\ place' = [place EXCEPT ![c] = "off"]
    /\ UNCHANGED <<log, cursor, fresh, idle, sent>>

Serve(c) == Poll(c) \/ SendEvent(c) \/ Sleep(c)

StreamNext ==
    \/ \E e \in Events : AppendEvent(e)
    \/ \E c \in Streams : Connect(c) \/ Serve(c) \/ Disconnect(c)

StreamSafety == StreamInit /\ [][StreamNext]_streamVars

\* The event loop serves every open connection.  Jobs may say nothing more and
\* clients may come and go as they like.
StreamSpec == StreamSafety /\ \A c \in Streams : WF_streamVars(Serve(c))

-----------------------------------------------------------------------------
(* Properties.                                                             *)

\* Locals of the generators, in their ranges.
StreamTypeOK ==
    /\ log \in Seq([index : Nat, event : Events])
    /\ place \in [Streams -> {"off", "poll", "send", "sleep"}]
    /\ cursor \in [Streams -> Nat]
    /\ fresh \in [Streams -> Seq([index : Nat, event : Events])]
    /\ idle \in [Streams -> 0 .. KeepAlive - 1]
    /\ sent \in [Streams -> Seq([index : Nat, event : Events])]
    /\ \A c \in Streams : place[c] = "send" => fresh[c] # << >>

\* "An incrementing `id:` field" (ADR 0007): what a client was sent is the log
\* from its beginning, in order, with no event lost, repeated or invented,
\* however the appends of the jobs interleave with polling and sending.
SentIsPrefix ==
    \A c \in Streams : /\ Len(sent[c]) <= Len(log)
                       /\ \A k \in 1 .. Len(sent[c]) : /\ sent[c][k] = log[k]
                                                       /\ sent[c][k].index = k - 1

\* A client that stays connected is sent every event: what was in the log at
\* some time is sent, unless the client goes away.
EveryEventIsSent ==
    \A c \in Streams, e \in Events :
        (e \in Said /\ place[c] # "off") ~>
            (place[c] = "off" \/ \E k \in DOMAIN sent[c] : sent[c][k].event = e)

=============================================================================
