--------------------------- MODULE WorkerService ---------------------------
(***************************************************************************)
(* What the worker of an extension promises to the runs of its modules,    *)
(* whatever becomes of its processes, pipes and timers: one run is served  *)
(* at a time; a run gets what its own module answered, and an error only   *)
(* when there is no answer; after the server's exit nothing is served.     *)
(***************************************************************************)
CONSTANTS
    Runs,      \* the runs of the extension's modules
    Nobody

VARIABLES
    served,    \* the run being served
    answer,    \* answer[r]: what r's module has answered, {} or one outcome
    outcome,   \* outcome[r]: what r was told
    closed     \* the server has exited

serviceVars == <<served, answer, outcome, closed>>

Answers  == {"ok", "module error"}
Failures == {"not started", "pipe failed", "timed out", "worker exited", "invalid output"}

ServiceInit ==
    /\ served = Nobody
    /\ answer = [r \in Runs |-> {}]
    /\ outcome = [r \in Runs |-> "none"]
    /\ closed = FALSE

Begin(r) ==
    /\ served = Nobody /\ ~closed
    /\ outcome[r] = "none"
    /\ served' = r
    /\ UNCHANGED <<answer, outcome, closed>>

AnswerRun(r, a) ==
    /\ served = r /\ answer[r] = {}
    /\ answer' = [answer EXCEPT ![r] = {a}]
    /\ UNCHANGED <<served, outcome, closed>>

\* An answer is handed on, however late.
End(r) ==
    /\ served = r
    /\ \E told \in IF answer[r] = {} THEN Failures ELSE answer[r] :
           outcome' = [outcome EXCEPT ![r] = told]
    /\ served' = Nobody
    /\ UNCHANGED <<answer, closed>>

CloseDown ==
    /\ served = Nobody /\ ~closed
    /\ closed' = TRUE
    /\ UNCHANGED <<served, answer, outcome>>

ServiceNext ==
    \/ \E r \in Runs : Begin(r) \/ (\E a \in Answers : AnswerRun(r, a)) \/ End(r)
    \/ CloseDown

ServiceSafety == ServiceInit /\ [][ServiceNext]_serviceVars

\* A run is served in the end, and then told something.
ServiceSpec == ServiceSafety /\ \A r \in Runs : WF_serviceVars(Begin(r)) /\ WF_serviceVars(End(r))

=============================================================================
