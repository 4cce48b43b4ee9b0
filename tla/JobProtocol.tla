---------------------------- MODULE JobProtocol ----------------------------
(***************************************************************************)
(* What the event log of a session says about one job, whatever the        *)
(* threads behind it do: the statuses in order, a node once and after the  *)
(* nodes it depends on, an output once, after its node and, in a pinned    *)
(* group, after the outputs listed before it; "completed" only when        *)
(* nothing is missing; one closing event, and nothing after it.            *)
(***************************************************************************)
EXTENDS Naturals, Sequences, Functions

CONSTANTS
    JobNodes,      \* the nodes of the graph
    DependsOn,     \* DependsOn[n]: the nodes n reads from
    JobOutputs,    \* the requested outputs
    ProducedBy,    \* ProducedBy[i]: the node of output i
    ListedBefore   \* ListedBefore[i]: outputs of i's pinned group before i

VARIABLE log       \* the events of the job, oldest first

Ends == {"completed", "failed", "cancelled"}

Said(e)     == e \in Range(log)
NodesTold   == { n \in JobNodes : \E c \in BOOLEAN : Said([node |-> n, cached |-> c]) }
Shown       == { i \in JobOutputs : Said([output |-> i]) }
IsRunning   == Said([status |-> "running"]) /\ \A e \in Ends : ~Said([status |-> e])

TellPending ==
    /\ log = << >>
    /\ log' = <<[status |-> "pending"]>>

TellRunning ==
    /\ log = <<[status |-> "pending"]>>
    /\ log' = Append(log, [status |-> "running"])

TellNode(n, c) ==
    /\ IsRunning
    /\ n \notin NodesTold
    /\ DependsOn[n] \subseteq NodesTold
    /\ log' = Append(log, [node |-> n, cached |-> c])

Show(i) ==
    /\ IsRunning
    /\ i \notin Shown
    /\ ProducedBy[i] \in NodesTold
    /\ ListedBefore[i] \subseteq Shown
    /\ log' = Append(log, [output |-> i])

TellEnd(e) ==
    /\ IsRunning
    /\ e = "completed" => NodesTold = JobNodes /\ Shown = JobOutputs
    /\ log' = Append(log, [status |-> e])

Close(e) ==
    /\ Said([status |-> e])
    /\ ~Said([end |-> e])
    /\ log' = Append(log, [end |-> e])

Tell ==
    \/ TellPending
    \/ TellRunning
    \/ \E n \in JobNodes, c \in BOOLEAN : TellNode(n, c)
    \/ \E i \in JobOutputs : Show(i)
    \/ \E e \in Ends : TellEnd(e)
    \/ \E e \in Ends : Close(e)

ProtocolSafety == log = << >> /\ [][Tell]_log

\* Until the job is closed there is always something to tell (that it failed,
\* if nothing else), and it is told: every job ends with its closing event.
ProtocolSpec == ProtocolSafety /\ WF_log(Tell)

=============================================================================
