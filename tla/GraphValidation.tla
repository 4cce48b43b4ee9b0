-------------------------- MODULE GraphValidation --------------------------
(***************************************************************************)
(* parse_graph, validate_graph (graph.py) and what relies on them: a graph *)
(* is parsed and validated when a job is submitted (app.py) and validated  *)
(* again by execute_graph, which then looks up modules, payloads, edges,   *)
(* groups and outputs without a check.  A document is a client's JSON: a   *)
(* record of lists of records, in which anything may be missing or be of   *)
(* another JSON type (Bad).                                                *)
(***************************************************************************)
EXTENDS Naturals, Sequences, FiniteSets, Functions

CONSTANTS
    Documents,  \* the documents a client may submit
    Manifests,  \* Manifests[m]: the lists of input and output ports of module
                \* m, each a [name, type]; a name may be in a list twice
    Core,       \* modules registered from the start
    Payloads,   \* Payloads[p]: the type of payload p of the session
    NoGroup,    \* the group of an output reference that names none (null)
    Bad         \* a JSON value of another type than the one required

Orders == {"completion", "pinned"}

VARIABLES
    doc,       \* the "graph" of the request's body
    graph,     \* the Graph made of it
    registry,  \* names in the module registry
    stage,     \* how far the request and then its job are
    ran,       \* ids of the nodes run
    received   \* received[n]: type of what each input port of n was given

graphVars == <<doc, graph, registry, stage, ran, received>>

-----------------------------------------------------------------------------
(* parse_graph.                                                            *)

\* What the entries of each list must have, as strings.
Required ==
    [nodes |-> {"id", "module"}, edges |-> {"from_node", "from_port", "to_node", "to_port"},
     bindings |-> {"payload", "node", "port"}, outputs |-> {"node", "port"}, groups |-> {"id"}]

\* What they may have, and must then be of the right type.
Optional ==
    [nodes |-> {"params"}, edges |-> {}, bindings |-> {}, outputs |-> {"group"}, groups |-> {"order"}]

Field(entry, name, default) == IF name \in DOMAIN entry THEN entry[name] ELSE default

EntryBad(list, entry) ==
    \/ entry = Bad
    \/ \E f \in Required[list] : Field(entry, f, Bad) = Bad
    \/ \E f \in Optional[list] \cap DOMAIN entry : entry[f] = Bad

\* The whole is no object, a list is none, or one of its entries is not right.
Malformed(d) ==
    \/ d = Bad
    \/ \E list \in DOMAIN Required \cap DOMAIN d :
          d[list] = Bad \/ \E i \in DOMAIN d[list] : EntryBad(list, d[list][i])

List(d, name) == Field(d, name, << >>)

\* A list of a JSON document is an array.
ASSUME DocumentsAssumption ==
    \A d \in Documents \ {Bad} : \A list \in DOMAIN Required \cap DOMAIN d :
        d[list] = Bad \/ d[list] \in Seq(Range(d[list]))

\* Every module that is registered has a manifest, with lists of ports.
ASSUME ManifestsAssumption ==
    /\ Core \subseteq DOMAIN Manifests
    /\ \A m \in DOMAIN Manifests :
          /\ Manifests[m].inputs \in Seq(Range(Manifests[m].inputs))
          /\ Manifests[m].outputs \in Seq(Range(Manifests[m].outputs))

\* The Graph: what is not known is ignored, what may be missing has a default.
Parse(d) ==
    LET take(name, names) == [i \in DOMAIN List(d, name) |-> [f \in names |-> List(d, name)[i][f]]] IN
    [nodes    |-> [i \in DOMAIN List(d, "nodes") |->
                     LET n == List(d, "nodes")[i]
                     IN  [id |-> n.id, module |-> n.module, params |-> Field(n, "params", << >>)]],
     edges    |-> take("edges", Required.edges),
     bindings |-> take("bindings", Required.bindings),
     outputs  |-> [i \in DOMAIN List(d, "outputs") |->
                     LET o == List(d, "outputs")[i]
                     IN  [node |-> o.node, port |-> o.port, group |-> Field(o, "group", NoGroup)]],
     groups   |-> [i \in DOMAIN List(d, "groups") |->
                     LET k == List(d, "groups")[i]
                     IN  [id |-> k.id, order |-> Field(k, "order", "completion")]]]

-----------------------------------------------------------------------------
(* validate_graph and topological_order.                                   *)

Ids(g) == { g.nodes[i].id : i \in DOMAIN g.nodes }

\* nodes_by_id: a later node of the same id replaces an earlier one.
ModuleOf(g, n) ==
    LET last == CHOOSE i \in DOMAIN g.nodes :
                    g.nodes[i].id = n /\ \A j \in DOMAIN g.nodes : g.nodes[j].id = n => j <= i
    IN  g.nodes[last].module

Known(g, n) == n \in Ids(g) /\ ModuleOf(g, n) \in registry

\* The places of a port's name in a list of ports.
Named(ports, q) == { i \in DOMAIN ports : ports[i].name = q }

\* input_port and output_port take the first port of a name ...
FirstType(ports, q) == ports[CHOOSE i \in Named(ports, q) : \A j \in Named(ports, q) : i <= j].type

\* ... and the dict a module's results are held against keeps the last.
LastType(ports, q) == ports[CHOOSE i \in Named(ports, q) : \A j \in Named(ports, q) : j <= i].type

InputsOfModule(g, n)  == Manifests[ModuleOf(g, n)].inputs
OutputsOfModule(g, n) == Manifests[ModuleOf(g, n)].outputs

HasOutput(g, n, q) == Known(g, n) /\ Named(OutputsOfModule(g, n), q) # {}
HasInput(g, n, q)  == Known(g, n) /\ Named(InputsOfModule(g, n), q) # {}
OutputType(g, n, q) == FirstType(OutputsOfModule(g, n), q)
InputType(g, n, q)  == FirstType(InputsOfModule(g, n), q)

DuplicateIds(s) == \E i, j \in DOMAIN s : i # j /\ s[i].id = s[j].id

NodesBad(g) ==
    \/ g.nodes = << >> \/ DuplicateIds(g.nodes)
    \/ \E i \in DOMAIN g.nodes : g.nodes[i].module \notin registry

\* Mutant: only the ends are looked up, the types are not compared.
EdgeBadNoType(g, e) ==
    ~HasOutput(g, e.from_node, e.from_port) \/ ~HasInput(g, e.to_node, e.to_port)

EdgeBad(g, e) ==
    \/ ~HasOutput(g, e.from_node, e.from_port)
    \/ ~HasInput(g, e.to_node, e.to_port)
    \/ OutputType(g, e.from_node, e.from_port) # InputType(g, e.to_node, e.to_port)

BindingBad(g, b) ==
    \/ ~HasInput(g, b.node, b.port)
    \/ b.payload \notin DOMAIN Payloads
    \/ Payloads[b.payload] # InputType(g, b.node, b.port)

\* How many edges and bindings feed a port.
Fed(g, n, q) ==
    Cardinality({ i \in DOMAIN g.edges : g.edges[i].to_node = n /\ g.edges[i].to_port = q })
    + Cardinality({ i \in DOMAIN g.bindings : g.bindings[i].node = n /\ g.bindings[i].port = q })

\* Mutant: a port fed twice is tolerated, and so is one not fed at all.
InputsBadAtMost(g, n) == \E port \in Range(InputsOfModule(g, n)) : Fed(g, n, port.name) > 1

InputsBad(g, n) == \E port \in Range(InputsOfModule(g, n)) : Fed(g, n, port.name) # 1

GroupsBad(g) ==
    \/ DuplicateIds(g.groups)
    \/ \E i \in DOMAIN g.groups : g.groups[i].id = "" \/ g.groups[i].order \notin Orders

GroupDeclared(g, o) == o.group = NoGroup \/ \E j \in DOMAIN g.groups : g.groups[j].id = o.group

OutputBad(g, i) ==
    LET o == g.outputs[i] IN
    \/ \E j \in 1 .. i - 1 : g.outputs[j].node = o.node /\ g.outputs[j].port = o.port
    \/ ~HasOutput(g, o.node, o.port)
    \/ ~GroupDeclared(g, o)

Predecessors(g, n) == { g.edges[i].from_node : i \in { j \in DOMAIN g.edges : g.edges[j].to_node = n } }

\* The nodes of the TopologicalSorter: those of the graph and every edge's ends.
SorterNodes(g) ==
    Ids(g) \cup { e.from_node : e \in Range(g.edges) } \cup { e.to_node : e \in Range(g.edges) }

\* Mutant: an edge from a node to itself is overlooked.
HasCycleNoLoops(g) ==
    LET rounds == Cardinality(SorterNodes(g))
        left[k \in 0 .. rounds] ==
            IF k = 0 THEN SorterNodes(g)
            ELSE { n \in left[k - 1] : (Predecessors(g, n) \ {n}) \cap left[k - 1] # {} }
    IN  left[rounds] # {}

\* topological_order: nodes without a predecessor left are taken away, round
\* by round; the graph has a cycle if some are left in the end.
HasCycle(g) ==
    LET rounds == Cardinality(SorterNodes(g))
        left[k \in 0 .. rounds] ==
            IF k = 0 THEN SorterNodes(g)
            ELSE { n \in left[k - 1] : Predecessors(g, n) \cap left[k - 1] # {} }
    IN  left[rounds] # {}

\* validate_graph returns no error.
IsValid(g) ==
    /\ ~NodesBad(g)
    /\ g.outputs # << >>
    /\ \A e \in Range(g.edges) : ~EdgeBad(g, e)
    /\ \A b \in Range(g.bindings) : ~BindingBad(g, b)
    /\ \A n \in Ids(g) : ~InputsBad(g, n)
    /\ ~GroupsBad(g)
    /\ \A i \in DOMAIN g.outputs : ~OutputBad(g, i)
    /\ ~HasCycle(g)

-----------------------------------------------------------------------------
(* The request and its job.                                                *)

GraphInit ==
    /\ doc \in Documents
    /\ graph = Parse(<< >>)
    /\ registry = Core
    /\ stage = "request"
    /\ ran = {}
    /\ received = << >>

\* submit_job: 422, or a job.
SubmitGraph ==
    /\ stage = "request"
    /\ graph' = IF Malformed(doc) THEN graph ELSE Parse(doc)
    /\ stage' = IF ~Malformed(doc) /\ IsValid(Parse(doc)) THEN "accepted" ELSE "rejected"
    /\ UNCHANGED <<doc, registry, ran, received>>

\* _run reads group_orders[ref.group] for every output, outside its try; then
\* execute_graph validates again.
BeginRun ==
    /\ stage = "accepted"
    /\ stage' = IF /\ \A o \in Range(graph.outputs) : GroupDeclared(graph, o)
                   /\ IsValid(graph)
                THEN "running" ELSE "failed"
    /\ UNCHANGED <<doc, graph, registry, ran, received>>

\* The entry of edge_into or binding_into for a port fed by F: the last in s.
LastFeed(s, F) ==
    LET feeds == { i \in DOMAIN s : s[i] \in F }
    IN  s[CHOOSE i \in feeds : \A j \in feeds : j <= i]

BoundTo(n, q) == { b \in Range(graph.bindings) : b.node = n /\ b.port = q }
EdgesTo(n, q) == { e \in Range(graph.edges) : e.to_node = n /\ e.to_port = q }

\* The names of n's input ports.
InputNames(n) == { port.name : port \in Range(InputsOfModule(graph, n)) }

\* run_node finds no module, payload, edge or result for an input of n.
LookupFails(n) ==
    \/ ModuleOf(graph, n) \notin registry
    \/ \E q \in InputNames(n) :
          IF BoundTo(n, q) # {}
             THEN \E b \in BoundTo(n, q) : b.payload \notin DOMAIN Payloads
             ELSE \/ EdgesTo(n, q) = {}
                  \/ \E e \in EdgesTo(n, q) : \/ e.from_node \notin ran
                                              \/ ~HasOutput(graph, e.from_node, e.from_port)

\* What the ports of n are given: a binding is looked for before an edge, whose
\* result is of the type it was held against.
InputsOf(n) ==
    [q \in InputNames(n) |->
        IF BoundTo(n, q) # {}
           THEN Payloads[LastFeed(graph.bindings, BoundTo(n, q)).payload]
           ELSE LET e == LastFeed(graph.edges, EdgesTo(n, q))
                IN  LastType(OutputsOfModule(graph, e.from_node), e.from_port)]

\* The scheduler runs a node whose dependencies have run.
RunGraphNode(n) ==
    /\ stage = "running"
    /\ n \in Ids(graph) \ ran
    /\ Predecessors(graph, n) \subseteq ran
    /\ IF LookupFails(n)
          THEN /\ stage' = "failed"
               /\ UNCHANGED <<ran, received>>
          ELSE /\ ran' = ran \cup {n}
               /\ received' = [m \in ran' |-> IF m = n THEN InputsOf(n) ELSE received[m]]
               /\ UNCHANGED stage
    /\ UNCHANGED <<doc, graph, registry>>

\* The loop is over; the report collects emitted_outputs[ref.node, ref.port].
CollectOutputs ==
    /\ stage = "running"
    /\ Ids(graph) \subseteq ran
    /\ stage' = IF \A o \in Range(graph.outputs) :
                       HasOutput(graph, o.node, o.port) /\ o.node \in ran
                THEN "completed" ELSE "failed"
    /\ UNCHANGED <<doc, graph, registry, ran, received>>

\* An extension is installed meanwhile: modules are added, never removed.
InstallModule(m) ==
    /\ m \notin registry
    /\ registry' = registry \cup {m}
    /\ UNCHANGED <<doc, graph, stage, ran, received>>

RequestOver ==
    /\ stage \in {"rejected", "failed", "completed"}
    /\ UNCHANGED graphVars

GraphNext ==
    \/ SubmitGraph
    \/ BeginRun
    \/ \E n \in Ids(graph) : RunGraphNode(n)
    \/ CollectOutputs
    \/ \E m \in DOMAIN Manifests : InstallModule(m)
    \/ RequestOver

GraphSpec == GraphInit /\ [][GraphNext]_graphVars

-----------------------------------------------------------------------------
(* Properties.                                                             *)

\* "strict type matching, every input fed exactly once": a node that runs is
\* given, on each declared input port, a datum of the declared type, and no
\* edge or binding was dropped in favour of another.  (A module that
\* declares one name with two types is the exception: README, findings.)
InputsAreTyped ==
    \A n \in ran : \A port \in Range(InputsOfModule(graph, n)) :
        /\ received[n][port.name] = port.type
        /\ Fed(graph, n, port.name) = 1

\* An accepted graph is one the scheduler is built for (the assumption on its
\* constants in module Executor): no edge from outside, no cycle.
AcceptedIsAcyclic ==
    stage \in {"accepted", "running", "completed"} =>
        /\ \A n \in Ids(graph) : Predecessors(graph, n) \subseteq Ids(graph)
        /\ \A S \in SUBSET Ids(graph) : S # {} => \E n \in S : Predecessors(graph, n) \cap S = {}

\* "validated above": a job once accepted is not refused by the validation of
\* execute_graph, and no lookup of _run, run_node or the final report fails on
\* it, whatever the order of its nodes and whatever is installed meanwhile.
AcceptedNeverFails == stage # "failed"

=============================================================================
