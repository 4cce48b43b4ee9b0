----------------------- MODULE GraphValidationProofs -----------------------
(***************************************************************************)
(* What validate_graph promises the scheduler, for documents of any size,  *)
(* any modules and payloads, and whatever is installed meanwhile: a graph  *)
(* that is accepted has no cycle and runs without a lookup that fails,     *)
(* whatever ports the manifests declare, and feeds every port what it      *)
(* declares if no manifest declares a name with two types.                 *)
(***************************************************************************)
EXTENDS GraphValidation, SeqLemmas

-----------------------------------------------------------------------------
(* The inductive invariant.                                                *)

\* From its acceptance on, the graph is the parsed document and valid under the
\* modules registered now; nodes run only then.
AcceptedInv ==
    /\ doc \in Documents
    /\ registry \subseteq DOMAIN Manifests
    /\ stage \in {"request", "rejected", "accepted", "running", "completed"}
    /\ stage \in {"accepted", "running", "completed"} =>
          ~Malformed(doc) /\ graph = Parse(doc) /\ IsValid(graph)

RanInv ==
    /\ stage \notin {"running", "completed"} => ran = {}
    /\ ran \subseteq Ids(graph)
    /\ stage = "completed" => ran = Ids(graph)

GraphInv == AcceptedInv /\ RanInv

\* No manifest declares a name with two types among its inputs, or its outputs.
OneTypePerName ==
    \A m \in DOMAIN Manifests : \A ports \in {Manifests[m].inputs, Manifests[m].outputs} :
        \A i, j \in DOMAIN ports : ports[i].name = ports[j].name => ports[i].type = ports[j].type

\* What a node that has run was given was of the types it declares.
TypedInv ==
    \A n \in ran : \A port \in Range(InputsOfModule(graph, n)) : received[n][port.name] = port.type

-----------------------------------------------------------------------------
(* parse_graph: every list of the document becomes a list of the Graph,    *)
(* entry by entry.                                                         *)

ListNames == {"nodes", "edges", "bindings", "outputs", "groups"}

\* A list that is missing is empty, one that is there is an array.
LEMMA ListFacts ==
    ASSUME NEW d \in Documents, ~Malformed(d), NEW name \in ListNames
    PROVE  /\ List(d, name) \in Seq(Range(List(d, name)))
           /\ name \in DOMAIN d \/ List(d, name) = << >>
<1>1. d # Bad /\ name \in DOMAIN Required
  BY DEF Malformed, Required, ListNames
<1>2. CASE name \in DOMAIN d
  <2>1. d[name] # Bad
    BY <1>1, <1>2 DEF Malformed
  <2>2. d[name] \in Seq(Range(d[name]))
    BY <1>1, <1>2, <2>1, DocumentsAssumption
  <2>3. List(d, name) = d[name]
    BY <1>2 DEF List, Field
  <2> QED BY <1>2, <2>2, <2>3
<1>3. CASE name \notin DOMAIN d
  <2>1. List(d, name) = << >>
    BY <1>3 DEF List, Field
  <2> QED BY <2>1
<1> QED BY <1>2, <1>3

\* The Graph's lists are as long as the document's.
LEMMA ParseFacts ==
    ASSUME NEW d \in Documents, ~Malformed(d), NEW name \in ListNames
    PROVE  /\ Parse(d)[name] \in Seq(Range(Parse(d)[name]))
           /\ Len(Parse(d)[name]) = Len(List(d, name))
           /\ DOMAIN Parse(d)[name] = 1 .. Len(List(d, name))
           /\ DOMAIN List(d, name) = 1 .. Len(List(d, name))
           /\ Len(List(d, name)) \in Nat
<1>1. List(d, name) \in Seq(Range(List(d, name)))
  BY ListFacts
<1> DEFINE f == Parse(d)[name]
<1>2. f = [k \in DOMAIN List(d, name) |-> f[k]]
  <2>1. CASE name = "nodes"
    BY <2>1 DEF Parse
  <2>2. CASE name = "edges"
    BY <2>2 DEF Parse
  <2>3. CASE name = "bindings"
    BY <2>3 DEF Parse
  <2>4. CASE name = "outputs"
    BY <2>4 DEF Parse
  <2>5. CASE name = "groups"
    BY <2>5 DEF Parse
  <2> QED BY <2>1, <2>2, <2>3, <2>4, <2>5 DEF ListNames
<1> HIDE DEF f
<1>3. /\ Len(List(d, name)) \in Nat /\ DOMAIN List(d, name) = 1 .. Len(List(d, name))
      /\ f \in Seq(Range(f)) /\ Len(f) = Len(List(d, name)) /\ DOMAIN f = 1 .. Len(List(d, name))
  BY <1>1, <1>2, MapFacts
<1> QED BY <1>3 DEF f

-----------------------------------------------------------------------------
(* topological_order: what is left after as many rounds as there are nodes *)
(* is on a cycle or behind one, so if nothing is left there is no cycle.   *)

\* A Graph whose lists are lists.
HasLists(g) == \A name \in ListNames : g[name] \in Seq(Range(g[name]))

LEMMA SorterNodesFinite ==
    ASSUME NEW g, HasLists(g)
    PROVE  IsFiniteSet(SorterNodes(g))
<1> DEFINE ids == [i \in DOMAIN g.nodes |-> g.nodes[i].id]
           froms == [i \in DOMAIN g.edges |-> g.edges[i].from_node]
           tos == [i \in DOMAIN g.edges |-> g.edges[i].to_node]
<1>1. /\ g.nodes \in Seq(Range(g.nodes)) /\ g.edges \in Seq(Range(g.edges))
  BY DEF HasLists, ListNames
<1>2. /\ Len(g.nodes) \in Nat /\ DOMAIN g.nodes = 1 .. Len(g.nodes)
      /\ Len(g.edges) \in Nat /\ DOMAIN g.edges = 1 .. Len(g.edges)
  BY <1>1
<1>3. IsFiniteSet(DOMAIN g.nodes) /\ IsFiniteSet(DOMAIN g.edges)
  <2>1. 1 \in Int /\ Len(g.nodes) \in Int /\ Len(g.edges) \in Int
    BY <1>2
  <2> QED BY <1>2, <2>1, FS_Interval
<1>4. IsFiniteSet(Range(ids)) /\ IsFiniteSet(Range(froms)) /\ IsFiniteSet(Range(tos))
  <2>1. DOMAIN ids = DOMAIN g.nodes /\ DOMAIN froms = DOMAIN g.edges /\ DOMAIN tos = DOMAIN g.edges
    OBVIOUS
  <2> HIDE DEF ids, froms, tos
  <2> QED BY <1>3, <2>1, FiniteRange
<1>5. SorterNodes(g) = Range(ids) \cup Range(froms) \cup Range(tos)
  BY DEF SorterNodes, Ids, Range
<1> HIDE DEF ids, froms, tos
<1> QED BY <1>4, <1>5, FS_Union

\* If every node of a set has a predecessor in it, none is ever taken away.
LEMMA NoCycle ==
    ASSUME NEW g, HasLists(g), ~HasCycle(g), NEW S \in SUBSET SorterNodes(g), S # {}
    PROVE  \E n \in S : Predecessors(g, n) \cap S = {}
<1> DEFINE rounds == Cardinality(SorterNodes(g))
           D == SUBSET SorterNodes(g)
           body(f) == [k \in 0 .. rounds |->
                         IF k = 0 THEN SorterNodes(g)
                         ELSE { n \in f[k - 1] : Predecessors(g, n) \cap f[k - 1] # {} }]
           left == CHOOSE f : f = body(f)
           step == [X \in D |-> { n \in X : Predecessors(g, n) \cap X # {} }]
<1> SUFFICES ASSUME \A n \in S : Predecessors(g, n) \cap S # {} PROVE FALSE
  OBVIOUS
<1>1. rounds \in Nat
  BY SorterNodesFinite, FS_CardinalityType
<1>2. left[rounds] = {}
  BY DEF HasCycle
<1>3. \E f : f = body(f)
  <2>1. step \in [D -> D] /\ SorterNodes(g) \in D
    OBVIOUS
  <2> HIDE DEF step, rounds, D
  <2>2. PICK f \in [0 .. rounds -> D] :
          f[0] = SorterNodes(g) /\ \A k \in 1 .. rounds : f[k] = step[f[k - 1]]
    <3>1. Iterations(rounds, D, SorterNodes(g), step) # {}
      BY <1>1, <2>1, Iterate
    <3> QED BY <3>1 DEF Iterations
  <2>3. ASSUME NEW k \in 0 .. rounds PROVE f[k] = body(f)[k]
    <3>1. CASE k = 0
      BY <2>2, <3>1
    <3>2. CASE k # 0
      <4>1. k \in 1 .. rounds /\ k - 1 \in 0 .. rounds
        BY <1>1, <3>2
      <4>2. f[k] = step[f[k - 1]] /\ f[k - 1] \in D
        BY <2>2, <4>1
      <4>3. f[k] = { n \in f[k - 1] : Predecessors(g, n) \cap f[k - 1] # {} }
        BY <4>2 DEF step
      <4> QED BY <3>2, <4>3
    <3> QED BY <3>1, <3>2
  <2>4. f = body(f)
    BY <2>2, <2>3
  <2> QED BY <2>4
<1>4. left = body(left)
  <2> HIDE DEF body
  <2> QED BY <1>3
<1> DEFINE H == { k \in 0 .. rounds : S \subseteq left[k] }
<1> HIDE DEF left, rounds
<1>5. 0 \in H
  BY <1>1, <1>4
<1>6. ASSUME NEW k \in 1 .. rounds, k - 1 \in H PROVE k \in H
  <2>1. k \in 0 .. rounds /\ k # 0 /\ S \subseteq left[k - 1]
    BY <1>1, <1>6
  <2>2. left[k] = { n \in left[k - 1] : Predecessors(g, n) \cap left[k - 1] # {} }
    BY <1>4, <2>1
  <2> QED BY <2>1, <2>2
<1> HIDE DEF H, body
<1>7. 0 .. rounds \subseteq H
  BY <1>1, <1>5, <1>6, UpTo
<1>8. rounds \in H
  BY <1>1, <1>7
<1> QED BY <1>2, <1>8 DEF H

-----------------------------------------------------------------------------
(* validate_graph.                                                         *)

\* nodes_by_id has a registered module for every id.
LEMMA ValidModules ==
    ASSUME NEW g, HasLists(g), ~NodesBad(g), NEW n \in Ids(g)
    PROVE  ModuleOf(g, n) \in registry
<1> DEFINE Is(i) == g.nodes[i].id = n /\ \A j \in DOMAIN g.nodes : g.nodes[j].id = n => j <= i
           last == CHOOSE i \in DOMAIN g.nodes : Is(i)
<1>1. DOMAIN g.nodes \subseteq Nat
  <2>1. g.nodes \in Seq(Range(g.nodes))
    BY DEF HasLists, ListNames
  <2> QED BY <2>1
<1>2. PICK i \in DOMAIN g.nodes : g.nodes[i].id = n
  BY DEF Ids
<1>3. \A j \in DOMAIN g.nodes : g.nodes[j].id = n => j = i
  BY <1>2 DEF NodesBad, DuplicateIds
<1>4. Is(i)
  BY <1>1, <1>2, <1>3
<1>5. last \in DOMAIN g.nodes
  <2> HIDE DEF Is
  <2> QED BY <1>4
<1>6. ModuleOf(g, n) = g.nodes[last].module
  BY DEF ModuleOf
<1> HIDE DEF last
<1> QED BY <1>5, <1>6 DEF NodesBad

\* A graph that is valid stays so while modules are added.
LEMMA ValidStays ==
    ASSUME NEW CONSTANT g, graph' = g, IsValid(g), registry \subseteq registry'
    PROVE  IsValid(graph)'
<1>1. \A n : Known(g, n) => Known(graph, n)'
  BY DEF Known
<1>2. \A n, q : /\ HasOutput(g, n, q) => HasOutput(graph, n, q)'
                /\ HasInput(g, n, q) => HasInput(graph, n, q)'
                /\ OutputType(g, n, q) = OutputType(graph, n, q)'
                /\ InputType(g, n, q) = InputType(graph, n, q)'
  BY <1>1 DEF HasOutput, HasInput, OutputType, InputType, InputsOfModule, OutputsOfModule
<1>3. ~NodesBad(graph)'
  BY DEF IsValid, NodesBad
<1>4. \A e \in Range(g.edges) : ~EdgeBad(graph, e)'
  BY <1>2 DEF IsValid, EdgeBad
<1>5. \A b \in Range(g.bindings) : ~BindingBad(graph, b)'
  BY <1>2 DEF IsValid, BindingBad
<1>6. \A i \in DOMAIN g.outputs : ~OutputBad(graph, i)'
  BY <1>2 DEF IsValid, OutputBad
<1> QED BY <1>3, <1>4, <1>5, <1>6 DEF IsValid

\* Every port has one feed, and it is of the port's type.
LEMMA ValidFeeds ==
    ASSUME NEW g, HasLists(g), IsValid(g), NEW n \in Ids(g),
           NEW port \in Range(InputsOfModule(g, n)), NEW q, q = port.name
    PROVE  /\ Fed(g, n, q) = 1
           /\ \/ \E b \in Range(g.bindings) : b.node = n /\ b.port = q
              \/ \E e \in Range(g.edges) : e.to_node = n /\ e.to_port = q
<1>1. Fed(g, n, q) = 1
  BY DEF IsValid, InputsBad
<1> DEFINE E == { i \in DOMAIN g.edges : g.edges[i].to_node = n /\ g.edges[i].to_port = q }
           B == { i \in DOMAIN g.bindings : g.bindings[i].node = n /\ g.bindings[i].port = q }
<1>2. E # {} \/ B # {}
  <2>1. Fed(g, n, q) = Cardinality(E) + Cardinality(B)
    BY DEF Fed
  <2> HIDE DEF E, B
  <2> QED BY <1>1, <2>1, FS_EmptySet
<1> QED BY <1>1, <1>2 DEF Range

\* edge_into and binding_into hold a feed of the port, if there is one.
LEMMA LastFeedFacts ==
    ASSUME NEW s, s \in Seq(Range(s)), NEW F \in SUBSET Range(s), F # {}
    PROVE  LastFeed(s, F) \in F
<1> DEFINE feeds == { i \in DOMAIN s : s[i] \in F }
           last == CHOOSE i \in feeds : \A j \in feeds : j <= i
<1>1. Len(s) \in Nat /\ DOMAIN s = 1 .. Len(s)
  OBVIOUS
<1>2. feeds \in SUBSET Nat /\ \A i \in feeds : i <= Len(s)
  BY <1>1
<1>3. IsFiniteSet(feeds)
  BY <1>1, <1>2, FS_BoundedSetOfNaturals
<1>4. feeds # {}
  BY DEF Range
<1>5. \E i \in feeds : \A j \in feeds : j <= i
  <2> HIDE DEF feeds
  <2> QED BY <1>2, <1>3, <1>4, LastOf
<1>6. last \in feeds
  <2> HIDE DEF feeds
  <2> QED BY <1>5
<1>7. LastFeed(s, F) = s[last]
  BY DEF LastFeed
<1> HIDE DEF last
<1> QED BY <1>6, <1>7

\* The Graph of a document has lists.
LEMMA ParsedHasLists ==
    ASSUME NEW d \in Documents, ~Malformed(d)
    PROVE  HasLists(Parse(d))
  BY ParseFacts DEF HasLists

-----------------------------------------------------------------------------
(* Every step keeps the invariant.                                         *)

LEMMA GraphInit_GraphInv == GraphInit => GraphInv
  BY ManifestsAssumption DEF GraphInit, GraphInv, AcceptedInv, RanInv

\* submit_job.
LEMMA SubmitGraphKeeps ==
    ASSUME GraphInv, SubmitGraph
    PROVE  GraphInv'
<1>1. /\ stage = "request" /\ UNCHANGED <<doc, registry, ran>>
      /\ stage' \in {"accepted", "rejected"} /\ ran = {} /\ doc \in Documents
      /\ registry \subseteq DOMAIN Manifests
  BY DEF SubmitGraph, GraphInv, AcceptedInv, RanInv
<1>2. ASSUME stage' = "accepted" PROVE ~Malformed(doc)' /\ graph' = Parse(doc)' /\ IsValid(graph)'
  <2>1. ~Malformed(doc) /\ graph' = Parse(doc) /\ IsValid(Parse(doc))
    BY <1>2 DEF SubmitGraph
  <2>2. PICK g : g = Parse(doc)
    OBVIOUS
  <2>3. IsValid(g)
    BY <2>1, <2>2
  <2>4. IsValid(graph)'
    BY <1>1, <2>1, <2>2, <2>3, ValidStays
  <2> QED BY <1>1, <2>1, <2>4
<1>3. AcceptedInv'
  BY <1>1, <1>2 DEF AcceptedInv
<1>4. RanInv'
  BY <1>1 DEF RanInv
<1> QED BY <1>3, <1>4 DEF GraphInv

\* What holds from acceptance on.
LEMMA Accepted ==
    ASSUME GraphInv, stage \in {"accepted", "running", "completed"}
    PROVE  HasLists(graph) /\ IsValid(graph)
  BY ParsedHasLists DEF GraphInv, AcceptedInv

\* A step that changes neither document nor graph, and only adds modules.
LEMMA AcceptedStays ==
    ASSUME GraphInv, UNCHANGED <<doc, graph>>, registry \subseteq registry',
           registry' \subseteq DOMAIN Manifests,
           stage' = stage \/ (stage' \in {"running", "completed"} /\ stage \in {"accepted", "running"})
    PROVE  AcceptedInv'
<1>1. ASSUME stage' \in {"accepted", "running", "completed"}
      PROVE  ~Malformed(doc)' /\ graph' = Parse(doc)' /\ IsValid(graph)'
  <2>1. ~Malformed(doc) /\ graph = Parse(doc) /\ IsValid(graph)
    BY <1>1 DEF GraphInv, AcceptedInv
  <2>2. PICK g : g = graph
    OBVIOUS
  <2>3. IsValid(g)
    BY <2>1, <2>2
  <2>4. IsValid(graph)'
    BY <2>2, <2>3, ValidStays
  <2> QED BY <2>1, <2>4
<1> QED BY <1>1 DEF GraphInv, AcceptedInv

\* The lookups of _run and the validation in execute_graph.
LEMMA BeginRunKeeps ==
    ASSUME GraphInv, BeginRun
    PROVE  GraphInv'
<1>1. stage = "accepted" /\ UNCHANGED <<doc, graph, registry, ran, received>>
  BY DEF BeginRun
<1>2. HasLists(graph) /\ IsValid(graph)
  BY <1>1, Accepted
<1>3. \A o \in Range(graph.outputs) : GroupDeclared(graph, o)
  BY <1>2 DEF IsValid, OutputBad, Range
<1>4. stage' = "running"
  BY <1>2, <1>3 DEF BeginRun
<1>5. AcceptedInv'
  BY <1>1, <1>4, AcceptedStays DEF GraphInv, AcceptedInv
<1>6. RanInv'
  BY <1>1, <1>4 DEF GraphInv, RanInv
<1> QED BY <1>5, <1>6 DEF GraphInv

\* run_node finds everything it looks up.
LEMMA LookupsFind ==
    ASSUME GraphInv, stage = "running", NEW n \in Ids(graph), Predecessors(graph, n) \subseteq ran
    PROVE  ~LookupFails(n)
<1>1. HasLists(graph) /\ IsValid(graph)
  BY Accepted
<1>2. ModuleOf(graph, n) \in registry
  BY <1>1, ValidModules DEF IsValid
<1>3. ASSUME NEW q, NEW b \in BoundTo(n, q) PROVE b.payload \in DOMAIN Payloads
  BY <1>1 DEF BoundTo, IsValid, BindingBad
<1>4. ASSUME NEW q, NEW e \in EdgesTo(n, q)
      PROVE  e.from_node \in ran /\ HasOutput(graph, e.from_node, e.from_port)
  <2>1. e \in Range(graph.edges) /\ e.to_node = n /\ e.to_port = q
    BY DEF EdgesTo
  <2>2. e.from_node \in Predecessors(graph, n)
    BY <2>1 DEF Predecessors, Range
  <2> QED BY <1>1, <2>1, <2>2 DEF IsValid, EdgeBad
<1>5. \A q \in InputNames(n) : BoundTo(n, q) # {} \/ EdgesTo(n, q) # {}
  BY <1>1, ValidFeeds DEF BoundTo, EdgesTo, InputNames
<1> QED BY <1>2, <1>3, <1>4, <1>5 DEF LookupFails

\* Where a name has one type, the first port of the name and the last have it.
LEMMA NamedTypes ==
    ASSUME NEW ports, ports \in Seq(Range(ports)), NEW i \in DOMAIN ports,
           \A j, k \in DOMAIN ports : ports[j].name = ports[k].name => ports[j].type = ports[k].type
    PROVE  /\ FirstType(ports, ports[i].name) = ports[i].type
           /\ LastType(ports, ports[i].name) = ports[i].type
<1> DEFINE N == Named(ports, ports[i].name)
           first == CHOOSE j \in N : \A k \in N : j <= k
           last == CHOOSE j \in N : \A k \in N : k <= j
<1>1. Len(ports) \in Nat /\ DOMAIN ports = 1 .. Len(ports)
  OBVIOUS
<1>2. N \in SUBSET Nat /\ N # {} /\ \A j \in N : j <= Len(ports)
  BY <1>1 DEF Named
<1>3. IsFiniteSet(N)
  BY <1>1, <1>2, FS_BoundedSetOfNaturals
<1>4. \A j \in N : j \in DOMAIN ports /\ ports[j].name = ports[i].name
  BY DEF Named
<1>5. FirstType(ports, ports[i].name) = ports[first].type /\ LastType(ports, ports[i].name) = ports[last].type
  BY DEF FirstType, LastType
<1> HIDE DEF N
<1>6. first \in N /\ last \in N
  <2>1. \E j \in N : \A k \in N : j <= k
    BY <1>2, <1>3, FirstOf
  <2>2. \E j \in N : \A k \in N : k <= j
    BY <1>2, <1>3, LastOf
  <2> QED BY <2>1, <2>2
<1> HIDE DEF first, last
<1> QED BY <1>4, <1>5, <1>6

\* What run_node finds is then of the type the port declares.
LEMMA FindsTyped ==
    ASSUME OneTypePerName, GraphInv, stage = "running", NEW n \in Ids(graph),
           NEW port \in Range(InputsOfModule(graph, n))
    PROVE  InputsOf(n)[port.name] = port.type
<1> DEFINE q == port.name
<1>1. HasLists(graph) /\ IsValid(graph)
  BY Accepted
<1>2. ModuleOf(graph, n) \in registry /\ registry \subseteq DOMAIN Manifests
  BY <1>1, ValidModules DEF IsValid, GraphInv, AcceptedInv
<1>3. InputType(graph, n, q) = port.type
  <2>1. PICK ports : ports = InputsOfModule(graph, n)
    OBVIOUS
  <2>2. /\ ports \in Seq(Range(ports))
        /\ \A j, k \in DOMAIN ports : ports[j].name = ports[k].name => ports[j].type = ports[k].type
    BY <1>2, <2>1, ManifestsAssumption DEF InputsOfModule, OneTypePerName
  <2>3. PICK i \in DOMAIN ports : port = ports[i]
    BY <2>1 DEF Range
  <2> QED BY <2>1, <2>2, <2>3, NamedTypes DEF InputType
<1>4. BoundTo(n, q) # {} \/ EdgesTo(n, q) # {}
  BY <1>1, ValidFeeds DEF BoundTo, EdgesTo
<1>5. q \in InputNames(n)
  BY DEF InputNames
<1> HIDE DEF q
<1>6. CASE BoundTo(n, q) # {}
  <2>1. PICK b : b = LastFeed(graph.bindings, BoundTo(n, q))
    OBVIOUS
  <2>2. b \in BoundTo(n, q)
    <3>1. graph.bindings \in Seq(Range(graph.bindings)) /\ BoundTo(n, q) \in SUBSET Range(graph.bindings)
      BY <1>1 DEF HasLists, ListNames, BoundTo
    <3> QED BY <1>6, <2>1, <3>1, LastFeedFacts
  <2>3. Payloads[b.payload] = InputType(graph, n, q)
    BY <1>1, <2>2 DEF BoundTo, IsValid, BindingBad
  <2>4. InputsOf(n)[q] = Payloads[b.payload]
    BY <1>5, <1>6, <2>1 DEF InputsOf
  <2> QED BY <1>3, <2>3, <2>4 DEF q
<1>7. CASE BoundTo(n, q) = {}
  <2>1. PICK e : e = LastFeed(graph.edges, EdgesTo(n, q))
    OBVIOUS
  <2>2. e \in EdgesTo(n, q)
    <3>1. graph.edges \in Seq(Range(graph.edges)) /\ EdgesTo(n, q) \in SUBSET Range(graph.edges)
      BY <1>1 DEF HasLists, ListNames, EdgesTo
    <3> QED BY <1>4, <1>7, <2>1, <3>1, LastFeedFacts
  <2>3. /\ HasOutput(graph, e.from_node, e.from_port)
        /\ OutputType(graph, e.from_node, e.from_port) = InputType(graph, n, q)
    BY <1>1, <2>2 DEF EdgesTo, IsValid, EdgeBad
  <2>4. InputsOf(n)[q] = LastType(OutputsOfModule(graph, e.from_node), e.from_port)
    BY <1>5, <1>7, <2>1 DEF InputsOf
  <2>5. PICK ports : ports = OutputsOfModule(graph, e.from_node)
    OBVIOUS
  <2>6. /\ ports \in Seq(Range(ports))
        /\ \A j, k \in DOMAIN ports : ports[j].name = ports[k].name => ports[j].type = ports[k].type
    BY <1>2, <2>3, <2>5, ManifestsAssumption DEF HasOutput, Known, OutputsOfModule, OneTypePerName
  <2>7. PICK i \in DOMAIN ports : ports[i].name = e.from_port
    BY <2>3, <2>5 DEF HasOutput, Named
  <2>8. LastType(ports, e.from_port) = FirstType(ports, e.from_port)
    BY <2>6, <2>7, NamedTypes
  <2> QED BY <1>3, <2>3, <2>4, <2>5, <2>8 DEF q, OutputType
<1> QED BY <1>6, <1>7

\* A node runs.
LEMMA RunGraphNodeKeeps ==
    ASSUME GraphInv, NEW n \in Ids(graph), RunGraphNode(n)
    PROVE  GraphInv'
<1>1. stage = "running" /\ Predecessors(graph, n) \subseteq ran /\ UNCHANGED <<doc, graph, registry>>
  BY DEF RunGraphNode
<1>2. ~LookupFails(n)
  BY <1>1, LookupsFind
<1>3. ran' = ran \cup {n} /\ stage' = stage
  BY <1>2 DEF RunGraphNode
<1>4. AcceptedInv'
  BY <1>1, <1>3, AcceptedStays DEF GraphInv, AcceptedInv
<1>5. RanInv'
  BY <1>1, <1>3 DEF GraphInv, RanInv
<1> QED BY <1>4, <1>5 DEF GraphInv

\* The report finds every output.
LEMMA CollectOutputsKeeps ==
    ASSUME GraphInv, CollectOutputs
    PROVE  GraphInv'
<1>1. stage = "running" /\ Ids(graph) \subseteq ran /\ UNCHANGED <<doc, graph, registry, ran, received>>
  BY DEF CollectOutputs
<1>2. IsValid(graph)
  BY <1>1, Accepted
<1>3. \A o \in Range(graph.outputs) : HasOutput(graph, o.node, o.port) /\ o.node \in ran
  BY <1>1, <1>2 DEF IsValid, OutputBad, HasOutput, Known, Range
<1>4. stage' = "completed"
  BY <1>3 DEF CollectOutputs
<1>5. AcceptedInv'
  BY <1>1, <1>4, AcceptedStays DEF GraphInv, AcceptedInv
<1>6. RanInv'
  BY <1>1, <1>4 DEF GraphInv, RanInv
<1> QED BY <1>5, <1>6 DEF GraphInv

LEMMA GraphNext_GraphInv == GraphInv /\ [GraphNext]_graphVars => GraphInv'
<1> SUFFICES ASSUME GraphInv, [GraphNext]_graphVars PROVE GraphInv'
  OBVIOUS
<1>1. CASE \E m \in DOMAIN Manifests : InstallModule(m)
  <2>1. AcceptedInv'
    BY <1>1, AcceptedStays DEF InstallModule, GraphInv, AcceptedInv
  <2>2. RanInv'
    BY <1>1 DEF InstallModule, GraphInv, RanInv
  <2> QED BY <2>1, <2>2 DEF GraphInv
<1>2. CASE UNCHANGED graphVars
  <2>1. AcceptedInv'
    BY <1>2, AcceptedStays DEF graphVars, GraphInv, AcceptedInv
  <2>2. RanInv'
    BY <1>2 DEF graphVars, GraphInv, RanInv
  <2> QED BY <2>1, <2>2 DEF GraphInv
<1> QED BY <1>1, <1>2, SubmitGraphKeeps, BeginRunKeeps, RunGraphNodeKeeps, CollectOutputsKeeps
        DEF GraphNext, RequestOver

\* A node that runs is given data of the types it declares.
LEMMA GraphNext_TypedInv ==
    OneTypePerName /\ GraphInv /\ TypedInv /\ [GraphNext]_graphVars => TypedInv'
<1> SUFFICES ASSUME OneTypePerName, GraphInv, TypedInv, [GraphNext]_graphVars PROVE TypedInv'
  OBVIOUS
<1>1. CASE \E n \in Ids(graph) : RunGraphNode(n)
  <2>1. PICK n \in Ids(graph) : RunGraphNode(n)
    BY <1>1
  <2>2. stage = "running" /\ Predecessors(graph, n) \subseteq ran /\ graph' = graph
    BY <2>1 DEF RunGraphNode
  <2>3. /\ ran' = ran \cup {n}
        /\ received' = [m \in ran' |-> IF m = n THEN InputsOf(n) ELSE received[m]]
    BY <2>1, <2>2, LookupsFind DEF RunGraphNode
  <2>4. \A port \in Range(InputsOfModule(graph, n)) : InputsOf(n)[port.name] = port.type
    BY <2>2, FindsTyped
  <2>5. ASSUME NEW m \in ran', NEW port \in Range(InputsOfModule(graph, m))
        PROVE  received'[m][port.name] = port.type
    <3>1. CASE m = n
      BY <2>3, <2>4, <3>1
    <3>2. CASE m # n
      BY <2>3, <3>2 DEF TypedInv
    <3> QED BY <3>1, <3>2
  <2>6. \A m : InputsOfModule(graph, m)' = InputsOfModule(graph, m)
    BY <2>2 DEF InputsOfModule, ModuleOf
  <2> QED BY <2>5, <2>6 DEF TypedInv
<1>2. CASE SubmitGraph
  BY <1>2 DEF SubmitGraph, GraphInv, RanInv, TypedInv
<1>3. CASE UNCHANGED <<graph, ran, received>>
  BY <1>3 DEF TypedInv, InputsOfModule, ModuleOf
<1> QED BY <1>1, <1>2, <1>3 DEF GraphNext, BeginRun, CollectOutputs, InstallModule, RequestOver, graphVars

-----------------------------------------------------------------------------
(* The theorems.                                                           *)

\* From acceptance on, the graph is the parsed document and valid.
THEOREM GraphCorrect == GraphSpec => []GraphInv
  BY GraphInit_GraphInv, GraphNext_GraphInv, PTL DEF GraphSpec

\* No lookup of _run, run_node or the report fails on an accepted graph.
THEOREM AcceptedNeverFailsHolds == GraphSpec => []AcceptedNeverFails
<1>1. GraphInv => AcceptedNeverFails
  BY DEF GraphInv, AcceptedInv, AcceptedNeverFails
<1> QED BY <1>1, GraphCorrect, PTL

\* validate_graph accepts only what the scheduler is built for: the assumption
\* under which JobRunProofs holds.
THEOREM AcceptedIsAcyclicHolds == GraphSpec => []AcceptedIsAcyclic
<1>1. GraphInv => AcceptedIsAcyclic
  <2> SUFFICES ASSUME GraphInv, stage \in {"accepted", "running", "completed"}
               PROVE  /\ \A n \in Ids(graph) : Predecessors(graph, n) \subseteq Ids(graph)
                      /\ \A S \in SUBSET Ids(graph) : S # {} => \E n \in S : Predecessors(graph, n) \cap S = {}
    BY DEF AcceptedIsAcyclic
  <2>1. HasLists(graph) /\ IsValid(graph)
    BY Accepted
  <2>2. \A n \in Ids(graph) : Predecessors(graph, n) \subseteq Ids(graph)
    BY <2>1 DEF IsValid, EdgeBad, HasOutput, Known, Predecessors, Range
  <2>3. ASSUME NEW S \in SUBSET Ids(graph), S # {} PROVE \E n \in S : Predecessors(graph, n) \cap S = {}
    <3>1. S \in SUBSET SorterNodes(graph)
      BY DEF SorterNodes
    <3> QED BY <2>1, <2>3, <3>1, NoCycle DEF IsValid
  <2> QED BY <2>2, <2>3
<1> QED BY <1>1, GraphCorrect, PTL

\* Every port of a node that runs is fed once, and what it declares, if no
\* manifest declares a name with two types.
THEOREM InputsAreTypedHolds == ASSUME OneTypePerName PROVE GraphSpec => []InputsAreTyped
<1>1. GraphInit => TypedInv
  BY DEF GraphInit, TypedInv
<1>2. GraphInv /\ TypedInv => InputsAreTyped
  <2> SUFFICES ASSUME GraphInv, TypedInv, NEW n \in ran, NEW port \in Range(InputsOfModule(graph, n))
               PROVE  received[n][port.name] = port.type /\ Fed(graph, n, port.name) = 1
    BY DEF InputsAreTyped
  <2>1. n \in Ids(graph) /\ stage \in {"accepted", "running", "completed"}
    BY DEF GraphInv, RanInv
  <2>2. HasLists(graph) /\ IsValid(graph)
    BY <2>1, Accepted
  <2>3. Fed(graph, n, port.name) = 1
    BY <2>1, <2>2, ValidFeeds
  <2> QED BY <2>3 DEF TypedInv
<1> QED BY OneTypePerName, <1>1, <1>2, GraphNext_TypedInv, GraphCorrect, PTL DEF GraphSpec

=============================================================================
