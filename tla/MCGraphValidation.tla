------------------------- MODULE MCGraphValidation -------------------------
(* Bounded documents for GraphValidation: up to three nodes, lists of up to *)
(* two edges and bindings drawn from right and wrong ones, and documents    *)
(* with something missing or of a wrong type.                               *)
EXTENDS GraphValidation

Port(q, t) == [name |-> q, type |-> t]
Manifest(ins, outs) == [inputs |-> ins, outputs |-> outs]

\* "ml" belongs to an extension, and declares its input twice.
ModelManifests ==
    [m \in {"crop", "trace", "merge", "ml"} |->
        CASE m = "crop"  -> Manifest(<<Port("in", "png")>>, <<Port("out", "png")>>)
          [] m = "ml"    -> Manifest(<<Port("in", "png"), Port("in", "png")>>, <<Port("out", "png")>>)
          [] m = "trace" -> Manifest(<<Port("in", "png")>>, <<Port("out", "svg")>>)
          [] m = "merge" -> Manifest(<<Port("a", "svg"), Port("b", "svg")>>, <<Port("out", "svg")>>)]

ModelPayloads == [p1 |-> "png", p2 |-> "svg"]

Nd(n, m)    == [id |-> n, module |-> m]
Ed(n, q, m) == [from_node |-> n, from_port |-> q, to_node |-> m, to_port |-> "in"]
Bd(p, n)    == [payload |-> p, node |-> n, port |-> "in"]
Out(n, q, g) == [node |-> n, port |-> q, group |-> g]
Grp(g, o)   == [id |-> g, order |-> o]

UpTo2(S) == {<< >>} \cup { <<x>> : x \in S } \cup { <<x, y>> : x \in S, y \in S }

NodeLists == { << >>, <<Nd("x", "crop")>>, <<Nd("x", "crop"), Nd("y", "trace")>>,
               <<Nd("x", "crop"), Nd("y", "ml")>>, <<Nd("x", "trace"), Nd("y", "trace")>>,
               <<Nd("x", "crop"), Nd("x", "trace")>>, <<Nd("x", "crop"), Nd("y", "nil")>> }

EdgeLists == UpTo2({ Ed("x", "out", "y"), Ed("y", "out", "x"), Ed("x", "out", "x"),
                     Ed("x", "bad", "y"), Ed("x", "out", "w") })

BindingLists == UpTo2({ Bd("p1", "x"), Bd("p1", "y"), Bd("p2", "x"), Bd("p9", "x") })

\* Pairs of output references and groups.
OutputLists ==
    { <<<< >>, << >>>>,
      <<<<Out("x", "out", NoGroup)>>, << >>>>,
      <<<<Out("y", "out", "g"), Out("x", "out", "g")>>, <<Grp("g", "pinned")>>>>,
      <<<<Out("x", "out", "g")>>, << >>>>,
      <<<<Out("x", "out", NoGroup), Out("x", "out", NoGroup)>>, << >>>>,
      <<<<Out("x", "bad", NoGroup)>>, <<Grp("g", "completion")>>>>,
      <<<<Out("x", "out", "")>>, <<Grp("", "pinned")>>>>,
      <<<<Out("x", "out", "g")>>, <<Grp("g", "sorted")>>>>,
      <<<<[node |-> "x", port |-> "out"]>>, <<[id |-> "g"]>>>>,
      <<<<Out("x", "out", "g")>>, <<Grp("g", "pinned"), Grp("g", "completion")>>>> }

\* Two traces of one payload merged, right or with a port fed wrongly.
MergeFeed(m, q) == [from_node |-> m, from_port |-> "out", to_node |-> "z", to_port |-> q]
MergeGraphs ==
    { [nodes |-> <<Nd("z", "merge"), Nd("x", "trace"), Nd("y", "trace")>>,
       edges |-> <<MergeFeed("x", q), MergeFeed(m, r)>>,
       bindings |-> <<Bd("p1", "x"), Bd("p1", "y")>>,
       outputs |-> <<Out("z", "out", NoGroup)>>, groups |-> << >>] :
         m \in {"x", "y", "z"}, q \in {"a", "b"}, r \in {"a", "b"} }

ModelGraphs ==
    MergeGraphs \cup
    { [nodes |-> n, edges |-> e, bindings |-> b, outputs |-> o[1], groups |-> o[2]] :
        n \in NodeLists, e \in EdgeLists, b \in BindingLists, o \in OutputLists }

\* A document with one node, and what may be wrong with it.
OneNode ==
    [nodes |-> <<[id |-> "x", module |-> "crop", params |-> "any"]>>, bindings |-> <<Bd("p1", "x")>>,
     outputs |-> <<Out("x", "out", "g")>>, groups |-> <<[id |-> "g"]>>, unknown |-> Bad]

Spoilt ==
    { Bad, [OneNode EXCEPT !.nodes = Bad], [OneNode EXCEPT !.nodes = <<Bad>>],
      [OneNode EXCEPT !.nodes[1].params = Bad], [OneNode EXCEPT !.nodes = <<[id |-> "x"]>>],
      [OneNode EXCEPT !.bindings[1].payload = Bad], [OneNode EXCEPT !.outputs[1].group = Bad],
      [OneNode EXCEPT !.groups = <<[id |-> "g", order |-> Bad]>>], [outputs |-> << >>] }

ModelDocuments == ModelGraphs \cup {OneNode} \cup Spoilt

=============================================================================
