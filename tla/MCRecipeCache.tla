--------------------------- MODULE MCRecipeCache ---------------------------
(* Instances of RecipeCache for TLC.                                        *)
EXTENDS RecipeCache, TLC

Rec(m, p, d) == [module |-> m, version |-> "1", params |-> p, draft |-> d]
From(v)      == [node |-> v, port |-> "out"]
Up(p)        == [payload |-> p]

\* Single-output modules.  q1 is q0 in draft, q2 is q0 on a second upload of
\* the same bytes, q3 on other bytes; b01 and b10 blend q0 and q3 in the two
\* orders, and t0 traces the draft.
PlainWork == {"q0", "q1", "q2", "q3", "b01", "b10", "t0"}
PlainRecipe ==
    [w \in PlainWork |->
        CASE w \in {"q0", "q2", "q3"} -> Rec("quantize", "p", FALSE)
          [] w = "q1" -> Rec("quantize", "p", TRUE)
          [] w \in {"b01", "b10"} -> Rec("blend", "p", FALSE)
          [] w = "t0" -> Rec("trace", "p", TRUE)]
PlainSources ==
    [w \in PlainWork |->
        CASE w \in {"q0", "q1"} -> <<Up("up1")>>
          [] w = "q2" -> <<Up("up2")>>
          [] w = "q3" -> <<Up("up3")>>
          [] w = "b01" -> <<From("q0"), From("q3")>>
          [] w = "b10" -> <<From("q3"), From("q2")>>
          [] w = "t0" -> <<From("q1")>>]
PlainContent == [p \in {"up1", "up2", "up3"} |-> [raw |-> IF p = "up3" THEN "bytes2" ELSE "bytes1"]]
PlainPorts == [m \in {"quantize", "blend", "trace"} |-> {"out"}]
\* quantize is not deterministic.
PlainDraws == [m \in {"quantize", "blend", "trace"} |-> IF m = "quantize" THEN 1..2 ELSE {1}]

\* A module with two output ports, and two nodes with the same recipe that
\* read one port each.
SplitWork == {"s", "l", "r"}
SplitRecipe ==
    [w \in SplitWork |-> IF w = "s" THEN Rec("split", "p", FALSE) ELSE Rec("trace", "p", FALSE)]
SplitSources ==
    [w \in SplitWork |->
        CASE w = "s" -> <<Up("up1")>>
          [] w = "l" -> <<[node |-> "s", port |-> "left"]>>
          [] w = "r" -> <<[node |-> "s", port |-> "right"]>>]
SplitPorts == [m \in {"split", "trace"} |-> IF m = "split" THEN {"left", "right"} ELSE {"out"}]
SplitDraws == [m \in {"split", "trace"} |-> {1}]

=============================================================================
