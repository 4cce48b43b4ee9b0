----------------------------- MODULE MCExecutor -----------------------------
(* An instance of Executor for TLC.                                         *)
EXTENDS Executor, TLC

CONSTANTS a, b, c, d, k1, k2, k3

\* Three sources for two workers; d joins two of them, which may finish in one
\* batch or in two; b and c have the same recipe, and c has two outputs.
ModelNodes   == {a, b, c, d}
ModelDeps    == (a :> {}) @@ (b :> {}) @@ (c :> {}) @@ (d :> {a, b})
ModelKey     == (a :> k1) @@ (b :> k2) @@ (c :> k2) @@ (d :> k3)
ModelOutputs == <<c, d, c>>

=============================================================================
