------------------------------ MODULE MCJobRun ------------------------------
(* An instance of JobRun for TLC.                                           *)
EXTENDS JobRun, TLC

CONSTANTS a, b, c, k, pin, free

\* b reads from a; c runs beside them.  The pinned group lists c's output
\* before the two of a, which are held when a is faster; the output of b is in
\* a completion-ordered group.
ModelNodes       == {a, b, c}
ModelDeps        == (a :> {}) @@ (b :> {a}) @@ (c :> {})
ModelKey         == (a :> k) @@ (b :> k) @@ (c :> k)
ModelOutputNode  == <<c, a, b, a>>
ModelOutputGroup == <<pin, pin, free, pin>>
ModelGroupOrder  == (pin :> "pinned") @@ (free :> "completion")

=============================================================================
