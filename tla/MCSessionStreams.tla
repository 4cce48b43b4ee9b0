-------------------------- MODULE MCSessionStreams --------------------------
(* SessionStreams for TLC: a job with three events, two deletions, and a      *)
(* client that comes and goes.                                                *)
EXTENDS SessionStreams

CONSTANTS s1, q1, d1, d2, c1

ModelOf     == [x \in {q1, d1, d2} |-> s1]
ModelWanted == [x \in {} |-> q1]
ModelEvents == {q1} \X Tell

=============================================================================
