--------------------------- MODULE MCSessionLife ---------------------------
(* SessionLife for TLC: requests that race on one session: submissions, an   *)
(* upload, requests for the job and the payload, and two deletions.          *)
EXTENDS SessionLife, TLC

CONSTANTS s1, q1, q2, u1, g1, g2, d1, d2

ModelOf     == [x \in {q1, q2, u1, g1, g2, d1, d2} |-> s1]
ModelWanted == g1 :> u1 @@ g2 :> q1

=============================================================================
