--------------------------- MODULE MCAppFwkUpdate ---------------------------
(* Instances of AppFwkUpdate for TLC.                                      *)
EXTENDS AppFwkUpdate

CONSTANTS v1, v2, n1, n2, k1, p1, p2

(* Two packages, either of which may be installed already.                 *)
Paths == [v \in Verify |-> IF v = v2 THEN p2 ELSE p1]
OneClient == [v \in Verify |-> k1]
=============================================================================
