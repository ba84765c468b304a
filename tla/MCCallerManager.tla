-------------------------- MODULE MCCallerManager --------------------------
(* Instances of CallerManager for TLC.                                     *)
EXTENDS CallerManager, TLC

CONSTANTS c1, c2, c3

CloseC1 == c3 :> c1
=============================================================================
