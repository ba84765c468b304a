------------------------- MODULE MCRequestRegistry -------------------------
(* Instances of RequestRegistry for TLC.                                   *)
EXTENDS RequestRegistry

CONSTANTS c1, c2, c3, c4, k1, k2, t1, t2

OneThread == [c \in Call |-> t1]
TwoThreads == [c \in Call |-> IF c \in {c1, c3} THEN t1 ELSE t2]

(* c1 and c2 come from one caller with the same connection id.             *)
SharedKey == [c \in Call |-> IF c \in {c1, c2} THEN k1 ELSE k2]
=============================================================================
