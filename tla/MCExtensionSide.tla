-------------------------- MODULE MCExtensionSide --------------------------
(* Instances of ExtensionSide for TLC.                                     *)
EXTENDS ExtensionSide, TLC

CONSTANTS c1, c2, c3, i1, i2

(* c1 and c2 have drawn the same id.                                       *)
TwoIds == [c \in Conn |-> IF c = c3 THEN i2 ELSE i1]

Symmetry == Permutations(Fd)
=============================================================================
