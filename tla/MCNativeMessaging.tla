------------------------- MODULE MCNativeMessaging -------------------------
(* Instances of NativeMessaging for TLC.                                   *)
EXTENDS NativeMessagingProperties

CONSTANTS r1, r2, r3, k1, k2, p1, p2

(* All requests for one extension by one token.                            *)
OneKey == [r \in Req |-> k1]

(* Each request by a process of its own, or all by one process.            *)
OwnProc == [r \in Req |-> IF r = r1 THEN p1 ELSE p2]
OneProc == [r \in Req |-> p1]

AppClosesR1 == {<<r1, "app">>}
AppClosesR2 == {<<r2, "app">>}
NoCloses == {}
BothCloseR1 == {<<r1, "app">>, <<r1, "ext">>}
=============================================================================
