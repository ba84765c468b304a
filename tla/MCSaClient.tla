---------------------------- MODULE MCSaClient -----------------------------
(* Instances of SaClient for TLC.                                          *)
EXTENDS SaClient

CONSTANTS c1, c2, c3
=============================================================================
