------------------------- MODULE RequestLifecycle -------------------------
(***************************************************************************)
(* What the web native messaging service promises each observer of a       *)
(* request: the caller, through OnConnect, OnDisconnect and OnFailed, and  *)
(* the extension, through ConnectNative and DisconnectNative.  A request   *)
(* opens at most once and closes at most once, and one that failed never   *)
(* opens.                                                                  *)
(***************************************************************************)
CONSTANT Req
VARIABLE view       \* what the observer of each request has been told

ViewState == {"idle", "open", "closed", "failed"}

Init == view = [r \in Req |-> "idle"]

(* One step of the service may inform the observers of several requests.   *)
Next ==
    /\ view' \in [Req -> ViewState]
    /\ \A r \in Req :
          \/ view'[r] = view[r]
          \/ view[r] = "idle" /\ view'[r] \in {"open", "failed"}
          \/ view[r] = "open" /\ view'[r] = "closed"

Spec == Init /\ [][Next]_view
=============================================================================
