--------------------- MODULE NativeMessagingProperties ---------------------
(***************************************************************************)
(* What is asked of NativeMessaging: what its handlers never do whatever   *)
(* their interleaving, what they implement and what must happen; and, in   *)
(* the second part, what the repository says of it that does not hold.     *)
(***************************************************************************)
EXTENDS NativeMessaging

(* The facts below make up the inductive invariants.                       *)

(* A connection that a call has yet to make does not exist ...             *)
NotMadeYet == \A r \in Req :
    /\ cpc[r] \in {"idle", "lookup"} => status[<<r, 1>>] = "NONE"
    /\ cpc[r] \in {"idle", "lookup", "connect", "retryDelete", "retryNew"}
          => status[<<r, 2>>] = "NONE"

(* ... and nothing points to one that does not exist.                      *)
MapMade       == \A k \in Key : connMap[k] # NoConn => status[connMap[k]] # "NONE"
CallConnMade  == \A r \in Req : cconn[r] # NoConn => status[cconn[r]] # "NONE"
CloseConnMade == \A t \in Closing : dconn[t] # NoConn => status[dconn[t]] # "NONE"
RecipientMade == \A r \in Req : recipient[r] # NoConn => status[recipient[r]] # "NONE"
AmsMade       == \A c \in Conn : ams[c] # "none" => status[c] # "NONE"
PointersMade  == /\ MapMade /\ CallConnMade /\ CloseConnMade
                 /\ RecipientMade /\ AmsMade

(* ConnectNative has taken the request of r.                               *)
Accepted(r) == cpc[r] = "stopExit" \/ cres[r] = "ok"

ResultFits == \A r \in Req :
    /\ cres[r] = "ok" => cpc[r] = "done"
    /\ cpc[r] \in {"idle", "lookup", "connect", "retryDelete", "retryNew",
                   "retryConnect", "stopExit"} => cres[r] = "none"
    /\ cpc[r] \in {"checkEmpty", "clean", "cleanCheck"} => cres[r] = "error"

(* Only an accepted request is in a list, is worked on or is spoken of.    *)
Untouched(r) ==
    /\ \A c \in Conn : r \notin pending[c] /\ r \notin connected[c]
    /\ recipient[r] = NoConn
    /\ \A q \in Req : r \notin hpop[q]
    /\ \A t \in Closing : t[1] = r => dpc[t] # "tell"
    /\ tasks[r] = <<>> /\ heard[r] = <<>> /\ told[r] = <<>>
OnlyAcceptedTouched == \A r \in Req : ~Accepted(r) => Untouched(r)

(* Requests are connected on a CONNECTED connection only, and whoever is   *)
(* about to disconnect an ability has made its connection DISCONNECTED.    *)
ConnectedStatus == \A c \in Conn : connected[c] # {} => status[c] = "CONNECTED"
CloseGivenUp == \A t \in Closing :
    dpc[t] = "ability" => status[dconn[t]] = "DISCONNECTED"
DeathGivenUp == \A r \in Req :
    hpc[r] \in {"tell", "ability"} => status[recipient[r]] = "DISCONNECTED"
AmsGivenUp == \A c \in Conn :
    ams[c] \in {"closing", "disconnecting"} => status[c] = "DISCONNECTED"
AbilityGivenUp == CloseGivenUp /\ DeathGivenUp /\ AmsGivenUp

(* A call or a handler that works on a connection has one; the death       *)
(* recipient is set once, at the end of an accepted ConnectNative.         *)
CloseWorks == \A t \in Closing :
    dpc[t] \in {"remove", "tell", "checkEmpty", "ability"} => dconn[t] # NoConn
DeathWorks == \A r \in Req : hpc[r] # "idle" => recipient[r] # NoConn
RecipientSet == \A r \in Req :
    recipient[r] # NoConn => cpc[r] \in {"stopExit", "done"}
ConnectWorks == \A r \in Req :
    cpc[r] \in {"connect", "retryDelete", "retryNew", "retryConnect"}
        => cconn[r] # NoConn
WorksOnConn == CloseWorks /\ DeathWorks /\ RecipientSet

(* A request is held by one list of one connection: a retry after          *)
(* CONNECT_STATUS_ERROR, and the move from the pending to the connected    *)
(* list in OnAbilityConnectDone, never leave it in two places.             *)
HeldOnce ==
    /\ \A c \in Conn : pending[c] \cap connected[c] = {}
    /\ \A c, d \in Conn : c # d => Held(c) \cap Held(d) = {}

(* Who may still speak of an accepted request: the list that holds it, the *)
(* death handler that popped it, or the closing call that took it out.     *)
InPending(r)   == \E c \in Conn : r \in pending[c]
InConnected(r) == \E c \in Conn : r \in connected[c]
PoppedBy(q, r) == hpc[q] = "tell" /\ r \in hpop[q]
ClosedBy(t, r) == t[1] = r /\ dpc[t] = "tell"
Popped(r) == \E q \in Req : PoppedBy(q, r)
Closed(r) == \E t \in Closing : ClosedBy(t, r)

(* It is one of them at a time.                                            *)
OneHand(r) ==
    /\ Closed(r) => ~InPending(r) /\ ~InConnected(r) /\ ~Popped(r)
    /\ Popped(r) => ~InPending(r) /\ ~InConnected(r)
    /\ \A t, u \in Closing : ClosedBy(t, r) /\ ClosedBy(u, r) => t = u
    /\ \A p, q \in Req : PoppedBy(p, r) /\ PoppedBy(q, r) => p = q
InOneHand == \A r \in Req : OneHand(r)

(* What a request's event queue, flag, caller and extension have seen of   *)
(* it while it waits, ...                                                  *)
Fresh(r) ==
    /\ tasks[r] = <<>> /\ ~isConnected[r]
    /\ heard[r] = <<>> /\ told[r] = <<>>

(* ... while it is served (a dead caller hears nothing), ...               *)
OpenHeard(r) ==
    heard[r] = <<"OnConnect">> \/ (heard[r] = <<>> /\ ProcOf[r] \notin alive)
Opening(r) == tasks[r] = <<"OnConnect">> /\ ~isConnected[r] /\ heard[r] = <<>>
Opened(r)  == tasks[r] = <<>> /\ isConnected[r] /\ OpenHeard(r)
Served(r)  == told[r] = <<"ConnectNative">> /\ (Opening(r) \/ Opened(r))

(* ... and from then on.                                                   *)
Ending(r) ==
    \/ /\ tasks[r] = <<"OnConnect", "OnDisconnect">>
       /\ ~isConnected[r] /\ heard[r] = <<>>
    \/ tasks[r] = <<"OnDisconnect">> /\ isConnected[r] /\ OpenHeard(r)
Failing(r) == tasks[r] = <<"OnFailed">> /\ ~isConnected[r] /\ heard[r] = <<>>
Over(r) ==
    /\ tasks[r] \in {<<>>, <<"OnDisconnect">>} /\ ~isConnected[r]
    /\ heard[r] \in {<<>>, <<"OnConnect">>, <<"OnConnect", "OnDisconnect">>,
                     <<"OnFailed">>}
ToldFits(r) ==
    told[r] \in {<<>>, <<"ConnectNative">>, <<"ConnectNative", "DisconnectNative">>}
Ended(r) == ToldFits(r) /\ told[r] # <<>> /\ Ending(r)

(* Whoever may still speak of a request knows how far it has come.         *)
Phase(r) ==
    \/ Fresh(r) \/ Served(r) \/ Ended(r)
    \/ Failing(r) /\ told[r] = <<>>
    \/ Over(r) /\ ToldFits(r)
Life(r) ==
    /\ Phase(r)
    /\ InPending(r) => Fresh(r)
    /\ InConnected(r) \/ Popped(r) => Served(r)
    /\ Closed(r) => Fresh(r) \/ Served(r)
LifeFits == \A r \in Req : Life(r)

(* What a request in the pending list waits for.  Only a connection that   *)
(* is being made, or was given up, has pending requests; the first has     *)
(* asked the ability manager and is still owed its answer, unless there    *)
(* was no client to ask.                                                   *)
PendingWaits == \A c \in Conn :
    pending[c] # {} => status[c] \in {"CONNECTING", "DISCONNECTED"}
ConnectingAsks == \A c \in Conn : status[c] = "CONNECTING" =>
    ams[c] = "connecting" \/ ("null_client" \in Faults /\ ams[c] = "none")

(* Whatever leads to a connection leads to one of the same key.            *)
MapKeys == \A k \in Key : connMap[k] # NoConn => ConnKey(connMap[k]) = k
CallKeys == \A r \in Req : cconn[r] # NoConn => ConnKey(cconn[r]) = KeyOf[r]
RecipientKeys == \A r \in Req :
    recipient[r] # NoConn => ConnKey(recipient[r]) = KeyOf[r]
PendingKeys == \A c \in Conn : \A r \in pending[c] : ConnKey(c) = KeyOf[r]
KeysFit == MapKeys /\ CallKeys /\ RecipientKeys /\ PendingKeys

(* A given up connection keeps a pending request only after a caller of    *)
(* its key has died.                                                       *)
CallersAlive(k) == \A q \in Req : KeyOf[q] = k => ProcOf[q] \in alive
OrphansOnly == \A c \in Conn :
    status[c] = "DISCONNECTED" /\ CallersAlive(ConnKey(c)) => pending[c] = {}

(* The extension stops only what it was told of.                           *)
StopTold == \A r \in Req : dpc[<<r, "ext">>] # "idle" => told[r] # <<>>

(* The connection that a request was accepted on, or taken from, has been  *)
(* connecting; and so has every one that the ability manager knows.        *)
Begun(c) == status[c] \notin {"NONE", "INIT"}
RecipientBegun == \A r \in Req : recipient[r] # NoConn => Begun(recipient[r])
CloseBegun == \A t \in Closing :
    dpc[t] \in {"tell", "checkEmpty"} => Begun(dconn[t])
BegunAsked == \A c \in Conn :
    Begun(c) => ams[c] # "none" \/ "null_client" \in Faults
AskedBegun == \A c \in Conn : ams[c] # "none" => Begun(c)

(* A connection that is DISCONNECTED stays so, and takes no new request:   *)
(* what DisconnectNative relies on when it deletes a connection after      *)
(* letting go of its lock.                                                 *)
DisconnectedIsFinal ==
    [][\A c \in Conn : status[c] = "DISCONNECTED" =>
          status'[c] = "DISCONNECTED" /\ Held(c)' \subseteq Held(c)]_vars

(* No path takes the extension ability away from a connection that still   *)
(* serves a request: only the extension's own crash does.                  *)
ServedOverLiveAbility ==
    \A c \in Conn : connected[c] # {} => ams[c] \in {"connected", "crashed"}

(* A connect call that returned an error left nothing behind: no list      *)
(* holds its request, the extension was not told of it and its caller      *)
(* gets no callback.                                                       *)
RefusedIsSilent ==
    \A r \in Req : cres[r] = "error" =>
        /\ \A c \in Conn : r \notin Held(c)
        /\ tasks[r] = <<>> /\ heard[r] = <<>> /\ told[r] = <<>>

(* The caller of a request hears OnConnect at most once, OnDisconnect at   *)
(* most once and only after it, and nothing after OnFailed: the posted     *)
(* callbacks, run later and with the isConnected_ guards, implement the    *)
(* life of a request.                                                      *)
CallerView(h) ==
    CASE h = <<>>                             -> "idle"
      [] h = <<"OnConnect">>                  -> "open"
      [] h = <<"OnConnect", "OnDisconnect">>  -> "closed"
      [] h = <<"OnFailed">>                   -> "failed"
      [] OTHER                                -> "broken"

Caller == INSTANCE RequestLifecycle WITH
              view <- [r \in Req |-> CallerView(heard[r])]
CallerProtocol == Caller!Spec

(* The extension is told of a request at most once, and of its end at most *)
(* once and only after that, whichever of the caller's disconnect, its own *)
(* stop and a caller's death come together.                                *)
ExtensionView(h) ==
    CASE h = <<>>                                    -> "idle"
      [] h = <<"ConnectNative">>                     -> "open"
      [] h = <<"ConnectNative", "DisconnectNative">> -> "closed"
      [] OTHER                                       -> "broken"

Extension == INSTANCE RequestLifecycle WITH
                 view <- [r \in Req |-> ExtensionView(told[r])]
ExtensionProtocol == Extension!Spec

(* A request the service accepted is answered: its caller hears OnConnect  *)
(* or OnFailed, unless the caller gives it up, or the service is unloaded, *)
(* first.                                                                  *)
AcceptedIsAnswered ==
    \A r \in Req : cres[r] = "ok" ~>
        \/ heard[r] # <<>>
        \/ dpc[<<r, "app">>] # "idle"
        \/ ~running

(* Whoever waits is not forgotten: as long as a request the service has    *)
(* accepted has heard nothing, and neither its caller closes it nor a      *)
(* caller of its key dies, it is pending on a connection whose answer the  *)
(* ability manager still owes, or its OnConnect or OnFailed is next in the *)
(* event queue.  So no handler has to come back to it.  One kind of        *)
(* connection owes no answer: ConnectNativeInit found no ability manager   *)
(* client, but has made it CONNECTING all the same.  A request that joins  *)
(* such a connection is accepted and waits for ever.                       *)
NeverAsked(c) == "null_client" \in Faults /\ ams[c] = "none"
Awaited(r) == \E c \in Conn :
    /\ r \in pending[c] /\ status[c] = "CONNECTING"
    /\ ams[c] = "connecting" \/ NeverAsked(c)
Answering(r) == tasks[r] # <<>> /\ Head(tasks[r]) \in {"OnConnect", "OnFailed"}
AnswerIsOwed ==
    \A r \in Req :
        /\ Accepted(r) /\ heard[r] = <<>>
        /\ dpc[<<r, "app">>] = "idle" /\ CallersAlive(KeyOf[r])
        => Awaited(r) \/ Answering(r)

(* Nothing is left behind by a connection that was given up: a handler is  *)
(* still to disconnect its ability, or OnAbilityDisconnectDone is still to *)
(* come, or its entry has left the map or is about to.  Several handlers   *)
(* give up one connection and each does a part of this; it holds as long   *)
(* as the ability manager refuses nothing.                                 *)
LetsGo(c) ==
    \/ \E t \in Closing : dpc[t] = "ability" /\ dconn[t] = c
    \/ \E r \in Req : hpc[r] \in {"tell", "ability"} /\ recipient[r] = c
LeavesMap(c) == apc[c] = "clean" \/ connMap[ConnKey(c)] # c
Refusals == {"null_client", "ability_err", "refuse_early", "disconnect_err"}
GivenUpIsFinished ==
    Faults \cap Refusals = {} =>
        \A c \in Conn : status[c] = "DISCONNECTED" =>
            \/ LetsGo(c)
            \/ ams[c] \in {"closing", "disconnecting", "crashed"}
            \/ ams[c] = "gone" /\ LeavesMap(c)

----------------------------------------------------------------------------
(* What the documentation says and the code does not do.                   *)

(* Nothing is under way: no call, no posted callback, no answer of the     *)
(* ability manager and no death notice is outstanding.                     *)
Quiescent ==
    /\ running /\ epc = "idle"
    /\ \A r \in Req : cpc[r] \in {"idle", "done"} /\ tasks[r] = <<>>
    /\ \A t \in Closing : dpc[t] \in {"idle", "done"}
    /\ \A r \in Req : /\ hpc[r] \in {"idle", "done"}
                       /\ (ProcOf[r] \in alive \/ recipient[r] = NoConn
                              \/ hpc[r] = "done")
    /\ \A c \in Conn : /\ ams[c] \in {"none", "connected", "gone"}
                        /\ apc[c] \in {"idle", "done"}

(* Connection c holds a request that is not lost with c.                   *)
Serves(c) == Held(c) # {} /\ ConnReferenced(c)

(* extension_ipc_connection.h: the destructor need not call back, for      *)
(* "HandleCallerDeath/OnAbilityDisconnectDone already cover all callback   *)
(* scenarios".  So a caller whose request was accepted, and which did not  *)
(* close it, has been told by the time no connection holds the request.    *)
EveryEndIsHeard ==
    Quiescent => \A r \in Req :
        /\ cres[r] = "ok" /\ ProcOf[r] \in alive
        /\ dpc[<<r, "app">>] = "idle"
        /\ \A c \in Conn : r \in Held(c) => ~ConnReferenced(c)
        => CallerView(heard[r]) \in {"closed", "failed"}

(* README, scenario 4: once every connection is closed the delayed exit is *)
(* started, and without a new connection the service exits.  So an unused  *)
(* service has its exit task pending.                                      *)
UnusedServiceWillExit ==
    Quiescent /\ (\A c \in Conn : ~Serves(c)) => exitTasks > 0

=============================================================================
