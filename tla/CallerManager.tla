---------------------------- MODULE CallerManager ----------------------------
(***************************************************************************)
(* connectNative and disconnectNative of one application process, as its   *)
(* JavaScript sees them, on top of what the client library promises        *)
(* (ProxySource).  A connection is entered into g_connects on the          *)
(* JavaScript thread, an async work calls the service, the service's       *)
(* callbacks are posted by binder threads to the JavaScript thread, and    *)
(* the callback for the service's death fails whatever is in g_connects.   *)
(*                                                                         *)
(* A posted callback runs at any later time and in any order, so the time  *)
(* it spends between the service and its binder thread is part of that.    *)
(* Of the service only its promise is here: a request that it accepts may  *)
(* connect and then ends at most once (NativeMessaging!CallerProtocol).    *)
(***************************************************************************)
EXTENDS ProxySource

(* An operator named F_X is F with the mistake X: it is used nowhere and   *)
(* shows that some property depends on F being as it is.                   *)

CONSTANTS
    Conn,       \* connectNative calls; each calls the client library once
    OfConn,     \* the disconnectNative calls -> the connection they name
    NoConn,     \* no connection
    MaxSerial,  \* stands for INT32_MAX
    MayMute     \* connections whose callbacks may fail to be posted or to run

Disc == DOMAIN OfConn
Ends == {"disconnect", "failed"}
Types == {"connect"} \cup Ends
Serial == 1..MaxSerial

CallerAssumption ==
    /\ Call = Conn \cup Disc
    /\ Conn \cap Disc = {}
    /\ OfConn \in [Disc -> Conn]
    /\ NoConn \notin Conn
    /\ MaxSerial \in Nat \ {0}
ASSUME CMAssumption == CallerAssumption

VARIABLES
    connects,      \* g_connects: serial -> connection
    serialNumber,  \* g_serialNumber
    connectionId,  \* connectionId_ of a connection, 0 before it is inserted
    work,          \* the async work of each call
    session,       \* the service's request: the start it belongs to, its state
    tasks,         \* callbacks posted to the JavaScript thread, by type
    heard,         \* connections whose end JavaScript has heard
    mute           \* connections that lost a callback

managerVars == <<connects, serialNumber, connectionId>>
jsVars == <<tasks, heard, mute>>
cmVars == <<managerVars, work, session, jsVars>>

CMInit ==
    /\ Init
    /\ connects = [i \in Serial |-> NoConn]
    /\ serialNumber = 1
    /\ connectionId = [n \in Conn |-> 0]
    /\ work = [c \in Call |-> "none"]
    /\ session = [n \in Conn |-> [start |-> 0, st |-> "none"]]
    /\ tasks = [n \in Conn |-> [t \in Types |-> 0]]
    /\ heard = {}
    /\ mute = {}

----------------------------------------------------------------------------
(* g_connects, under g_connectsLock.                                       *)

InsertConnection_NoWrap(n) ==
    /\ connects' = IF connects[serialNumber] = NoConn
                     THEN [connects EXCEPT ![serialNumber] = n] ELSE connects
    /\ serialNumber' = serialNumber + 1
    /\ connectionId' = [connectionId EXCEPT ![n] = serialNumber]

(* emplace: a serial number that is taken keeps its connection.            *)
InsertConnection(n) ==
    /\ connects' = IF connects[serialNumber] = NoConn
                     THEN [connects EXCEPT ![serialNumber] = n] ELSE connects
    /\ serialNumber' = IF serialNumber < MaxSerial THEN serialNumber + 1 ELSE 1
    /\ connectionId' = [connectionId EXCEPT ![n] = serialNumber]

RemoveConnection_Kept(i) == UNCHANGED <<connects, serialNumber, connectionId>>
RemoveConnection_All(i) ==
    /\ connects' = [k \in Serial |-> NoConn]
    /\ UNCHANGED <<serialNumber, connectionId>>
RemoveConnection(i) ==
    /\ connects' = [connects EXCEPT ![i] = NoConn]
    /\ UNCHANGED <<serialNumber, connectionId>>

----------------------------------------------------------------------------
(* Callbacks on the JavaScript thread.                                     *)

(* InvokeConnectNativeCallback: an end removes the entry and is then told; *)
(* when no handle scope can be opened, nothing is removed and nothing told. *)
(* onConnect leaves no trace here, told or not.                            *)
InvokeConnectNativeCallback(n, t) ==
    \/ t = "connect" /\ UNCHANGED <<managerVars, heard, mute>>
    \/ /\ t \in Ends
       /\ RemoveConnection(connectionId[n])
       /\ heard' = heard \cup {n}
       /\ UNCHANGED mute
    \/ /\ t \in Ends /\ n \in MayMute
       /\ mute' = mute \cup {n}
       /\ UNCHANGED <<managerVars, heard>>

(* DoJsExtensionConnectCallback of callback t for each connection of ns,   *)
(* on a thread other than JavaScript's.                                    *)
DoJsExtensionConnectCallback(ns, t) ==
    \E lost \in SUBSET (ns \cap MayMute) :
        /\ tasks' = [n \in Conn |-> IF n \in ns \ lost
                                      THEN [tasks[n] EXCEPT ![t] = @ + 1]
                                      ELSE tasks[n]]
        /\ mute' = mute \cup lost

(* A posted callback runs.  Its queue keeps no order.                      *)
UvInvokeConnectNativeCallback(n, t) ==
    /\ tasks[n][t] > 0
    /\ tasks' = [tasks EXCEPT ![n][t] = @ - 1]
    /\ InvokeConnectNativeCallback(n, t)
    /\ UNCHANGED <<work, session, vars>>

----------------------------------------------------------------------------
(* The two calls.                                                          *)

ConnectNative(n) ==
    /\ work[n] = "none"
    /\ InsertConnection(n)
    /\ work' = [work EXCEPT ![n] = "busy"]
    /\ UNCHANGED <<session, jsVars, vars>>

(* The application knows the connection by what ConnectNative returned.    *)
DisconnectNative(d) ==
    /\ work[d] = "none"
    /\ work[OfConn[d]] # "none"
    /\ work' = [work EXCEPT ![d] = "busy"]
    /\ UNCHANGED <<managerVars, session, jsVars, vars>>

(* An async work asks the client library for a proxy.                      *)
AskForProxy(c) ==
    /\ work[c] = "busy"
    /\ GetProxy(c)
    /\ UNCHANGED cmVars

Served(n) == session[n].st \in {"accepted", "connected"} /\ session[n].start = running

HasProxy(c) == work[c] = "busy" /\ c \in returned

(* ConnectNativeExcute: no proxy, a dead one, or a refusal; or the service *)
(* has the request and the answer is to come.                              *)
ConnectNativeExcute(n) ==
    /\ HasProxy(n)
    /\ \/ /\ work' = [work EXCEPT ![n] = "refused"]
          /\ UNCHANGED session
       \/ /\ result[n] # 0 /\ result[n] = running
          /\ session' = [session EXCEPT ![n] = [start |-> running, st |-> "accepted"]]
          /\ work' = [work EXCEPT ![n] = "sent"]
    /\ UNCHANGED <<managerVars, jsVars, vars>>

(* The answer has come, or a service that died has taken it along.         *)
(* ConnectNativeComplete runs on the JavaScript thread, so OnFailed calls  *)
(* JavaScript in place.                                                    *)
ConnectNativeComplete(n) ==
    /\ \/ /\ work[n] = "refused" \/ (work[n] = "sent" /\ session[n].start # running)
          /\ InvokeConnectNativeCallback(n, "failed")
       \/ /\ work[n] = "sent"
          /\ UNCHANGED <<managerVars, heard, mute>>
    /\ work' = [work EXCEPT ![n] = "done"]
    /\ UNCHANGED <<session, tasks, vars>>

(* The service ends the request, and OnDisconnect or OnFailed of           *)
(* WebExtensionConnectionCallback runs on a binder thread.                 *)
EndSession(n, t) ==
    /\ session' = [session EXCEPT ![n].st = "ended"]
    /\ DoJsExtensionConnectCallback({n}, t)

(* DisconnectNativeExcute: the entry stays until the end is heard.  What   *)
(* the promise says is left out.                                           *)
DisconnectNativeExcute(d) ==
    /\ HasProxy(d)
    /\ \/ /\ result[d] = running /\ Served(OfConn[d])
          /\ EndSession(OfConn[d], "disconnect")
       \/ UNCHANGED <<session, tasks, mute>>
    /\ work' = [work EXCEPT ![d] = "done"]
    /\ UNCHANGED <<managerVars, heard, vars>>

----------------------------------------------------------------------------
(* The service and its callbacks.                                          *)

SessionConnects(n) ==
    /\ Served(n) /\ session[n].st = "accepted"
    /\ session' = [session EXCEPT ![n].st = "connected"]
    /\ DoJsExtensionConnectCallback({n}, "connect")
    /\ UNCHANGED <<managerVars, work, heard, vars>>

SessionEnds(n) ==
    /\ Served(n)
    /\ EndSession(n, IF session[n].st = "connected" THEN "disconnect" ELSE "failed")
    /\ UNCHANGED <<managerVars, work, heard, vars>>

(* The callback for the service's death that InsertConnection has set:     *)
(* every entry fails and goes, whichever start it belongs to.              *)
FailAll_Silent(i) ==
    /\ connects' = [k \in Serial |-> NoConn]
    /\ UNCHANGED <<tasks, mute>>
FailAll(i) ==
    /\ DoJsExtensionConnectCallback({connects[k] : k \in Serial} \ {NoConn}, "failed")
    /\ connects' = [k \in Serial |-> NoConn]

ServiceDied(i) ==
    /\ CallDeathCallback(i)
    /\ FailAll(i)
    /\ UNCHANGED <<serialNumber, connectionId, work, session, heard>>

----------------------------------------------------------------------------
ServiceStep == (SaStarts \/ SaDies) /\ UNCHANGED cmVars

ConnStep(n) ==
    \/ ConnectNativeExcute(n) \/ ConnectNativeComplete(n)
    \/ \E t \in Types : UvInvokeConnectNativeCallback(n, t)

CMNext ==
    \/ \E n \in Conn : ConnectNative(n) \/ ConnStep(n) \/ SessionConnects(n) \/ SessionEnds(n)
    \/ \E d \in Disc : DisconnectNative(d) \/ DisconnectNativeExcute(d)
    \/ \E c \in Call : AskForProxy(c)
    \/ \E i \in Start : ServiceDied(i)
    \/ ServiceStep

CMSpec == CMInit /\ [][CMNext]_<<cmVars, vars>>

(* Async works and the event loop get on with what they have; neither the  *)
(* service nor the application has to do anything, and no end waits for an *)
(* onConnect.                                                              *)
CMFairSpec ==
    /\ CMSpec
    /\ \A n \in Conn :
        /\ WF_<<cmVars, vars>>(ConnectNativeExcute(n) \/ ConnectNativeComplete(n))
        /\ WF_<<cmVars, vars>>(\E t \in Ends : UvInvokeConnectNativeCallback(n, t))

----------------------------------------------------------------------------
PostedEnd(n) == \E t \in Ends : tasks[n][t] > 0

CMTypeOK ==
    /\ TypeOK
    /\ connects \in [Serial -> Conn \cup {NoConn}]
    /\ serialNumber \in Serial
    /\ connectionId \in [Conn -> Serial \cup {0}]
    /\ work \in [Call -> {"none", "busy", "refused", "sent", "done"}]
    /\ session \in [Conn -> [start : Start \cup {0},
                             st : {"none", "accepted", "connected", "ended"}]]
    /\ tasks \in [Conn -> [Types -> Nat]]
    /\ heard \subseteq Conn
    /\ mute \subseteq Conn

(* No other connection has got the serial number of n: fewer than          *)
(* INT32_MAX connections have been made since n was, or before it.         *)
SerialUnique(n) == \A m \in Conn : connectionId[m] = connectionId[n] => m = n

(* A connection is in g_connects, where the service's death finds it, until *)
(* JavaScript hears its end or is about to, and no longer.                  *)
RegisteredUntilEnd ==
    \A n \in Conn :
        /\ connectionId[n] # 0 /\ SerialUnique(n) /\ n \notin mute =>
               connects[connectionId[n]] = n \/ n \in heard \/ PostedEnd(n)
        /\ n \in heard => connects[connectionId[n]] # n

(* JavaScript has heard the end of a connection or is about to, unless a   *)
(* callback could not be posted or could not run.                          *)
EndIsSure(n) == n \in heard \/ n \in mute \/ PostedEnd(n)

(* Once the death of a start is told, the end of every connection which    *)
(* that start has accepted has been heard or is posted, even before the    *)
(* answer to its ConnectNative has come.                                   *)
ToldDeathIsPosted ==
    \A n \in Conn : session[n].start \in told /\ SerialUnique(n) => EndIsSure(n)

(* An entry goes when JavaScript hears the end of that very connection, or  *)
(* all go when the service's death is told: an end that comes twice, or     *)
(* late, takes no other connection along.                                   *)
RemovedByOwnEnd ==
    [][\A k \in Serial :
        connects[k] # NoConn /\ connects'[k] # connects[k] /\ SerialUnique(connects[k]) =>
            \/ connects[k] \in heard' \ heard
            \/ \E i \in Start : ServiceDied(i)]_<<cmVars, vars>>

(* Once the death of a start is told, every connection which that start has *)
(* accepted hears an end, whatever was on its way: its answer, its onConnect *)
(* or its own end.                                                          *)
DeathIsHeard ==
    \A n \in Conn : session[n].start \in told ~> n \in heard \/ n \in mute
=============================================================================
