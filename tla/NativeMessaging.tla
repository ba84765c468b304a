-------------------------- MODULE NativeMessaging --------------------------
(***************************************************************************)
(* The web native messaging service (system ability 8610): the manager's   *)
(* map of extension connections, the life of one ExtensionIpcConnection,   *)
(* the request callbacks posted to the service's event queue, and the      *)
(* delayed exit of the process.                                            *)
(*                                                                         *)
(* Every call that reaches the service runs on an IPC thread of its own,   *)
(* so each call is a process with a program counter.  A step is what runs  *)
(* under one acquisition of AbilityConnectMutex_ or of a connection's      *)
(* mutex_, or one call to the ability manager.  What the ability manager,  *)
(* the extension and the callers may do is the environment's part.         *)
(***************************************************************************)
EXTENDS Naturals, Sequences, FiniteSets

(* An operator named F_X is F with the mistake X: it is used nowhere and   *)
(* shows that some property depends on F being as it is.                   *)

CONSTANTS
    Req,        \* connect calls; each makes one ConnectionNativeRequest
    Key,        \* (caller token, extension bundle) pairs
    Proc,       \* caller processes
    KeyOf,      \* the pair a request is made for
    ProcOf,     \* the process a request is made by
    Closers,    \* <<r, "app">>: r's caller disconnects it,
                \* <<r, "ext">>: the extension stops it
    Mortal,     \* caller processes that may die
    Faults,     \* what may go wrong around the service
    NoConn      \* a null ExtensionIpcConnection pointer

FaultKinds == {"reject",          \* a connect call fails its checks
               "memory",          \* new (std::nothrow) returns null
               "null_client",     \* AbilityManagerClient::GetInstance() is null
               "connect_err",     \* ConnectAbilityWithExtensionType fails
               "ability_err",     \* the extension does not start
               "ipc_err",         \* the extension refuses ConnectNative
               "refuse_early",    \* DisconnectAbility fails while connecting
               "disconnect_err",  \* DisconnectAbility fails
               "crash",           \* the extension's process dies
               "unload_err"}      \* UnloadSystemAbility fails

(* A connection object is named by the call that made it: LookUpOrNew      *)
(* makes <<r, 1>>, the retry of the same call makes <<r, 2>>.              *)
Conn == Req \X {1, 2}

ConstantsAssumption ==
    /\ KeyOf \in [Req -> Key]
    /\ ProcOf \in [Req -> Proc]
    /\ Closers \subseteq Req \X {"app", "ext"}
    /\ Mortal \subseteq Proc
    /\ Faults \subseteq FaultKinds
    /\ NoConn \notin Conn
ASSUME NMAssumption == ConstantsAssumption

VARIABLES
    connMap,     \* AbilityConnectMap_: a connection or NoConn for each key
    status,      \* status_ of each connection; "NONE" before it is made
    pending,     \* pendingRequests_
    connected,   \* connectedRequests_
    remote,      \* extensionIpcRemote_ is not null
    ams,         \* the ability manager's record of each connection
    isConnected, \* isConnected_ of each request
    tasks,       \* callbacks of each request in the service's event queue
    heard,       \* callbacks each request's caller has received
    told,        \* calls the extension has received about each request
    recipient,   \* the connection the request's death recipient points to
    alive,       \* caller processes that run
    cpc, cconn, cres,   \* connect calls: step, ipcConnect, what they return
    dpc, dconn, dres,   \* disconnect and stop calls: the same
    hpc, hpop,   \* death handlers: step, popDeleteList
    apc,         \* OnAbilityDisconnectDone of each connection: step
    exitTasks,   \* delayed exit tasks in the event queue
    epc,         \* ExitSaProcess: step
    running      \* the service's process runs

mapVars     == <<connMap>>
connVars    == <<status, pending, connected, remote>>
reqVars     == <<isConnected, tasks, heard, told, recipient>>
connectVars == <<cpc, cconn, cres>>
closeVars   == <<dpc, dconn, dres>>
deathVars   == <<hpc, hpop>>
exitVars    == <<exitTasks, epc, running>>
vars == <<mapVars, connVars, ams, reqVars, alive, connectVars, closeVars,
          deathVars, apc, exitVars>>

Status   == {"NONE", "INIT", "CONNECTING", "CONNECTED", "DISCONNECTED"}
AmsState == {"none", "connecting", "connected", "crashed", "closing",
             "disconnecting", "gone"}
Callback == {"OnConnect", "OnDisconnect", "OnFailed"}
ExtCall  == {"ConnectNative", "DisconnectNative"}
ConnectPc == {"idle", "lookup", "connect", "retryDelete", "retryNew",
              "retryConnect", "checkEmpty", "clean", "cleanCheck",
              "stopExit", "done"}
ClosePc  == {"idle", "lookup", "remove", "tell", "checkEmpty", "ability",
             "delete", "done"}
DeathPc  == {"idle", "tell", "ability", "clean", "cleanCheck", "done"}
Result   == {"none", "ok", "error"}

Closing  == Req \X {"app", "ext"}

(* The key a connection was made for: callerTokenId_, targetBundleName_.   *)
ConnKey(c) == KeyOf[c[1]]

Held(c) == pending[c] \cup connected[c]

IsRequestListEmpty_ConnectedOnly(c) == connected[c] = {}
IsRequestListEmpty(c) == pending[c] = {} /\ connected[c] = {}

----------------------------------------------------------------------------
(* Who keeps an object alive.  A connection: the map, a call that works on *)
(* it, the ability manager's record.  A request: a list of a live          *)
(* connection, a posted task, its connect call, its disconnect call, a     *)
(* death handler's popDeleteList.                                          *)

ConnReferenced(c) ==
    \/ connMap[ConnKey(c)] = c
    \/ \E r \in Req : cconn[r] = c /\ cpc[r] # "done"
    \/ \E t \in Closing : dconn[t] = c /\ dpc[t] # "done"
    \/ \E r \in Req : recipient[r] = c /\ hpc[r] \notin {"idle", "done"}
    \/ ams[c] \notin {"none", "gone"}
    \/ apc[c] \in {"clean", "cleanCheck"}

RequestReferenced(r) ==
    \/ cpc[r] \notin {"idle", "done"}
    \/ dpc[<<r, "app">>] \notin {"idle", "done"}
    \/ dpc[<<r, "ext">>] \in {"tell", "checkEmpty", "ability"}
    \/ tasks[r] # <<>>
    \/ \E c \in Conn : r \in Held(c) /\ ConnReferenced(c)
    \/ \E q \in Req : r \in hpop[q]

----------------------------------------------------------------------------
Init ==
    /\ connMap = [k \in Key |-> NoConn]
    /\ status = [c \in Conn |-> "NONE"]
    /\ pending = [c \in Conn |-> {}]
    /\ connected = [c \in Conn |-> {}]
    /\ remote = [c \in Conn |-> FALSE]
    /\ ams = [c \in Conn |-> "none"]
    /\ isConnected = [r \in Req |-> FALSE]
    /\ tasks = [r \in Req |-> <<>>]
    /\ heard = [r \in Req |-> <<>>]
    /\ told = [r \in Req |-> <<>>]
    /\ recipient = [r \in Req |-> NoConn]
    /\ alive = Proc
    /\ cpc = [r \in Req |-> "idle"]
    /\ cconn = [r \in Req |-> NoConn]
    /\ cres = [r \in Req |-> "none"]
    /\ dpc = [t \in Closing |-> "idle"]
    /\ dconn = [t \in Closing |-> NoConn]
    /\ dres = [t \in Closing |-> "none"]
    /\ hpc = [r \in Req |-> "idle"]
    /\ hpop = [r \in Req |-> {}]
    /\ apc = [c \in Conn |-> "idle"]
    /\ exitTasks = 1          \* WebNativeMessagingManager::Init calls Start
    /\ epc = "idle"
    /\ running = TRUE

----------------------------------------------------------------------------
(* Operators the handlers share.                                           *)

(* Where a call or a handler stands; all stop when the process exits.      *)
ConnectAt(r, steps) == running /\ cpc[r] \in steps
CloseAt(t, step) == running /\ dpc[t] = step
DeathAt(r, step) == running /\ hpc[r] = step

Post(S, callback) ==
    tasks' = [r \in Req |-> IF r \in S THEN Append(tasks[r], callback)
                            ELSE tasks[r]]

Tell(S, call) ==
    told' = [r \in Req |-> IF r \in S THEN Append(told[r], call) ELSE told[r]]

(* A request list l of all connections without request r of connection c.  *)
Erased_Kept(l, c, r) == l
Erased(l, c, r) == [l EXCEPT ![c] = @ \ {r}]

(* DeleteIpcConnect: by key, whatever connection the key maps to now.      *)
DeleteIpcConnect(k) == connMap' = [connMap EXCEPT ![k] = NoConn]

IsIpcConnectExist(m) == \E k \in Key : m[k] # NoConn

(* delayExitTask_->Start() when no connection is left in the map m.        *)
StartExitIfEmpty(m) ==
    exitTasks' = IF IsIpcConnectExist(m) THEN exitTasks ELSE exitTasks + 1

(* DoConnectNative reaches the extension, or does not.                     *)
CanConnectNative(c) == remote[c] /\ ams[c] = "connected"
CanFailConnectNative(c) == ~CanConnectNative(c) \/ "ipc_err" \in Faults

(* The ability manager accepts a DisconnectAbility.  A connection it is    *)
(* still connecting to is accepted only if its OnAbilityConnectDone is     *)
(* already on the way.                                                     *)
DisconnectAbilityOk(c) ==
    /\ ams[c] \in {"connecting", "connected"}
    /\ ams' = [ams EXCEPT ![c] = IF @ = "connecting" THEN "closing"
                                 ELSE "disconnecting"]

DisconnectAbilityErr(c) ==
    /\ \/ ams[c] \notin {"connecting", "connected"}
       \/ ams[c] = "connecting" /\ "refuse_early" \in Faults
       \/ "disconnect_err" \in Faults
    /\ UNCHANGED ams

----------------------------------------------------------------------------
(* ConnectWebNativeMessagingExtension, on the caller's IPC thread.         *)

(* The parameters and the want pass their checks; the request is made and  *)
(* registered.                                                             *)
ConnectBegin(r) ==
    /\ ConnectAt(r, {"idle"})
    /\ ProcOf[r] \in alive
    /\ cpc' = [cpc EXCEPT ![r] = "lookup"]
    /\ UNCHANGED <<mapVars, connVars, ams, reqVars, alive, cconn, cres,
                   closeVars, deathVars, apc, exitVars>>

(* A check fails: no request is registered.                                *)
ConnectRejected(r) ==
    /\ "reject" \in Faults
    /\ ConnectAt(r, {"idle"})
    /\ ProcOf[r] \in alive
    /\ cpc' = [cpc EXCEPT ![r] = "done"]
    /\ cres' = [cres EXCEPT ![r] = "error"]
    /\ UNCHANGED <<mapVars, connVars, ams, reqVars, alive, cconn,
                   closeVars, deathVars, apc, exitVars>>

(* NewIpcConnectionUnlock: map.insert keeps an entry that is there.        *)
NewIpcConnection(k, c) ==
    /\ status' = [status EXCEPT ![c] = "INIT"]
    /\ connMap' = IF connMap[k] = NoConn THEN [connMap EXCEPT ![k] = c]
                  ELSE connMap

LookUpOrNewIpcConnection(r) ==
    LET k == KeyOf[r] IN
    /\ ConnectAt(r, {"lookup"})
    /\ \/ /\ connMap[k] # NoConn
          /\ cconn' = [cconn EXCEPT ![r] = connMap[k]]
          /\ cpc' = [cpc EXCEPT ![r] = "connect"]
          /\ UNCHANGED <<connMap, status, cres>>
       \/ /\ connMap[k] = NoConn
          /\ NewIpcConnection(k, <<r, 1>>)
          /\ cconn' = [cconn EXCEPT ![r] = <<r, 1>>]
          /\ cpc' = [cpc EXCEPT ![r] = "connect"]
          /\ UNCHANGED cres
       \/ /\ connMap[k] = NoConn /\ "memory" \in Faults
          /\ cpc' = [cpc EXCEPT ![r] = "done"]
          /\ cres' = [cres EXCEPT ![r] = "error"]
          /\ UNCHANGED <<connMap, status, cconn>>
    /\ UNCHANGED <<pending, connected, remote, ams, reqVars, alive,
                   closeVars, deathVars, apc, exitVars>>

(* ConnectNative accepted r on connection c: AddDeathRecipientCallback,    *)
(* which has no effect on a callback whose process is already dead.        *)
ConnectAccepted(r, c) ==
    /\ recipient' = [recipient EXCEPT ![r] = IF ProcOf[r] \in alive THEN c
                                             ELSE NoConn]
    /\ cpc' = [cpc EXCEPT ![r] = "stopExit"]
    /\ UNCHANGED cres

(* ConnectNative returned an error other than CONNECT_STATUS_ERROR.        *)
ConnectFailed(r) ==
    /\ cpc' = [cpc EXCEPT ![r] = "checkEmpty"]
    /\ cres' = [cres EXCEPT ![r] = "error"]
    /\ UNCHANGED recipient

(* ConnectNative on a DISCONNECTED connection.  The first time it is       *)
(* retried on a new connection; the retry is given up.                     *)
ConnectNativeDisconnected(r) ==
    LET c == cconn[r] IN
    /\ ConnectAt(r, {"connect", "retryConnect"})
    /\ status[c] = "DISCONNECTED"
    /\ IF cpc[r] = "connect"
       THEN cpc' = [cpc EXCEPT ![r] = "retryDelete"] /\ UNCHANGED <<cres, recipient>>
       ELSE ConnectFailed(r)
    /\ UNCHANGED <<mapVars, connVars, ams, isConnected, tasks, heard, told,
                   alive, cconn, closeVars, deathVars, apc, exitVars>>

(* ConnectNative on an INIT connection asks the ability manager to connect *)
(* the extension ability.  The request waits in the pending list before    *)
(* the call, and RemovePendingRequestUnlock takes it out when it fails.    *)
RemovePendingRequestUnlock_Kept(l, r) == l
RemovePendingRequestUnlock(l, r) == l \ {r}

ConnectNativeInit(r) ==
    LET c == cconn[r]
        waiting == pending[c] \cup {r} IN
    /\ ConnectAt(r, {"connect", "retryConnect"})
    /\ status[c] = "INIT"
    /\ \/ /\ status' = [status EXCEPT ![c] = "CONNECTING"]
          /\ pending' = [pending EXCEPT ![c] = waiting]
          /\ ams' = [ams EXCEPT ![c] = "connecting"]
          /\ ConnectAccepted(r, c)
       \/ /\ "null_client" \in Faults
          /\ status' = [status EXCEPT ![c] = "CONNECTING"]
          /\ pending' = [pending EXCEPT ![c] = RemovePendingRequestUnlock(waiting, r)]
          /\ ConnectFailed(r)
          /\ UNCHANGED ams
       \/ /\ "connect_err" \in Faults
          /\ pending' = [pending EXCEPT ![c] = RemovePendingRequestUnlock(waiting, r)]
          /\ ConnectFailed(r)
          /\ UNCHANGED <<status, ams>>
    /\ UNCHANGED <<mapVars, connected, remote, isConnected, tasks, heard, told,
                   alive, cconn, closeVars, deathVars, apc, exitVars>>

ConnectNativeConnecting(r) ==
    LET c == cconn[r] IN
    /\ ConnectAt(r, {"connect", "retryConnect"})
    /\ status[c] = "CONNECTING"
    /\ pending' = [pending EXCEPT ![c] = @ \cup {r}]
    /\ ConnectAccepted(r, c)
    /\ UNCHANGED <<mapVars, status, connected, remote, ams, isConnected, tasks,
                   heard, told, alive, cconn, closeVars, deathVars, apc,
                   exitVars>>

(* ConnectNative on a CONNECTED connection calls the extension at once.    *)
ConnectNativeConnected(r) ==
    LET c == cconn[r] IN
    /\ ConnectAt(r, {"connect", "retryConnect"})
    /\ status[c] = "CONNECTED"
    /\ \/ /\ CanConnectNative(c)
          /\ connected' = [connected EXCEPT ![c] = @ \cup {r}]
          /\ Post({r}, "OnConnect")
          /\ Tell({r}, "ConnectNative")
          /\ ConnectAccepted(r, c)
       \/ /\ CanFailConnectNative(c)
          /\ ConnectFailed(r)
          /\ UNCHANGED <<connected, tasks, told>>
    /\ UNCHANGED <<mapVars, status, pending, remote, ams, isConnected, heard,
                   alive, cconn, closeVars, deathVars, apc, exitVars>>

(* The retry after CONNECT_STATUS_ERROR: DeleteIpcConnect, then            *)
(* NewIpcConnection, under two acquisitions of AbilityConnectMutex_.       *)
RetryDelete(r) ==
    /\ ConnectAt(r, {"retryDelete"})
    /\ DeleteIpcConnect(KeyOf[r])
    /\ cpc' = [cpc EXCEPT ![r] = "retryNew"]
    /\ UNCHANGED <<connVars, ams, reqVars, alive, cconn, cres, closeVars,
                   deathVars, apc, exitVars>>

RetryNew(r) ==
    /\ ConnectAt(r, {"retryNew"})
    /\ \/ /\ NewIpcConnection(KeyOf[r], <<r, 2>>)
          /\ cconn' = [cconn EXCEPT ![r] = <<r, 2>>]
          /\ cpc' = [cpc EXCEPT ![r] = "retryConnect"]
          /\ UNCHANGED cres
       \/ /\ "memory" \in Faults
          /\ cpc' = [cpc EXCEPT ![r] = "done"]
          /\ cres' = [cres EXCEPT ![r] = "error"]
          /\ UNCHANGED <<connMap, status, cconn>>
    /\ UNCHANGED <<pending, connected, remote, ams, reqVars, alive,
                   closeVars, deathVars, apc, exitVars>>

(* A failed ConnectNative: IsRequestListEmpty, then CleanAbilityConnection *)
(* (a DeleteIpcConnect, then IsIpcConnectExist and Start).                 *)
ConnectCheckEmpty(r) ==
    /\ ConnectAt(r, {"checkEmpty"})
    /\ cpc' = [cpc EXCEPT ![r] = IF IsRequestListEmpty(cconn[r])
                                   THEN "clean" ELSE "done"]
    /\ UNCHANGED <<mapVars, connVars, ams, reqVars, alive, cconn, cres,
                   closeVars, deathVars, apc, exitVars>>

ConnectClean(r) ==
    /\ ConnectAt(r, {"clean"})
    /\ DeleteIpcConnect(KeyOf[r])
    /\ cpc' = [cpc EXCEPT ![r] = "cleanCheck"]
    /\ UNCHANGED <<connVars, ams, reqVars, alive, cconn, cres, closeVars,
                   deathVars, apc, exitVars>>

ConnectCleanCheck(r) ==
    /\ ConnectAt(r, {"cleanCheck"})
    /\ StartExitIfEmpty(connMap)
    /\ cpc' = [cpc EXCEPT ![r] = "done"]
    /\ UNCHANGED <<mapVars, connVars, ams, reqVars, alive, cconn, cres,
                   closeVars, deathVars, apc, epc, running>>

(* Success: delayExitTask_->Stop() removes every task of that name.        *)
ConnectStopExit(r) ==
    /\ ConnectAt(r, {"stopExit"})
    /\ exitTasks' = 0
    /\ cpc' = [cpc EXCEPT ![r] = "done"]
    /\ cres' = [cres EXCEPT ![r] = "ok"]
    /\ UNCHANGED <<mapVars, connVars, ams, reqVars, alive, cconn, closeVars,
                   deathVars, apc, epc, running>>

----------------------------------------------------------------------------
(* DisconnectWebNativeMessagingExtension and                               *)
(* StopNativeConnectionFromExtension.                                      *)

CloseEnd(t, result) ==
    /\ dpc' = [dpc EXCEPT ![t] = "done"]
    /\ dres' = [dres EXCEPT ![t] = result]

(* The caller's disconnect finds its request through InnerIdMap_ and       *)
(* connectIdMap_.                                                          *)
DisconnectBegin(r) ==
    LET t == <<r, "app">> IN
    /\ t \in Closers
    /\ CloseAt(t, "idle")
    /\ cpc[r] # "idle"
    /\ ProcOf[r] \in alive
    /\ \/ /\ RequestReferenced(r)
          /\ dpc' = [dpc EXCEPT ![t] = "lookup"]
          /\ UNCHANGED dres
       \/ /\ ~RequestReferenced(r)
          /\ CloseEnd(t, "error")
    /\ UNCHANGED <<mapVars, connVars, ams, reqVars, alive, connectVars, dconn,
                   deathVars, apc, exitVars>>

DisconnectLookUp(r) ==
    LET t == <<r, "app">> IN
    /\ CloseAt(t, "lookup")
    /\ \/ /\ connMap[KeyOf[r]] # NoConn
          /\ dconn' = [dconn EXCEPT ![t] = connMap[KeyOf[r]]]
          /\ dpc' = [dpc EXCEPT ![t] = "remove"]
          /\ UNCHANGED dres
       \/ /\ connMap[KeyOf[r]] = NoConn
          /\ CloseEnd(t, "error")
          /\ UNCHANGED dconn
    /\ UNCHANGED <<mapVars, connVars, ams, reqVars, alive, connectVars,
                   deathVars, apc, exitVars>>

(* The extension stops a request it has been told of: the request, the     *)
(* caller's pid and the connection are looked up under one lock.           *)
StopBegin(r) ==
    LET t == <<r, "ext">> IN
    /\ t \in Closers
    /\ CloseAt(t, "idle")
    /\ told[r] # <<>>
    /\ \/ /\ RequestReferenced(r) /\ connMap[KeyOf[r]] # NoConn
          /\ dconn' = [dconn EXCEPT ![t] = connMap[KeyOf[r]]]
          /\ dpc' = [dpc EXCEPT ![t] = "remove"]
          /\ UNCHANGED dres
       \/ /\ ~RequestReferenced(r) \/ connMap[KeyOf[r]] = NoConn
          /\ CloseEnd(t, "error")
          /\ UNCHANGED dconn
    /\ UNCHANGED <<mapVars, connVars, ams, reqVars, alive, connectVars,
                   deathVars, apc, exitVars>>

(* ExtensionIpcConnection::DisconnectNative, first LookForAndRemoveRequest *)
CloseRemove(t) ==
    LET r == t[1]  c == dconn[t] IN
    /\ CloseAt(t, "remove")
    /\ \/ /\ r \in pending[c]
          /\ pending' = Erased(pending, c, r)
          /\ dpc' = [dpc EXCEPT ![t] = "tell"]
          /\ UNCHANGED <<connected, dres>>
       \/ /\ r \in connected[c] \ pending[c]
          /\ connected' = Erased(connected, c, r)
          /\ dpc' = [dpc EXCEPT ![t] = "tell"]
          /\ UNCHANGED <<pending, dres>>
       \/ /\ r \notin Held(c)
          /\ CloseEnd(t, "error")
          /\ UNCHANGED <<pending, connected>>
    /\ UNCHANGED <<mapVars, status, remote, ams, reqVars, alive, connectVars,
                   dconn, deathVars, apc, exitVars>>

(* IsConnected(), then DoDisconnectNative if it is.  IsConnected() is the  *)
(* flag that the posted OnConnect sets, not membership of connected.       *)
CloseTell(t) ==
    LET S == IF isConnected[t[1]] /\ remote[dconn[t]] THEN {t[1]} ELSE {} IN
    /\ CloseAt(t, "tell")
    /\ Tell(S, "DisconnectNative")
    /\ Post(S, "OnDisconnect")
    /\ dpc' = [dpc EXCEPT ![t] = "checkEmpty"]
    /\ UNCHANGED <<mapVars, connVars, ams, isConnected, heard, recipient, alive,
                   connectVars, dconn, dres, deathVars, apc, exitVars>>

CloseCheckEmpty(t) ==
    LET c == dconn[t] IN
    /\ CloseAt(t, "checkEmpty")
    /\ \/ /\ IsRequestListEmpty(c)
          /\ status' = [status EXCEPT ![c] = "DISCONNECTED"]
          /\ dpc' = [dpc EXCEPT ![t] = "ability"]
          /\ UNCHANGED dres
       \/ /\ ~IsRequestListEmpty(c)
          /\ CloseEnd(t, "ok")
          /\ UNCHANGED status
    /\ UNCHANGED <<mapVars, pending, connected, remote, ams, reqVars, alive,
                   connectVars, dconn, deathVars, apc, exitVars>>

CloseAbility(t) ==
    LET c == dconn[t] IN
    /\ CloseAt(t, "ability")
    /\ \/ /\ DisconnectAbilityOk(c)
          /\ dpc' = [dpc EXCEPT ![t] = "delete"]
          /\ UNCHANGED dres
       \/ /\ DisconnectAbilityErr(c)
          /\ CloseEnd(t, "error")
       \/ /\ "null_client" \in Faults
          /\ CloseEnd(t, "error")
          /\ UNCHANGED ams
    /\ UNCHANGED <<mapVars, connVars, reqVars, alive, connectVars, dconn,
                   deathVars, apc, exitVars>>

(* ipcConnectNeedDelete: delete and check under one lock.                  *)
CloseDelete(t) ==
    /\ CloseAt(t, "delete")
    /\ DeleteIpcConnect(KeyOf[t[1]])
    /\ StartExitIfEmpty(connMap')
    /\ CloseEnd(t, "ok")
    /\ UNCHANGED <<connVars, ams, reqVars, alive, connectVars, dconn,
                   deathVars, apc, epc, running>>

----------------------------------------------------------------------------
(* HandleCallerDeath, on the IPC thread that delivers the death notice of  *)
(* a request's callback object.                                            *)

(* What popDeleteList.swap(connectedRequests_) takes and leaves.           *)
PopDeleteList(c) == IF status[c] = "CONNECTED" THEN connected[c] ELSE {}
LeftBySwap_Copy(c) == connected[c]
LeftBySwap(c) == IF status[c] = "CONNECTED" THEN {} ELSE connected[c]

DeathBegin(r) ==
    LET c == recipient[r] IN
    /\ DeathAt(r, "idle")
    /\ c # NoConn
    /\ ProcOf[r] \notin alive
    /\ RequestReferenced(r) /\ ConnReferenced(c)
    /\ hpop' = [hpop EXCEPT ![r] = PopDeleteList(c)]
    /\ connected' = [connected EXCEPT ![c] = LeftBySwap(c)]
    /\ status' = [status EXCEPT ![c] = "DISCONNECTED"]
    /\ hpc' = [hpc EXCEPT ![r] = "tell"]
    /\ UNCHANGED <<mapVars, pending, remote, ams, reqVars, alive, connectVars,
                   closeVars, apc, exitVars>>

(* DoDisconnectNative on every popped request.                             *)
DeathTell_NoAbility(r) ==
    LET S == IF remote[recipient[r]] THEN hpop[r] ELSE {} IN
    /\ DeathAt(r, "tell")
    /\ Tell(S, "DisconnectNative")
    /\ Post(S, "OnDisconnect")
    /\ hpc' = [hpc EXCEPT ![r] = "clean"]
    /\ UNCHANGED <<mapVars, connVars, ams, isConnected, heard, recipient, alive,
                   connectVars, closeVars, hpop, apc, exitVars>>
DeathTell(r) ==
    LET S == IF remote[recipient[r]] THEN hpop[r] ELSE {} IN
    /\ DeathAt(r, "tell")
    /\ Tell(S, "DisconnectNative")
    /\ Post(S, "OnDisconnect")
    /\ hpc' = [hpc EXCEPT ![r] = "ability"]
    /\ UNCHANGED <<mapVars, connVars, ams, isConnected, heard, recipient, alive,
                   connectVars, closeVars, hpop, apc, exitVars>>

DeathAbility(r) ==
    /\ DeathAt(r, "ability")
    /\ \/ DisconnectAbilityOk(recipient[r])
       \/ DisconnectAbilityErr(recipient[r])
       \/ "null_client" \in Faults /\ UNCHANGED ams
    /\ hpc' = [hpc EXCEPT ![r] = "clean"]
    /\ UNCHANGED <<mapVars, connVars, reqVars, alive, connectVars, closeVars,
                   hpop, apc, exitVars>>

DeathClean(r) ==
    /\ DeathAt(r, "clean")
    /\ DeleteIpcConnect(ConnKey(recipient[r]))
    /\ hpc' = [hpc EXCEPT ![r] = "cleanCheck"]
    /\ UNCHANGED <<connVars, ams, reqVars, alive, connectVars, closeVars,
                   hpop, apc, exitVars>>

DeathCleanCheck(r) ==
    /\ DeathAt(r, "cleanCheck")
    /\ StartExitIfEmpty(connMap)
    /\ hpc' = [hpc EXCEPT ![r] = "done"]
    /\ hpop' = [hpop EXCEPT ![r] = {}]
    /\ UNCHANGED <<mapVars, connVars, ams, reqVars, alive, connectVars,
                   closeVars, apc, epc, running>>

----------------------------------------------------------------------------
(* The ability manager's callbacks.                                        *)

(* OnAbilityConnectDone acts on a CONNECTING connection only.              *)
IsConnecting_AnyButConnected(c) == status[c] # "CONNECTED"
IsConnecting(c) == status[c] = "CONNECTING"

(* The requests of S leave the pending list for the connected list, the    *)
(* others leave it for good.                                               *)
MovePending_NoErase(c, S) ==
    /\ connected' = [connected EXCEPT ![c] = @ \cup S]
    /\ UNCHANGED pending
MovePending(c, S) ==
    /\ connected' = [connected EXCEPT ![c] = @ \cup S]
    /\ pending' = [pending EXCEPT ![c] = {}]

(* The posts of one OnAbilityConnectDone: the requests of S reached the    *)
(* extension, the others of P did not.                                     *)
AnswerPending_DropFailed(P, S) == Post(S, "OnConnect") /\ Tell(S, "ConnectNative")
AnswerPending(P, S) ==
    /\ tasks' = [r \in Req |->
           IF r \in S THEN Append(tasks[r], "OnConnect")
           ELSE IF r \in P THEN Append(tasks[r], "OnFailed") ELSE tasks[r]]
    /\ Tell(S, "ConnectNative")

(* OnAbilityConnectDone with ERR_OK holds mutex_ while it calls the        *)
(* extension for each pending request, so it is one step.                  *)
OnAbilityConnectDone(c) ==
    /\ running /\ ams[c] \in {"connecting", "closing"}
    /\ ams' = [ams EXCEPT ![c] = IF @ = "connecting" THEN "connected"
                                 ELSE "disconnecting"]
    /\ \/ /\ IsConnecting(c)
          /\ status' = [status EXCEPT ![c] = "CONNECTED"]
          /\ remote' = [remote EXCEPT ![c] = TRUE]
          /\ \E S \in SUBSET pending[c] :
                /\ S = pending[c] \/ "ipc_err" \in Faults
                /\ MovePending(c, S)
                /\ AnswerPending(pending[c], S)
       \/ /\ ~IsConnecting(c)
          /\ UNCHANGED <<connVars, tasks, told>>
    /\ UNCHANGED <<mapVars, isConnected, heard, recipient, alive, connectVars,
                   closeVars, deathVars, apc, exitVars>>

(* OnAbilityConnectDone with an error still makes the connection CONNECTED.*)
OnAbilityConnectFailed(c) ==
    /\ "ability_err" \in Faults
    /\ running /\ ams[c] = "connecting"
    /\ ams' = [ams EXCEPT ![c] = "gone"]
    /\ \/ /\ IsConnecting(c)
          /\ status' = [status EXCEPT ![c] = "CONNECTED"]
          /\ MovePending(c, {})
          /\ AnswerPending(pending[c], {})
       \/ /\ ~IsConnecting(c)
          /\ UNCHANGED <<status, pending, connected, tasks, told>>
    /\ UNCHANGED <<mapVars, remote, isConnected, heard, recipient, alive,
                   connectVars, closeVars, deathVars, apc, exitVars>>

OnAbilityDisconnectDone(c) ==
    /\ running /\ ams[c] \in {"disconnecting", "crashed"}
    /\ ams' = [ams EXCEPT ![c] = "gone"]
    /\ status' = [status EXCEPT ![c] = "DISCONNECTED"]
    /\ pending' = [pending EXCEPT ![c] = {}]
    /\ connected' = [connected EXCEPT ![c] = {}]
    /\ Post(Held(c), "OnDisconnect")
    /\ apc' = [apc EXCEPT ![c] = "clean"]
    /\ UNCHANGED <<mapVars, remote, isConnected, heard, told, recipient, alive,
                   connectVars, closeVars, deathVars, exitVars>>

DisconnectDoneClean(c) ==
    /\ running /\ apc[c] = "clean"
    /\ DeleteIpcConnect(ConnKey(c))
    /\ apc' = [apc EXCEPT ![c] = "cleanCheck"]
    /\ UNCHANGED <<connVars, ams, reqVars, alive, connectVars, closeVars,
                   deathVars, exitVars>>

DisconnectDoneCheck(c) ==
    /\ running /\ apc[c] = "cleanCheck"
    /\ StartExitIfEmpty(connMap)
    /\ apc' = [apc EXCEPT ![c] = "done"]
    /\ UNCHANGED <<mapVars, connVars, ams, reqVars, alive, connectVars,
                   closeVars, deathVars, epc, running>>

----------------------------------------------------------------------------
(* The service's event queue: the callbacks of a request run in the order  *)
(* they were posted; a delayed exit task runs at any time.                 *)

Delivered(r, callback) ==
    [heard EXCEPT ![r] = IF ProcOf[r] \in alive THEN Append(@, callback) ELSE @]

RunOnConnect(r) ==
    /\ isConnected' = [isConnected EXCEPT ![r] = TRUE]
    /\ heard' = IF isConnected[r] THEN heard ELSE Delivered(r, "OnConnect")

RunOnDisconnect_Unguarded(r) ==
    /\ isConnected' = [isConnected EXCEPT ![r] = FALSE]
    /\ heard' = Delivered(r, "OnDisconnect")
RunOnDisconnect(r) ==
    /\ isConnected' = [isConnected EXCEPT ![r] = FALSE]
    /\ heard' = IF isConnected[r] THEN Delivered(r, "OnDisconnect") ELSE heard

RunOnFailed(r) ==
    /\ heard' = Delivered(r, "OnFailed")
    /\ UNCHANGED isConnected

RunTask(r) ==
    /\ running /\ tasks[r] # <<>>
    /\ tasks' = [tasks EXCEPT ![r] = Tail(@)]
    /\ \/ Head(tasks[r]) = "OnConnect" /\ RunOnConnect(r)
       \/ Head(tasks[r]) = "OnDisconnect" /\ RunOnDisconnect(r)
       \/ Head(tasks[r]) = "OnFailed" /\ RunOnFailed(r)
    /\ UNCHANGED <<mapVars, connVars, ams, told, recipient, alive, connectVars,
                   closeVars, deathVars, apc, exitVars>>

ExitTaskDue_Always == TRUE
ExitTaskDue == exitTasks > 0

(* ExitSaProcess checks the map under the lock and unloads without it.     *)
ExitSaProcess ==
    /\ running /\ ExitTaskDue
    /\ epc = "idle"
    /\ exitTasks' = exitTasks - 1
    /\ epc' = IF IsIpcConnectExist(connMap) THEN "idle" ELSE "unload"
    /\ UNCHANGED <<mapVars, connVars, ams, reqVars, alive, connectVars,
                   closeVars, deathVars, apc, running>>

UnloadSystemAbility ==
    /\ running /\ epc = "unload"
    /\ epc' = "idle"
    /\ \/ running' = FALSE
       \/ "unload_err" \in Faults /\ UNCHANGED running
    /\ UNCHANGED <<mapVars, connVars, ams, reqVars, alive, connectVars,
                   closeVars, deathVars, apc, exitTasks>>

----------------------------------------------------------------------------
(* The environment's own steps.                                            *)

CallerDies(p) ==
    /\ running /\ p \in Mortal \cap alive
    /\ alive' = alive \ {p}
    /\ UNCHANGED <<mapVars, connVars, ams, reqVars, connectVars, closeVars,
                   deathVars, apc, exitVars>>

ExtensionCrashes(c) ==
    /\ "crash" \in Faults
    /\ running /\ ams[c] = "connected"
    /\ ams' = [ams EXCEPT ![c] = "crashed"]
    /\ UNCHANGED <<mapVars, connVars, reqVars, alive, connectVars, closeVars,
                   deathVars, apc, exitVars>>

----------------------------------------------------------------------------
ConnectCall(r) ==
    \/ LookUpOrNewIpcConnection(r)
    \/ ConnectNativeDisconnected(r) \/ ConnectNativeInit(r)
    \/ ConnectNativeConnecting(r) \/ ConnectNativeConnected(r)
    \/ RetryDelete(r) \/ RetryNew(r)
    \/ ConnectCheckEmpty(r) \/ ConnectClean(r) \/ ConnectCleanCheck(r)
    \/ ConnectStopExit(r)

CloseCall(t) ==
    \/ CloseRemove(t) \/ CloseTell(t) \/ CloseCheckEmpty(t)
    \/ CloseAbility(t) \/ CloseDelete(t)

DeathHandler(r) ==
    DeathTell(r) \/ DeathAbility(r) \/ DeathClean(r) \/ DeathCleanCheck(r)

AbilityCallback(c) ==
    \/ OnAbilityConnectDone(c) \/ OnAbilityConnectFailed(c)
    \/ OnAbilityDisconnectDone(c)

DisconnectDone(c) == DisconnectDoneClean(c) \/ DisconnectDoneCheck(c)

Next ==
    \/ \E r \in Req : ConnectBegin(r) \/ ConnectRejected(r) \/ ConnectCall(r)
    \/ \E r \in Req : DisconnectBegin(r) \/ DisconnectLookUp(r) \/ StopBegin(r)
    \/ \E t \in Closing : CloseCall(t)
    \/ \E r \in Req : DeathBegin(r) \/ DeathHandler(r)
    \/ \E c \in Conn : AbilityCallback(c) \/ DisconnectDone(c)
    \/ \E r \in Req : RunTask(r)
    \/ ExitSaProcess \/ UnloadSystemAbility
    \/ \E p \in Proc : CallerDies(p)
    \/ \E c \in Conn : ExtensionCrashes(c)

Spec == Init /\ [][Next]_vars

(* IPC threads and the event queue run on; the ability manager answers the *)
(* connects and disconnects it accepted; a death notice is delivered.  No  *)
(* caller or extension is obliged to call, to crash or to die, and nothing *)
(* is assumed of the delayed exit.                                         *)
Fairness ==
    /\ \A r \in Req :
          /\ WF_vars(ConnectCall(r))
          /\ WF_vars(DisconnectLookUp(r))
          /\ WF_vars(DeathBegin(r) \/ DeathHandler(r))
          /\ WF_vars(RunTask(r))
    /\ \A t \in Closing : WF_vars(CloseCall(t))
    /\ \A c \in Conn :
          /\ WF_vars(AbilityCallback(c))
          /\ WF_vars(DisconnectDone(c))

FairSpec == Spec /\ Fairness
----------------------------------------------------------------------------
(* The values of the variables.                                            *)
TypeOK ==
    /\ connMap \in [Key -> Conn \cup {NoConn}]
    /\ status \in [Conn -> Status]
    /\ pending \in [Conn -> SUBSET Req]
    /\ connected \in [Conn -> SUBSET Req]
    /\ remote \in [Conn -> BOOLEAN]
    /\ ams \in [Conn -> AmsState]
    /\ isConnected \in [Req -> BOOLEAN]
    /\ tasks \in [Req -> Seq(Callback)]
    /\ heard \in [Req -> Seq(Callback)]
    /\ told \in [Req -> Seq(ExtCall)]
    /\ recipient \in [Req -> Conn \cup {NoConn}]
    /\ alive \in SUBSET Proc
    /\ cpc \in [Req -> ConnectPc]
    /\ cconn \in [Req -> Conn \cup {NoConn}]
    /\ cres \in [Req -> Result]
    /\ dpc \in [Closing -> ClosePc]
    /\ dconn \in [Closing -> Conn \cup {NoConn}]
    /\ dres \in [Closing -> Result]
    /\ hpc \in [Req -> DeathPc]
    /\ hpop \in [Req -> SUBSET Req]
    /\ apc \in [Conn -> {"idle", "clean", "cleanCheck", "done"}]
    /\ exitTasks \in Nat
    /\ epc \in {"idle", "unload"}
    /\ running \in BOOLEAN
=============================================================================
