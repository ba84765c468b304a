--------------------------- MODULE ExtensionSide ---------------------------
(***************************************************************************)
(* The process of a native messaging extension.  The service calls its     *)
(* stub on IPC threads: ConnectNative brings the descriptors of a          *)
(* connection's pipes, DisconnectNative only its id.  The stub posts a     *)
(* task, and the main thread calls the method of the JavaScript object and *)
(* then keeps the connection in connections_, or closes its descriptors.   *)
(* OnStop closes those that connections_ holds, the destructor those that  *)
(* have come since.                                                        *)
(*                                                                         *)
(* A descriptor is a number, which the process may get again once it is    *)
(* closed.  A step is a call of the stub up to its next call out, or one   *)
(* task of the main thread.                                                *)
(***************************************************************************)
EXTENDS Naturals, Sequences

(* An operator named F_X is F with the mistake X: it is used nowhere and   *)
(* shows that some property depends on F being as it is.                   *)

CONSTANTS
    Conn,    \* connections, as the service knows them
    Id,      \* innerConnectionId_
    IdOf,    \* the id of each connection
    Fd,      \* descriptor numbers
    NoFd,    \* -1
    NoConn,  \* no connection
    Faults   \* what may go wrong

FaultKinds == {"id_err",      \* ReadInt32 of the id fails, and all behind it
               "fd_err",      \* a read behind the id fails
               "no_handler",  \* handler_ is null
               "post_err",    \* PostTask does not queue the task
               "no_method"}   \* the JavaScript object lacks the method

ExtensionAssumption ==
    /\ IdOf \in [Conn -> Id]
    /\ NoFd \notin Fd
    /\ NoConn \notin Conn
    /\ Faults \subseteq FaultKinds
ASSUME ESAssumption == ExtensionAssumption

VARIABLES
    file,         \* the connection whose pipe a descriptor is, or NoConn
    pc,           \* the step of each call, then of its task
    fds,          \* the descriptors a connection came with
    tasks,        \* the queue of the main thread
    connections,  \* connections_: the connection of an id, or NoConn
    told,         \* what the JavaScript object was told of a connection
    life          \* of the extension object

vars == <<file, pc, fds, tasks, connections, told, life>>

(* Each connection is told to the extension once, and its end once.        *)
Call == [conn : Conn, method : {"onConnectNative", "onDisconnectNative"}]
Connect(c) == [conn |-> c, method |-> "onConnectNative"]
Disconnect(c) == [conn |-> c, method |-> "onDisconnectNative"]

(* Not made; its parcel read; the extension locked; posted; handled.  Or   *)
(* answered with an error, for want of the extension or of its handler;    *)
(* lost by the event handler; handled without the method or the id.        *)
Pc == {"none", "read", "locked", "posted", "handled",
       "refused", "failed", "lost", "unheard"}

Init ==
    /\ file = [f \in Fd |-> NoConn]
    /\ pc = [t \in Call |-> "none"]
    /\ fds = [c \in Conn |-> {}]
    /\ tasks = <<>>
    /\ connections = [i \in Id |-> NoConn]
    /\ told = [c \in Conn |-> "nothing"]
    /\ life = "running"

Free == {f \in Fd : file[f] = NoConn}

(* WnmCloseFdWithTag and CloseConnectionFds: what was closed is named -1   *)
(* from then on, or forgotten.                                             *)
Close(F) == file' = [f \in Fd |-> IF f \in F THEN NoConn ELSE file[f]]

(* The descriptors in the parcel of a call.  The service has closed its    *)
(* own when it calls DisconnectNative, and sends none.                     *)
Params(t) == IF t.method = "onConnectNative" THEN fds[t.conn] ELSE {}

(* Those of the connection that stands under an id.                        *)
EntryFds(i) == IF connections[i] = NoConn THEN {} ELSE fds[connections[i]]
AllEntryFds == UNION {EntryFds(i) : i \in Id}

----------------------------------------------------------------------------
(* The stub, on an IPC thread.                                             *)

(* Unmarshalling: a call that cannot be read in full brings no descriptor, *)
(* and if the second cannot be read the first is closed.  OnRemoteRequest  *)
(* goes on in any case.                                                    *)
Unmarshalling_Named(c) ==
    \/ \E r, w \in Free :
          /\ r # w
          /\ fds' = [fds EXCEPT ![c] = {r, w}]
          /\ file' = [file EXCEPT ![r] = c, ![w] = c]
    \/ /\ "fd_err" \in Faults
       /\ \E r \in Free : fds' = [fds EXCEPT ![c] = {r}]
       /\ UNCHANGED file
Unmarshalling(c) ==
    \/ \E r, w \in Free :
          /\ r # w
          /\ fds' = [fds EXCEPT ![c] = {r, w}]
          /\ file' = [file EXCEPT ![r] = c, ![w] = c]
    \/ Faults \cap {"id_err", "fd_err"} # {} /\ UNCHANGED <<fds, file>>

ReadConnect(c) ==
    /\ pc[Connect(c)] = "none"
    /\ Unmarshalling(c)
    /\ pc' = [pc EXCEPT ![Connect(c)] = "read"]
    /\ UNCHANGED <<tasks, connections, told, life>>

(* The service ends only connections that the extension has taken: those   *)
(* whose ConnectNative has answered with a pid.                            *)
ReadDisconnect(c) ==
    /\ pc[Disconnect(c)] = "none"
    /\ pc[Connect(c)] \in {"posted", "lost", "handled", "unheard"}
    /\ pc' = [pc EXCEPT ![Disconnect(c)] = "read"]
    /\ UNCHANGED <<file, fds, tasks, connections, told, life>>

(* The stub outlives the extension object.  When the object is gone the    *)
(* descriptors in the parcel are left as they are.                         *)
LockExtension(t) ==
    /\ pc[t] = "read"
    /\ pc' = [pc EXCEPT ![t] = IF life = "gone" THEN "refused" ELSE "locked"]
    /\ UNCHANGED <<file, fds, tasks, connections, told, life>>

(* What PostTask returns is not looked at.                                 *)
InvokeCallbackInMainThread_Ahead(t) ==
    /\ pc[t] = "locked"
    /\ \/ /\ tasks' = <<t>> \o tasks
          /\ pc' = [pc EXCEPT ![t] = "posted"]
          /\ UNCHANGED file
       \/ /\ "post_err" \in Faults
          /\ pc' = [pc EXCEPT ![t] = "lost"]
          /\ UNCHANGED <<file, tasks>>
       \/ /\ "no_handler" \in Faults
          /\ Close(Params(t))
          /\ pc' = [pc EXCEPT ![t] = "failed"]
          /\ UNCHANGED tasks
    /\ UNCHANGED <<fds, connections, told, life>>
InvokeCallbackInMainThread(t) ==
    /\ pc[t] = "locked"
    /\ \/ /\ tasks' = Append(tasks, t)
          /\ pc' = [pc EXCEPT ![t] = "posted"]
          /\ UNCHANGED file
       \/ /\ "post_err" \in Faults
          /\ pc' = [pc EXCEPT ![t] = "lost"]
          /\ UNCHANGED <<file, tasks>>
       \/ /\ "no_handler" \in Faults
          /\ Close(Params(t))
          /\ pc' = [pc EXCEPT ![t] = "failed"]
          /\ UNCHANGED tasks
    /\ UNCHANGED <<fds, connections, told, life>>

----------------------------------------------------------------------------
(* The main thread.                                                        *)

AddConnection_KeepsOld(c) ==
    /\ connections' = [connections EXCEPT ![IdOf[c]] = c]
    /\ UNCHANGED file
AddConnection(c) ==
    /\ Close(EntryFds(IdOf[c]))
    /\ connections' = [connections EXCEPT ![IdOf[c]] = c]

RemoveConnection_OnlyErases(c) ==
    /\ connections' = [connections EXCEPT ![IdOf[c]] = NoConn]
    /\ UNCHANGED file
RemoveConnection(c) ==
    /\ Close(EntryFds(IdOf[c]))
    /\ connections' = [connections EXCEPT ![IdOf[c]] = NoConn]

(* Without the method, only what the call itself brought is closed.        *)
NoMethod(t) == "no_method" \in Faults

(* A call whose id could not be read has brought no descriptor, whichever  *)
(* it is.  It is handled as one of connection -1, the default, which no    *)
(* connection has: what JavaScript is told and the entry that comes or     *)
(* goes are of no connection and no descriptor.                            *)
NoId(t) == "id_err" \in Faults /\ Params(t) = {}

NotTold(t) ==
    /\ NoMethod(t) \/ NoId(t)
    /\ Close(Params(t))
    /\ pc' = [pc EXCEPT ![t] = "unheard"]
    /\ UNCHANGED <<connections, told>>

CallMethod(t) ==
    /\ pc' = [pc EXCEPT ![t] = "handled"]
    /\ IF t.method = "onConnectNative"
         THEN /\ told' = [told EXCEPT ![t.conn] = "connected"]
              /\ AddConnection(t.conn)
         ELSE /\ told' = [told EXCEPT ![t.conn] = "ended"]
              /\ RemoveConnection(t.conn)

InvokeCallback ==
    /\ tasks # <<>>
    /\ tasks' = Tail(tasks)
    /\ NotTold(Head(tasks)) \/ CallMethod(Head(tasks))
    /\ UNCHANGED <<fds, life>>

ClearAllConnections ==
    /\ Close(AllEntryFds)
    /\ connections' = [i \in Id |-> NoConn]

OnStop ==
    /\ life = "running"
    /\ life' = "stopped"
    /\ ClearAllConnections
    /\ UNCHANGED <<pc, fds, tasks, told>>

(* The destructor: tasks and calls of the stub hold the extension.         *)
Destroy_NoClear ==
    /\ life = "stopped"
    /\ tasks = <<>>
    /\ \A t \in Call : pc[t] # "locked"
    /\ life' = "gone"
    /\ UNCHANGED <<file, pc, fds, tasks, connections, told>>
Destroy ==
    /\ life = "stopped"
    /\ tasks = <<>>
    /\ \A t \in Call : pc[t] # "locked"
    /\ life' = "gone"
    /\ ClearAllConnections
    /\ UNCHANGED <<pc, fds, tasks, told>>

----------------------------------------------------------------------------
Stub(c) ==
    \/ ReadConnect(c) \/ ReadDisconnect(c)
    \/ \E t \in {Connect(c), Disconnect(c)} :
          LockExtension(t) \/ InvokeCallbackInMainThread(t)

Next == (\E c \in Conn : Stub(c)) \/ InvokeCallback \/ OnStop \/ Destroy

Spec == Init /\ [][Next]_vars

----------------------------------------------------------------------------
(* Types.  Only what is a descriptor is named as one: nothing is closed    *)
(* under a number that ReadFileDescriptor returned for an error.           *)
ESTypeOK ==
    /\ file \in [Fd -> Conn \cup {NoConn}]
    /\ pc \in [Call -> Pc]
    /\ fds \in [Conn -> SUBSET Fd]
    /\ tasks \in Seq(Call)
    /\ connections \in [Id -> Conn \cup {NoConn}]
    /\ told \in [Conn -> {"nothing", "connected", "ended"}]
    /\ life \in {"running", "stopped", "gone"}

(* Who is to close the descriptors of a connection: the call that brought  *)
(* them, its task, or the entry in connections_.                           *)
InCall(c) == pc[Connect(c)] \in {"read", "locked"}
InTask(c) == \E k \in 1..Len(tasks) : tasks[k] = Connect(c)
InEntry(c) == life # "gone" /\ connections[IdOf[c]] = c
Held(c) == InCall(c) \/ InTask(c) \/ InEntry(c)

(* Whoever is to close a descriptor holds one that still is its            *)
(* connection's: no number is closed twice, though it may have come back   *)
(* with another connection in between, and fdsan cannot tell the two       *)
(* apart because both have the same tag.                                   *)
HeldAreOpen == \A c \in Conn : Held(c) => \A f \in fds[c] : file[f] = c

(* Every descriptor the process has is somebody's to close, whatever       *)
(* methods are missing, ids are used twice and tasks run after OnStop: the *)
(* only ones lost are those of a call that found no extension object, and  *)
(* of a task that the event handler did not take.                          *)
NothingLeaks ==
    \A f \in Fd, c \in Conn :
        file[f] = c => Held(c) \/ pc[Connect(c)] \in {"refused", "lost"}

(* What the JavaScript object is told of a connection is true of its       *)
(* descriptors: they are open from onConnectNative until                   *)
(* onDisconnectNative or onDestroy, and closed after that, if no other     *)
(* connection has its id.                                                  *)
UniqueId(c) == \A d \in Conn : IdOf[d] = IdOf[c] => d = c
OpenWhileTold ==
    \A c \in Conn : UniqueId(c) =>
        /\ told[c] = "connected" /\ life = "running" =>
               \A f \in fds[c] : file[f] = c
        /\ told[c] = "ended" => \A f \in Fd :
               file[f] = c => pc[Connect(c)] = "lost"

(* What the JavaScript object has heard of a connection.  The end of one   *)
(* whose onConnectNative was lost, or is missing, is heard alone.          *)
Heard(c) ==
    CASE told[c] = "nothing"   -> "idle"
      [] told[c] = "connected" -> "open"
      [] told[c] = "ended"     ->
            IF pc[Connect(c)] = "handled" THEN "closed" ELSE "failed"

(* The order of the service's calls (NativeMessaging!ExtensionProtocol)    *)
(* holds on for JavaScript, through two threads, calls that fail halfway   *)
(* and tasks that are lost: a connection opens and then closes, or it is   *)
(* ended unopened and never opens.                                         *)
Script == INSTANCE RequestLifecycle WITH
    Req <- Conn,
    view <- [c \in Conn |-> Heard(c)]
ScriptProtocol == Script!Spec
=============================================================================
