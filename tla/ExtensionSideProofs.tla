------------------------ MODULE ExtensionSideProofs ------------------------
(***************************************************************************)
(* Proofs about ExtensionSide, for every set of connections, ids and       *)
(* descriptors and every choice of faults: no descriptor is closed for     *)
(* another connection than its own, none is forgotten, and what the        *)
(* JavaScript object is told of them is true and comes in order.           *)
(***************************************************************************)
EXTENDS ExtensionSide, SequenceTheorems, TLAPS

----------------------------------------------------------------------------
(* The calls of the service.                                               *)

(* A call is a connect or a disconnect of one connection.                  *)
LEMMA CallFacts ==
    /\ \A c \in Conn : Connect(c) \in Call /\ Disconnect(c) \in Call
    /\ \A c, d \in Conn :
          /\ Connect(c) # Disconnect(d)
          /\ Connect(c) = Connect(d) => c = d
          /\ Disconnect(c) = Disconnect(d) => c = d
    /\ \A c \in Conn : Params(Connect(c)) = fds[c] /\ Params(Disconnect(c)) = {}
    /\ \A t \in Call : t.conn \in Conn
                       /\ (t = Connect(t.conn) \/ t = Disconnect(t.conn))
BY DEF Call, Connect, Disconnect, Params

(* What an action of the stub or of the main thread does to one call.      *)
LEMMA CallOfConn ==
    ASSUME NEW c \in Conn
    PROVE  /\ Connect(c).conn = c /\ Connect(c).method = "onConnectNative"
           /\ Disconnect(c).conn = c
           /\ Disconnect(c).method = "onDisconnectNative"
BY DEF Connect, Disconnect

(* The steps of Next, one by one.                                          *)
LEMMA NextCases ==
    ASSUME Next
    PROVE  \/ \E c \in Conn : ReadConnect(c) \/ ReadDisconnect(c)
           \/ \E t \in Call : LockExtension(t) \/ InvokeCallbackInMainThread(t)
           \/ InvokeCallback \/ OnStop \/ Destroy
BY CallFacts DEF Next, Stub

(* The task at the head of the queue is of one of two kinds, and is        *)
(* handled in one of two ways.                                             *)
LEMMA TaskCases ==
    ASSUME ESTypeOK, InvokeCallback
    PROVE  \E c \in Conn :
              /\ Head(tasks) \in {Connect(c), Disconnect(c)}
              /\ \/ NotTold(Head(tasks))
                 \/ /\ Head(tasks) = Connect(c)
                    /\ pc' = [pc EXCEPT ![Connect(c)] = "handled"]
                    /\ told' = [told EXCEPT ![c] = "connected"]
                    /\ AddConnection(c)
                 \/ /\ Head(tasks) = Disconnect(c)
                    /\ pc' = [pc EXCEPT ![Disconnect(c)] = "handled"]
                    /\ told' = [told EXCEPT ![c] = "ended"]
                    /\ RemoveConnection(c)
<1>1. Head(tasks) \in Call
    BY DEF ESTypeOK, InvokeCallback
<1>2. PICK c \in Conn : c = Head(tasks).conn
    BY <1>1, CallFacts
<1>3. Head(tasks) \in {Connect(c), Disconnect(c)}
    BY <1>1, <1>2, CallFacts
<1>4. NotTold(Head(tasks)) \/ CallMethod(Head(tasks))
    BY DEF InvokeCallback
<1>5. CASE Head(tasks) = Connect(c)
    BY <1>2, <1>3, <1>4, <1>5, CallOfConn DEF CallMethod
<1>6. CASE Head(tasks) = Disconnect(c)
    BY <1>2, <1>3, <1>4, <1>6, CallOfConn DEF CallMethod
<1> QED BY <1>3, <1>5, <1>6

(* The descriptors of the entries are descriptors.                         *)
LEMMA EntryFdsAreFds ==
    ASSUME ESTypeOK
    PROVE  /\ \A i \in Id : EntryFds(i) \subseteq Fd
           /\ AllEntryFds \subseteq Fd
BY DEF ESTypeOK, EntryFds, AllEntryFds

----------------------------------------------------------------------------
(* Types.                                                                  *)

(* Every variable keeps its type; what failed to be read is not named.     *)
THEOREM TypeCorrect == Spec => []ESTypeOK
<1> USE ESAssumption DEF ExtensionAssumption
<1>1. Init => ESTypeOK
    BY DEF Init, ESTypeOK, Pc
<1>2. ESTypeOK /\ [Next]_vars => ESTypeOK'
    <2> SUFFICES ASSUME ESTypeOK, [Next]_vars
                 PROVE  ESTypeOK'
        OBVIOUS
    <2>1. CASE UNCHANGED vars
        BY <2>1 DEF ESTypeOK, vars
    <2>2. ASSUME NEW c \in Conn, ReadConnect(c) PROVE ESTypeOK'
        <3>1. file' \in [Fd -> Conn \cup {NoConn}] /\ fds' \in [Conn -> SUBSET Fd]
            <4>1. CASE UNCHANGED <<fds, file>>
                BY <4>1 DEF ESTypeOK
            <4>2. ASSUME NEW r \in Fd, NEW w \in Fd,
                         fds' = [fds EXCEPT ![c] = {r, w}],
                         file' = [file EXCEPT ![r] = c, ![w] = c]
                  PROVE  /\ file' \in [Fd -> Conn \cup {NoConn}]
                         /\ fds' \in [Conn -> SUBSET Fd]
                <5>1. {r, w} \in SUBSET Fd
                    OBVIOUS
                <5>2. fds' \in [Conn -> SUBSET Fd]
                    BY <4>2, <5>1 DEF ESTypeOK
                <5>3. file' \in [Fd -> Conn \cup {NoConn}]
                    BY <4>2 DEF ESTypeOK
                <5> QED BY <5>2, <5>3
            <4> QED BY <2>2, <4>1, <4>2 DEF ReadConnect, Unmarshalling, Free
        <3>2. /\ pc' \in [Call -> Pc]
              /\ UNCHANGED <<tasks, connections, told, life>>
            BY <2>2 DEF ESTypeOK, ReadConnect, Pc
        <3> QED BY <3>1, <3>2 DEF ESTypeOK
    <2>3. ASSUME NEW c \in Conn, ReadDisconnect(c) PROVE ESTypeOK'
        BY <2>3 DEF ESTypeOK, ReadDisconnect, Pc
    <2>4. ASSUME NEW t \in Call, LockExtension(t) PROVE ESTypeOK'
        BY <2>4 DEF ESTypeOK, LockExtension, Pc
    <2>5. ASSUME NEW t \in Call, InvokeCallbackInMainThread(t) PROVE ESTypeOK'
        <3>1. file' \in [Fd -> Conn \cup {NoConn}]
            BY <2>5 DEF ESTypeOK, InvokeCallbackInMainThread, Close
        <3>2. tasks' \in Seq(Call)
            BY <2>5 DEF ESTypeOK, InvokeCallbackInMainThread
        <3>3. pc' \in [Call -> Pc]
            BY <2>5 DEF ESTypeOK, InvokeCallbackInMainThread, Pc
        <3> QED
            BY <2>5, <3>1, <3>2, <3>3 DEF ESTypeOK, InvokeCallbackInMainThread
    <2>6. CASE InvokeCallback
        <3>1. tasks' \in Seq(Call) /\ UNCHANGED <<fds, life>>
            BY <2>6 DEF ESTypeOK, InvokeCallback
        <3>2. PICK c \in Conn :
                 /\ Head(tasks) \in {Connect(c), Disconnect(c)}
                 /\ \/ NotTold(Head(tasks))
                    \/ /\ pc' = [pc EXCEPT ![Head(tasks)] = "handled"]
                       /\ \E s \in {"connected", "ended"} :
                             told' = [told EXCEPT ![c] = s]
                       /\ AddConnection(c) \/ RemoveConnection(c)
            BY <2>6, TaskCases
        <3>3. Head(tasks) \in Call
            BY <3>2, CallFacts
        <3>4. CASE NotTold(Head(tasks))
            BY <3>1, <3>3, <3>4 DEF ESTypeOK, NotTold, Close, Pc
        <3>5. CASE ~NotTold(Head(tasks))
            <4>1. pc' \in [Call -> Pc]
                BY <3>2, <3>3, <3>5 DEF ESTypeOK, Pc
            <4>2. told' \in [Conn -> {"nothing", "connected", "ended"}]
                BY <3>2, <3>5 DEF ESTypeOK
            <4>3. /\ file' \in [Fd -> Conn \cup {NoConn}]
                  /\ connections' \in [Id -> Conn \cup {NoConn}]
                BY <3>2, <3>5 DEF ESTypeOK, AddConnection, RemoveConnection, Close
            <4> QED BY <3>1, <4>1, <4>2, <4>3 DEF ESTypeOK
        <3> QED BY <3>4, <3>5
    <2>7. CASE OnStop \/ Destroy
        <3>1. file' \in [Fd -> Conn \cup {NoConn}]
            BY <2>7 DEF ESTypeOK, OnStop, Destroy, ClearAllConnections, Close
        <3> QED
            BY <2>7, <3>1 DEF ESTypeOK, OnStop, Destroy, ClearAllConnections
    <2> QED
        BY <2>1, <2>2, <2>3, <2>4, <2>5, <2>6, <2>7, NextCases
<1> QED BY <1>1, <1>2, PTL DEF Spec

----------------------------------------------------------------------------
(* The queue and the entries.                                              *)

(* The connection has been taken by the extension: its ConnectNative has   *)
(* answered with a pid.                                                    *)
Taken(c) == pc[Connect(c)] \in {"posted", "lost", "handled", "unheard"}

(* A task is queued once, for a posted call, the connect of a connection   *)
(* before its disconnect; an entry stands under the id of a connection     *)
(* whose connect has been handled; when the extension is gone no task and  *)
(* no call is left to change anything.                                     *)
Queued ==
    /\ \A k \in 1..Len(tasks) : pc[tasks[k]] = "posted"
    /\ \A j, k \in 1..Len(tasks) : tasks[j] = tasks[k] => j = k
    /\ \A c \in Conn : pc[Disconnect(c)] # "none" => Taken(c)
    /\ \A c \in Conn : \A j, k \in 1..Len(tasks) :
          tasks[j] = Connect(c) /\ tasks[k] = Disconnect(c) => j < k
EntriesFit ==
    \A i \in Id : connections[i] # NoConn =>
        /\ IdOf[connections[i]] = i
        /\ pc[Connect(connections[i])] = "handled"
GoneIsQuiet ==
    life = "gone" => tasks = <<>> /\ \A t \in Call : pc[t] # "locked"

(* The queue after its head was taken: what is left stood behind it.       *)
LEMMA TailFacts ==
    ASSUME ESTypeOK, Queued, tasks # <<>>, tasks' = Tail(tasks)
    PROVE  /\ Head(tasks) = tasks[1] /\ Len(tasks) \in Nat \ {0}
           /\ Head(tasks) \in Call /\ pc[Head(tasks)] = "posted"
           /\ Len(tasks') = Len(tasks) - 1
           /\ \A k \in 1..Len(tasks') :
                 /\ k + 1 \in 1..Len(tasks)
                 /\ tasks'[k] = tasks[k + 1]
                 /\ tasks'[k] # Head(tasks)
                 /\ tasks'[k] \in Call
<1>1. /\ Head(tasks) = tasks[1] /\ Len(tasks) \in Nat \ {0}
      /\ Len(tasks') = Len(tasks) - 1
      /\ \A k \in 1..Len(tasks') :
            k + 1 \in 1..Len(tasks) /\ tasks'[k] = tasks[k + 1]
    BY DEF ESTypeOK
<1>2. \A k \in 1..Len(tasks) : tasks[k] \in Call
    BY DEF ESTypeOK
<1> QED BY <1>1, <1>2 DEF Queued

(* The queue after a task was put behind the others.                       *)
LEMMA AppendFacts ==
    ASSUME ESTypeOK, NEW t \in Call, tasks' = Append(tasks, t)
    PROVE  /\ Len(tasks') = Len(tasks) + 1 /\ Len(tasks) \in Nat
           /\ \A k \in 1..Len(tasks) : tasks'[k] = tasks[k] /\ tasks[k] \in Call
           /\ tasks'[Len(tasks')] = t
           /\ \A k \in 1..Len(tasks') : k \in 1..Len(tasks) \/ k = Len(tasks')
BY DEF ESTypeOK

(* The queue is left alone and no call in it changes its step.             *)
LEMMA QueuedKept ==
    ASSUME ESTypeOK, Queued, UNCHANGED tasks,
           \A t \in Call : pc[t] = "posted" => pc'[t] = "posted",
           \A c \in Conn : pc'[Disconnect(c)] # "none" => Taken(c)',
           ESTypeOK'
    PROVE  Queued'
<1>1. \A k \in 1..Len(tasks) : tasks[k] \in Call
    BY DEF ESTypeOK
<1> QED BY <1>1 DEF Queued

(* Every step keeps the queue in order.                                    *)
LEMMA QueuedStep ==
    ASSUME ESTypeOK, ESTypeOK', Queued, [Next]_vars
    PROVE  Queued'
<1>1. CASE UNCHANGED vars
    BY <1>1, QueuedKept DEF vars, Queued, Taken
<1>2. ASSUME NEW c \in Conn, ReadConnect(c) PROVE Queued'
    BY <1>2, QueuedKept, CallFacts DEF ReadConnect, Queued, Taken, ESTypeOK
<1>3. ASSUME NEW c \in Conn, ReadDisconnect(c) PROVE Queued'
    BY <1>3, QueuedKept, CallFacts DEF ReadDisconnect, Queued, Taken, ESTypeOK
<1>4. ASSUME NEW t \in Call, LockExtension(t) PROVE Queued'
    BY <1>4, QueuedKept, CallFacts DEF LockExtension, Queued, Taken, ESTypeOK
<1>5. ASSUME NEW t \in Call, InvokeCallbackInMainThread(t) PROVE Queued'
    <2>1. \A c \in Conn : pc'[Disconnect(c)] # "none" => Taken(c)'
        BY <1>5, CallFacts
           DEF InvokeCallbackInMainThread, Queued, Taken, ESTypeOK
    <2>2. CASE UNCHANGED tasks
        <3>1. \A u \in Call : pc[u] = "posted" => pc'[u] = "posted"
            BY <1>5, <2>2 DEF InvokeCallbackInMainThread, ESTypeOK
        <3> QED BY <2>1, <2>2, <3>1, QueuedKept
    <2>3. CASE tasks' = Append(tasks, t) /\ pc' = [pc EXCEPT ![t] = "posted"]
        <3>1. \A k \in 1..Len(tasks) : tasks[k] # t
            BY <1>5 DEF InvokeCallbackInMainThread, Queued
        <3>2. \A k \in 1..Len(tasks') : pc'[tasks'[k]] = "posted"
            BY <2>3, AppendFacts DEF Queued, ESTypeOK
        <3>3. \A j, k \in 1..Len(tasks') : tasks'[j] = tasks'[k] => j = k
            BY <2>3, <3>1, AppendFacts DEF Queued
        <3>4. ASSUME NEW c \in Conn, NEW j \in 1..Len(tasks'),
                     NEW k \in 1..Len(tasks'),
                     tasks'[j] = Connect(c), tasks'[k] = Disconnect(c)
              PROVE  j < k
            <4>1. CASE t = Connect(c)
                <5>1. pc[Disconnect(c)] = "none"
                    BY <1>5, <4>1, CallFacts
                       DEF InvokeCallbackInMainThread, Queued, Taken
                <5>2. k \in 1..Len(tasks)
                    BY <2>3, <3>4, <4>1, AppendFacts, CallFacts
                <5>3. tasks[k] = Disconnect(c)
                    BY <2>3, <3>4, <5>2, AppendFacts
                <5> QED BY <5>1, <5>2, <5>3 DEF Queued
            <4>2. CASE t # Connect(c)
                <5>1. j \in 1..Len(tasks) /\ tasks[j] = Connect(c)
                    BY <2>3, <3>4, <4>2, AppendFacts
                <5>2. CASE k \in 1..Len(tasks)
                    BY <2>3, <3>4, <5>1, <5>2, AppendFacts DEF Queued
                <5>3. CASE k = Len(tasks')
                    BY <2>3, <5>1, <5>3, AppendFacts
                <5> QED BY <2>3, <5>2, <5>3, AppendFacts
            <4> QED BY <4>1, <4>2
        <3> QED BY <2>1, <3>2, <3>3, <3>4 DEF Queued
    <2> QED BY <1>5, <2>2, <2>3 DEF InvokeCallbackInMainThread
<1>6. CASE InvokeCallback
    <2>1. /\ tasks # <<>> /\ tasks' = Tail(tasks)
          /\ \E s \in {"handled", "unheard"} :
                pc' = [pc EXCEPT ![Head(tasks)] = s]
        BY <1>6 DEF InvokeCallback, NotTold, CallMethod
    <2>2. \A k \in 1..Len(tasks') : pc'[tasks'[k]] = "posted"
        BY <2>1, TailFacts DEF Queued, ESTypeOK
    <2>3. \A j, k \in 1..Len(tasks') : tasks'[j] = tasks'[k] => j = k
        BY <2>1, TailFacts DEF Queued
    <2>4. \A c \in Conn : pc'[Disconnect(c)] # "none" => Taken(c)'
        BY <2>1, TailFacts, CallFacts DEF Queued, Taken, ESTypeOK
    <2>5. \A c \in Conn : \A j, k \in 1..Len(tasks') :
             tasks'[j] = Connect(c) /\ tasks'[k] = Disconnect(c) => j < k
        BY <2>1, TailFacts DEF Queued
    <2> QED BY <2>2, <2>3, <2>4, <2>5 DEF Queued
<1>7. CASE OnStop \/ Destroy
    BY <1>7, QueuedKept DEF OnStop, Destroy, Queued, Taken
<1> QED
    BY <1>1, <1>2, <1>3, <1>4, <1>5, <1>6, <1>7, NextCases

(* Entries are made by handled connects and keep their place.              *)
LEMMA EntriesFitStep ==
    ASSUME ESTypeOK, ESTypeOK', Queued, EntriesFit, [Next]_vars
    PROVE  EntriesFit'
<1> USE ESAssumption DEF ExtensionAssumption
<1>1. CASE UNCHANGED vars
    BY <1>1 DEF vars, EntriesFit
<1>2. ASSUME NEW c \in Conn, ReadConnect(c) \/ ReadDisconnect(c)
      PROVE  EntriesFit'
    BY <1>2, CallFacts DEF ReadConnect, ReadDisconnect, EntriesFit, ESTypeOK
<1>3. ASSUME NEW t \in Call, LockExtension(t) \/ InvokeCallbackInMainThread(t)
      PROVE  EntriesFit'
    BY <1>3, CallFacts
       DEF LockExtension, InvokeCallbackInMainThread, EntriesFit, ESTypeOK
<1>4. CASE InvokeCallback
    <2>1. tasks # <<>> /\ tasks' = Tail(tasks)
        BY <1>4 DEF InvokeCallback
    <2>2. Head(tasks) \in Call /\ pc[Head(tasks)] = "posted"
        BY <2>1, TailFacts
    <2>3. CASE NotTold(Head(tasks))
        BY <2>2, <2>3, CallFacts DEF NotTold, EntriesFit, ESTypeOK
    <2>4. ASSUME NEW c \in Conn, pc' = [pc EXCEPT ![Connect(c)] = "handled"],
                 AddConnection(c)
          PROVE  EntriesFit'
        BY <2>4, CallFacts DEF AddConnection, EntriesFit, ESTypeOK
    <2>5. ASSUME NEW c \in Conn, pc' = [pc EXCEPT ![Disconnect(c)] = "handled"],
                 RemoveConnection(c)
          PROVE  EntriesFit'
        BY <2>5, CallFacts DEF RemoveConnection, EntriesFit, ESTypeOK
    <2> QED BY <1>4, <2>3, <2>4, <2>5, TaskCases
<1>5. CASE OnStop \/ Destroy
    BY <1>5 DEF OnStop, Destroy, ClearAllConnections, EntriesFit
<1> QED BY <1>1, <1>2, <1>3, <1>4, <1>5, NextCases

(* The destructor waits for every call and every task; later calls are     *)
(* refused.                                                                *)
LEMMA GoneIsQuietStep ==
    ASSUME ESTypeOK, GoneIsQuiet, [Next]_vars
    PROVE  GoneIsQuiet'
<1>1. CASE UNCHANGED vars
    BY <1>1 DEF vars, GoneIsQuiet
<1>2. ASSUME NEW c \in Conn, ReadConnect(c) \/ ReadDisconnect(c)
      PROVE  GoneIsQuiet'
    BY <1>2 DEF ReadConnect, ReadDisconnect, GoneIsQuiet, ESTypeOK
<1>3. ASSUME NEW t \in Call, LockExtension(t) \/ InvokeCallbackInMainThread(t)
      PROVE  GoneIsQuiet'
    BY <1>3 DEF LockExtension, InvokeCallbackInMainThread, GoneIsQuiet, ESTypeOK
<1>4. CASE InvokeCallback \/ OnStop
    BY <1>4 DEF InvokeCallback, OnStop, GoneIsQuiet
<1>5. CASE Destroy
    BY <1>5 DEF Destroy, GoneIsQuiet
<1> QED BY <1>1, <1>2, <1>3, <1>4, <1>5, NextCases

----------------------------------------------------------------------------
(* Who holds the descriptors.                                              *)

Shape == ESTypeOK /\ Queued /\ EntriesFit /\ GoneIsQuiet

(* The invariant behind HeldAreOpen and NothingLeaks: a descriptor of a    *)
(* connection is one that it came with, and before its call none is.       *)
Owned ==
    /\ HeldAreOpen
    /\ NothingLeaks
    /\ \A f \in Fd, c \in Conn : file[f] = c => f \in fds[c]
    /\ \A c \in Conn : pc[Connect(c)] = "none" => fds[c] = {}

(* The three ways to hold a connection's descriptors exclude one another.  *)
LEMMA HeldPc ==
    ASSUME Shape, NEW c \in Conn
    PROVE  /\ InTask(c) => pc[Connect(c)] = "posted"
           /\ InEntry(c) => pc[Connect(c)] = "handled"
<1> USE ESAssumption DEF ExtensionAssumption
<1>1. InTask(c) => pc[Connect(c)] = "posted"
    BY DEF Shape, Queued, InTask
<1>2. InEntry(c) => pc[Connect(c)] = "handled"
    BY DEF Shape, EntriesFit, InEntry
<1> QED BY <1>1, <1>2

(* The same after a step.                                                  *)
LEMMA HeldPcNext ==
    ASSUME Shape', NEW c \in Conn
    PROVE  /\ InTask(c)' => pc'[Connect(c)] = "posted"
           /\ InEntry(c)' => pc'[Connect(c)] = "handled"
<1> USE ESAssumption DEF ExtensionAssumption
<1>1. InTask(c)' => pc'[Connect(c)] = "posted"
    BY DEF Shape, Queued, InTask
<1>2. InEntry(c)' => pc'[Connect(c)] = "handled"
    BY DEF Shape, EntriesFit, InEntry
<1> QED BY <1>1, <1>2

(* The entry of an id holds the descriptors of its connection.             *)
LEMMA EntryHolds ==
    ASSUME Shape, life # "gone", NEW i \in Id, connections[i] # NoConn
    PROVE  /\ connections[i] \in Conn
           /\ IdOf[connections[i]] = i
           /\ InEntry(connections[i])
BY DEF Shape, ESTypeOK, EntriesFit, InEntry

(* Taking the head off the queue lets go of that task and of no other.     *)
LEMMA InTaskStep ==
    ASSUME Shape, tasks # <<>>, tasks' = Tail(tasks), NEW c \in Conn
    PROVE  InTask(c)' <=> InTask(c) /\ Connect(c) # Head(tasks)
<1>1. /\ Head(tasks) = tasks[1] /\ Len(tasks) \in Nat \ {0}
      /\ Len(tasks') = Len(tasks) - 1
      /\ \A k \in 1..Len(tasks') :
            /\ k + 1 \in 1..Len(tasks)
            /\ tasks'[k] = tasks[k + 1]
            /\ tasks'[k] # Head(tasks)
    BY TailFacts DEF Shape
<1>2. ASSUME InTask(c)' PROVE InTask(c) /\ Connect(c) # Head(tasks)
    BY <1>1, <1>2 DEF InTask
<1>3. ASSUME InTask(c), Connect(c) # Head(tasks) PROVE InTask(c)'
    <2>1. PICK k \in 1..Len(tasks) : tasks[k] = Connect(c)
        BY <1>3 DEF InTask
    <2>2. k - 1 \in 1..Len(tasks')
        BY <1>1, <1>3, <2>1
    <2>3. tasks'[k - 1] = tasks[k - 1 + 1] /\ k - 1 + 1 = k
        BY <1>1, <2>1, <2>2
    <2> QED BY <2>1, <2>2, <2>3 DEF InTask
<1> QED BY <1>2, <1>3

(* Whatever closes the descriptors of connections D that someone holds,    *)
(* and lets go of exactly these.                                           *)
LEMMA OwnedWhen ==
    ASSUME ESTypeOK, Owned, NEW D \in SUBSET Conn,
           UNCHANGED fds,
           \A d \in D : Held(d),
           \A f \in Fd : file'[f] = IF \E d \in D : f \in fds[d]
                                      THEN NoConn ELSE file[f],
           \A c \in Conn : Held(c)' => c \notin D /\ Held(c),
           \A c \in Conn \ D : Held(c) =>
               Held(c)' \/ pc'[Connect(c)] \in {"refused", "lost"},
           \A c \in Conn : pc[Connect(c)] \in {"refused", "lost"} =>
               pc'[Connect(c)] = pc[Connect(c)],
           \A c \in Conn : pc'[Connect(c)] = "none" => pc[Connect(c)] = "none"
    PROVE  Owned'
<1> USE ESAssumption DEF ExtensionAssumption
<1>1. HeldAreOpen'
    <2> SUFFICES ASSUME NEW c \in Conn, Held(c)', NEW f \in fds[c]
                 PROVE  file'[f] = c
        BY DEF HeldAreOpen
    <2>1. f \in Fd /\ file[f] = c /\ c \notin D
        BY DEF Owned, HeldAreOpen, ESTypeOK
    <2>2. \A d \in D : f \notin fds[d]
        BY <2>1 DEF Owned, HeldAreOpen
    <2> QED BY <2>1, <2>2
<1>2. NothingLeaks'
    <2> SUFFICES ASSUME NEW f \in Fd, NEW c \in Conn, file'[f] = c
                 PROVE  Held(c)' \/ pc'[Connect(c)] \in {"refused", "lost"}
        BY DEF NothingLeaks
    <2>1. file[f] = c /\ c \notin D
        BY DEF Owned
    <2> QED BY <2>1 DEF Owned, NothingLeaks
<1>3. \A f \in Fd, c \in Conn : file'[f] = c => f \in fds'[c]
    BY DEF Owned
<1>4. \A c \in Conn : pc'[Connect(c)] = "none" => fds'[c] = {}
    BY DEF Owned
<1> QED BY <1>1, <1>2, <1>3, <1>4 DEF Owned

(* The case of nothing closed.                                             *)
LEMMA OwnedKept ==
    ASSUME ESTypeOK, Owned, UNCHANGED <<fds, file>>,
           \A c \in Conn : Held(c)' => Held(c),
           \A c \in Conn : Held(c) =>
               Held(c)' \/ pc'[Connect(c)] \in {"refused", "lost"},
           \A c \in Conn : pc[Connect(c)] \in {"refused", "lost"} =>
               pc'[Connect(c)] = pc[Connect(c)],
           \A c \in Conn : pc'[Connect(c)] = "none" => pc[Connect(c)] = "none"
    PROVE  Owned'
<1>1. HeldAreOpen'
    BY DEF Owned, HeldAreOpen
<1>2. NothingLeaks'
    BY DEF Owned, NothingLeaks
<1> QED BY <1>1, <1>2 DEF Owned

(* What a connection comes with is open, and no other's.                   *)
LEMMA OwnedReadConnect ==
    ASSUME Shape, Shape', Owned, NEW c \in Conn, ReadConnect(c)
    PROVE  Owned'
<1> USE ESAssumption DEF ExtensionAssumption
<1>1. /\ pc[Connect(c)] = "none" /\ pc' = [pc EXCEPT ![Connect(c)] = "read"]
      /\ UNCHANGED <<tasks, connections, life>>
    BY DEF ReadConnect
<1>2. /\ Connect(c) \in Call /\ pc \in [Call -> Pc]
      /\ fds \in [Conn -> SUBSET Fd] /\ file \in [Fd -> Conn \cup {NoConn}]
    BY CallFacts DEF Shape, ESTypeOK
<1>3. ~Held(c) /\ Held(c)'
    BY <1>1, <1>2, HeldPc DEF Held, InCall
<1>4. \A f \in Fd : file[f] # c
    BY <1>1, <1>3 DEF Owned, NothingLeaks
<1>5. \A d \in Conn \ {c} :
          pc'[Connect(d)] = pc[Connect(d)] /\ (Held(d)' <=> Held(d))
    BY <1>1, <1>2, CallFacts DEF Held, InCall, InTask, InEntry
<1>6. CASE UNCHANGED <<fds, file>>
    <2>1. fds[c] = {}
        BY <1>1 DEF Owned
    <2>2. HeldAreOpen'
        BY <1>5, <1>6, <2>1 DEF Owned, HeldAreOpen
    <2>3. NothingLeaks'
        BY <1>3, <1>5, <1>6 DEF Owned, NothingLeaks
    <2> QED BY <1>1, <1>2, <1>5, <1>6, <2>2, <2>3 DEF Owned
<1>7. ASSUME NEW r \in Free, NEW w \in Free,
             fds' = [fds EXCEPT ![c] = {r, w}],
             file' = [file EXCEPT ![r] = c, ![w] = c]
      PROVE  Owned'
    <2>1. r \in Fd /\ w \in Fd /\ file[r] = NoConn /\ file[w] = NoConn
        BY DEF Free
    <2>2. /\ fds'[c] = {r, w} /\ file'[r] = c /\ file'[w] = c
          /\ \A d \in Conn \ {c} : fds'[d] = fds[d]
          /\ \A f \in Fd \ {r, w} : file'[f] = file[f]
        BY <1>2, <1>7, <2>1
    <2>3. HeldAreOpen'
        <3> SUFFICES ASSUME NEW d \in Conn, Held(d)', NEW f \in fds'[d]
                     PROVE  file'[f] = d
            BY DEF HeldAreOpen
        <3>1. CASE d = c
            BY <2>2, <3>1
        <3>2. CASE d # c
            <4>1. f \in Fd /\ file[f] = d
                BY <1>2, <1>5, <2>2, <3>2 DEF Owned, HeldAreOpen
            <4> QED BY <2>1, <2>2, <4>1
        <3> QED BY <3>1, <3>2
    <2>4. NothingLeaks'
        <3> SUFFICES ASSUME NEW f \in Fd, NEW d \in Conn, file'[f] = d, d # c
                     PROVE  Held(d)' \/ pc'[Connect(d)] \in {"refused", "lost"}
            BY <1>3 DEF NothingLeaks
        <3>1. file[f] = d
            BY <2>2
        <3> QED BY <1>5, <3>1 DEF Owned, NothingLeaks
    <2>5. \A f \in Fd, d \in Conn : file'[f] = d => f \in fds'[d]
        BY <1>4, <2>2 DEF Owned
    <2>6. \A d \in Conn : pc'[Connect(d)] = "none" => fds'[d] = {}
        BY <1>1, <1>2, <1>5, <2>2 DEF Owned
    <2> QED BY <2>3, <2>4, <2>5, <2>6 DEF Owned
<1> QED BY <1>6, <1>7 DEF ReadConnect, Unmarshalling

(* The stub hands the descriptors on, closes them, or forgets them in the  *)
(* two ways that NothingLeaks names.                                       *)
LEMMA OwnedStub ==
    ASSUME Shape, Shape', Owned, NEW t \in Call,
           LockExtension(t) \/ InvokeCallbackInMainThread(t)
    PROVE  Owned'
<1> USE ESAssumption DEF ExtensionAssumption
<1>1. /\ ESTypeOK /\ pc \in [Call -> Pc] /\ fds \in [Conn -> SUBSET Fd]
      /\ UNCHANGED <<fds, connections, life>>
    BY DEF Shape, ESTypeOK, LockExtension, InvokeCallbackInMainThread
<1>2. /\ pc[t] \in {"read", "locked"}
      /\ pc'[t] \in {"locked", "refused", "posted", "lost", "failed"}
      /\ \A u \in Call \ {t} : pc'[u] = pc[u]
    BY <1>1 DEF LockExtension, InvokeCallbackInMainThread
<1>3. \A d \in Conn : Connect(d) \in Call
    BY CallFacts
<1>4. \A d \in Conn :
          /\ pc[Connect(d)] \in {"refused", "lost"} =>
                 pc'[Connect(d)] = pc[Connect(d)]
          /\ pc'[Connect(d)] = "none" => pc[Connect(d)] = "none"
    BY <1>2, <1>3
(* Unless the descriptors are closed, their holder only changes.           *)
<1>5. ASSUME UNCHANGED file,
             \A d \in Conn : InTask(d)' => InTask(d) \/ Connect(d) = t,
             \A d \in Conn : InTask(d) => InTask(d)',
             \A d \in Conn : Connect(d) = t =>
                 Held(d)' \/ pc'[t] \in {"refused", "lost"}
      PROVE  Owned'
    <2>1. \A d \in Conn : Held(d)' => Held(d)
        BY <1>1, <1>2, <1>3, <1>5 DEF Held, InCall, InEntry
    <2>2. \A d \in Conn : Held(d) =>
              Held(d)' \/ pc'[Connect(d)] \in {"refused", "lost"}
        <3> SUFFICES ASSUME NEW d \in Conn, Held(d), Connect(d) # t
                     PROVE  Held(d)'
            BY <1>5
        <3> QED BY <1>1, <1>2, <1>3, <1>5 DEF Held, InCall, InEntry
    <2> QED BY <1>1, <1>4, <1>5, <2>1, <2>2, OwnedKept
<1>6. CASE LockExtension(t)
    <2>1. UNCHANGED <<file, tasks>> /\ pc'[t] \in {"locked", "refused"}
        BY <1>1, <1>6 DEF LockExtension
    <2> QED BY <1>5, <2>1 DEF InTask, Held, InCall
<1>7. ASSUME UNCHANGED <<file, tasks>>, pc'[t] = "lost" PROVE Owned'
    BY <1>5, <1>7 DEF InTask
<1>8. ASSUME UNCHANGED file, tasks' = Append(tasks, t) PROVE Owned'
    <2>1. /\ Len(tasks') = Len(tasks) + 1 /\ Len(tasks) \in Nat
          /\ \A k \in 1..Len(tasks) : tasks'[k] = tasks[k]
          /\ tasks'[Len(tasks')] = t
          /\ \A k \in 1..Len(tasks') : k \in 1..Len(tasks) \/ k = Len(tasks')
        BY <1>1, <1>8, AppendFacts
    <2>2. \A d \in Conn : InTask(d)' => InTask(d) \/ Connect(d) = t
        BY <2>1 DEF InTask
    <2>3. \A d \in Conn : InTask(d) => InTask(d)'
        <3> SUFFICES ASSUME NEW d \in Conn, NEW k \in 1..Len(tasks),
                            tasks[k] = Connect(d)
                     PROVE  InTask(d)'
            BY DEF InTask
        <3>1. k \in 1..Len(tasks') /\ tasks'[k] = Connect(d)
            BY <2>1
        <3> QED BY <3>1 DEF InTask
    <2>4. \A d \in Conn : Connect(d) = t => InTask(d)'
        <3>1. Len(tasks') \in 1..Len(tasks')
            BY <2>1
        <3> QED BY <2>1, <3>1 DEF InTask
    <2> QED BY <1>5, <1>8, <2>2, <2>3, <2>4 DEF Held
<1>9. ASSUME UNCHANGED tasks, pc'[t] = "failed", Close(Params(t))
      PROVE  Owned'
    <2> DEFINE D == {d \in Conn : Connect(d) = t}
    <2>1. \A f \in Fd : file'[f] = IF \E d \in D : f \in fds[d]
                                     THEN NoConn ELSE file[f]
        <3>1. PICK c \in Conn : t = Connect(c) \/ t = Disconnect(c)
            BY CallFacts
        <3>2. CASE t = Connect(c)
            <4>1. D = {c} /\ Params(t) = fds[c]
                BY <3>2, CallFacts
            <4> QED BY <1>9, <4>1 DEF Close
        <3>3. CASE t = Disconnect(c)
            <4>1. D = {} /\ Params(t) = {}
                BY <3>3, CallFacts
            <4> QED BY <1>9, <4>1 DEF Close
        <3> QED BY <3>1, <3>2, <3>3
    <2>2. \A d \in D : Held(d)
        BY <1>2 DEF Held, InCall
    <2>3. \A d \in Conn : Held(d)' => d \notin D /\ Held(d)
        <3>1. \A d \in D : ~Held(d)'
            BY <1>9, HeldPcNext DEF Held, InCall
        <3>2. \A d \in Conn \ D : Held(d)' => Held(d)
            BY <1>1, <1>2, <1>3, <1>9 DEF Held, InCall, InTask, InEntry
        <3> QED BY <3>1, <3>2
    <2>4. \A d \in Conn \ D : Held(d) => Held(d)'
        BY <1>1, <1>2, <1>3, <1>9 DEF Held, InCall, InTask, InEntry
    <2> HIDE DEF D
    <2>5. D \in SUBSET Conn
        BY DEF D
    <2> QED BY <1>1, <1>4, <2>1, <2>2, <2>3, <2>4, <2>5, OwnedWhen
<1> QED
    BY <1>1, <1>6, <1>7, <1>8, <1>9 DEF InvokeCallbackInMainThread

(* What an entry stands for, as AddConnection and RemoveConnection close   *)
(* it: the descriptors of at most one connection, which it holds.          *)
LEMMA EntryOwner ==
    ASSUME Shape, life # "gone", NEW i \in Id
    PROVE  \E D \in SUBSET Conn :
              /\ D = {c \in Conn : InEntry(c) /\ IdOf[c] = i}
              /\ \A f \in Fd : f \in EntryFds(i) <=> \E d \in D : f \in fds[d]
<1> USE ESAssumption DEF ExtensionAssumption
<1> DEFINE D == {c \in Conn : InEntry(c) /\ IdOf[c] = i}
<1>1. CASE connections[i] = NoConn
    <2>1. D = {}
        BY <1>1 DEF InEntry
    <2> QED BY <1>1, <2>1 DEF EntryFds
<1>2. CASE connections[i] # NoConn
    <2>1. D = {connections[i]}
        BY <1>2, EntryHolds DEF InEntry
    <2> QED BY <1>2, <2>1 DEF EntryFds
<1> QED BY <1>1, <1>2

(* OnStop and the destructor close what the entries hold.                  *)
LEMMA OwnedStop ==
    ASSUME Shape, Shape', Owned, OnStop \/ Destroy
    PROVE  Owned'
<1> USE ESAssumption DEF ExtensionAssumption
<1> DEFINE D == {c \in Conn : InEntry(c)}
<1>1. /\ life # "gone" /\ UNCHANGED <<pc, fds, tasks>>
      /\ Close(AllEntryFds) /\ connections' = [i \in Id |-> NoConn]
    BY DEF OnStop, Destroy, ClearAllConnections
<1>2. \A f \in Fd : f \in AllEntryFds <=> \E d \in D : f \in fds[d]
    <2> TAKE f \in Fd
    <2>1. ASSUME NEW i \in Id, f \in EntryFds(i)
          PROVE  \E d \in D : f \in fds[d]
        BY <1>1, <2>1, EntryOwner
    <2>2. ASSUME NEW d \in D, f \in fds[d]
          PROVE  f \in AllEntryFds
        <3>1. IdOf[d] \in Id /\ connections[IdOf[d]] = d /\ d # NoConn
            BY <2>2 DEF InEntry
        <3> QED BY <2>2, <3>1 DEF AllEntryFds, EntryFds
    <2> QED BY <2>1, <2>2 DEF AllEntryFds
<1>3. \A f \in Fd : file'[f] = IF \E d \in D : f \in fds[d]
                                 THEN NoConn ELSE file[f]
    BY <1>1, <1>2 DEF Close
<1>4. \A d \in D : Held(d)
    BY DEF Held
<1>5. \A c \in Conn : ~InEntry(c)'
    BY <1>1 DEF InEntry
<1>6. \A c \in Conn : (InCall(c) <=> InCall(c)') /\ (InTask(c) <=> InTask(c)')
    BY <1>1 DEF InCall, InTask
<1>7. \A c \in Conn : Held(c)' => c \notin D /\ Held(c)
    BY <1>5, <1>6, HeldPc DEF Held, InCall
<1>8. \A c \in Conn \ D : Held(c) => Held(c)'
    BY <1>6 DEF Held
<1> HIDE DEF D
<1>9. D \in SUBSET Conn /\ ESTypeOK
    BY DEF D, Shape
<1> QED BY <1>1, <1>3, <1>4, <1>7, <1>8, <1>9, OwnedWhen

(* A task closes what it brought, or what stood under its id, and else     *)
(* gives it to the entry.                                                  *)
LEMMA OwnedRun ==
    ASSUME Shape, Shape', Owned, InvokeCallback
    PROVE  Owned'
<1> USE ESAssumption DEF ExtensionAssumption
<1>1. /\ ESTypeOK /\ Queued /\ tasks # <<>> /\ tasks' = Tail(tasks)
      /\ life # "gone" /\ UNCHANGED <<fds, life>>
      /\ pc \in [Call -> Pc]
      /\ connections \in [Id -> Conn \cup {NoConn}]
    BY DEF Shape, ESTypeOK, InvokeCallback, GoneIsQuiet
<1>2. PICK c \in Conn :
         /\ Head(tasks) \in {Connect(c), Disconnect(c)}
         /\ \/ NotTold(Head(tasks))
            \/ /\ Head(tasks) = Connect(c)
               /\ pc' = [pc EXCEPT ![Connect(c)] = "handled"]
               /\ AddConnection(c)
            \/ /\ Head(tasks) = Disconnect(c)
               /\ pc' = [pc EXCEPT ![Disconnect(c)] = "handled"]
               /\ RemoveConnection(c)
    BY <1>1, TaskCases
<1>3. /\ pc[Head(tasks)] = "posted" /\ Head(tasks) \in Call
      /\ \E s \in {"handled", "unheard"} :
            pc' = [pc EXCEPT ![Head(tasks)] = s]
    BY <1>1, <1>2, TailFacts DEF NotTold
<1>4. \A d \in Conn :
         /\ InCall(d)' <=> InCall(d)
         /\ InTask(d)' <=> InTask(d) /\ Connect(d) # Head(tasks)
         /\ pc[Connect(d)] \in {"refused", "lost"} =>
                pc'[Connect(d)] = pc[Connect(d)]
         /\ pc'[Connect(d)] = "none" => pc[Connect(d)] = "none"
    BY <1>1, <1>3, CallFacts, InTaskStep DEF InCall
<1>5. Head(tasks) = Connect(c) => InTask(c)
    <2>1. Head(tasks) = tasks[1] /\ 1 \in 1..Len(tasks)
        BY <1>1, TailFacts
    <2> QED BY <2>1 DEF InTask
(* Without the method.                                                     *)
<1>6. CASE NotTold(Head(tasks)) /\ Head(tasks) = Connect(c)
    <2> DEFINE D == {c}
    <2>1. \A f \in Fd : file'[f] = IF \E d \in D : f \in fds[d]
                                     THEN NoConn ELSE file[f]
        BY <1>6, CallFacts DEF NotTold, Close
    <2>2. \A d \in Conn : InEntry(d)' <=> InEntry(d)
        BY <1>1, <1>6 DEF NotTold, InEntry
    <2>3. \A d \in D : Held(d)
        BY <1>5, <1>6 DEF Held
    <2>4. ~Held(c)'
        <3>1. pc[Connect(c)] = "posted"
            BY <1>3, <1>6
        <3> QED BY <1>4, <1>6, <2>2, <3>1, HeldPc DEF Held, InCall
    <2>5. \A d \in Conn : Held(d)' => d \notin D /\ Held(d)
        BY <1>4, <2>2, <2>4 DEF Held
    <2>6. \A d \in Conn \ D : Held(d) => Held(d)'
        BY <1>4, <1>6, <2>2, CallFacts DEF Held
    <2>7. D \in SUBSET Conn
        OBVIOUS
    <2> HIDE DEF D
    <2> QED BY <1>1, <1>4, <2>1, <2>3, <2>5, <2>6, <2>7, OwnedWhen
<1>7. CASE NotTold(Head(tasks)) /\ Head(tasks) = Disconnect(c)
    <2>1. \A f \in Fd : file'[f] = file[f]
        BY <1>7, CallFacts DEF NotTold, Close
    <2>2. file' = file
        BY <1>7, <2>1 DEF NotTold, Close, Shape, ESTypeOK
    <2>3. \A d \in Conn : Held(d)' <=> Held(d)
        BY <1>1, <1>4, <1>7, CallFacts DEF NotTold, Held, InEntry
    <2> QED BY <1>1, <1>4, <2>2, <2>3, OwnedKept
(* With it.                                                                *)
<1>8. ASSUME Close(EntryFds(IdOf[c])),
             \A i \in Id \ {IdOf[c]} : connections'[i] = connections[i],
             \/ /\ Head(tasks) = Connect(c)
                /\ connections'[IdOf[c]] = c
             \/ /\ Head(tasks) = Disconnect(c)
                /\ connections'[IdOf[c]] = NoConn
      PROVE  Owned'
    <2> DEFINE D == {d \in Conn : InEntry(d) /\ IdOf[d] = IdOf[c]}
    <2>1. \A f \in Fd : file'[f] = IF \E d \in D : f \in fds[d]
                                     THEN NoConn ELSE file[f]
        BY <1>1, <1>8, EntryOwner DEF Close
    <2>2. \A d \in D : Held(d)
        BY DEF Held
    <2>3. \A d \in Conn : IdOf[d] # IdOf[c] => (InEntry(d)' <=> InEntry(d))
        BY <1>1, <1>8 DEF InEntry
    <2>4. \A d \in Conn : IdOf[d] = IdOf[c] =>
              (InEntry(d)' <=> d = c /\ Head(tasks) = Connect(c))
        BY <1>1, <1>8, CallFacts DEF InEntry
    <2>5. Head(tasks) = Connect(c) => c \notin D
        BY <1>3, HeldPc
    <2>6. ASSUME NEW d \in Conn, Held(d)' PROVE d \notin D /\ Held(d)
        <3>1. CASE d \in D
            BY <1>4, <2>4, <2>5, <2>6, <3>1, HeldPc DEF Held, InCall
        <3>2. CASE d \notin D
            BY <1>4, <1>5, <2>3, <2>4, <2>6, <3>2 DEF Held
        <3> QED BY <3>1, <3>2
    <2>7. ASSUME NEW d \in Conn \ D, Held(d) PROVE Held(d)'
        <3>1. CASE Head(tasks) = Connect(d)
            BY <1>2, <2>4, <3>1, CallFacts DEF Held
        <3>2. CASE Head(tasks) # Connect(d)
            BY <1>4, <2>3, <2>7, <3>2 DEF Held
        <3> QED BY <3>1, <3>2
    <2>8. D \in SUBSET Conn
        OBVIOUS
    <2> HIDE DEF D
    <2> QED BY <1>1, <1>4, <2>1, <2>2, <2>6, <2>7, <2>8, OwnedWhen
<1>9. CASE Head(tasks) = Connect(c) /\ AddConnection(c)
    BY <1>1, <1>8, <1>9 DEF AddConnection
<1>10. CASE Head(tasks) = Disconnect(c) /\ RemoveConnection(c)
    BY <1>1, <1>8, <1>10 DEF RemoveConnection
<1> QED BY <1>2, <1>6, <1>7, <1>9, <1>10

(* Every step closes only what it lets go of, and lets go of what it closes.*)
LEMMA OwnedStep ==
    ASSUME Shape, Shape', Owned, [Next]_vars
    PROVE  Owned'
<1> USE ESAssumption DEF ExtensionAssumption
<1>1. CASE UNCHANGED vars
    BY <1>1, OwnedKept DEF vars, Shape, Held, InCall, InTask, InEntry
<1>2. ASSUME NEW c \in Conn, ReadDisconnect(c) PROVE Owned'
    <2>1. /\ UNCHANGED <<file, fds, tasks, connections, life>>
          /\ \A d \in Conn : pc'[Connect(d)] = pc[Connect(d)]
        BY <1>2, CallFacts DEF ReadDisconnect, Shape, ESTypeOK
    <2>2. \A d \in Conn : Held(d)' <=> Held(d)
        BY <2>1 DEF Held, InCall, InTask, InEntry
    <2> QED BY <2>1, <2>2, OwnedKept DEF Shape
<1> QED
    BY <1>1, <1>2, OwnedReadConnect, OwnedStub, OwnedRun, OwnedStop, NextCases

(* At first nothing is open and nobody holds anything.                     *)
LEMMA ShapeInit == Init => Shape /\ Owned
<1> USE ESAssumption, CallFacts DEF ExtensionAssumption
<1>1. Init => ESTypeOK
    BY DEF Init, ESTypeOK, Pc
<1>2. Init => Queued /\ EntriesFit /\ GoneIsQuiet
    BY DEF Init, Queued, EntriesFit, GoneIsQuiet
<1>3. Init => Owned
    BY DEF Init, Owned, HeldAreOpen, NothingLeaks
<1> QED BY <1>1, <1>2, <1>3 DEF Shape

(* The invariant, on top of the types.                                     *)
LEMMA AlwaysOwned == Spec => []Shape /\ []Owned
<1>1. Spec => []ESTypeOK
    BY TypeCorrect
<1>2. ESTypeOK /\ ESTypeOK' /\ Shape /\ [Next]_vars => Shape'
    BY QueuedStep, EntriesFitStep, GoneIsQuietStep DEF Shape
<1>3. Shape /\ Shape' /\ Owned /\ [Next]_vars => Owned'
    BY OwnedStep
<1> QED BY <1>1, <1>2, <1>3, ShapeInit, PTL DEF Spec

(* No descriptor is closed while another connection has its number.        *)
THEOREM HeldStayOpen == Spec => []HeldAreOpen
<1>1. Owned => HeldAreOpen
    BY DEF Owned
<1> QED BY <1>1, AlwaysOwned, PTL

(* No descriptor is forgotten, but for the refused and the lost calls.     *)
THEOREM NoneForgotten == Spec => []NothingLeaks
<1>1. Owned => NothingLeaks
    BY DEF Owned
<1> QED BY <1>1, AlwaysOwned, PTL

----------------------------------------------------------------------------
(* What the JavaScript object was told.                                    *)

(* A connection whose end was told has been handled before, and with an id *)
(* of its own it has no entry any more; one that was announced has its     *)
(* entry until then.                                                       *)
ToldFits ==
    /\ \A c \in Conn : told[c] = "ended" => Taken(c) /\ ~InTask(c)
    /\ \A c \in Conn : UniqueId(c) /\ told[c] = "connected" /\ life = "running"
           => connections[IdOf[c]] = c
    /\ \A c \in Conn : UniqueId(c) /\ told[c] = "ended"
           => connections[IdOf[c]] # c

(* A task changes the entry of its own id only.                            *)
LEMMA ToldStep ==
    ASSUME Shape, Shape', ToldFits, [Next]_vars
    PROVE  ToldFits'
<1> USE ESAssumption DEF ExtensionAssumption
<1>1. CASE UNCHANGED vars
    BY <1>1 DEF vars, ToldFits, Taken, InTask
<1>2. ASSUME NEW c \in Conn, ReadConnect(c) \/ ReadDisconnect(c)
      PROVE  ToldFits'
    BY <1>2, CallFacts DEF ReadConnect, ReadDisconnect, ToldFits, Taken, InTask,
       Shape, ESTypeOK
<1>3. ASSUME NEW t \in Call, LockExtension(t) \/ InvokeCallbackInMainThread(t)
      PROVE  ToldFits'
    <2>1. /\ UNCHANGED <<connections, told, life>> /\ ESTypeOK
          /\ pc[t] \in {"read", "locked"}
          /\ \A u \in Call \ {t} : pc'[u] = pc[u]
          /\ tasks' = tasks \/ tasks' = Append(tasks, t)
        BY <1>3 DEF LockExtension, InvokeCallbackInMainThread, Shape, ESTypeOK
    <2>2. ASSUME NEW c \in Conn, told[c] = "ended" PROVE Taken(c)' /\ ~InTask(c)'
        <3>1. Connect(c) # t /\ Connect(c) \in Call /\ Taken(c) /\ ~InTask(c)
            BY <2>1, <2>2, CallFacts DEF ToldFits, Taken
        <3>2. CASE tasks' = tasks
            BY <2>1, <3>1, <3>2 DEF Taken, InTask
        <3>3. CASE tasks' = Append(tasks, t)
            <4>1. \A k \in 1..Len(tasks') : tasks'[k] # Connect(c)
                BY <2>1, <3>1, <3>3, AppendFacts DEF InTask
            <4> QED BY <2>1, <3>1, <4>1 DEF Taken, InTask
        <3> QED BY <2>1, <3>2, <3>3
    <2> QED BY <2>1, <2>2 DEF ToldFits
<1>4. CASE InvokeCallback
    <2>1. /\ ESTypeOK /\ Queued /\ tasks # <<>> /\ tasks' = Tail(tasks)
          /\ UNCHANGED life /\ pc \in [Call -> Pc]
          /\ connections \in [Id -> Conn \cup {NoConn}]
          /\ told \in [Conn -> {"nothing", "connected", "ended"}]
        BY <1>4 DEF Shape, ESTypeOK, InvokeCallback
    <2>2. PICK c \in Conn :
             /\ Head(tasks) \in {Connect(c), Disconnect(c)}
             /\ \/ NotTold(Head(tasks))
                \/ /\ Head(tasks) = Connect(c)
                   /\ pc' = [pc EXCEPT ![Connect(c)] = "handled"]
                   /\ told' = [told EXCEPT ![c] = "connected"]
                   /\ AddConnection(c)
                \/ /\ Head(tasks) = Disconnect(c)
                   /\ pc' = [pc EXCEPT ![Disconnect(c)] = "handled"]
                   /\ told' = [told EXCEPT ![c] = "ended"]
                   /\ RemoveConnection(c)
        BY <2>1, <1>4, TaskCases
    <2>3. /\ pc[Head(tasks)] = "posted" /\ Head(tasks) = tasks[1]
          /\ 1 \in 1..Len(tasks)
          /\ \A u \in Call \ {Head(tasks)} : pc'[u] = pc[u]
          /\ pc'[Head(tasks)] \in {"handled", "unheard"}
        BY <2>1, <2>2, TailFacts DEF NotTold
    <2>4. \A d \in Conn : /\ Taken(d) => Taken(d)'
                          /\ ~InTask(d) => ~InTask(d)'
        BY <2>1, <2>3, CallFacts, InTaskStep DEF Taken
    <2>5. CASE NotTold(Head(tasks))
        BY <2>1, <2>4, <2>5 DEF NotTold, ToldFits
    <2>6. CASE /\ Head(tasks) = Connect(c)
               /\ told' = [told EXCEPT ![c] = "connected"]
               /\ AddConnection(c)
        BY <2>1, <2>4, <2>6 DEF ToldFits, AddConnection, UniqueId
    <2>7. CASE /\ Head(tasks) = Disconnect(c)
               /\ told' = [told EXCEPT ![c] = "ended"]
               /\ RemoveConnection(c)
        <3>1. Taken(c)
            BY <2>3, <2>7 DEF Queued, Shape
        <3>2. ~InTask(c)
            <4> SUFFICES ASSUME NEW k \in 1..Len(tasks), tasks[k] = Connect(c)
                         PROVE  FALSE
                BY DEF InTask
            <4>1. k < 1
                BY <2>1, <2>3, <2>7 DEF Queued
            <4> QED BY <2>1, <4>1, TailFacts
        <3> QED
            BY <2>1, <2>4, <2>7, <3>1, <3>2
               DEF ToldFits, RemoveConnection, UniqueId
    <2> QED BY <2>2, <2>5, <2>6, <2>7
<1>5. CASE OnStop \/ Destroy
    <2>1. /\ life' # "running" /\ UNCHANGED <<pc, tasks, told>>
          /\ \A i \in Id : connections'[i] = NoConn
        BY <1>5 DEF OnStop, Destroy, ClearAllConnections
    <2> QED BY <2>1 DEF ToldFits, Taken, InTask
<1> QED BY <1>1, <1>2, <1>3, <1>4, <1>5, NextCases

(* What the object was told of the descriptors follows from who holds them.*)
LEMMA ToldTrueState ==
    ASSUME Shape, Owned, ToldFits
    PROVE  OpenWhileTold
<1> USE ESAssumption DEF ExtensionAssumption
<1> SUFFICES ASSUME NEW c \in Conn, UniqueId(c)
             PROVE  /\ told[c] = "connected" /\ life = "running" =>
                           \A f \in fds[c] : file[f] = c
                    /\ told[c] = "ended" => \A f \in Fd :
                           file[f] = c => pc[Connect(c)] = "lost"
    BY DEF OpenWhileTold
<1>1. ASSUME told[c] = "connected", life = "running"
      PROVE  \A f \in fds[c] : file[f] = c
    BY <1>1 DEF ToldFits, Owned, HeldAreOpen, Held, InEntry
<1>2. ASSUME told[c] = "ended", NEW f \in Fd, file[f] = c
      PROVE  pc[Connect(c)] = "lost"
    <2>1. Taken(c) /\ ~InTask(c) /\ ~InEntry(c)
        BY <1>2 DEF ToldFits, InEntry
    <2> QED BY <1>2, <2>1 DEF Owned, NothingLeaks, Held, InCall, Taken
<1> QED BY <1>1, <1>2

(* With an id of its own, a connection's descriptors are open from         *)
(* onConnectNative until onDisconnectNative or onDestroy, and closed after.*)
THEOREM ToldTrue == Spec => []OpenWhileTold
<1>1. Init => ToldFits
    BY ESAssumption DEF Init, ToldFits, ExtensionAssumption
<1>2. Shape /\ Shape' /\ ToldFits /\ [Next]_vars => ToldFits'
    BY ToldStep
<1>3. Shape /\ Owned /\ ToldFits => OpenWhileTold
    BY ToldTrueState
<1> QED BY <1>1, <1>2, <1>3, AlwaysOwned, PTL DEF Spec

----------------------------------------------------------------------------
(* In which order it was told.                                             *)

(* A connection that is handled was announced, and the other way round.    *)
HeardFits ==
    \A c \in Conn :
        /\ told[c] = "connected" => pc[Connect(c)] = "handled"
        /\ pc[Connect(c)] = "handled" => told[c] # "nothing"

(* What one step may add to what JavaScript has heard of a connection.     *)
HeardNext(c) ==
    \/ Heard(c)' = Heard(c)
    \/ Heard(c) = "idle" /\ Heard(c)' \in {"open", "failed"}
    \/ Heard(c) = "open" /\ Heard(c)' = "closed"

(* Nothing is heard while the task of a connection stays where it is.      *)
LEMMA SameHeard ==
    ASSUME ToldFits, HeardFits, NEW c \in Conn, told'[c] = told[c],
           \/ pc'[Connect(c)] = pc[Connect(c)]
           \/ ~Taken(c) /\ pc'[Connect(c)] # "handled"
           \/ pc[Connect(c)] = "posted" /\ InTask(c) /\ pc'[Connect(c)] # "handled"
    PROVE  /\ Heard(c)' = Heard(c)
           /\ told'[c] = "connected" => pc'[Connect(c)] = "handled"
           /\ pc'[Connect(c)] = "handled" => told'[c] # "nothing"
BY DEF ToldFits, HeardFits, Heard, Taken

(* A step of the main thread tells at most one thing, and the queue has    *)
(* kept the order of the two.                                              *)
LEMMA HeardStep ==
    ASSUME Shape, Shape', ToldFits, HeardFits, [Next]_vars
    PROVE  HeardFits' /\ \A c \in Conn : HeardNext(c)
<1> DEFINE Good(c) == /\ HeardNext(c)
                      /\ told'[c] = "connected" => pc'[Connect(c)] = "handled"
                      /\ pc'[Connect(c)] = "handled" => told'[c] # "nothing"
<1> SUFFICES ASSUME NEW c \in Conn PROVE Good(c)
    BY DEF HeardFits
<1>1. CASE UNCHANGED vars
    BY <1>1, SameHeard DEF vars, HeardNext
<1>2. ASSUME NEW d \in Conn, ReadConnect(d) \/ ReadDisconnect(d) PROVE Good(c)
    <2>1. /\ told' = told
          /\ \/ pc'[Connect(c)] = pc[Connect(c)]
             \/ ~Taken(c) /\ pc'[Connect(c)] # "handled"
        BY <1>2, CallFacts DEF ReadConnect, ReadDisconnect, Taken, Shape, ESTypeOK
    <2> QED BY <2>1, SameHeard DEF HeardNext
<1>3. ASSUME NEW t \in Call, LockExtension(t) \/ InvokeCallbackInMainThread(t)
      PROVE  Good(c)
    <2>1. /\ told' = told
          /\ \/ pc'[Connect(c)] = pc[Connect(c)]
             \/ ~Taken(c) /\ pc'[Connect(c)] # "handled"
        BY <1>3, CallFacts
           DEF LockExtension, InvokeCallbackInMainThread, Taken, Shape, ESTypeOK
    <2> QED BY <2>1, SameHeard DEF HeardNext
<1>4. CASE InvokeCallback
    <2>1. /\ ESTypeOK /\ Queued /\ tasks # <<>> /\ tasks' = Tail(tasks)
          /\ pc \in [Call -> Pc]
          /\ told \in [Conn -> {"nothing", "connected", "ended"}]
        BY <1>4 DEF Shape, ESTypeOK, InvokeCallback
    <2>2. PICK d \in Conn :
             /\ Head(tasks) \in {Connect(d), Disconnect(d)}
             /\ \/ NotTold(Head(tasks))
                \/ /\ Head(tasks) = Connect(d)
                   /\ pc' = [pc EXCEPT ![Connect(d)] = "handled"]
                   /\ told' = [told EXCEPT ![d] = "connected"]
                   /\ AddConnection(d)
                \/ /\ Head(tasks) = Disconnect(d)
                   /\ pc' = [pc EXCEPT ![Disconnect(d)] = "handled"]
                   /\ told' = [told EXCEPT ![d] = "ended"]
                   /\ RemoveConnection(d)
        BY <2>1, <1>4, TaskCases
    <2>3. /\ pc[Head(tasks)] = "posted" /\ Head(tasks) = tasks[1]
          /\ 1 \in 1..Len(tasks)
          /\ \A u \in Call \ {Head(tasks)} : pc'[u] = pc[u]
        BY <2>1, <2>2, TailFacts DEF NotTold
    <2>4. CASE NotTold(Head(tasks))
        <3>1. told' = told /\ pc' = [pc EXCEPT ![Head(tasks)] = "unheard"]
            BY <2>4 DEF NotTold
        <3>2. \/ pc'[Connect(c)] = pc[Connect(c)]
              \/ /\ pc[Connect(c)] = "posted" /\ InTask(c)
                 /\ pc'[Connect(c)] # "handled"
            BY <2>1, <2>3, <3>1, CallFacts DEF InTask
        <3> QED BY <3>1, <3>2, SameHeard DEF HeardNext
    <2>5. ASSUME c # d, ~NotTold(Head(tasks)) PROVE Good(c)
        <3>1. told'[c] = told[c] /\ pc'[Connect(c)] = pc[Connect(c)]
            BY <2>1, <2>2, <2>3, <2>5, CallFacts
        <3> QED BY <3>1, SameHeard DEF HeardNext
    <2>6. CASE /\ c = d /\ Head(tasks) = Connect(d)
               /\ pc' = [pc EXCEPT ![Connect(d)] = "handled"]
               /\ told' = [told EXCEPT ![d] = "connected"]
        <3>1. pc[Connect(c)] = "posted" /\ InTask(c)
            BY <2>3, <2>6 DEF InTask
        <3>2. told[c] = "nothing"
            BY <2>1, <3>1 DEF ToldFits, HeardFits
        <3>3. told'[c] = "connected" /\ pc'[Connect(c)] = "handled"
            BY <2>1, <2>6, CallFacts
        <3> QED BY <3>2, <3>3 DEF HeardNext, Heard
    <2>7. CASE /\ c = d /\ Head(tasks) = Disconnect(d)
               /\ pc' = [pc EXCEPT ![Disconnect(d)] = "handled"]
               /\ told' = [told EXCEPT ![d] = "ended"]
        <3>1. told'[c] = "ended" /\ pc'[Connect(c)] = pc[Connect(c)]
            BY <2>1, <2>7, CallFacts
        <3>2. told[c] \in {"nothing", "connected", "ended"}
            BY <2>1
        <3> QED BY <3>1, <3>2 DEF HeardFits, HeardNext, Heard
    <2> QED BY <2>2, <2>4, <2>5, <2>6, <2>7
<1>5. CASE OnStop \/ Destroy
    BY <1>5, SameHeard DEF OnStop, Destroy, HeardNext
<1> QED BY <1>1, <1>2, <1>3, <1>4, <1>5, NextCases

(* The extension's JavaScript hears of each connection what the service    *)
(* promises its extension: it opens at most once and closes at most once,  *)
(* and one that is ended unopened stays so.                                *)
THEOREM ScriptHearsALife == Spec => ScriptProtocol
<1> USE DEF Script!ViewState
<1>1. Init => HeardFits /\ ToldFits
    BY ESAssumption, CallFacts DEF Init, HeardFits, ToldFits, ExtensionAssumption
<1>2. Init => Script!Init
    BY DEF Init, Heard, Script!Init
<1>3. Shape /\ Shape' /\ ToldFits /\ HeardFits /\ [Next]_vars => ToldFits' /\ HeardFits'
    BY ToldStep, HeardStep
<1>4. Shape /\ Shape' /\ ToldFits /\ HeardFits /\ [Next]_vars => Script!Next
    <2> SUFFICES ASSUME Shape, Shape', ToldFits, HeardFits, [Next]_vars
                 PROVE  Script!Next
        OBVIOUS
    <2>1. \A c \in Conn : HeardNext(c)
        BY HeardStep
    <2>2. \A c \in Conn : Heard(c)' \in {"idle", "open", "closed", "failed"}
        BY DEF Heard, Shape, ESTypeOK
    <2> QED BY <2>1, <2>2 DEF Script!Next, HeardNext
<1> QED BY <1>1, <1>2, <1>3, <1>4, AlwaysOwned, PTL DEF Spec, ScriptProtocol, Script!Spec
=============================================================================
