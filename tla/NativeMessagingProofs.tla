------------------------ MODULE NativeMessagingProofs ------------------------
(***************************************************************************)
(* Theorems about NativeMessaging for every set of requests, keys and      *)
(* processes and every choice of faults: whom a connection serves, and     *)
(* that nothing is left behind by one that was given up.                   *)
(***************************************************************************)
EXTENDS NativeMessagingProperties, TLAPS

USE NMAssumption DEF ConstantsAssumption

(* The connections a connect call and its retry make are connections.      *)
LEMMA NewConnIsConn == \A r \in Req : <<r, 1>> \in Conn /\ <<r, 2>> \in Conn
  BY DEF Conn

(* NewIpcConnectionUnlock leaves the map a map to connections.             *)
LEMMA NewIpcConnectionType ==
  ASSUME TypeOK, NEW k \in Key, NEW c \in Conn, NewIpcConnection(k, c)
  PROVE  connMap' \in [Key -> Conn \cup {NoConn}]
  BY DEF TypeOK, NewIpcConnection

(* A list that a request is added to is a list of requests.                *)
LEMMA AddedType ==
  ASSUME NEW l \in [Conn -> SUBSET Req], NEW c, NEW r \in Req
  PROVE  [l EXCEPT ![c] = @ \cup {r}] \in [Conn -> SUBSET Req]
  OBVIOUS

(* A list that a request is erased from is a list of requests.             *)
LEMMA ErasedType ==
  ASSUME NEW l \in [Conn -> SUBSET Req], NEW c, NEW r
  PROVE  Erased(l, c, r) \in [Conn -> SUBSET Req]
  BY DEF Erased

(* Posting a callback leaves every event queue a queue of callbacks.       *)
LEMMA PostType ==
  ASSUME TypeOK, NEW S, NEW callback \in Callback, Post(S, callback)
  PROVE  tasks' \in [Req -> Seq(Callback)]
  BY DEF TypeOK, Post

(* Calling the extension leaves every record of calls one of calls.        *)
LEMMA TellType ==
  ASSUME TypeOK, NEW S, NEW call \in ExtCall, Tell(S, call)
  PROVE  told' \in [Req -> Seq(ExtCall)]
  BY DEF TypeOK, Tell

(* OnAbilityConnectDone leaves both lists lists of requests ...            *)
LEMMA MovePendingType ==
  ASSUME TypeOK, NEW c \in Conn, NEW S \in SUBSET pending[c], MovePending(c, S)
  PROVE  /\ pending' \in [Conn -> SUBSET Req]
         /\ connected' \in [Conn -> SUBSET Req]
  BY DEF TypeOK, MovePending

(* ... and posts and calls nothing but callbacks and calls.                *)
LEMMA AnswerPendingType ==
  ASSUME TypeOK, NEW P, NEW S, AnswerPending(P, S)
  PROVE  /\ tasks' \in [Req -> Seq(Callback)]
         /\ told' \in [Req -> Seq(ExtCall)]
<1>1. tasks' \in [Req -> Seq(Callback)]
  BY DEF TypeOK, AnswerPending, Callback
<1>2. told' \in [Req -> Seq(ExtCall)]
  BY TellType DEF AnswerPending, ExtCall
<1> QED
  BY <1>1, <1>2

(* What a caller has heard is a sequence of callbacks.                     *)
LEMMA DeliveredType ==
  ASSUME TypeOK, NEW r \in Req, NEW callback \in Callback
  PROVE  Delivered(r, callback) \in [Req -> Seq(Callback)]
  BY DEF TypeOK, Delivered

(* Every step of the service keeps every variable in its type.             *)
LEMMA TypeStep == TypeOK /\ [Next]_vars => TypeOK'
<1> SUFFICES ASSUME TypeOK, [Next]_vars PROVE TypeOK'
  OBVIOUS
<1>1. ASSUME NEW r \in Req, ConnectBegin(r) PROVE TypeOK'
  BY <1>1
     DEF TypeOK, ConnectBegin, ConnectPc, mapVars, connVars, reqVars,
         closeVars, deathVars, exitVars
<1>2. ASSUME NEW r \in Req, ConnectRejected(r) PROVE TypeOK'
  BY <1>2
     DEF TypeOK, ConnectRejected, ConnectPc, Result, mapVars, connVars,
         reqVars, closeVars, deathVars, exitVars
<1>3. ASSUME NEW r \in Req, LookUpOrNewIpcConnection(r) PROVE TypeOK'
  <2>1. connMap' \in [Key -> Conn \cup {NoConn}]
    <3>1. KeyOf[r] \in Key /\ <<r, 1>> \in Conn
      BY NewConnIsConn
    <3>2. connMap' = connMap \/ NewIpcConnection(KeyOf[r], <<r, 1>>)
      BY <1>3 DEF LookUpOrNewIpcConnection
    <3>3. QED
      BY <3>1, <3>2, NewIpcConnectionType DEF TypeOK
  <2>2. status' \in [Conn -> Status]
    BY <1>3, NewConnIsConn
       DEF TypeOK, LookUpOrNewIpcConnection, NewIpcConnection, Status
  <2>3. cpc' \in [Req -> ConnectPc]
    BY <1>3, NewConnIsConn
       DEF TypeOK, LookUpOrNewIpcConnection, NewIpcConnection, ConnectPc
  <2>4. cconn' \in [Req -> Conn \cup {NoConn}]
    BY <1>3, NewConnIsConn
       DEF TypeOK, LookUpOrNewIpcConnection, NewIpcConnection
  <2>5. cres' \in [Req -> Result]
    BY <1>3, NewConnIsConn
       DEF TypeOK, LookUpOrNewIpcConnection, NewIpcConnection, Result
  <2> QED
    BY <1>3, <2>1, <2>2, <2>3, <2>4, <2>5
       DEF TypeOK, LookUpOrNewIpcConnection, reqVars, closeVars, deathVars,
           exitVars
<1>4. ASSUME NEW r \in Req, ConnectNativeDisconnected(r) PROVE TypeOK'
  BY <1>4
     DEF TypeOK, ConnectNativeDisconnected, ConnectFailed, ConnectPc, Result,
         mapVars, connVars, closeVars, deathVars, exitVars
<1>5. ASSUME NEW r \in Req, ConnectNativeInit(r) PROVE TypeOK'
  <2>1. status' \in [Conn -> Status]
    BY <1>5
       DEF TypeOK, ConnectNativeInit, ConnectAccepted,
           RemovePendingRequestUnlock, ConnectFailed, Status
  <2>2. pending' \in [Conn -> SUBSET Req]
    BY <1>5
       DEF TypeOK, ConnectNativeInit, ConnectAccepted,
           RemovePendingRequestUnlock, ConnectFailed
  <2>3. ams' \in [Conn -> AmsState]
    BY <1>5
       DEF TypeOK, ConnectNativeInit, ConnectAccepted,
           RemovePendingRequestUnlock, ConnectFailed, AmsState
  <2>4. recipient' \in [Req -> Conn \cup {NoConn}]
    BY <1>5
       DEF TypeOK, ConnectNativeInit, ConnectAccepted,
           RemovePendingRequestUnlock, ConnectFailed
  <2>5. cpc' \in [Req -> ConnectPc]
    BY <1>5
       DEF TypeOK, ConnectNativeInit, ConnectAccepted,
           RemovePendingRequestUnlock, ConnectFailed, ConnectPc
  <2>6. cres' \in [Req -> Result]
    BY <1>5
       DEF TypeOK, ConnectNativeInit, ConnectAccepted,
           RemovePendingRequestUnlock, ConnectFailed, Result
  <2> QED
    BY <1>5, <2>1, <2>2, <2>3, <2>4, <2>5, <2>6
       DEF TypeOK, ConnectNativeInit, mapVars, closeVars, deathVars, exitVars
<1>6. ASSUME NEW r \in Req, ConnectNativeConnecting(r) PROVE TypeOK'
  BY <1>6
     DEF TypeOK, ConnectNativeConnecting, ConnectAccepted, ConnectPc, Result,
         mapVars, closeVars, deathVars, exitVars
<1>7. ASSUME NEW r \in Req, ConnectNativeConnected(r) PROVE TypeOK'
  <2>1. connected' \in [Conn -> SUBSET Req]
    <3>1. \/ connected' = connected
          \/ connected' = [connected EXCEPT ![cconn[r]] = @ \cup {r}]
      BY <1>7 DEF ConnectNativeConnected
    <3>2. [connected EXCEPT ![cconn[r]] = @ \cup {r}] \in [Conn -> SUBSET Req]
      BY AddedType DEF TypeOK
    <3> QED
      BY <3>1, <3>2 DEF TypeOK
  <2>2. tasks' \in [Req -> Seq(Callback)]
    <3>1. tasks' = tasks \/ Post({r}, "OnConnect")
      BY <1>7 DEF ConnectNativeConnected
    <3> QED
      BY <3>1, PostType DEF TypeOK, Callback, ExtCall
  <2>3. told' \in [Req -> Seq(ExtCall)]
    <3>1. told' = told \/ Tell({r}, "ConnectNative")
      BY <1>7 DEF ConnectNativeConnected
    <3> QED
      BY <3>1, TellType DEF TypeOK, Callback, ExtCall
  <2>4. recipient' \in [Req -> Conn \cup {NoConn}]
    BY <1>7
       DEF TypeOK, ConnectNativeConnected, ConnectAccepted, ConnectFailed
  <2>5. cpc' \in [Req -> ConnectPc]
    BY <1>7
       DEF TypeOK, ConnectNativeConnected, ConnectAccepted, ConnectFailed,
           ConnectPc
  <2>6. cres' \in [Req -> Result]
    BY <1>7
       DEF TypeOK, ConnectNativeConnected, ConnectAccepted, ConnectFailed,
           Result
  <2> QED
    BY <1>7, <2>1, <2>2, <2>3, <2>4, <2>5, <2>6
       DEF TypeOK, ConnectNativeConnected, mapVars, closeVars, deathVars,
           exitVars
<1>8. ASSUME NEW r \in Req, RetryDelete(r) PROVE TypeOK'
  BY <1>8
     DEF TypeOK, RetryDelete, DeleteIpcConnect, ConnectPc, connVars, reqVars,
         closeVars, deathVars, exitVars
<1>9. ASSUME NEW r \in Req, RetryNew(r) PROVE TypeOK'
  <2>1. connMap' \in [Key -> Conn \cup {NoConn}]
    <3>1. KeyOf[r] \in Key /\ <<r, 2>> \in Conn
      BY NewConnIsConn
    <3>2. connMap' = connMap \/ NewIpcConnection(KeyOf[r], <<r, 2>>)
      BY <1>9 DEF RetryNew
    <3>3. QED
      BY <3>1, <3>2, NewIpcConnectionType DEF TypeOK
  <2>2. status' \in [Conn -> Status]
    BY <1>9, NewConnIsConn DEF TypeOK, RetryNew, NewIpcConnection, Status
  <2>3. cpc' \in [Req -> ConnectPc]
    BY <1>9, NewConnIsConn DEF TypeOK, RetryNew, NewIpcConnection, ConnectPc
  <2>4. cconn' \in [Req -> Conn \cup {NoConn}]
    BY <1>9, NewConnIsConn DEF TypeOK, RetryNew, NewIpcConnection
  <2>5. cres' \in [Req -> Result]
    BY <1>9, NewConnIsConn DEF TypeOK, RetryNew, NewIpcConnection, Result
  <2> QED
    BY <1>9, <2>1, <2>2, <2>3, <2>4, <2>5
       DEF TypeOK, RetryNew, reqVars, closeVars, deathVars, exitVars
<1>10. ASSUME NEW r \in Req, ConnectCheckEmpty(r) PROVE TypeOK'
  BY <1>10
     DEF TypeOK, ConnectCheckEmpty, ConnectPc, mapVars, connVars, reqVars,
         closeVars, deathVars, exitVars
<1>11. ASSUME NEW r \in Req, ConnectClean(r) PROVE TypeOK'
  BY <1>11
     DEF TypeOK, ConnectClean, DeleteIpcConnect, ConnectPc, connVars, reqVars,
         closeVars, deathVars, exitVars
<1>12. ASSUME NEW r \in Req, ConnectCleanCheck(r) PROVE TypeOK'
  BY <1>12
     DEF TypeOK, ConnectCleanCheck, StartExitIfEmpty, ConnectPc, mapVars,
         connVars, reqVars, closeVars, deathVars
<1>13. ASSUME NEW r \in Req, ConnectStopExit(r) PROVE TypeOK'
  BY <1>13
     DEF TypeOK, ConnectStopExit, ConnectPc, Result, mapVars, connVars,
         reqVars, closeVars, deathVars
<1>14. ASSUME NEW r \in Req, DisconnectBegin(r) PROVE TypeOK'
  BY <1>14
     DEF TypeOK, DisconnectBegin, CloseEnd, ClosePc, Result, mapVars, connVars,
         reqVars, connectVars, deathVars, exitVars
<1>15. ASSUME NEW r \in Req, DisconnectLookUp(r) PROVE TypeOK'
  BY <1>15
     DEF TypeOK, DisconnectLookUp, CloseEnd, ClosePc, Result, mapVars,
         connVars, reqVars, connectVars, deathVars, exitVars
<1>16. ASSUME NEW r \in Req, StopBegin(r) PROVE TypeOK'
  BY <1>16
     DEF TypeOK, StopBegin, CloseEnd, ClosePc, Result, mapVars, connVars,
         reqVars, connectVars, deathVars, exitVars
<1>17. ASSUME NEW t \in Closing, CloseRemove(t) PROVE TypeOK'
  <2>1. pending' \in [Conn -> SUBSET Req]
    <3>1. \/ pending' = pending
          \/ pending' = Erased(pending, dconn[t], t[1])
      BY <1>17 DEF CloseRemove
    <3>2. Erased(pending, dconn[t], t[1]) \in [Conn -> SUBSET Req]
      BY ErasedType DEF TypeOK
    <3> QED
      BY <3>1, <3>2 DEF TypeOK
  <2>2. connected' \in [Conn -> SUBSET Req]
    <3>1. \/ connected' = connected
          \/ connected' = Erased(connected, dconn[t], t[1])
      BY <1>17 DEF CloseRemove
    <3>2. Erased(connected, dconn[t], t[1]) \in [Conn -> SUBSET Req]
      BY ErasedType DEF TypeOK
    <3> QED
      BY <3>1, <3>2 DEF TypeOK
  <2>3. dpc' \in [Closing -> ClosePc]
    BY <1>17 DEF TypeOK, CloseRemove, Erased, CloseEnd, ClosePc
  <2>4. dres' \in [Closing -> Result]
    BY <1>17 DEF TypeOK, CloseRemove, Erased, CloseEnd, Result
  <2> QED
    BY <1>17, <2>1, <2>2, <2>3, <2>4
       DEF TypeOK, CloseRemove, mapVars, reqVars, connectVars, deathVars,
           exitVars
<1>18. ASSUME NEW t \in Closing, CloseTell(t) PROVE TypeOK'
  BY <1>18
     DEF TypeOK, CloseTell, Tell, Post, Callback, ClosePc, ExtCall, mapVars,
         connVars, connectVars, deathVars, exitVars
<1>19. ASSUME NEW t \in Closing, CloseCheckEmpty(t) PROVE TypeOK'
  BY <1>19
     DEF TypeOK, CloseCheckEmpty, CloseEnd, ClosePc, Result, Status, mapVars,
         reqVars, connectVars, deathVars, exitVars
<1>20. ASSUME NEW t \in Closing, CloseAbility(t) PROVE TypeOK'
  BY <1>20
     DEF TypeOK, CloseAbility, DisconnectAbilityOk, DisconnectAbilityErr,
         CloseEnd, AmsState, ClosePc, Result, mapVars, connVars, reqVars,
         connectVars, deathVars, exitVars
<1>21. ASSUME NEW t \in Closing, CloseDelete(t) PROVE TypeOK'
  <2>1. connMap' \in [Key -> Conn \cup {NoConn}]
    BY <1>21
       DEF TypeOK, CloseDelete, DeleteIpcConnect, StartExitIfEmpty, CloseEnd
  <2>2. dpc' \in [Closing -> ClosePc]
    BY <1>21
       DEF TypeOK, CloseDelete, DeleteIpcConnect, StartExitIfEmpty, CloseEnd,
           ClosePc
  <2>3. dres' \in [Closing -> Result]
    BY <1>21
       DEF TypeOK, CloseDelete, DeleteIpcConnect, StartExitIfEmpty, CloseEnd,
           Result
  <2>4. exitTasks' \in Nat
    BY <1>21
       DEF TypeOK, CloseDelete, DeleteIpcConnect, StartExitIfEmpty, CloseEnd
  <2> QED
    BY <1>21, <2>1, <2>2, <2>3, <2>4
       DEF TypeOK, CloseDelete, connVars, reqVars, connectVars, deathVars
<1>22. ASSUME NEW r \in Req, DeathBegin(r) PROVE TypeOK'
  BY <1>22
     DEF TypeOK, DeathBegin, PopDeleteList, LeftBySwap, DeathPc, Status,
         mapVars, reqVars, connectVars, closeVars, exitVars
<1>23. ASSUME NEW r \in Req, DeathTell(r) PROVE TypeOK'
  BY <1>23
     DEF TypeOK, DeathTell, Tell, Post, Callback, DeathPc, ExtCall, mapVars,
         connVars, connectVars, closeVars, exitVars
<1>24. ASSUME NEW r \in Req, DeathAbility(r) PROVE TypeOK'
  BY <1>24
     DEF TypeOK, DeathAbility, DisconnectAbilityOk, DisconnectAbilityErr,
         AmsState, DeathPc, mapVars, connVars, reqVars, connectVars, closeVars,
         exitVars
<1>25. ASSUME NEW r \in Req, DeathClean(r) PROVE TypeOK'
  BY <1>25
     DEF TypeOK, DeathClean, DeleteIpcConnect, DeathPc, connVars, reqVars,
         connectVars, closeVars, exitVars
<1>26. ASSUME NEW r \in Req, DeathCleanCheck(r) PROVE TypeOK'
  BY <1>26
     DEF TypeOK, DeathCleanCheck, StartExitIfEmpty, DeathPc, mapVars, connVars,
         reqVars, connectVars, closeVars
<1>27. ASSUME NEW c \in Conn, OnAbilityConnectDone(c) PROVE TypeOK'
  <2>1. status' \in [Conn -> Status]
    <3>1. \/ status' = status
          \/ status' = [status EXCEPT ![c] = "CONNECTED"]
      BY <1>27 DEF OnAbilityConnectDone, connVars
    <3> QED
      BY <3>1 DEF TypeOK, Status
  <2>2. pending' \in [Conn -> SUBSET Req]
    <3>1. \/ pending' = pending
          \/ \E S \in SUBSET pending[c] : MovePending(c, S)
      BY <1>27 DEF OnAbilityConnectDone, connVars
    <3> QED
      BY <3>1, MovePendingType DEF TypeOK
  <2>3. connected' \in [Conn -> SUBSET Req]
    <3>1. \/ connected' = connected
          \/ \E S \in SUBSET pending[c] : MovePending(c, S)
      BY <1>27 DEF OnAbilityConnectDone, connVars
    <3> QED
      BY <3>1, MovePendingType DEF TypeOK
  <2>4. remote' \in [Conn -> BOOLEAN]
    <3>1. \/ remote' = remote
          \/ remote' = [remote EXCEPT ![c] = TRUE]
      BY <1>27 DEF OnAbilityConnectDone, connVars
    <3> QED
      BY <3>1 DEF TypeOK
  <2>5. ams' \in [Conn -> AmsState]
    BY <1>27
       DEF TypeOK, OnAbilityConnectDone, MovePending, AnswerPending, Tell,
           AmsState
  <2>6. tasks' \in [Req -> Seq(Callback)]
    <3>1. \/ tasks' = tasks
          \/ \E S \in SUBSET pending[c] : AnswerPending(pending[c], S)
      BY <1>27 DEF OnAbilityConnectDone, connVars
    <3> QED
      BY <3>1, AnswerPendingType DEF TypeOK
  <2>7. told' \in [Req -> Seq(ExtCall)]
    <3>1. \/ told' = told
          \/ \E S \in SUBSET pending[c] : AnswerPending(pending[c], S)
      BY <1>27 DEF OnAbilityConnectDone, connVars
    <3> QED
      BY <3>1, AnswerPendingType DEF TypeOK
  <2> QED
    BY <1>27, <2>1, <2>2, <2>3, <2>4, <2>5, <2>6, <2>7
       DEF TypeOK, OnAbilityConnectDone, mapVars, connectVars, closeVars,
           deathVars, exitVars
<1>28. ASSUME NEW c \in Conn, OnAbilityConnectFailed(c) PROVE TypeOK'
  <2>1. status' \in [Conn -> Status]
    <3>1. \/ status' = status
          \/ status' = [status EXCEPT ![c] = "CONNECTED"]
      BY <1>28 DEF OnAbilityConnectFailed
    <3> QED
      BY <3>1 DEF TypeOK, Status
  <2>2. pending' \in [Conn -> SUBSET Req]
    <3>1. \/ pending' = pending
          \/ MovePending(c, {})
      BY <1>28 DEF OnAbilityConnectFailed
    <3> QED
      BY <3>1, MovePendingType DEF TypeOK
  <2>3. connected' \in [Conn -> SUBSET Req]
    <3>1. \/ connected' = connected
          \/ MovePending(c, {})
      BY <1>28 DEF OnAbilityConnectFailed
    <3> QED
      BY <3>1, MovePendingType DEF TypeOK
  <2>4. ams' \in [Conn -> AmsState]
    BY <1>28
       DEF TypeOK, OnAbilityConnectFailed, MovePending, AnswerPending, Tell,
           AmsState
  <2>5. tasks' \in [Req -> Seq(Callback)]
    <3>1. \/ tasks' = tasks
          \/ AnswerPending(pending[c], {})
      BY <1>28 DEF OnAbilityConnectFailed
    <3> QED
      BY <3>1, AnswerPendingType DEF TypeOK
  <2>6. told' \in [Req -> Seq(ExtCall)]
    <3>1. \/ told' = told
          \/ AnswerPending(pending[c], {})
      BY <1>28 DEF OnAbilityConnectFailed
    <3> QED
      BY <3>1, AnswerPendingType DEF TypeOK
  <2> QED
    BY <1>28, <2>1, <2>2, <2>3, <2>4, <2>5, <2>6
       DEF TypeOK, OnAbilityConnectFailed, mapVars, connectVars, closeVars,
           deathVars, exitVars
<1>29. ASSUME NEW c \in Conn, OnAbilityDisconnectDone(c) PROVE TypeOK'
  BY <1>29
     DEF TypeOK, OnAbilityDisconnectDone, Post, AmsState, Callback, Status,
         mapVars, connectVars, closeVars, deathVars, exitVars
<1>30. ASSUME NEW c \in Conn, DisconnectDoneClean(c) PROVE TypeOK'
  BY <1>30
     DEF TypeOK, DisconnectDoneClean, DeleteIpcConnect, connVars, reqVars,
         connectVars, closeVars, deathVars, exitVars
<1>31. ASSUME NEW c \in Conn, DisconnectDoneCheck(c) PROVE TypeOK'
  BY <1>31
     DEF TypeOK, DisconnectDoneCheck, StartExitIfEmpty, mapVars, connVars,
         reqVars, connectVars, closeVars, deathVars
<1>32. ASSUME NEW r \in Req, RunTask(r) PROVE TypeOK'
  <2>1. isConnected' \in [Req -> BOOLEAN]
    BY <1>32
       DEF TypeOK, RunTask, RunOnConnect, Delivered, RunOnDisconnect,
           RunOnFailed
  <2>2. tasks' \in [Req -> Seq(Callback)]
    BY <1>32
       DEF TypeOK, RunTask, RunOnConnect, Delivered, RunOnDisconnect,
           RunOnFailed, Callback
  <2>3. heard' \in [Req -> Seq(Callback)]
    <3>1. \/ heard' = heard
          \/ \E callback \in Callback : heard' = Delivered(r, callback)
      BY <1>32
       DEF RunTask, RunOnConnect, RunOnDisconnect, RunOnFailed, Callback
    <3> QED
      BY <3>1, DeliveredType DEF TypeOK
  <2> QED
    BY <1>32, <2>1, <2>2, <2>3
       DEF TypeOK, RunTask, mapVars, connVars, connectVars, closeVars,
           deathVars, exitVars
<1>33. ASSUME ExitSaProcess PROVE TypeOK'
  BY <1>33
     DEF TypeOK, ExitSaProcess, ExitTaskDue, mapVars, connVars, reqVars,
         connectVars, closeVars, deathVars
<1>34. ASSUME UnloadSystemAbility PROVE TypeOK'
  BY <1>34
     DEF TypeOK, UnloadSystemAbility, mapVars, connVars, reqVars, connectVars,
         closeVars, deathVars
<1>35. ASSUME NEW p \in Proc, CallerDies(p) PROVE TypeOK'
  BY <1>35
     DEF TypeOK, CallerDies, mapVars, connVars, reqVars, connectVars,
         closeVars, deathVars, exitVars
<1>36. ASSUME NEW c \in Conn, ExtensionCrashes(c) PROVE TypeOK'
  BY <1>36
     DEF TypeOK, ExtensionCrashes, AmsState, mapVars, connVars, reqVars,
         connectVars, closeVars, deathVars, exitVars
<1>37. CASE UNCHANGED vars
  BY <1>37 DEF TypeOK, vars, mapVars, connVars, reqVars, connectVars,
     closeVars, deathVars, exitVars
<1> QED
  BY <1>1, <1>2, <1>3, <1>4, <1>5, <1>6, <1>7, <1>8, <1>9, <1>10, <1>11, <1>12,
     <1>13, <1>14, <1>15, <1>16, <1>17, <1>18, <1>19, <1>20, <1>21, <1>22,
     <1>23, <1>24, <1>25, <1>26, <1>27, <1>28, <1>29, <1>30, <1>31, <1>32,
     <1>33, <1>34, <1>35, <1>36, <1>37
     DEF Next, ConnectCall, CloseCall, DeathHandler, AbilityCallback,
         DisconnectDone
(* The service starts with every variable in its type.                     *)
LEMMA TypeInit == Init => TypeOK
  BY DEF Init, TypeOK, Status, AmsState, ConnectPc, ClosePc, DeathPc, Result

(* The handlers of the service, the ability manager's callbacks and the    *)
(* callers keep every variable in its type, whatever they interleave.      *)
THEOREM TypeCorrect == Spec => []TypeOK
<1>1. Init => TypeOK
  BY TypeInit
<1>2. TypeOK /\ [Next]_vars => TypeOK'
  BY TypeStep
<1> QED
  BY <1>1, <1>2, PTL DEF Spec

----------------------------------------------------------------------------
(* Connections exist before anything points to them.                       *)
(* How a connection comes to exist: by a call that looks it up or retries. *)
ConnMade == \A c \in Conn :
    /\ status[c] # "NONE" => status'[c] # "NONE"
    /\ status[c] = "NONE" /\ status'[c] # "NONE" =>
          \E r \in Req :
             \/ c = <<r, 1>> /\ cpc[r] = "lookup" /\ cpc'[r] = "connect"
             \/ c = <<r, 2>> /\ cpc[r] = "retryNew" /\ cpc'[r] = "retryConnect"

(* A connect call never goes back.                                         *)
EarlySteps == {"idle", "lookup", "connect", "retryDelete", "retryNew"}
CallForward == \A r \in Req :
    /\ cpc'[r] \in {"idle", "lookup"} => cpc[r] \in {"idle", "lookup"}
    /\ cpc'[r] \in EarlySteps => cpc[r] \in EarlySteps

(* A connection comes to exist only by LookUpOrNewIpcConnection or by the  *)
(* NewIpcConnection of a retry, and never ceases to.                       *)
LEMMA ConnMadeStep ==
  ASSUME TypeOK, PointersMade, [Next]_vars
  PROVE  ConnMade
<1>1. ASSUME NEW r \in Req, LookUpOrNewIpcConnection(r) PROVE ConnMade
  <2>1. /\ cpc[r] = "lookup"
        /\ \/ status' = status
           \/ /\ status' = [status EXCEPT ![<<r, 1>>] = "INIT"]
              /\ cpc' = [cpc EXCEPT ![r] = "connect"]
    BY <1>1 DEF LookUpOrNewIpcConnection, NewIpcConnection, ConnectAt
  <2>2. cpc' = [cpc EXCEPT ![r] = "connect"] => cpc'[r] = "connect"
    BY DEF TypeOK
  <2> QED
    BY <2>1, <2>2, NewConnIsConn DEF TypeOK, ConnMade
<1>2. ASSUME NEW r \in Req, ConnectNativeInit(r) PROVE ConnMade
  BY <1>2
     DEF TypeOK, PointersMade, CallConnMade, CloseConnMade, RecipientMade,
         AmsMade, ConnMade, ConnectNativeInit
<1>3. ASSUME NEW r \in Req, RetryNew(r) PROVE ConnMade
  <2>1. /\ cpc[r] = "retryNew"
        /\ \/ status' = status
           \/ /\ status' = [status EXCEPT ![<<r, 2>>] = "INIT"]
              /\ cpc' = [cpc EXCEPT ![r] = "retryConnect"]
    BY <1>3 DEF RetryNew, NewIpcConnection, ConnectAt
  <2>2. cpc' = [cpc EXCEPT ![r] = "retryConnect"] => cpc'[r] = "retryConnect"
    BY DEF TypeOK
  <2> QED
    BY <2>1, <2>2, NewConnIsConn DEF TypeOK, ConnMade
<1>4. ASSUME NEW t \in Closing, CloseCheckEmpty(t) PROVE ConnMade
  BY <1>4
     DEF TypeOK, PointersMade, CallConnMade, CloseConnMade, RecipientMade,
         AmsMade, ConnMade, CloseCheckEmpty
<1>5. ASSUME NEW r \in Req, DeathBegin(r) PROVE ConnMade
  BY <1>5
     DEF TypeOK, PointersMade, CallConnMade, CloseConnMade, RecipientMade,
         AmsMade, ConnMade, DeathBegin
<1>6. ASSUME NEW c \in Conn, OnAbilityConnectDone(c) PROVE ConnMade
  BY <1>6
     DEF TypeOK, PointersMade, CallConnMade, CloseConnMade, RecipientMade,
         AmsMade, ConnMade, OnAbilityConnectDone, IsConnecting, connVars
<1>7. ASSUME NEW c \in Conn, OnAbilityConnectFailed(c) PROVE ConnMade
  BY <1>7
     DEF TypeOK, PointersMade, CallConnMade, CloseConnMade, RecipientMade,
         AmsMade, ConnMade, OnAbilityConnectFailed
<1>8. ASSUME NEW c \in Conn, OnAbilityDisconnectDone(c) PROVE ConnMade
  BY <1>8
     DEF TypeOK, PointersMade, CallConnMade, CloseConnMade, RecipientMade,
         AmsMade, ConnMade, OnAbilityDisconnectDone
<1>9. ASSUME UNCHANGED <<status>> PROVE ConnMade
  BY <1>9
     DEF TypeOK, PointersMade, CallConnMade, CloseConnMade, RecipientMade,
         AmsMade, ConnMade
<1> QED
  BY <1>1, <1>2, <1>3, <1>4, <1>5, <1>6, <1>7, <1>8, <1>9
     DEF Next, vars, ConnectCall, CloseCall, DeathHandler, AbilityCallback,
         DisconnectDone, ConnectBegin, ConnectRejected,
         ConnectNativeDisconnected, ConnectNativeConnecting,
         ConnectNativeConnected, RetryDelete, ConnectCheckEmpty,
         ConnectClean, ConnectCleanCheck, ConnectStopExit, DisconnectBegin,
         DisconnectLookUp, StopBegin, CloseRemove, CloseTell, CloseAbility,
         CloseDelete, DeathTell, DeathAbility, DeathClean, DeathCleanCheck,
         DisconnectDoneClean, DisconnectDoneCheck, RunTask, ExitSaProcess,
         UnloadSystemAbility, CallerDies, ExtensionCrashes, connVars

(* No step takes a connect call back to before it made a connection.       *)
LEMMA CallForwardStep ==
  ASSUME TypeOK, [Next]_vars
  PROVE  CallForward
<1>1. ASSUME NEW r \in Req, ConnectBegin(r) PROVE CallForward
  BY <1>1
     DEF TypeOK, EarlySteps, ConnectAt, CallForward, ConnectBegin
<1>2. ASSUME NEW r \in Req, ConnectRejected(r) PROVE CallForward
  BY <1>2
     DEF TypeOK, EarlySteps, ConnectAt, CallForward, ConnectRejected
<1>3. ASSUME NEW r \in Req, LookUpOrNewIpcConnection(r) PROVE CallForward
  BY <1>3
     DEF TypeOK, EarlySteps, ConnectAt, CallForward,
         LookUpOrNewIpcConnection
<1>4. ASSUME NEW r \in Req, ConnectNativeDisconnected(r) PROVE CallForward
  BY <1>4
     DEF TypeOK, EarlySteps, ConnectAt, CallForward,
         ConnectNativeDisconnected, ConnectFailed
<1>5. ASSUME NEW r \in Req, ConnectNativeInit(r) PROVE CallForward
  BY <1>5
     DEF TypeOK, EarlySteps, ConnectAt, CallForward, ConnectNativeInit,
         ConnectFailed, ConnectAccepted
<1>6. ASSUME NEW r \in Req, ConnectNativeConnecting(r) PROVE CallForward
  BY <1>6
     DEF TypeOK, EarlySteps, ConnectAt, CallForward,
         ConnectNativeConnecting, ConnectAccepted
<1>7. ASSUME NEW r \in Req, ConnectNativeConnected(r) PROVE CallForward
  BY <1>7
     DEF TypeOK, EarlySteps, ConnectAt, CallForward, ConnectNativeConnected,
         ConnectFailed, ConnectAccepted
<1>8. ASSUME NEW r \in Req, RetryDelete(r) PROVE CallForward
  BY <1>8
     DEF TypeOK, EarlySteps, ConnectAt, CallForward, RetryDelete
<1>9. ASSUME NEW r \in Req, RetryNew(r) PROVE CallForward
  BY <1>9
     DEF TypeOK, EarlySteps, ConnectAt, CallForward, RetryNew
<1>10. ASSUME NEW r \in Req, ConnectCheckEmpty(r) PROVE CallForward
  BY <1>10
     DEF TypeOK, EarlySteps, ConnectAt, CallForward, ConnectCheckEmpty
<1>11. ASSUME NEW r \in Req, ConnectClean(r) PROVE CallForward
  BY <1>11
     DEF TypeOK, EarlySteps, ConnectAt, CallForward, ConnectClean
<1>12. ASSUME NEW r \in Req, ConnectCleanCheck(r) PROVE CallForward
  BY <1>12
     DEF TypeOK, EarlySteps, ConnectAt, CallForward, ConnectCleanCheck
<1>13. ASSUME NEW r \in Req, ConnectStopExit(r) PROVE CallForward
  BY <1>13
     DEF TypeOK, EarlySteps, ConnectAt, CallForward, ConnectStopExit
<1>14. ASSUME UNCHANGED <<cpc>> PROVE CallForward
  BY <1>14
     DEF TypeOK, EarlySteps, ConnectAt, CallForward
<1> QED
  BY <1>1, <1>2, <1>3, <1>4, <1>5, <1>6, <1>7, <1>8, <1>9, <1>10, <1>11,
     <1>12, <1>13, <1>14
     DEF Next, vars, ConnectCall, CloseCall, DeathHandler, AbilityCallback,
         DisconnectDone, DisconnectBegin, DisconnectLookUp, StopBegin,
         CloseRemove, CloseTell, CloseCheckEmpty, CloseAbility, CloseDelete,
         DeathBegin, DeathTell, DeathAbility, DeathClean, DeathCleanCheck,
         OnAbilityConnectDone, OnAbilityConnectFailed,
         OnAbilityDisconnectDone, DisconnectDoneClean, DisconnectDoneCheck,
         RunTask, ExitSaProcess, UnloadSystemAbility, CallerDies,
         ExtensionCrashes, connectVars

(* AbilityConnectMap_ maps to connections that exist only.                 *)
LEMMA MapMadeStep ==
  ASSUME TypeOK, MapMade, ConnMade, [Next]_vars
  PROVE  MapMade'
<1>1. ASSUME NEW r \in Req, LookUpOrNewIpcConnection(r) PROVE MapMade'
  <2>1. \A c \in Conn : status[c] # "NONE" => status'[c] # "NONE"
    BY DEF ConnMade
  <2>2. <<r, 1>> \in Conn /\ KeyOf[r] \in Key
    BY NewConnIsConn
  <2>3. CASE connMap' = connMap
    BY <2>1, <2>3 DEF TypeOK, MapMade
  <2>4. CASE /\ status' = [status EXCEPT ![<<r, 1>>] = "INIT"]
             /\ connMap' = [connMap EXCEPT ![KeyOf[r]] = <<r, 1>>]
    BY <2>1, <2>2, <2>4 DEF TypeOK, MapMade
  <2> QED
    BY <1>1, <2>3, <2>4 DEF LookUpOrNewIpcConnection, NewIpcConnection
<1>2. ASSUME NEW r \in Req, RetryDelete(r) PROVE MapMade'
  BY <1>2
     DEF TypeOK, MapMade, ConnMade, RetryDelete, DeleteIpcConnect
<1>3. ASSUME NEW r \in Req, RetryNew(r) PROVE MapMade'
  <2>1. \A c \in Conn : status[c] # "NONE" => status'[c] # "NONE"
    BY DEF ConnMade
  <2>2. <<r, 2>> \in Conn /\ KeyOf[r] \in Key
    BY NewConnIsConn
  <2>3. CASE connMap' = connMap
    BY <2>1, <2>3 DEF TypeOK, MapMade
  <2>4. CASE /\ status' = [status EXCEPT ![<<r, 2>>] = "INIT"]
             /\ connMap' = [connMap EXCEPT ![KeyOf[r]] = <<r, 2>>]
    BY <2>1, <2>2, <2>4 DEF TypeOK, MapMade
  <2> QED
    BY <1>3, <2>3, <2>4 DEF RetryNew, NewIpcConnection
<1>4. ASSUME NEW r \in Req, ConnectClean(r) PROVE MapMade'
  BY <1>4
     DEF TypeOK, MapMade, ConnMade, ConnectClean, DeleteIpcConnect
<1>5. ASSUME NEW t \in Closing, CloseDelete(t) PROVE MapMade'
  BY <1>5
     DEF TypeOK, MapMade, ConnMade, CloseDelete, DeleteIpcConnect
<1>6. ASSUME NEW r \in Req, DeathClean(r) PROVE MapMade'
  BY <1>6
     DEF TypeOK, MapMade, ConnMade, DeathClean, DeleteIpcConnect
<1>7. ASSUME NEW c \in Conn, DisconnectDoneClean(c) PROVE MapMade'
  BY <1>7
     DEF TypeOK, MapMade, ConnMade, DisconnectDoneClean, DeleteIpcConnect
<1>8. ASSUME UNCHANGED <<connMap>> PROVE MapMade'
  BY <1>8
     DEF TypeOK, MapMade, ConnMade
<1> QED
  BY <1>1, <1>2, <1>3, <1>4, <1>5, <1>6, <1>7, <1>8
     DEF Next, vars, ConnectCall, CloseCall, DeathHandler, AbilityCallback,
         DisconnectDone, ConnectBegin, ConnectRejected,
         ConnectNativeDisconnected, ConnectNativeInit,
         ConnectNativeConnecting, ConnectNativeConnected, ConnectCheckEmpty,
         ConnectCleanCheck, ConnectStopExit, DisconnectBegin,
         DisconnectLookUp, StopBegin, CloseRemove, CloseTell,
         CloseCheckEmpty, CloseAbility, DeathBegin, DeathTell, DeathAbility,
         DeathCleanCheck, OnAbilityConnectDone, OnAbilityConnectFailed,
         OnAbilityDisconnectDone, DisconnectDoneCheck, RunTask,
         ExitSaProcess, UnloadSystemAbility, CallerDies, ExtensionCrashes,
         mapVars

(* A connect call works on a connection that exists.                       *)
LEMMA CallConnMadeStep ==
  ASSUME TypeOK, MapMade, CallConnMade, ConnMade, [Next]_vars
  PROVE  CallConnMade'
<1>1. ASSUME NEW r \in Req, LookUpOrNewIpcConnection(r) PROVE CallConnMade'
  <2>1. \A c \in Conn : status[c] # "NONE" => status'[c] # "NONE"
    BY DEF ConnMade
  <2>2. <<r, 1>> \in Conn /\ KeyOf[r] \in Key
    BY NewConnIsConn
  <2>3. CASE cconn' = cconn
    BY <2>1, <2>3 DEF TypeOK, CallConnMade
  <2>4. CASE /\ status' = [status EXCEPT ![<<r, 1>>] = "INIT"]
             /\ cconn' = [cconn EXCEPT ![r] = <<r, 1>>]
    BY <2>1, <2>2, <2>4 DEF TypeOK, CallConnMade
  <2>5. CASE cconn' = [cconn EXCEPT ![r] = connMap[KeyOf[r]]]
    BY <2>1, <2>2, <2>5 DEF TypeOK, MapMade, CallConnMade
  <2> QED
    BY <1>1, <2>3, <2>4, <2>5 DEF LookUpOrNewIpcConnection, NewIpcConnection
<1>2. ASSUME NEW r \in Req, RetryNew(r) PROVE CallConnMade'
  <2>1. \A c \in Conn : status[c] # "NONE" => status'[c] # "NONE"
    BY DEF ConnMade
  <2>2. <<r, 2>> \in Conn /\ KeyOf[r] \in Key
    BY NewConnIsConn
  <2>3. CASE cconn' = cconn
    BY <2>1, <2>3 DEF TypeOK, CallConnMade
  <2>4. CASE /\ status' = [status EXCEPT ![<<r, 2>>] = "INIT"]
             /\ cconn' = [cconn EXCEPT ![r] = <<r, 2>>]
    BY <2>1, <2>2, <2>4 DEF TypeOK, CallConnMade
  <2> QED
    BY <1>2, <2>3, <2>4 DEF RetryNew, NewIpcConnection
<1>3. ASSUME UNCHANGED <<cconn>> PROVE CallConnMade'
  BY <1>3
     DEF TypeOK, MapMade, CallConnMade, ConnMade
<1> QED
  BY <1>1, <1>2, <1>3
     DEF Next, vars, ConnectCall, CloseCall, DeathHandler, AbilityCallback,
         DisconnectDone, ConnectBegin, ConnectRejected,
         ConnectNativeDisconnected, ConnectNativeInit,
         ConnectNativeConnecting, ConnectNativeConnected, RetryDelete,
         ConnectCheckEmpty, ConnectClean, ConnectCleanCheck,
         ConnectStopExit, DisconnectBegin, DisconnectLookUp, StopBegin,
         CloseRemove, CloseTell, CloseCheckEmpty, CloseAbility, CloseDelete,
         DeathBegin, DeathTell, DeathAbility, DeathClean, DeathCleanCheck,
         OnAbilityConnectDone, OnAbilityConnectFailed,
         OnAbilityDisconnectDone, DisconnectDoneClean, DisconnectDoneCheck,
         RunTask, ExitSaProcess, UnloadSystemAbility, CallerDies,
         ExtensionCrashes, connectVars

(* A death recipient points to a connection that exists.                   *)
LEMMA RecipientMadeStep ==
  ASSUME TypeOK, CallConnMade, RecipientMade, ConnMade, [Next]_vars
  PROVE  RecipientMade'
<1>1. ASSUME NEW r \in Req, ConnectNativeDisconnected(r) PROVE RecipientMade'
  BY <1>1
     DEF TypeOK, CallConnMade, RecipientMade, ConnMade,
         ConnectNativeDisconnected, ConnectFailed
<1>2. ASSUME NEW r \in Req, ConnectNativeInit(r) PROVE RecipientMade'
  BY <1>2
     DEF TypeOK, CallConnMade, RecipientMade, ConnMade, ConnectNativeInit,
         ConnectFailed, ConnectAccepted
<1>3. ASSUME NEW r \in Req, ConnectNativeConnecting(r) PROVE RecipientMade'
  BY <1>3
     DEF TypeOK, CallConnMade, RecipientMade, ConnMade,
         ConnectNativeConnecting, ConnectAccepted
<1>4. ASSUME NEW r \in Req, ConnectNativeConnected(r) PROVE RecipientMade'
  BY <1>4
     DEF TypeOK, CallConnMade, RecipientMade, ConnMade,
         ConnectNativeConnected, ConnectFailed, ConnectAccepted
<1>5. ASSUME UNCHANGED <<recipient>> PROVE RecipientMade'
  BY <1>5
     DEF TypeOK, CallConnMade, RecipientMade, ConnMade
<1> QED
  BY <1>1, <1>2, <1>3, <1>4, <1>5
     DEF Next, vars, ConnectCall, CloseCall, DeathHandler, AbilityCallback,
         DisconnectDone, ConnectBegin, ConnectRejected,
         LookUpOrNewIpcConnection, RetryDelete, RetryNew, ConnectCheckEmpty,
         ConnectClean, ConnectCleanCheck, ConnectStopExit, DisconnectBegin,
         DisconnectLookUp, StopBegin, CloseRemove, CloseTell,
         CloseCheckEmpty, CloseAbility, CloseDelete, DeathBegin, DeathTell,
         DeathAbility, DeathClean, DeathCleanCheck, OnAbilityConnectDone,
         OnAbilityConnectFailed, OnAbilityDisconnectDone,
         DisconnectDoneClean, DisconnectDoneCheck, RunTask, ExitSaProcess,
         UnloadSystemAbility, CallerDies, ExtensionCrashes, reqVars

(* A disconnect or stop call works on a connection that exists.            *)
LEMMA CloseConnMadeStep ==
  ASSUME TypeOK, MapMade, CloseConnMade, ConnMade, [Next]_vars
  PROVE  CloseConnMade'
<1>1. ASSUME NEW r \in Req, DisconnectLookUp(r) PROVE CloseConnMade'
  <2>1. \A c \in Conn : status[c] # "NONE" => status'[c] # "NONE"
    BY DEF ConnMade
  <2>2. <<r, "app">> \in Closing /\ KeyOf[r] \in Key
    BY DEF Closing
  <2>3. ASSUME NEW u \in Closing,
               dconn' = [dconn EXCEPT ![u] = connMap[KeyOf[r]]]
        PROVE  CloseConnMade'
    BY <2>1, <2>2, <2>3 DEF TypeOK, MapMade, CloseConnMade
  <2>4. CASE dconn' = dconn
    BY <2>1, <2>4 DEF TypeOK, CloseConnMade
  <2> QED
    BY <1>1, <2>2, <2>3, <2>4 DEF DisconnectLookUp
<1>2. ASSUME NEW r \in Req, StopBegin(r) PROVE CloseConnMade'
  <2>1. \A c \in Conn : status[c] # "NONE" => status'[c] # "NONE"
    BY DEF ConnMade
  <2>2. <<r, "ext">> \in Closing /\ KeyOf[r] \in Key
    BY DEF Closing
  <2>3. ASSUME NEW u \in Closing,
               dconn' = [dconn EXCEPT ![u] = connMap[KeyOf[r]]]
        PROVE  CloseConnMade'
    BY <2>1, <2>2, <2>3 DEF TypeOK, MapMade, CloseConnMade
  <2>4. CASE dconn' = dconn
    BY <2>1, <2>4 DEF TypeOK, CloseConnMade
  <2> QED
    BY <1>2, <2>2, <2>3, <2>4 DEF StopBegin
<1>3. ASSUME UNCHANGED <<dconn>> PROVE CloseConnMade'
  BY <1>3
     DEF TypeOK, MapMade, CloseConnMade, ConnMade
<1> QED
  BY <1>1, <1>2, <1>3
     DEF Next, vars, ConnectCall, CloseCall, DeathHandler, AbilityCallback,
         DisconnectDone, ConnectBegin, ConnectRejected,
         LookUpOrNewIpcConnection, ConnectNativeDisconnected,
         ConnectNativeInit, ConnectNativeConnecting, ConnectNativeConnected,
         RetryDelete, RetryNew, ConnectCheckEmpty, ConnectClean,
         ConnectCleanCheck, ConnectStopExit, DisconnectBegin, CloseRemove,
         CloseTell, CloseCheckEmpty, CloseAbility, CloseDelete, DeathBegin,
         DeathTell, DeathAbility, DeathClean, DeathCleanCheck,
         OnAbilityConnectDone, OnAbilityConnectFailed,
         OnAbilityDisconnectDone, DisconnectDoneClean, DisconnectDoneCheck,
         RunTask, ExitSaProcess, UnloadSystemAbility, CallerDies,
         ExtensionCrashes, closeVars

(* The ability manager knows connections that exist only.                  *)
LEMMA AmsMadeStep ==
  ASSUME TypeOK, CallConnMade, AmsMade, ConnMade, [Next]_vars
  PROVE  AmsMade'
<1>1. ASSUME NEW r \in Req, ConnectNativeInit(r) PROVE AmsMade'
  BY <1>1
     DEF TypeOK, CallConnMade, AmsMade, ConnMade, ConnectNativeInit
<1>2. ASSUME NEW t \in Closing, CloseAbility(t) PROVE AmsMade'
  BY <1>2
     DEF TypeOK, CallConnMade, AmsMade, ConnMade, CloseAbility,
         DisconnectAbilityOk, DisconnectAbilityErr
<1>3. ASSUME NEW r \in Req, DeathAbility(r) PROVE AmsMade'
  BY <1>3
     DEF TypeOK, CallConnMade, AmsMade, ConnMade, DeathAbility,
         DisconnectAbilityOk, DisconnectAbilityErr
<1>4. ASSUME NEW c \in Conn, OnAbilityConnectDone(c) PROVE AmsMade'
  BY <1>4
     DEF TypeOK, CallConnMade, AmsMade, ConnMade, OnAbilityConnectDone
<1>5. ASSUME NEW c \in Conn, OnAbilityConnectFailed(c) PROVE AmsMade'
  BY <1>5
     DEF TypeOK, CallConnMade, AmsMade, ConnMade, OnAbilityConnectFailed
<1>6. ASSUME NEW c \in Conn, OnAbilityDisconnectDone(c) PROVE AmsMade'
  BY <1>6
     DEF TypeOK, CallConnMade, AmsMade, ConnMade, OnAbilityDisconnectDone
<1>7. ASSUME NEW c \in Conn, ExtensionCrashes(c) PROVE AmsMade'
  BY <1>7
     DEF TypeOK, CallConnMade, AmsMade, ConnMade, ExtensionCrashes
<1>8. ASSUME UNCHANGED <<ams>> PROVE AmsMade'
  BY <1>8
     DEF TypeOK, CallConnMade, AmsMade, ConnMade
<1> QED
  BY <1>1, <1>2, <1>3, <1>4, <1>5, <1>6, <1>7, <1>8
     DEF Next, vars, ConnectCall, CloseCall, DeathHandler, AbilityCallback,
         DisconnectDone, ConnectBegin, ConnectRejected,
         LookUpOrNewIpcConnection, ConnectNativeDisconnected,
         ConnectNativeConnecting, ConnectNativeConnected, RetryDelete,
         RetryNew, ConnectCheckEmpty, ConnectClean, ConnectCleanCheck,
         ConnectStopExit, DisconnectBegin, DisconnectLookUp, StopBegin,
         CloseRemove, CloseTell, CloseCheckEmpty, CloseDelete, DeathBegin,
         DeathTell, DeathClean, DeathCleanCheck, DisconnectDoneClean,
         DisconnectDoneCheck, RunTask, ExitSaProcess, UnloadSystemAbility,
         CallerDies

(* A DISCONNECTED connection stays so and gets no request.                 *)
FinalConns == \A c \in Conn : status[c] = "DISCONNECTED" =>
    /\ status'[c] = "DISCONNECTED"
    /\ pending'[c] \subseteq pending[c]
    /\ connected'[c] \subseteq connected[c]

(* No handler brings a DISCONNECTED connection back or gives it a request: *)
(* ConnectNative refuses it, OnAbilityConnectDone ignores it and the others*)
(* set DISCONNECTED only.                                                  *)
LEMMA FinalConnsStep ==
  ASSUME TypeOK, NotMadeYet, [Next]_vars
  PROVE  FinalConns
<1>1. ASSUME NEW r \in Req, LookUpOrNewIpcConnection(r) PROVE FinalConns
  <2>1. <<r, 1>> \in Conn
    BY NewConnIsConn
  <2>2. status[<<r, 1>>] = "NONE"
    BY <1>1 DEF NotMadeYet, LookUpOrNewIpcConnection, ConnectAt
  <2>3. /\ UNCHANGED <<pending, connected>>
        /\ status' = status \/ status' = [status EXCEPT ![<<r, 1>>] = "INIT"]
    BY <1>1 DEF LookUpOrNewIpcConnection, NewIpcConnection
  <2> QED
    BY <2>1, <2>2, <2>3 DEF TypeOK, FinalConns
<1>2. ASSUME NEW r \in Req, ConnectNativeInit(r) PROVE FinalConns
  BY <1>2
     DEF TypeOK, FinalConns, ConnectNativeInit, RemovePendingRequestUnlock
<1>3. ASSUME NEW r \in Req, ConnectNativeConnecting(r) PROVE FinalConns
  BY <1>3
     DEF TypeOK, FinalConns, ConnectNativeConnecting
<1>4. ASSUME NEW r \in Req, ConnectNativeConnected(r) PROVE FinalConns
  BY <1>4
     DEF TypeOK, FinalConns, ConnectNativeConnected
<1>5. ASSUME NEW r \in Req, RetryNew(r) PROVE FinalConns
  <2>1. <<r, 2>> \in Conn
    BY NewConnIsConn
  <2>2. status[<<r, 2>>] = "NONE"
    BY <1>5 DEF NotMadeYet, RetryNew, ConnectAt
  <2>3. /\ UNCHANGED <<pending, connected>>
        /\ status' = status \/ status' = [status EXCEPT ![<<r, 2>>] = "INIT"]
    BY <1>5 DEF RetryNew, NewIpcConnection
  <2> QED
    BY <2>1, <2>2, <2>3 DEF TypeOK, FinalConns
<1>6. ASSUME NEW t \in Closing, CloseRemove(t) PROVE FinalConns
  <2>1. status' = status
    BY <1>6 DEF CloseRemove
  <2>2. pending' = pending \/ pending' = Erased(pending, dconn[t], t[1])
    BY <1>6 DEF CloseRemove
  <2>3. \/ connected' = connected
        \/ connected' = Erased(connected, dconn[t], t[1])
    BY <1>6 DEF CloseRemove
  <2>4. ASSUME NEW l \in [Conn -> SUBSET Req], NEW c \in Conn
        PROVE  Erased(l, dconn[t], t[1])[c] \subseteq l[c]
    BY DEF Erased
  <2>5. \A c \in Conn : pending'[c] \subseteq pending[c]
          /\ connected'[c] \subseteq connected[c]
    BY <2>2, <2>3, <2>4 DEF TypeOK
  <2> QED
    BY <2>1, <2>5 DEF FinalConns
<1>7. ASSUME NEW t \in Closing, CloseCheckEmpty(t) PROVE FinalConns
  BY <1>7
     DEF TypeOK, FinalConns, CloseCheckEmpty
<1>8. ASSUME NEW r \in Req, DeathBegin(r) PROVE FinalConns
  BY <1>8
     DEF TypeOK, FinalConns, DeathBegin, LeftBySwap, PopDeleteList
<1>9. ASSUME NEW c \in Conn, OnAbilityConnectDone(c) PROVE FinalConns
  BY <1>9
     DEF TypeOK, FinalConns, OnAbilityConnectDone, IsConnecting,
         MovePending, connVars
<1>10. ASSUME NEW c \in Conn, OnAbilityConnectFailed(c) PROVE FinalConns
  BY <1>10
     DEF TypeOK, FinalConns, OnAbilityConnectFailed, IsConnecting,
         MovePending
<1>11. ASSUME NEW c \in Conn, OnAbilityDisconnectDone(c) PROVE FinalConns
  BY <1>11
     DEF TypeOK, FinalConns, OnAbilityDisconnectDone
<1>12. ASSUME UNCHANGED <<status, pending, connected>> PROVE FinalConns
  BY <1>12
     DEF TypeOK, FinalConns
<1> QED
  BY <1>1, <1>2, <1>3, <1>4, <1>5, <1>6, <1>7, <1>8, <1>9, <1>10, <1>11,
     <1>12
     DEF Next, vars, ConnectCall, CloseCall, DeathHandler, AbilityCallback,
         DisconnectDone, ConnectBegin, ConnectRejected,
         ConnectNativeDisconnected, RetryDelete, ConnectCheckEmpty,
         ConnectClean, ConnectCleanCheck, ConnectStopExit, DisconnectBegin,
         DisconnectLookUp, StopBegin, CloseTell, CloseAbility, CloseDelete,
         DeathTell, DeathAbility, DeathClean, DeathCleanCheck,
         DisconnectDoneClean, DisconnectDoneCheck, RunTask, ExitSaProcess,
         UnloadSystemAbility, CallerDies, ExtensionCrashes, connVars

(* A connection that a call has yet to make does not exist.                *)
LEMMA MadeStep ==
  ASSUME TypeOK, NotMadeYet, PointersMade, ConnMade, CallForward
  PROVE  NotMadeYet'
<1> SUFFICES ASSUME NEW r \in Req
             PROVE  /\ cpc'[r] \in {"idle", "lookup"}
                          => status'[<<r, 1>>] = "NONE"
                    /\ cpc'[r] \in EarlySteps => status'[<<r, 2>>] = "NONE"
  BY DEF NotMadeYet, EarlySteps
<1>1. \A q \in Req : /\ <<r, 1>> = <<q, 1>> => q = r
                     /\ <<r, 2>> = <<q, 2>> => q = r
                     /\ <<r, 1>> # <<q, 2>> /\ <<r, 2>> # <<q, 1>>
  OBVIOUS
<1>2. /\ cpc[r] \in {"idle", "lookup"} => status[<<r, 1>>] = "NONE"
      /\ cpc[r] \in EarlySteps => status[<<r, 2>>] = "NONE"
  BY DEF NotMadeYet, EarlySteps
<1>3. ASSUME cpc'[r] \in {"idle", "lookup"}, status'[<<r, 1>>] # "NONE"
      PROVE FALSE
  <2>1. status[<<r, 1>>] = "NONE"
    BY <1>2, <1>3 DEF CallForward
  <2>2. cpc'[r] = "connect"
    BY <1>1, <1>3, <2>1, NewConnIsConn DEF ConnMade
  <2> QED
    BY <1>3, <2>2
<1>4. ASSUME cpc'[r] \in EarlySteps, status'[<<r, 2>>] # "NONE" PROVE FALSE
  <2>1. status[<<r, 2>>] = "NONE"
    BY <1>2, <1>4 DEF CallForward
  <2>2. cpc'[r] = "retryConnect"
    BY <1>1, <1>4, <2>1, NewConnIsConn DEF ConnMade
  <2> QED
    BY <1>4, <2>2 DEF EarlySteps
<1> QED
  BY <1>3, <1>4

(* AddDeathRecipientCallback is the last thing an accepted call does to its*)
(* connection.                                                             *)
LEMMA RecipientSetStep ==
  ASSUME TypeOK, RecipientSet, [Next]_vars
  PROVE  RecipientSet'
<1>1. ASSUME NEW r \in Req, ConnectBegin(r) PROVE RecipientSet'
  BY <1>1
     DEF TypeOK, RecipientSet, ConnectBegin, ConnectAt, reqVars
<1>2. ASSUME NEW r \in Req, ConnectRejected(r) PROVE RecipientSet'
  BY <1>2
     DEF TypeOK, RecipientSet, ConnectRejected, ConnectAt, reqVars
<1>3. ASSUME NEW r \in Req, LookUpOrNewIpcConnection(r) PROVE RecipientSet'
  BY <1>3
     DEF TypeOK, RecipientSet, LookUpOrNewIpcConnection, ConnectAt, reqVars
<1>4. ASSUME NEW r \in Req, ConnectNativeDisconnected(r) PROVE RecipientSet'
  BY <1>4
     DEF TypeOK, RecipientSet, ConnectNativeDisconnected, ConnectFailed,
         ConnectAt
<1>5. ASSUME NEW r \in Req, ConnectNativeInit(r) PROVE RecipientSet'
  <2>1. ConnectFailed(r) \/ ConnectAccepted(r, cconn[r])
    BY <1>5 DEF ConnectNativeInit
  <2>2. recipient[r] = NoConn
    BY <1>5 DEF RecipientSet, ConnectNativeInit, ConnectAt
  <2> QED
    BY <2>1, <2>2 DEF TypeOK, RecipientSet, ConnectFailed, ConnectAccepted
<1>6. ASSUME NEW r \in Req, ConnectNativeConnecting(r) PROVE RecipientSet'
  BY <1>6
     DEF TypeOK, RecipientSet, ConnectNativeConnecting, ConnectAccepted,
         ConnectAt
<1>7. ASSUME NEW r \in Req, ConnectNativeConnected(r) PROVE RecipientSet'
  BY <1>7
     DEF TypeOK, RecipientSet, ConnectNativeConnected, ConnectFailed,
         ConnectAccepted, ConnectAt
<1>8. ASSUME NEW r \in Req, RetryDelete(r) PROVE RecipientSet'
  BY <1>8
     DEF TypeOK, RecipientSet, RetryDelete, ConnectAt, reqVars
<1>9. ASSUME NEW r \in Req, RetryNew(r) PROVE RecipientSet'
  BY <1>9
     DEF TypeOK, RecipientSet, RetryNew, ConnectAt, reqVars
<1>10. ASSUME NEW r \in Req, ConnectCheckEmpty(r) PROVE RecipientSet'
  BY <1>10
     DEF TypeOK, RecipientSet, ConnectCheckEmpty, ConnectAt, reqVars
<1>11. ASSUME NEW r \in Req, ConnectClean(r) PROVE RecipientSet'
  BY <1>11
     DEF TypeOK, RecipientSet, ConnectClean, ConnectAt, reqVars
<1>12. ASSUME NEW r \in Req, ConnectCleanCheck(r) PROVE RecipientSet'
  BY <1>12
     DEF TypeOK, RecipientSet, ConnectCleanCheck, ConnectAt, reqVars
<1>13. ASSUME NEW r \in Req, ConnectStopExit(r) PROVE RecipientSet'
  BY <1>13
     DEF TypeOK, RecipientSet, ConnectStopExit, ConnectAt, reqVars
<1>14. ASSUME UNCHANGED <<recipient, cpc>> PROVE RecipientSet'
  BY <1>14
     DEF TypeOK, RecipientSet
<1> QED
  BY <1>1, <1>2, <1>3, <1>4, <1>5, <1>6, <1>7, <1>8, <1>9, <1>10, <1>11,
     <1>12, <1>13, <1>14
     DEF Next, vars, ConnectCall, CloseCall, DeathHandler, AbilityCallback,
         DisconnectDone, DisconnectBegin, DisconnectLookUp, StopBegin,
         CloseRemove, CloseTell, CloseCheckEmpty, CloseAbility, CloseDelete,
         DeathBegin, DeathTell, DeathAbility, DeathClean, DeathCleanCheck,
         OnAbilityConnectDone, OnAbilityConnectFailed,
         OnAbilityDisconnectDone, DisconnectDoneClean, DisconnectDoneCheck,
         RunTask, ExitSaProcess, UnloadSystemAbility, CallerDies,
         ExtensionCrashes, connectVars, reqVars

(* A death handler that runs has its connection.                           *)
LEMMA DeathWorksStep ==
  ASSUME TypeOK, DeathWorks, RecipientSet, [Next]_vars
  PROVE  DeathWorks'
<1>1. ASSUME NEW r \in Req, ConnectNativeDisconnected(r) PROVE DeathWorks'
  BY <1>1
     DEF TypeOK, DeathWorks, RecipientSet, ConnectNativeDisconnected,
         ConnectFailed, ConnectAt, deathVars
<1>2. ASSUME NEW r \in Req, ConnectNativeInit(r) PROVE DeathWorks'
  BY <1>2
     DEF TypeOK, DeathWorks, RecipientSet, ConnectNativeInit, ConnectFailed,
         ConnectAccepted, ConnectAt, deathVars
<1>3. ASSUME NEW r \in Req, ConnectNativeConnecting(r) PROVE DeathWorks'
  BY <1>3
     DEF TypeOK, DeathWorks, RecipientSet, ConnectNativeConnecting,
         ConnectAccepted, ConnectAt, deathVars
<1>4. ASSUME NEW r \in Req, ConnectNativeConnected(r) PROVE DeathWorks'
  BY <1>4
     DEF TypeOK, DeathWorks, RecipientSet, ConnectNativeConnected,
         ConnectFailed, ConnectAccepted, ConnectAt, deathVars
<1>5. ASSUME NEW r \in Req, DeathBegin(r) PROVE DeathWorks'
  BY <1>5
     DEF TypeOK, DeathWorks, RecipientSet, DeathBegin, DeathAt, reqVars
<1>6. ASSUME NEW r \in Req, DeathTell(r) PROVE DeathWorks'
  BY <1>6
     DEF TypeOK, DeathWorks, RecipientSet, DeathTell, DeathAt
<1>7. ASSUME NEW r \in Req, DeathAbility(r) PROVE DeathWorks'
  BY <1>7
     DEF TypeOK, DeathWorks, RecipientSet, DeathAbility, DeathAt, reqVars
<1>8. ASSUME NEW r \in Req, DeathClean(r) PROVE DeathWorks'
  BY <1>8
     DEF TypeOK, DeathWorks, RecipientSet, DeathClean, DeathAt, reqVars
<1>9. ASSUME NEW r \in Req, DeathCleanCheck(r) PROVE DeathWorks'
  BY <1>9
     DEF TypeOK, DeathWorks, RecipientSet, DeathCleanCheck, DeathAt, reqVars
<1>10. ASSUME UNCHANGED <<recipient, hpc>> PROVE DeathWorks'
  BY <1>10
     DEF TypeOK, DeathWorks, RecipientSet
<1> QED
  BY <1>1, <1>2, <1>3, <1>4, <1>5, <1>6, <1>7, <1>8, <1>9, <1>10
     DEF Next, vars, ConnectCall, CloseCall, DeathHandler, AbilityCallback,
         DisconnectDone, ConnectBegin, ConnectRejected,
         LookUpOrNewIpcConnection, RetryDelete, RetryNew, ConnectCheckEmpty,
         ConnectClean, ConnectCleanCheck, ConnectStopExit, DisconnectBegin,
         DisconnectLookUp, StopBegin, CloseRemove, CloseTell,
         CloseCheckEmpty, CloseAbility, CloseDelete, OnAbilityConnectDone,
         OnAbilityConnectFailed, OnAbilityDisconnectDone,
         DisconnectDoneClean, DisconnectDoneCheck, RunTask, ExitSaProcess,
         UnloadSystemAbility, CallerDies, ExtensionCrashes, deathVars,
         reqVars

(* DisconnectNative runs on a connection that was looked up.               *)
LEMMA CloseWorksStep ==
  ASSUME TypeOK, CloseWorks, [Next]_vars
  PROVE  CloseWorks'
<1>1. ASSUME NEW r \in Req, DisconnectBegin(r) PROVE CloseWorks'
  BY <1>1
     DEF TypeOK, CloseWorks, DisconnectBegin, CloseEnd, CloseAt, Closing
<1>2. ASSUME NEW r \in Req, DisconnectLookUp(r) PROVE CloseWorks'
  BY <1>2
     DEF TypeOK, CloseWorks, DisconnectLookUp, CloseEnd, CloseAt, Closing
<1>3. ASSUME NEW r \in Req, StopBegin(r) PROVE CloseWorks'
  BY <1>3
     DEF TypeOK, CloseWorks, StopBegin, CloseEnd, CloseAt, Closing
<1>4. ASSUME NEW t \in Closing, CloseRemove(t) PROVE CloseWorks'
  BY <1>4
     DEF TypeOK, CloseWorks, CloseRemove, CloseEnd, CloseAt
<1>5. ASSUME NEW t \in Closing, CloseTell(t) PROVE CloseWorks'
  BY <1>5
     DEF TypeOK, CloseWorks, CloseTell, CloseEnd, CloseAt
<1>6. ASSUME NEW t \in Closing, CloseCheckEmpty(t) PROVE CloseWorks'
  BY <1>6
     DEF TypeOK, CloseWorks, CloseCheckEmpty, CloseEnd, CloseAt
<1>7. ASSUME NEW t \in Closing, CloseAbility(t) PROVE CloseWorks'
  BY <1>7
     DEF TypeOK, CloseWorks, CloseAbility, CloseEnd, CloseAt
<1>8. ASSUME NEW t \in Closing, CloseDelete(t) PROVE CloseWorks'
  BY <1>8
     DEF TypeOK, CloseWorks, CloseDelete, CloseEnd, CloseAt
<1>9. ASSUME UNCHANGED <<dpc, dconn>> PROVE CloseWorks'
  BY <1>9
     DEF TypeOK, CloseWorks
<1> QED
  BY <1>1, <1>2, <1>3, <1>4, <1>5, <1>6, <1>7, <1>8, <1>9
     DEF Next, vars, ConnectCall, CloseCall, DeathHandler, AbilityCallback,
         DisconnectDone, ConnectBegin, ConnectRejected,
         LookUpOrNewIpcConnection, ConnectNativeDisconnected,
         ConnectNativeInit, ConnectNativeConnecting, ConnectNativeConnected,
         RetryDelete, RetryNew, ConnectCheckEmpty, ConnectClean,
         ConnectCleanCheck, ConnectStopExit, DeathBegin, DeathTell,
         DeathAbility, DeathClean, DeathCleanCheck, OnAbilityConnectDone,
         OnAbilityConnectFailed, OnAbilityDisconnectDone,
         DisconnectDoneClean, DisconnectDoneCheck, RunTask, ExitSaProcess,
         UnloadSystemAbility, CallerDies, ExtensionCrashes, closeVars

(* DisconnectNative asks for a DisconnectAbility of a DISCONNECTED connection*)
(* only, whatever happened since its lock was let go of.                   *)
LEMMA CloseGivenUpStep ==
  ASSUME TypeOK, CloseWorks, CloseGivenUp, FinalConns, [Next]_vars
  PROVE  CloseGivenUp'
<1>a. \A t \in Closing :
         dpc[t] = "ability" => status'[dconn[t]] = "DISCONNECTED"
  BY DEF TypeOK, CloseWorks, CloseGivenUp, FinalConns
<1>b. dpc \in [Closing -> ClosePc] /\ dconn \in [Closing -> Conn \cup {NoConn}]
  BY DEF TypeOK
<1>1. ASSUME NEW r \in Req, DisconnectBegin(r) PROVE CloseGivenUp'
  BY <1>1, <1>a, <1>b
     DEF CloseGivenUp, DisconnectBegin, CloseEnd, CloseAt, Closing
<1>2. ASSUME NEW r \in Req, DisconnectLookUp(r) PROVE CloseGivenUp'
  BY <1>2, <1>a, <1>b
     DEF CloseGivenUp, DisconnectLookUp, CloseEnd, CloseAt, Closing
<1>3. ASSUME NEW r \in Req, StopBegin(r) PROVE CloseGivenUp'
  BY <1>3, <1>a, <1>b
     DEF CloseGivenUp, StopBegin, CloseEnd, CloseAt, Closing
<1>4. ASSUME NEW t \in Closing, CloseRemove(t) PROVE CloseGivenUp'
  BY <1>4, <1>a, <1>b
     DEF CloseGivenUp, CloseRemove, CloseEnd, CloseAt
<1>5. ASSUME NEW t \in Closing, CloseTell(t) PROVE CloseGivenUp'
  BY <1>5, <1>a, <1>b
     DEF CloseGivenUp, CloseTell, CloseEnd, CloseAt
<1>6. ASSUME NEW t \in Closing, CloseCheckEmpty(t) PROVE CloseGivenUp'
  BY <1>6, <1>a, <1>b
     DEF CloseGivenUp, CloseCheckEmpty, CloseEnd, CloseAt, TypeOK,
         CloseWorks
<1>7. ASSUME NEW t \in Closing, CloseAbility(t) PROVE CloseGivenUp'
  BY <1>7, <1>a, <1>b
     DEF CloseGivenUp, CloseAbility, CloseEnd, CloseAt
<1>8. ASSUME NEW t \in Closing, CloseDelete(t) PROVE CloseGivenUp'
  BY <1>8, <1>a, <1>b
     DEF CloseGivenUp, CloseDelete, CloseEnd, CloseAt
<1>9. ASSUME UNCHANGED <<dpc, dconn>> PROVE CloseGivenUp'
  BY <1>9, <1>a, <1>b
     DEF CloseGivenUp
<1> QED
  BY <1>1, <1>2, <1>3, <1>4, <1>5, <1>6, <1>7, <1>8, <1>9
     DEF Next, vars, ConnectCall, CloseCall, DeathHandler, AbilityCallback,
         DisconnectDone, ConnectBegin, ConnectRejected,
         LookUpOrNewIpcConnection, ConnectNativeDisconnected,
         ConnectNativeInit, ConnectNativeConnecting, ConnectNativeConnected,
         RetryDelete, RetryNew, ConnectCheckEmpty, ConnectClean,
         ConnectCleanCheck, ConnectStopExit, DeathBegin, DeathTell,
         DeathAbility, DeathClean, DeathCleanCheck, OnAbilityConnectDone,
         OnAbilityConnectFailed, OnAbilityDisconnectDone,
         DisconnectDoneClean, DisconnectDoneCheck, RunTask, ExitSaProcess,
         UnloadSystemAbility, CallerDies, ExtensionCrashes, closeVars

(* So does HandleCallerDeath.                                              *)
LEMMA DeathGivenUpStep ==
  ASSUME TypeOK, DeathWorks, RecipientSet, DeathGivenUp, FinalConns,
         [Next]_vars
  PROVE  DeathGivenUp'
<1>a. \A r \in Req : hpc[r] \in {"tell", "ability"}
                        => status'[recipient[r]] = "DISCONNECTED"
  BY DEF TypeOK, DeathWorks, DeathGivenUp, FinalConns
<1>b. hpc \in [Req -> DeathPc] /\ recipient \in [Req -> Conn \cup {NoConn}]
  BY DEF TypeOK
<1>c. \A r \in Req : cpc[r] \in {"connect", "retryConnect"} => hpc[r] = "idle"
  BY DEF DeathWorks, RecipientSet
<1>1. ASSUME NEW r \in Req, ConnectNativeDisconnected(r) PROVE DeathGivenUp'
  BY <1>1, <1>a, <1>b, <1>c
     DEF DeathGivenUp, ConnectNativeDisconnected, ConnectFailed, ConnectAt,
         deathVars
<1>2. ASSUME NEW r \in Req, ConnectNativeInit(r) PROVE DeathGivenUp'
  <2>1. hpc[r] = "idle" /\ hpc' = hpc
    BY <1>2, <1>c DEF ConnectNativeInit, ConnectAt, deathVars
  <2>2. ConnectFailed(r) \/ ConnectAccepted(r, cconn[r])
    BY <1>2 DEF ConnectNativeInit
  <2> QED
    BY <1>a, <1>b, <2>1, <2>2 DEF DeathGivenUp, ConnectFailed, ConnectAccepted
<1>3. ASSUME NEW r \in Req, ConnectNativeConnecting(r) PROVE DeathGivenUp'
  BY <1>3, <1>a, <1>b, <1>c
     DEF DeathGivenUp, ConnectNativeConnecting, ConnectAccepted, ConnectAt,
         deathVars
<1>4. ASSUME NEW r \in Req, ConnectNativeConnected(r) PROVE DeathGivenUp'
  <2>1. hpc[r] = "idle" /\ hpc' = hpc
    BY <1>4, <1>c DEF ConnectNativeConnected, ConnectAt, deathVars
  <2>2. ConnectFailed(r) \/ ConnectAccepted(r, cconn[r])
    BY <1>4 DEF ConnectNativeConnected
  <2> QED
    BY <1>a, <1>b, <2>1, <2>2 DEF DeathGivenUp, ConnectFailed, ConnectAccepted
<1>5. ASSUME NEW r \in Req, DeathBegin(r) PROVE DeathGivenUp'
  BY <1>5, <1>a, <1>b
     DEF DeathGivenUp, DeathBegin, DeathAt, TypeOK, reqVars
<1>6. ASSUME NEW r \in Req, DeathTell(r) PROVE DeathGivenUp'
  BY <1>6, <1>a, <1>b
     DEF DeathGivenUp, DeathTell, DeathAt
<1>7. ASSUME NEW r \in Req, DeathAbility(r) PROVE DeathGivenUp'
  BY <1>7, <1>a, <1>b
     DEF DeathGivenUp, DeathAbility, DeathAt, reqVars
<1>8. ASSUME NEW r \in Req, DeathClean(r) PROVE DeathGivenUp'
  BY <1>8, <1>a, <1>b
     DEF DeathGivenUp, DeathClean, DeathAt, reqVars
<1>9. ASSUME NEW r \in Req, DeathCleanCheck(r) PROVE DeathGivenUp'
  BY <1>9, <1>a, <1>b
     DEF DeathGivenUp, DeathCleanCheck, DeathAt, reqVars
<1>10. ASSUME UNCHANGED <<recipient, hpc>> PROVE DeathGivenUp'
  BY <1>10, <1>a, <1>b
     DEF DeathGivenUp
<1> QED
  BY <1>1, <1>2, <1>3, <1>4, <1>5, <1>6, <1>7, <1>8, <1>9, <1>10
     DEF Next, vars, ConnectCall, CloseCall, DeathHandler, AbilityCallback,
         DisconnectDone, ConnectBegin, ConnectRejected,
         LookUpOrNewIpcConnection, RetryDelete, RetryNew, ConnectCheckEmpty,
         ConnectClean, ConnectCleanCheck, ConnectStopExit, DisconnectBegin,
         DisconnectLookUp, StopBegin, CloseRemove, CloseTell,
         CloseCheckEmpty, CloseAbility, CloseDelete, OnAbilityConnectDone,
         OnAbilityConnectFailed, OnAbilityDisconnectDone,
         DisconnectDoneClean, DisconnectDoneCheck, RunTask, ExitSaProcess,
         UnloadSystemAbility, CallerDies, ExtensionCrashes, deathVars,
         reqVars

(* So the ability manager disconnects DISCONNECTED connections only.       *)
LEMMA AmsGivenUpStep ==
  ASSUME TypeOK, CloseWorks, DeathWorks, CloseGivenUp, DeathGivenUp,
         AmsGivenUp, FinalConns, [Next]_vars
  PROVE  AmsGivenUp'
<1>1. ASSUME NEW r \in Req, ConnectNativeInit(r) PROVE AmsGivenUp'
  BY <1>1
     DEF TypeOK, AmsGivenUp, FinalConns, ConnectNativeInit
<1>2. ASSUME NEW t \in Closing, CloseAbility(t) PROVE AmsGivenUp'
  BY <1>2
     DEF TypeOK, AmsGivenUp, FinalConns, CloseAbility, CloseWorks,
         CloseGivenUp, CloseAt, DisconnectAbilityOk, DisconnectAbilityErr
<1>3. ASSUME NEW r \in Req, DeathAbility(r) PROVE AmsGivenUp'
  BY <1>3
     DEF TypeOK, AmsGivenUp, FinalConns, DeathAbility, DeathWorks,
         DeathGivenUp, DeathAt, DisconnectAbilityOk, DisconnectAbilityErr
<1>4. ASSUME NEW c \in Conn, OnAbilityConnectDone(c) PROVE AmsGivenUp'
  BY <1>4
     DEF TypeOK, AmsGivenUp, FinalConns, OnAbilityConnectDone, IsConnecting
<1>5. ASSUME NEW c \in Conn, OnAbilityConnectFailed(c) PROVE AmsGivenUp'
  BY <1>5
     DEF TypeOK, AmsGivenUp, FinalConns, OnAbilityConnectFailed
<1>6. ASSUME NEW c \in Conn, OnAbilityDisconnectDone(c) PROVE AmsGivenUp'
  BY <1>6
     DEF TypeOK, AmsGivenUp, FinalConns, OnAbilityDisconnectDone
<1>7. ASSUME NEW c \in Conn, ExtensionCrashes(c) PROVE AmsGivenUp'
  BY <1>7
     DEF TypeOK, AmsGivenUp, FinalConns, ExtensionCrashes
<1>8. ASSUME UNCHANGED <<ams>> PROVE AmsGivenUp'
  BY <1>8
     DEF TypeOK, AmsGivenUp, FinalConns
<1> QED
  BY <1>1, <1>2, <1>3, <1>4, <1>5, <1>6, <1>7, <1>8
     DEF Next, vars, ConnectCall, CloseCall, DeathHandler, AbilityCallback,
         DisconnectDone, ConnectBegin, ConnectRejected,
         LookUpOrNewIpcConnection, ConnectNativeDisconnected,
         ConnectNativeConnecting, ConnectNativeConnected, RetryDelete,
         RetryNew, ConnectCheckEmpty, ConnectClean, ConnectCleanCheck,
         ConnectStopExit, DisconnectBegin, DisconnectLookUp, StopBegin,
         CloseRemove, CloseTell, CloseCheckEmpty, CloseDelete, DeathBegin,
         DeathTell, DeathClean, DeathCleanCheck, DisconnectDoneClean,
         DisconnectDoneCheck, RunTask, ExitSaProcess, UnloadSystemAbility,
         CallerDies

(* connectedRequests_ of a connection that is not CONNECTED is empty.      *)
LEMMA ConnectedStatusStep ==
  ASSUME TypeOK, NotMadeYet, ConnectedStatus, [Next]_vars
  PROVE  ConnectedStatus'
<1>1. ASSUME NEW r \in Req, LookUpOrNewIpcConnection(r) PROVE ConnectedStatus'
  <2>1. <<r, 1>> \in Conn /\ connected[<<r, 1>>] = {}
    BY <1>1, NewConnIsConn
       DEF NotMadeYet, ConnectedStatus, LookUpOrNewIpcConnection, ConnectAt
  <2>2. /\ connected' = connected
        /\ \/ status' = status
           \/ status' = [status EXCEPT ![<<r, 1>>] = "INIT"]
    BY <1>1 DEF LookUpOrNewIpcConnection, NewIpcConnection
  <2> QED
    BY <2>1, <2>2 DEF TypeOK, ConnectedStatus
<1>2. ASSUME NEW r \in Req, ConnectNativeInit(r) PROVE ConnectedStatus'
  BY <1>2
     DEF TypeOK, ConnectedStatus, ConnectNativeInit,
         RemovePendingRequestUnlock
<1>3. ASSUME NEW r \in Req, ConnectNativeConnected(r) PROVE ConnectedStatus'
  BY <1>3
     DEF TypeOK, ConnectedStatus, ConnectNativeConnected
<1>4. ASSUME NEW r \in Req, RetryNew(r) PROVE ConnectedStatus'
  <2>1. <<r, 2>> \in Conn /\ connected[<<r, 2>>] = {}
    BY <1>4, NewConnIsConn
       DEF NotMadeYet, ConnectedStatus, RetryNew, ConnectAt
  <2>2. /\ connected' = connected
        /\ \/ status' = status
           \/ status' = [status EXCEPT ![<<r, 2>>] = "INIT"]
    BY <1>4 DEF RetryNew, NewIpcConnection
  <2> QED
    BY <2>1, <2>2 DEF TypeOK, ConnectedStatus
<1>5. ASSUME NEW t \in Closing, CloseRemove(t) PROVE ConnectedStatus'
  BY <1>5
     DEF TypeOK, ConnectedStatus, CloseRemove, Erased
<1>6. ASSUME NEW t \in Closing, CloseCheckEmpty(t) PROVE ConnectedStatus'
  BY <1>6
     DEF TypeOK, ConnectedStatus, CloseCheckEmpty, IsRequestListEmpty
<1>7. ASSUME NEW r \in Req, DeathBegin(r) PROVE ConnectedStatus'
  BY <1>7
     DEF TypeOK, ConnectedStatus, DeathBegin, LeftBySwap, PopDeleteList
<1>8. ASSUME NEW c \in Conn, OnAbilityConnectDone(c) PROVE ConnectedStatus'
  BY <1>8
     DEF TypeOK, ConnectedStatus, OnAbilityConnectDone, IsConnecting,
         MovePending, connVars
<1>9. ASSUME NEW c \in Conn, OnAbilityConnectFailed(c) PROVE ConnectedStatus'
  BY <1>9
     DEF TypeOK, ConnectedStatus, OnAbilityConnectFailed, IsConnecting,
         MovePending
<1>10. ASSUME NEW c \in Conn, OnAbilityDisconnectDone(c) PROVE ConnectedStatus'
  BY <1>10
     DEF TypeOK, ConnectedStatus, OnAbilityDisconnectDone
<1>11. ASSUME UNCHANGED <<status, connected>> PROVE ConnectedStatus'
  BY <1>11
     DEF TypeOK, ConnectedStatus
<1> QED
  BY <1>1, <1>2, <1>3, <1>4, <1>5, <1>6, <1>7, <1>8, <1>9, <1>10, <1>11
     DEF Next, vars, ConnectCall, CloseCall, DeathHandler, AbilityCallback,
         DisconnectDone, ConnectBegin, ConnectRejected,
         ConnectNativeDisconnected, ConnectNativeConnecting, RetryDelete,
         ConnectCheckEmpty, ConnectClean, ConnectCleanCheck,
         ConnectStopExit, DisconnectBegin, DisconnectLookUp, StopBegin,
         CloseTell, CloseAbility, CloseDelete, DeathTell, DeathAbility,
         DeathClean, DeathCleanCheck, DisconnectDoneClean,
         DisconnectDoneCheck, RunTask, ExitSaProcess, UnloadSystemAbility,
         CallerDies, ExtensionCrashes, connVars

(* Who disconnects an ability has a DISCONNECTED connection, which serves no*)
(* request; OnAbilityConnectDone connects requests over a live ability.    *)
LEMMA ServedOverLiveAbilityStep ==
  ASSUME TypeOK, CloseWorks, DeathWorks, CloseGivenUp, DeathGivenUp,
         AmsGivenUp, ConnectedStatus, ServedOverLiveAbility, [Next]_vars
  PROVE  ServedOverLiveAbility'
<1>1. ASSUME NEW r \in Req, ConnectNativeInit(r) PROVE ServedOverLiveAbility'
  BY <1>1
     DEF TypeOK, ConnectedStatus, ServedOverLiveAbility, ConnectNativeInit
<1>2. ASSUME NEW r \in Req, ConnectNativeConnected(r)
      PROVE ServedOverLiveAbility'
  BY <1>2
     DEF TypeOK, ConnectedStatus, ServedOverLiveAbility,
         ConnectNativeConnected, CanConnectNative
<1>3. ASSUME NEW t \in Closing, CloseRemove(t) PROVE ServedOverLiveAbility'
  BY <1>3
     DEF TypeOK, ConnectedStatus, ServedOverLiveAbility, CloseRemove, Erased
<1>4. ASSUME NEW t \in Closing, CloseAbility(t) PROVE ServedOverLiveAbility'
  BY <1>4
     DEF TypeOK, ConnectedStatus, ServedOverLiveAbility, CloseAbility,
         CloseAt, DisconnectAbilityOk, DisconnectAbilityErr, CloseWorks,
         CloseGivenUp, connVars
<1>5. ASSUME NEW r \in Req, DeathBegin(r) PROVE ServedOverLiveAbility'
  BY <1>5
     DEF TypeOK, ConnectedStatus, ServedOverLiveAbility, DeathBegin,
         LeftBySwap
<1>6. ASSUME NEW r \in Req, DeathAbility(r) PROVE ServedOverLiveAbility'
  BY <1>6
     DEF TypeOK, ConnectedStatus, ServedOverLiveAbility, DeathAbility,
         DeathAt, DisconnectAbilityOk, DisconnectAbilityErr, DeathWorks,
         DeathGivenUp, connVars
<1>7. ASSUME NEW c \in Conn, OnAbilityConnectDone(c)
      PROVE ServedOverLiveAbility'
  BY <1>7
     DEF TypeOK, ConnectedStatus, ServedOverLiveAbility,
         OnAbilityConnectDone, IsConnecting, MovePending, connVars,
         AmsGivenUp
<1>8. ASSUME NEW c \in Conn, OnAbilityConnectFailed(c)
      PROVE ServedOverLiveAbility'
  BY <1>8
     DEF TypeOK, ConnectedStatus, ServedOverLiveAbility,
         OnAbilityConnectFailed, MovePending, IsConnecting
<1>9. ASSUME NEW c \in Conn, OnAbilityDisconnectDone(c)
      PROVE ServedOverLiveAbility'
  BY <1>9
     DEF TypeOK, ConnectedStatus, ServedOverLiveAbility,
         OnAbilityDisconnectDone
<1>10. ASSUME NEW c \in Conn, ExtensionCrashes(c) PROVE ServedOverLiveAbility'
  BY <1>10
     DEF TypeOK, ConnectedStatus, ServedOverLiveAbility, ExtensionCrashes,
         connVars
<1>11. ASSUME UNCHANGED <<ams, connected>> PROVE ServedOverLiveAbility'
  BY <1>11
     DEF TypeOK, ConnectedStatus, ServedOverLiveAbility
<1> QED
  BY <1>1, <1>2, <1>3, <1>4, <1>5, <1>6, <1>7, <1>8, <1>9, <1>10, <1>11
     DEF Next, vars, ConnectCall, CloseCall, DeathHandler, AbilityCallback,
         DisconnectDone, ConnectBegin, ConnectRejected,
         LookUpOrNewIpcConnection, ConnectNativeDisconnected,
         ConnectNativeConnecting, RetryDelete, RetryNew, ConnectCheckEmpty,
         ConnectClean, ConnectCleanCheck, ConnectStopExit, DisconnectBegin,
         DisconnectLookUp, StopBegin, CloseTell, CloseCheckEmpty,
         CloseDelete, DeathTell, DeathClean, DeathCleanCheck,
         DisconnectDoneClean, DisconnectDoneCheck, RunTask, ExitSaProcess,
         UnloadSystemAbility, CallerDies, connVars

----------------------------------------------------------------------------
(* The invariant from which the theorems below follow.  Neither property   *)
(* holds of a step from any typed state: a new connection must not be one  *)
(* that was given up, and who disconnects an ability must hold one that    *)
(* was.                                                                    *)
ConnInv ==
    /\ TypeOK
    /\ NotMadeYet
    /\ PointersMade
    /\ ConnectedStatus
    /\ AbilityGivenUp
    /\ WorksOnConn
    /\ ServedOverLiveAbility

(* The service starts with no connection.                                  *)
LEMMA ConnInvInit == Init => ConnInv
<1> SUFFICES ASSUME Init PROVE ConnInv
  OBVIOUS
<1>1. TypeOK
  BY TypeInit
<1>2. NotMadeYet
  BY NewConnIsConn DEF Init, NotMadeYet
<1>3. PointersMade
  BY DEF Init, PointersMade, MapMade, CallConnMade, CloseConnMade,
     RecipientMade, AmsMade
<1>4. ConnectedStatus /\ ServedOverLiveAbility
  BY DEF Init, ConnectedStatus, ServedOverLiveAbility
<1>5. AbilityGivenUp /\ WorksOnConn
  BY DEF Init, AbilityGivenUp, CloseGivenUp, DeathGivenUp, AmsGivenUp,
     WorksOnConn, CloseWorks, DeathWorks, RecipientSet
<1> QED
  BY <1>1, <1>2, <1>3, <1>4, <1>5 DEF ConnInv

(* Every step keeps it.                                                    *)
LEMMA ConnInvStep == ConnInv /\ [Next]_vars => ConnInv'
<1> SUFFICES ASSUME ConnInv, [Next]_vars PROVE ConnInv'
  OBVIOUS
<1> USE DEF ConnInv
<1>1. TypeOK'
  BY TypeStep
<1>2. ConnMade
  BY ConnMadeStep
<1>3. NotMadeYet'
  <2>1. CallForward
    BY CallForwardStep
  <2> QED
    BY <1>2, <2>1, MadeStep
<1>4. PointersMade'
  BY <1>2, MapMadeStep, CallConnMadeStep, RecipientMadeStep, CloseConnMadeStep,
     AmsMadeStep DEF PointersMade
<1>5. FinalConns
  BY FinalConnsStep
<1>6. ConnectedStatus'
  BY <1>5, ConnectedStatusStep
<1>7. AbilityGivenUp'
  BY <1>5, CloseGivenUpStep, DeathGivenUpStep, AmsGivenUpStep
     DEF AbilityGivenUp, WorksOnConn
<1>8. WorksOnConn'
  BY CloseWorksStep, DeathWorksStep, RecipientSetStep DEF WorksOnConn
<1>9. ServedOverLiveAbility'
  BY ServedOverLiveAbilityStep DEF AbilityGivenUp, WorksOnConn
<1> QED
  BY <1>1, <1>3, <1>4, <1>6, <1>7, <1>8, <1>9

(* No path through disconnects, stops, deaths and late ability callbacks   *)
(* takes the ability away from a connection that serves a request.         *)
THEOREM ServedIsLive == Spec => []ServedOverLiveAbility
<1>1. Init => ConnInv
  BY ConnInvInit
<1>2. ConnInv /\ [Next]_vars => ConnInv'
  BY ConnInvStep
<1>3. ConnInv => ServedOverLiveAbility
  BY DEF ConnInv
<1> QED
  BY <1>1, <1>2, <1>3, PTL DEF Spec

(* A connection that DisconnectNative gave up before it let go of its lock *)
(* is never connected again and takes no new request.                      *)
THEOREM DisconnectedStays == Spec => DisconnectedIsFinal
<1>1. Init => ConnInv
  BY ConnInvInit
<1>2. ConnInv /\ [Next]_vars => ConnInv'
  BY ConnInvStep
<1>3. ConnInv /\ [Next]_vars =>
        [\A c \in Conn : status[c] = "DISCONNECTED" =>
            status'[c] = "DISCONNECTED" /\ Held(c)' \subseteq Held(c)]_vars
  BY FinalConnsStep DEF ConnInv, FinalConns, Held
<1> QED
  BY <1>1, <1>2, <1>3, PTL DEF Spec, DisconnectedIsFinal

----------------------------------------------------------------------------
(* What the service asks of the ability manager, and what it leaves behind.*)

(* Erasing a request adds none to a list.                                  *)
LEMMA ErasedWithin ==
  ASSUME NEW l \in [Conn -> SUBSET Req], NEW d, NEW r, NEW c \in Conn
  PROVE  Erased(l, d, r)[c] \subseteq l[c]
  BY DEF Erased

(* Requests are pending on a connection that is being made, or was given   *)
(* up.                                                                     *)
LEMMA PendingWaitsStep ==
  ASSUME TypeOK, NotMadeYet, PendingWaits, [Next]_vars
  PROVE  PendingWaits'
<1>1. ASSUME NEW r \in Req, LookUpOrNewIpcConnection(r) PROVE PendingWaits'
  <2>1. <<r, 1>> \in Conn /\ status[<<r, 1>>] = "NONE"
    BY <1>1, NewConnIsConn DEF NotMadeYet, LookUpOrNewIpcConnection, ConnectAt
  <2>2. \/ status' = status
        \/ status' = [status EXCEPT ![<<r, 1>>] = "INIT"]
    BY <1>1 DEF LookUpOrNewIpcConnection, NewIpcConnection
  <2>3. UNCHANGED <<pending, connected, ams>>
    BY <1>1 DEF LookUpOrNewIpcConnection
  <2> QED
    BY <2>1, <2>2, <2>3 DEF TypeOK, PendingWaits
<1>2. ASSUME NEW r \in Req, ConnectNativeInit(r) PROVE PendingWaits'
  BY <1>2
     DEF TypeOK, PendingWaits, ConnectNativeInit, RemovePendingRequestUnlock
<1>3. ASSUME NEW r \in Req, ConnectNativeConnecting(r) PROVE PendingWaits'
  BY <1>3
     DEF TypeOK, PendingWaits, ConnectNativeConnecting
<1>4. ASSUME NEW r \in Req, RetryNew(r) PROVE PendingWaits'
  <2>1. <<r, 2>> \in Conn /\ status[<<r, 2>>] = "NONE"
    BY <1>4, NewConnIsConn DEF NotMadeYet, RetryNew, ConnectAt
  <2>2. \/ status' = status
        \/ status' = [status EXCEPT ![<<r, 2>>] = "INIT"]
    BY <1>4 DEF RetryNew, NewIpcConnection
  <2>3. UNCHANGED <<pending, connected, ams>>
    BY <1>4 DEF RetryNew
  <2> QED
    BY <2>1, <2>2, <2>3 DEF TypeOK, PendingWaits
<1>5. ASSUME NEW t \in Closing, CloseRemove(t) PROVE PendingWaits'
  BY <1>5
     DEF TypeOK, PendingWaits, CloseRemove, Erased
<1>6. ASSUME NEW t \in Closing, CloseCheckEmpty(t) PROVE PendingWaits'
  BY <1>6
     DEF TypeOK, PendingWaits, CloseCheckEmpty, IsRequestListEmpty
<1>7. ASSUME NEW r \in Req, DeathBegin(r) PROVE PendingWaits'
  BY <1>7
     DEF TypeOK, PendingWaits, DeathBegin
<1>8. ASSUME NEW c \in Conn, OnAbilityConnectDone(c) PROVE PendingWaits'
  BY <1>8
     DEF TypeOK, PendingWaits, OnAbilityConnectDone, IsConnecting,
         MovePending, connVars
<1>9. ASSUME NEW c \in Conn, OnAbilityConnectFailed(c) PROVE PendingWaits'
  BY <1>9
     DEF TypeOK, PendingWaits, OnAbilityConnectFailed, IsConnecting,
         MovePending
<1>10. ASSUME NEW c \in Conn, OnAbilityDisconnectDone(c) PROVE PendingWaits'
  BY <1>10
     DEF TypeOK, PendingWaits, OnAbilityDisconnectDone
<1>11. ASSUME UNCHANGED <<status, pending>> PROVE PendingWaits'
  BY <1>11
     DEF TypeOK, PendingWaits
<1> QED
  BY <1>1, <1>2, <1>3, <1>4, <1>5, <1>6, <1>7, <1>8, <1>9, <1>10, <1>11
     DEF Next, vars, ConnectCall, CloseCall, DeathHandler, AbilityCallback,
         DisconnectDone, ConnectBegin, ConnectRejected,
         ConnectNativeDisconnected, ConnectNativeConnected, RetryDelete,
         ConnectCheckEmpty, ConnectClean, ConnectCleanCheck, ConnectStopExit,
         DisconnectBegin, DisconnectLookUp, StopBegin, CloseTell,
         CloseAbility, CloseDelete, DeathTell, DeathAbility, DeathClean,
         DeathCleanCheck, DisconnectDoneClean, DisconnectDoneCheck, RunTask,
         ExitSaProcess, UnloadSystemAbility, CallerDies, ExtensionCrashes,
         connVars

(* A connection that is being made has asked the ability manager, whose    *)
(* answer ends that.                                                       *)
LEMMA ConnectingAsksStep ==
  ASSUME TypeOK, CloseWorks, DeathWorks, CloseGivenUp, DeathGivenUp,
         AskedBegun, ConnectingAsks, [Next]_vars
  PROVE  ConnectingAsks'
<1>1. ASSUME NEW r \in Req, LookUpOrNewIpcConnection(r) PROVE ConnectingAsks'
  <2>1. \/ status' = status
        \/ status' = [status EXCEPT ![<<r, 1>>] = "INIT"]
    BY <1>1 DEF LookUpOrNewIpcConnection, NewIpcConnection
  <2>2. ams' = ams
    BY <1>1 DEF LookUpOrNewIpcConnection
  <2> QED
    BY <2>1, <2>2 DEF TypeOK, ConnectingAsks
<1>2. ASSUME NEW r \in Req, ConnectNativeInit(r) PROVE ConnectingAsks'
  BY <1>2
     DEF TypeOK, ConnectingAsks, ConnectNativeInit, AskedBegun, Begun
<1>3. ASSUME NEW r \in Req, RetryNew(r) PROVE ConnectingAsks'
  <2>1. \/ status' = status
        \/ status' = [status EXCEPT ![<<r, 2>>] = "INIT"]
    BY <1>3 DEF RetryNew, NewIpcConnection
  <2>2. ams' = ams
    BY <1>3 DEF RetryNew
  <2> QED
    BY <2>1, <2>2 DEF TypeOK, ConnectingAsks
<1>4. ASSUME NEW t \in Closing, CloseCheckEmpty(t) PROVE ConnectingAsks'
  BY <1>4
     DEF TypeOK, ConnectingAsks, CloseCheckEmpty, IsRequestListEmpty
<1>5. ASSUME NEW t \in Closing, CloseAbility(t) PROVE ConnectingAsks'
  BY <1>5
     DEF TypeOK, ConnectingAsks, CloseAbility, DisconnectAbilityOk,
         DisconnectAbilityErr, CloseAt, CloseWorks, CloseGivenUp, connVars
<1>6. ASSUME NEW r \in Req, DeathBegin(r) PROVE ConnectingAsks'
  BY <1>6
     DEF TypeOK, ConnectingAsks, DeathBegin
<1>7. ASSUME NEW r \in Req, DeathAbility(r) PROVE ConnectingAsks'
  BY <1>7
     DEF TypeOK, ConnectingAsks, DeathAbility, DisconnectAbilityOk,
         DisconnectAbilityErr, DeathAt, DeathWorks, DeathGivenUp, connVars
<1>8. ASSUME NEW c \in Conn, OnAbilityConnectDone(c) PROVE ConnectingAsks'
  BY <1>8
     DEF TypeOK, ConnectingAsks, OnAbilityConnectDone, IsConnecting,
         MovePending, connVars
<1>9. ASSUME NEW c \in Conn, OnAbilityConnectFailed(c) PROVE ConnectingAsks'
  BY <1>9
     DEF TypeOK, ConnectingAsks, OnAbilityConnectFailed, IsConnecting,
         MovePending
<1>10. ASSUME NEW c \in Conn, OnAbilityDisconnectDone(c) PROVE ConnectingAsks'
  BY <1>10
     DEF TypeOK, ConnectingAsks, OnAbilityDisconnectDone
<1>11. ASSUME NEW c \in Conn, ExtensionCrashes(c) PROVE ConnectingAsks'
  BY <1>11
     DEF TypeOK, ConnectingAsks, ExtensionCrashes, connVars
<1>12. ASSUME UNCHANGED <<status, ams>> PROVE ConnectingAsks'
  BY <1>12
     DEF TypeOK, ConnectingAsks
<1> QED
  BY <1>1, <1>2, <1>3, <1>4, <1>5, <1>6, <1>7, <1>8, <1>9, <1>10, <1>11,
     <1>12
     DEF Next, vars, ConnectCall, CloseCall, DeathHandler, AbilityCallback,
         DisconnectDone, ConnectBegin, ConnectRejected,
         ConnectNativeDisconnected, ConnectNativeConnecting,
         ConnectNativeConnected, RetryDelete, ConnectCheckEmpty,
         ConnectClean, ConnectCleanCheck, ConnectStopExit, DisconnectBegin,
         DisconnectLookUp, StopBegin, CloseRemove, CloseTell, CloseDelete,
         DeathTell, DeathClean, DeathCleanCheck, DisconnectDoneClean,
         DisconnectDoneCheck, RunTask, ExitSaProcess, UnloadSystemAbility,
         CallerDies, connVars

(* NewIpcConnection maps the key the connection is made for.               *)
LEMMA MapKeysStep ==
  ASSUME TypeOK, MapKeys, [Next]_vars
  PROVE  MapKeys'
<1>1. ASSUME NEW r \in Req, LookUpOrNewIpcConnection(r) PROVE MapKeys'
  <2>1. \/ connMap' = connMap
        \/ connMap' = [connMap EXCEPT ![KeyOf[r]] = <<r, 1>>]
    BY <1>1 DEF LookUpOrNewIpcConnection, NewIpcConnection
  <2> QED
    BY <2>1 DEF TypeOK, ConnKey, MapKeys
<1>2. ASSUME NEW r \in Req, RetryDelete(r) PROVE MapKeys'
  BY <1>2
     DEF TypeOK, ConnKey, MapKeys, RetryDelete, DeleteIpcConnect
<1>3. ASSUME NEW r \in Req, RetryNew(r) PROVE MapKeys'
  <2>1. \/ connMap' = connMap
        \/ connMap' = [connMap EXCEPT ![KeyOf[r]] = <<r, 2>>]
    BY <1>3 DEF RetryNew, NewIpcConnection
  <2> QED
    BY <2>1 DEF TypeOK, ConnKey, MapKeys
<1>4. ASSUME NEW r \in Req, ConnectClean(r) PROVE MapKeys'
  BY <1>4
     DEF TypeOK, ConnKey, MapKeys, ConnectClean, DeleteIpcConnect
<1>5. ASSUME NEW t \in Closing, CloseDelete(t) PROVE MapKeys'
  BY <1>5
     DEF TypeOK, ConnKey, MapKeys, CloseDelete, DeleteIpcConnect
<1>6. ASSUME NEW r \in Req, DeathClean(r) PROVE MapKeys'
  BY <1>6
     DEF TypeOK, ConnKey, MapKeys, DeathClean, DeleteIpcConnect
<1>7. ASSUME NEW c \in Conn, DisconnectDoneClean(c) PROVE MapKeys'
  BY <1>7
     DEF TypeOK, ConnKey, MapKeys, DisconnectDoneClean, DeleteIpcConnect
<1>8. ASSUME UNCHANGED <<connMap>> PROVE MapKeys'
  BY <1>8
     DEF TypeOK, ConnKey, MapKeys
<1> QED
  BY <1>1, <1>2, <1>3, <1>4, <1>5, <1>6, <1>7, <1>8
     DEF Next, vars, ConnectCall, CloseCall, DeathHandler, AbilityCallback,
         DisconnectDone, ConnectBegin, ConnectRejected,
         ConnectNativeDisconnected, ConnectNativeInit,
         ConnectNativeConnecting, ConnectNativeConnected, ConnectCheckEmpty,
         ConnectCleanCheck, ConnectStopExit, DisconnectBegin,
         DisconnectLookUp, StopBegin, CloseRemove, CloseTell,
         CloseCheckEmpty, CloseAbility, DeathBegin, DeathTell, DeathAbility,
         DeathCleanCheck, OnAbilityConnectDone, OnAbilityConnectFailed,
         OnAbilityDisconnectDone, DisconnectDoneCheck, RunTask,
         ExitSaProcess, UnloadSystemAbility, CallerDies, ExtensionCrashes,
         mapVars

(* A connect call works on a connection of its own key.                    *)
LEMMA CallKeysStep ==
  ASSUME TypeOK, MapKeys, CallKeys, [Next]_vars
  PROVE  CallKeys'
<1>1. ASSUME NEW r \in Req, LookUpOrNewIpcConnection(r) PROVE CallKeys'
  BY <1>1
     DEF TypeOK, ConnKey, MapKeys, CallKeys, LookUpOrNewIpcConnection
<1>2. ASSUME NEW r \in Req, RetryNew(r) PROVE CallKeys'
  <2>1. \/ cconn' = cconn
        \/ cconn' = [cconn EXCEPT ![r] = <<r, 2>>]
    BY <1>2 DEF RetryNew
  <2>2. ConnKey(<<r, 2>>) = KeyOf[r]
    BY DEF ConnKey
  <2> QED
    BY <2>1, <2>2 DEF TypeOK, CallKeys
<1>3. ASSUME UNCHANGED <<cconn>> PROVE CallKeys'
  BY <1>3
     DEF TypeOK, ConnKey, MapKeys, CallKeys
<1> QED
  BY <1>1, <1>2, <1>3
     DEF Next, vars, ConnectCall, CloseCall, DeathHandler, AbilityCallback,
         DisconnectDone, ConnectBegin, ConnectRejected,
         ConnectNativeDisconnected, ConnectNativeInit,
         ConnectNativeConnecting, ConnectNativeConnected, RetryDelete,
         ConnectCheckEmpty, ConnectClean, ConnectCleanCheck, ConnectStopExit,
         DisconnectBegin, DisconnectLookUp, StopBegin, CloseRemove,
         CloseTell, CloseCheckEmpty, CloseAbility, CloseDelete, DeathBegin,
         DeathTell, DeathAbility, DeathClean, DeathCleanCheck,
         OnAbilityConnectDone, OnAbilityConnectFailed,
         OnAbilityDisconnectDone, DisconnectDoneClean, DisconnectDoneCheck,
         RunTask, ExitSaProcess, UnloadSystemAbility, CallerDies,
         ExtensionCrashes, connectVars

(* So does the death recipient of a request.                               *)
LEMMA RecipientKeysStep ==
  ASSUME TypeOK, CallKeys, RecipientKeys, [Next]_vars
  PROVE  RecipientKeys'
<1>1. ASSUME NEW r \in Req, ConnectNativeInit(r) PROVE RecipientKeys'
  <2>1. \/ recipient' = recipient
        \/ recipient' = [recipient EXCEPT ![r] = cconn[r]]
        \/ recipient' = [recipient EXCEPT ![r] = NoConn]
    BY <1>1 DEF ConnectNativeInit, ConnectAccepted, ConnectFailed
  <2> QED
    BY <2>1 DEF TypeOK, CallKeys, RecipientKeys
<1>2. ASSUME NEW r \in Req, ConnectNativeConnecting(r) PROVE RecipientKeys'
  <2>1. \/ recipient' = recipient
        \/ recipient' = [recipient EXCEPT ![r] = cconn[r]]
        \/ recipient' = [recipient EXCEPT ![r] = NoConn]
    BY <1>2 DEF ConnectNativeConnecting, ConnectAccepted, ConnectFailed
  <2> QED
    BY <2>1 DEF TypeOK, CallKeys, RecipientKeys
<1>3. ASSUME NEW r \in Req, ConnectNativeConnected(r) PROVE RecipientKeys'
  <2>1. \/ recipient' = recipient
        \/ recipient' = [recipient EXCEPT ![r] = cconn[r]]
        \/ recipient' = [recipient EXCEPT ![r] = NoConn]
    BY <1>3 DEF ConnectNativeConnected, ConnectAccepted, ConnectFailed
  <2> QED
    BY <2>1 DEF TypeOK, CallKeys, RecipientKeys
<1>4. ASSUME UNCHANGED <<recipient>> PROVE RecipientKeys'
  BY <1>4
     DEF RecipientKeys
<1> QED
  BY <1>1, <1>2, <1>3, <1>4
     DEF Next, vars, ConnectCall, CloseCall, DeathHandler, AbilityCallback,
         DisconnectDone, ConnectBegin, ConnectRejected,
         LookUpOrNewIpcConnection, ConnectNativeDisconnected, RetryDelete,
         RetryNew, ConnectCheckEmpty, ConnectClean, ConnectCleanCheck,
         ConnectStopExit, DisconnectBegin, DisconnectLookUp, StopBegin,
         CloseRemove, CloseTell, CloseCheckEmpty, CloseAbility, CloseDelete,
         DeathBegin, DeathTell, DeathAbility, DeathClean, DeathCleanCheck,
         OnAbilityConnectDone, OnAbilityConnectFailed,
         OnAbilityDisconnectDone, DisconnectDoneClean, DisconnectDoneCheck,
         RunTask, ExitSaProcess, UnloadSystemAbility, CallerDies,
         ExtensionCrashes, ConnectFailed, reqVars

(* So does every pending request.                                          *)
LEMMA PendingKeysStep ==
  ASSUME TypeOK, CallKeys, PendingKeys, [Next]_vars
  PROVE  PendingKeys'
<1>1. ASSUME NEW r \in Req, ConnectNativeInit(r) PROVE PendingKeys'
  BY <1>1
     DEF TypeOK, CallKeys, PendingKeys, ConnectNativeInit,
         RemovePendingRequestUnlock
<1>2. ASSUME NEW r \in Req, ConnectNativeConnecting(r) PROVE PendingKeys'
  BY <1>2
     DEF TypeOK, CallKeys, PendingKeys, ConnectNativeConnecting
<1>3. ASSUME NEW t \in Closing, CloseRemove(t) PROVE PendingKeys'
  <2>1. pending' = pending \/ pending' = Erased(pending, dconn[t], t[1])
    BY <1>3 DEF CloseRemove
  <2>2. \A c \in Conn : pending'[c] \subseteq pending[c]
    BY <2>1, ErasedWithin DEF TypeOK
  <2> QED
    BY <2>2 DEF PendingKeys
<1>4. ASSUME NEW c \in Conn, OnAbilityConnectDone(c) PROVE PendingKeys'
  BY <1>4
     DEF TypeOK, CallKeys, PendingKeys, OnAbilityConnectDone, IsConnecting,
         MovePending, connVars
<1>5. ASSUME NEW c \in Conn, OnAbilityConnectFailed(c) PROVE PendingKeys'
  BY <1>5
     DEF TypeOK, CallKeys, PendingKeys, OnAbilityConnectFailed, IsConnecting,
         MovePending
<1>6. ASSUME NEW c \in Conn, OnAbilityDisconnectDone(c) PROVE PendingKeys'
  BY <1>6
     DEF TypeOK, CallKeys, PendingKeys, OnAbilityDisconnectDone
<1>7. ASSUME UNCHANGED <<pending>> PROVE PendingKeys'
  BY <1>7
     DEF TypeOK, CallKeys, PendingKeys
<1> QED
  BY <1>1, <1>2, <1>3, <1>4, <1>5, <1>6, <1>7
     DEF Next, vars, ConnectCall, CloseCall, DeathHandler, AbilityCallback,
         DisconnectDone, ConnectBegin, ConnectRejected,
         LookUpOrNewIpcConnection, ConnectNativeDisconnected,
         ConnectNativeConnected, RetryDelete, RetryNew, ConnectCheckEmpty,
         ConnectClean, ConnectCleanCheck, ConnectStopExit, DisconnectBegin,
         DisconnectLookUp, StopBegin, CloseTell, CloseCheckEmpty,
         CloseAbility, CloseDelete, DeathBegin, DeathTell, DeathAbility,
         DeathClean, DeathCleanCheck, DisconnectDoneClean,
         DisconnectDoneCheck, RunTask, ExitSaProcess, UnloadSystemAbility,
         CallerDies, ExtensionCrashes, connVars

(* A connection that has been connecting is never made anew.               *)
BegunStays == \A c \in Conn : Begun(c) => status'[c] \notin {"NONE", "INIT"}

(* NewIpcConnection is the only operation that sets INIT, and makes a new  *)
(* connection.                                                             *)
LEMMA BegunStaysStep ==
  ASSUME TypeOK, NotMadeYet, [Next]_vars
  PROVE  BegunStays
<1>1. ASSUME NEW r \in Req, LookUpOrNewIpcConnection(r) PROVE BegunStays
  <2>1. <<r, 1>> \in Conn /\ status[<<r, 1>>] = "NONE"
    BY <1>1, NewConnIsConn DEF NotMadeYet, LookUpOrNewIpcConnection, ConnectAt
  <2>2. \/ status' = status
        \/ status' = [status EXCEPT ![<<r, 1>>] = "INIT"]
    BY <1>1 DEF LookUpOrNewIpcConnection, NewIpcConnection
  <2> QED
    BY <2>1, <2>2 DEF TypeOK, BegunStays, Begun
<1>2. ASSUME NEW r \in Req, ConnectNativeInit(r) PROVE BegunStays
  BY <1>2
     DEF TypeOK, BegunStays, Begun, ConnectNativeInit
<1>3. ASSUME NEW r \in Req, RetryNew(r) PROVE BegunStays
  <2>1. <<r, 2>> \in Conn /\ status[<<r, 2>>] = "NONE"
    BY <1>3, NewConnIsConn DEF NotMadeYet, RetryNew, ConnectAt
  <2>2. \/ status' = status
        \/ status' = [status EXCEPT ![<<r, 2>>] = "INIT"]
    BY <1>3 DEF RetryNew, NewIpcConnection
  <2> QED
    BY <2>1, <2>2 DEF TypeOK, BegunStays, Begun
<1>4. ASSUME NEW t \in Closing, CloseCheckEmpty(t) PROVE BegunStays
  BY <1>4
     DEF TypeOK, BegunStays, Begun, CloseCheckEmpty
<1>5. ASSUME NEW r \in Req, DeathBegin(r) PROVE BegunStays
  BY <1>5
     DEF TypeOK, BegunStays, Begun, DeathBegin
<1>6. ASSUME NEW c \in Conn, OnAbilityConnectDone(c) PROVE BegunStays
  BY <1>6
     DEF TypeOK, BegunStays, Begun, OnAbilityConnectDone, IsConnecting,
         connVars
<1>7. ASSUME NEW c \in Conn, OnAbilityConnectFailed(c) PROVE BegunStays
  BY <1>7
     DEF TypeOK, BegunStays, Begun, OnAbilityConnectFailed, IsConnecting
<1>8. ASSUME NEW c \in Conn, OnAbilityDisconnectDone(c) PROVE BegunStays
  BY <1>8
     DEF TypeOK, BegunStays, Begun, OnAbilityDisconnectDone
<1>9. ASSUME UNCHANGED <<status>> PROVE BegunStays
  BY <1>9
     DEF TypeOK, BegunStays, Begun
<1> QED
  BY <1>1, <1>2, <1>3, <1>4, <1>5, <1>6, <1>7, <1>8, <1>9
     DEF Next, vars, ConnectCall, CloseCall, DeathHandler, AbilityCallback,
         DisconnectDone, ConnectBegin, ConnectRejected,
         ConnectNativeDisconnected, ConnectNativeConnecting,
         ConnectNativeConnected, RetryDelete, ConnectCheckEmpty,
         ConnectClean, ConnectCleanCheck, ConnectStopExit, DisconnectBegin,
         DisconnectLookUp, StopBegin, CloseRemove, CloseTell, CloseAbility,
         CloseDelete, DeathTell, DeathAbility, DeathClean, DeathCleanCheck,
         DisconnectDoneClean, DisconnectDoneCheck, RunTask, ExitSaProcess,
         UnloadSystemAbility, CallerDies, ExtensionCrashes, connVars

(* ConnectNative accepts a request on a connection that is being made or is*)
(* made.                                                                   *)
LEMMA RecipientBegunStep ==
  ASSUME TypeOK, BegunStays, RecipientBegun, [Next]_vars
  PROVE  RecipientBegun'
<1>a. \A r \in Req : recipient[r] # NoConn => status'[recipient[r]] \notin {"NONE", "INIT"}
  BY DEF TypeOK, RecipientBegun, BegunStays, Begun
<1>1. ASSUME NEW r \in Req, ConnectNativeInit(r) PROVE RecipientBegun'
  <2>1. \/ recipient' = recipient
        \/ recipient' = [recipient EXCEPT ![r] = NoConn]
        \/ /\ recipient' = [recipient EXCEPT ![r] = cconn[r]]
           /\ cconn[r] # NoConn => status'[cconn[r]] \notin {"NONE", "INIT"}
    BY <1>1 DEF TypeOK, ConnectNativeInit, ConnectAccepted, ConnectFailed, Begun
  <2> QED
    BY <2>1, <1>a DEF TypeOK, RecipientBegun, Begun
<1>2. ASSUME NEW r \in Req, ConnectNativeConnecting(r) PROVE RecipientBegun'
  <2>1. \/ recipient' = recipient
        \/ recipient' = [recipient EXCEPT ![r] = NoConn]
        \/ /\ recipient' = [recipient EXCEPT ![r] = cconn[r]]
           /\ cconn[r] # NoConn => status'[cconn[r]] \notin {"NONE", "INIT"}
    BY <1>2 DEF TypeOK, ConnectNativeConnecting, ConnectAccepted, ConnectFailed, Begun
  <2> QED
    BY <2>1, <1>a DEF TypeOK, RecipientBegun, Begun
<1>3. ASSUME NEW r \in Req, ConnectNativeConnected(r) PROVE RecipientBegun'
  <2>1. \/ recipient' = recipient
        \/ recipient' = [recipient EXCEPT ![r] = NoConn]
        \/ /\ recipient' = [recipient EXCEPT ![r] = cconn[r]]
           /\ cconn[r] # NoConn => status'[cconn[r]] \notin {"NONE", "INIT"}
    BY <1>3 DEF TypeOK, ConnectNativeConnected, ConnectAccepted, ConnectFailed, Begun
  <2> QED
    BY <2>1, <1>a DEF TypeOK, RecipientBegun, Begun
<1>4. ASSUME UNCHANGED <<recipient>> PROVE RecipientBegun'
  BY <1>4, <1>a
     DEF RecipientBegun, Begun
<1> QED
  BY <1>1, <1>2, <1>3, <1>4
     DEF Next, vars, ConnectCall, CloseCall, DeathHandler, AbilityCallback,
         DisconnectDone, ConnectBegin, ConnectRejected,
         LookUpOrNewIpcConnection, ConnectNativeDisconnected, RetryDelete,
         RetryNew, ConnectCheckEmpty, ConnectClean, ConnectCleanCheck,
         ConnectStopExit, DisconnectBegin, DisconnectLookUp, StopBegin,
         CloseRemove, CloseTell, CloseCheckEmpty, CloseAbility, CloseDelete,
         DeathBegin, DeathTell, DeathAbility, DeathClean, DeathCleanCheck,
         OnAbilityConnectDone, OnAbilityConnectFailed,
         OnAbilityDisconnectDone, DisconnectDoneClean, DisconnectDoneCheck,
         RunTask, ExitSaProcess, UnloadSystemAbility, CallerDies,
         ExtensionCrashes, ConnectFailed, reqVars

(* DisconnectNative takes requests from such a connection only.            *)
LEMMA CloseBegunStep ==
  ASSUME TypeOK, CloseWorks, PendingWaits, ConnectedStatus, BegunStays,
         CloseBegun, [Next]_vars
  PROVE  CloseBegun'
<1>a. \A t \in Closing : dpc[t] \in {"tell", "checkEmpty"}
        => status'[dconn[t]] \notin {"NONE", "INIT"}
  BY DEF TypeOK, CloseWorks, CloseBegun, BegunStays, Begun
<1>1. ASSUME NEW r \in Req, DisconnectBegin(r) PROVE CloseBegun'
  BY <1>1, <1>a
     DEF TypeOK, CloseBegun, Begun, DisconnectBegin, CloseEnd, CloseAt
<1>2. ASSUME NEW r \in Req, DisconnectLookUp(r) PROVE CloseBegun'
  BY <1>2, <1>a
     DEF TypeOK, CloseBegun, Begun, DisconnectLookUp, CloseEnd, CloseAt
<1>3. ASSUME NEW r \in Req, StopBegin(r) PROVE CloseBegun'
  BY <1>3, <1>a
     DEF TypeOK, CloseBegun, Begun, StopBegin, CloseEnd, CloseAt
<1>4. ASSUME NEW t \in Closing, CloseRemove(t) PROVE CloseBegun'
  <2>1. dconn[t] \in Conn /\ dconn' = dconn
    BY <1>4 DEF TypeOK, CloseWorks, CloseRemove, CloseAt
  <2>2. \/ dpc' = [dpc EXCEPT ![t] = "done"]
        \/ /\ dpc' = [dpc EXCEPT ![t] = "tell"]
           /\ t[1] \in pending[dconn[t]] \cup connected[dconn[t]]
    BY <1>4 DEF CloseRemove, CloseEnd
  <2>3. pending[dconn[t]] \cup connected[dconn[t]] # {}
           => status'[dconn[t]] \notin {"NONE", "INIT"}
    BY <2>1 DEF PendingWaits, ConnectedStatus, BegunStays, Begun
  <2> QED
    BY <1>a, <2>1, <2>2, <2>3 DEF TypeOK, CloseBegun, Begun
<1>5. ASSUME NEW t \in Closing, CloseTell(t) PROVE CloseBegun'
  BY <1>5, <1>a
     DEF TypeOK, CloseBegun, Begun, CloseTell, CloseEnd, CloseAt
<1>6. ASSUME NEW t \in Closing, CloseCheckEmpty(t) PROVE CloseBegun'
  BY <1>6, <1>a
     DEF TypeOK, CloseBegun, Begun, CloseCheckEmpty, CloseEnd, CloseAt
<1>7. ASSUME NEW t \in Closing, CloseAbility(t) PROVE CloseBegun'
  BY <1>7, <1>a
     DEF TypeOK, CloseBegun, Begun, CloseAbility, CloseEnd, CloseAt
<1>8. ASSUME NEW t \in Closing, CloseDelete(t) PROVE CloseBegun'
  BY <1>8, <1>a
     DEF TypeOK, CloseBegun, Begun, CloseDelete, CloseEnd, CloseAt
<1>9. ASSUME UNCHANGED <<dpc, dconn>> PROVE CloseBegun'
  BY <1>9, <1>a
     DEF TypeOK, CloseBegun, Begun
<1> QED
  BY <1>1, <1>2, <1>3, <1>4, <1>5, <1>6, <1>7, <1>8, <1>9
     DEF Next, vars, ConnectCall, CloseCall, DeathHandler, AbilityCallback,
         DisconnectDone, ConnectBegin, ConnectRejected,
         LookUpOrNewIpcConnection, ConnectNativeDisconnected,
         ConnectNativeInit, ConnectNativeConnecting, ConnectNativeConnected,
         RetryDelete, RetryNew, ConnectCheckEmpty, ConnectClean,
         ConnectCleanCheck, ConnectStopExit, DeathBegin, DeathTell,
         DeathAbility, DeathClean, DeathCleanCheck, OnAbilityConnectDone,
         OnAbilityConnectFailed, OnAbilityDisconnectDone,
         DisconnectDoneClean, DisconnectDoneCheck, RunTask, ExitSaProcess,
         UnloadSystemAbility, CallerDies, ExtensionCrashes, closeVars

(* A connection begins to connect with the call to the ability manager.    *)
LEMMA BegunAskedStep ==
  ASSUME TypeOK, CloseWorks, CloseBegun, RecipientBegun, BegunAsked,
         [Next]_vars
  PROVE  BegunAsked'
<1>1. ASSUME NEW r \in Req, LookUpOrNewIpcConnection(r) PROVE BegunAsked'
  <2>1. \/ status' = status
        \/ status' = [status EXCEPT ![<<r, 1>>] = "INIT"]
    BY <1>1 DEF LookUpOrNewIpcConnection, NewIpcConnection
  <2>2. ams' = ams
    BY <1>1 DEF LookUpOrNewIpcConnection
  <2> QED
    BY <2>1, <2>2 DEF TypeOK, BegunAsked, Begun
<1>2. ASSUME NEW r \in Req, ConnectNativeInit(r) PROVE BegunAsked'
  BY <1>2
     DEF TypeOK, BegunAsked, Begun, ConnectNativeInit
<1>3. ASSUME NEW r \in Req, RetryNew(r) PROVE BegunAsked'
  <2>1. \/ status' = status
        \/ status' = [status EXCEPT ![<<r, 2>>] = "INIT"]
    BY <1>3 DEF RetryNew, NewIpcConnection
  <2>2. ams' = ams
    BY <1>3 DEF RetryNew
  <2> QED
    BY <2>1, <2>2 DEF TypeOK, BegunAsked, Begun
<1>4. ASSUME NEW t \in Closing, CloseCheckEmpty(t) PROVE BegunAsked'
  BY <1>4
     DEF TypeOK, BegunAsked, Begun, CloseCheckEmpty, CloseAt, CloseBegun,
         CloseWorks
<1>5. ASSUME NEW t \in Closing, CloseAbility(t) PROVE BegunAsked'
  BY <1>5
     DEF TypeOK, BegunAsked, Begun, CloseAbility, DisconnectAbilityOk,
         DisconnectAbilityErr, connVars
<1>6. ASSUME NEW r \in Req, DeathBegin(r) PROVE BegunAsked'
  BY <1>6
     DEF TypeOK, BegunAsked, Begun, DeathBegin, RecipientBegun
<1>7. ASSUME NEW r \in Req, DeathAbility(r) PROVE BegunAsked'
  BY <1>7
     DEF TypeOK, BegunAsked, Begun, DeathAbility, DisconnectAbilityOk,
         DisconnectAbilityErr, connVars
<1>8. ASSUME NEW c \in Conn, OnAbilityConnectDone(c) PROVE BegunAsked'
  BY <1>8
     DEF TypeOK, BegunAsked, Begun, OnAbilityConnectDone, IsConnecting,
         connVars
<1>9. ASSUME NEW c \in Conn, OnAbilityConnectFailed(c) PROVE BegunAsked'
  BY <1>9
     DEF TypeOK, BegunAsked, Begun, OnAbilityConnectFailed, IsConnecting
<1>10. ASSUME NEW c \in Conn, OnAbilityDisconnectDone(c) PROVE BegunAsked'
  BY <1>10
     DEF TypeOK, BegunAsked, Begun, OnAbilityDisconnectDone
<1>11. ASSUME NEW c \in Conn, ExtensionCrashes(c) PROVE BegunAsked'
  BY <1>11
     DEF TypeOK, BegunAsked, Begun, ExtensionCrashes, connVars
<1>12. ASSUME UNCHANGED <<status, ams>> PROVE BegunAsked'
  BY <1>12
     DEF TypeOK, BegunAsked, Begun
<1> QED
  BY <1>1, <1>2, <1>3, <1>4, <1>5, <1>6, <1>7, <1>8, <1>9, <1>10, <1>11,
     <1>12
     DEF Next, vars, ConnectCall, CloseCall, DeathHandler, AbilityCallback,
         DisconnectDone, ConnectBegin, ConnectRejected,
         ConnectNativeDisconnected, ConnectNativeConnecting,
         ConnectNativeConnected, RetryDelete, ConnectCheckEmpty,
         ConnectClean, ConnectCleanCheck, ConnectStopExit, DisconnectBegin,
         DisconnectLookUp, StopBegin, CloseRemove, CloseTell, CloseDelete,
         DeathTell, DeathClean, DeathCleanCheck, DisconnectDoneClean,
         DisconnectDoneCheck, RunTask, ExitSaProcess, UnloadSystemAbility,
         CallerDies, connVars

(* The call to the ability manager begins to connect a connection.         *)
LEMMA AskedBegunStep ==
  ASSUME TypeOK, CloseWorks, BegunStays, AskedBegun, [Next]_vars
  PROVE  AskedBegun'
<1>a. \A c \in Conn : ams[c] # "none" => Begun(c) /\ status'[c] \notin {"NONE", "INIT"}
  BY DEF AskedBegun, BegunStays
<1>1. ASSUME NEW r \in Req, LookUpOrNewIpcConnection(r) PROVE AskedBegun'
  BY <1>1, <1>a
     DEF TypeOK, AskedBegun, Begun, LookUpOrNewIpcConnection
<1>2. ASSUME NEW r \in Req, ConnectNativeInit(r) PROVE AskedBegun'
  BY <1>2, <1>a
     DEF TypeOK, AskedBegun, Begun, ConnectNativeInit
<1>3. ASSUME NEW r \in Req, RetryNew(r) PROVE AskedBegun'
  BY <1>3, <1>a
     DEF TypeOK, AskedBegun, Begun, RetryNew
<1>4. ASSUME NEW t \in Closing, CloseCheckEmpty(t) PROVE AskedBegun'
  BY <1>4, <1>a
     DEF TypeOK, AskedBegun, Begun, CloseCheckEmpty
<1>5. ASSUME NEW t \in Closing, CloseAbility(t) PROVE AskedBegun'
  BY <1>5, <1>a
     DEF TypeOK, AskedBegun, Begun, CloseAbility, DisconnectAbilityOk,
         DisconnectAbilityErr, connVars
<1>6. ASSUME NEW r \in Req, DeathBegin(r) PROVE AskedBegun'
  BY <1>6, <1>a
     DEF TypeOK, AskedBegun, Begun, DeathBegin
<1>7. ASSUME NEW r \in Req, DeathAbility(r) PROVE AskedBegun'
  BY <1>7, <1>a
     DEF TypeOK, AskedBegun, Begun, DeathAbility, DisconnectAbilityOk,
         DisconnectAbilityErr, connVars
<1>8. ASSUME NEW c \in Conn, OnAbilityConnectDone(c) PROVE AskedBegun'
  BY <1>8, <1>a
     DEF TypeOK, AskedBegun, Begun, OnAbilityConnectDone, IsConnecting,
         connVars
<1>9. ASSUME NEW c \in Conn, OnAbilityConnectFailed(c) PROVE AskedBegun'
  BY <1>9, <1>a
     DEF TypeOK, AskedBegun, Begun, OnAbilityConnectFailed, IsConnecting
<1>10. ASSUME NEW c \in Conn, OnAbilityDisconnectDone(c) PROVE AskedBegun'
  BY <1>10, <1>a
     DEF TypeOK, AskedBegun, Begun, OnAbilityDisconnectDone
<1>11. ASSUME NEW c \in Conn, ExtensionCrashes(c) PROVE AskedBegun'
  BY <1>11, <1>a
     DEF TypeOK, AskedBegun, Begun, ExtensionCrashes, connVars
<1>12. ASSUME UNCHANGED <<status, ams>> PROVE AskedBegun'
  BY <1>12, <1>a
     DEF TypeOK, AskedBegun, Begun
<1> QED
  BY <1>1, <1>2, <1>3, <1>4, <1>5, <1>6, <1>7, <1>8, <1>9, <1>10, <1>11,
     <1>12
     DEF Next, vars, ConnectCall, CloseCall, DeathHandler, AbilityCallback,
         DisconnectDone, ConnectBegin, ConnectRejected,
         ConnectNativeDisconnected, ConnectNativeConnecting,
         ConnectNativeConnected, RetryDelete, ConnectCheckEmpty,
         ConnectClean, ConnectCleanCheck, ConnectStopExit, DisconnectBegin,
         DisconnectLookUp, StopBegin, CloseRemove, CloseTell, CloseDelete,
         DeathTell, DeathClean, DeathCleanCheck, DisconnectDoneClean,
         DisconnectDoneCheck, RunTask, ExitSaProcess, UnloadSystemAbility,
         CallerDies, connVars

(* A connect call that has looked up its connection has one.               *)
LEMMA ConnectWorksStep ==
  ASSUME TypeOK, ConnectWorks, [Next]_vars
  PROVE  ConnectWorks'
<1>1. ASSUME NEW r \in Req, ConnectBegin(r) PROVE ConnectWorks'
  BY <1>1
     DEF TypeOK, ConnectWorks, ConnectAt, ConnectBegin
<1>2. ASSUME NEW r \in Req, ConnectRejected(r) PROVE ConnectWorks'
  BY <1>2
     DEF TypeOK, ConnectWorks, ConnectAt, ConnectRejected
<1>3. ASSUME NEW r \in Req, LookUpOrNewIpcConnection(r) PROVE ConnectWorks'
  <2>1. <<r, 1>> # NoConn
    BY NewConnIsConn
  <2>2. \/ cpc' = [cpc EXCEPT ![r] = "done"] /\ cconn' = cconn
        \/ \E c : /\ c # NoConn
                 /\ cconn' = [cconn EXCEPT ![r] = c] /\ cpc' = [cpc EXCEPT ![r] = "connect"]
    BY <1>3, <2>1 DEF LookUpOrNewIpcConnection
  <2> QED
    BY <2>2 DEF TypeOK, ConnectWorks
<1>4. ASSUME NEW r \in Req, ConnectNativeDisconnected(r) PROVE ConnectWorks'
  BY <1>4
     DEF TypeOK, ConnectWorks, ConnectAt, ConnectNativeDisconnected,
         ConnectFailed, ConnectAccepted
<1>5. ASSUME NEW r \in Req, ConnectNativeInit(r) PROVE ConnectWorks'
  <2>1. cconn' = cconn
    BY <1>5 DEF ConnectNativeInit
  <2>2. \/ cpc' = [cpc EXCEPT ![r] = "stopExit"]
        \/ cpc' = [cpc EXCEPT ![r] = "checkEmpty"]
    BY <1>5 DEF ConnectNativeInit, ConnectAccepted, ConnectFailed
  <2> QED
    BY <2>1, <2>2 DEF TypeOK, ConnectWorks
<1>6. ASSUME NEW r \in Req, ConnectNativeConnecting(r) PROVE ConnectWorks'
  BY <1>6
     DEF TypeOK, ConnectWorks, ConnectAt, ConnectNativeConnecting,
         ConnectFailed, ConnectAccepted
<1>7. ASSUME NEW r \in Req, ConnectNativeConnected(r) PROVE ConnectWorks'
  BY <1>7
     DEF TypeOK, ConnectWorks, ConnectAt, ConnectNativeConnected,
         ConnectFailed, ConnectAccepted
<1>8. ASSUME NEW r \in Req, RetryDelete(r) PROVE ConnectWorks'
  BY <1>8
     DEF TypeOK, ConnectWorks, ConnectAt, RetryDelete
<1>9. ASSUME NEW r \in Req, RetryNew(r) PROVE ConnectWorks'
  <2>1. <<r, 2>> # NoConn
    BY NewConnIsConn
  <2>2. \/ cpc' = [cpc EXCEPT ![r] = "done"] /\ cconn' = cconn
        \/ /\ cconn' = [cconn EXCEPT ![r] = <<r, 2>>]
           /\ cpc' = [cpc EXCEPT ![r] = "retryConnect"]
    BY <1>9 DEF RetryNew
  <2> QED
    BY <2>1, <2>2 DEF TypeOK, ConnectWorks
<1>10. ASSUME NEW r \in Req, ConnectCheckEmpty(r) PROVE ConnectWorks'
  BY <1>10
     DEF TypeOK, ConnectWorks, ConnectAt, ConnectCheckEmpty
<1>11. ASSUME NEW r \in Req, ConnectClean(r) PROVE ConnectWorks'
  BY <1>11
     DEF TypeOK, ConnectWorks, ConnectAt, ConnectClean
<1>12. ASSUME NEW r \in Req, ConnectCleanCheck(r) PROVE ConnectWorks'
  BY <1>12
     DEF TypeOK, ConnectWorks, ConnectAt, ConnectCleanCheck
<1>13. ASSUME NEW r \in Req, ConnectStopExit(r) PROVE ConnectWorks'
  BY <1>13
     DEF TypeOK, ConnectWorks, ConnectAt, ConnectStopExit
<1>14. ASSUME UNCHANGED <<cpc, cconn>> PROVE ConnectWorks'
  BY <1>14
     DEF TypeOK, ConnectWorks, ConnectAt
<1> QED
  BY <1>1, <1>2, <1>3, <1>4, <1>5, <1>6, <1>7, <1>8, <1>9, <1>10, <1>11,
     <1>12, <1>13, <1>14
     DEF Next, vars, ConnectCall, CloseCall, DeathHandler, AbilityCallback,
         DisconnectDone, DisconnectBegin, DisconnectLookUp, StopBegin,
         CloseRemove, CloseTell, CloseCheckEmpty, CloseAbility, CloseDelete,
         DeathBegin, DeathTell, DeathAbility, DeathClean, DeathCleanCheck,
         OnAbilityConnectDone, OnAbilityConnectFailed,
         OnAbilityDisconnectDone, DisconnectDoneClean, DisconnectDoneCheck,
         RunTask, ExitSaProcess, UnloadSystemAbility, CallerDies,
         ExtensionCrashes, connectVars

(* A connection is given up with pending requests by HandleCallerDeath     *)
(* only.                                                                   *)
LEMMA OrphansOnlyStep ==
  ASSUME TypeOK, FinalConns, RecipientKeys, OrphansOnly, [Next]_vars
  PROVE  OrphansOnly'
<1>a. \A c \in Conn : status[c] = "DISCONNECTED" => pending'[c] \subseteq pending[c]
  BY DEF FinalConns
<1>1. ASSUME NEW r \in Req, LookUpOrNewIpcConnection(r) PROVE OrphansOnly'
  <2>1. \/ status' = status
        \/ status' = [status EXCEPT ![<<r, 1>>] = "INIT"]
    BY <1>1 DEF LookUpOrNewIpcConnection, NewIpcConnection
  <2>2. pending' = pending /\ alive' = alive
    BY <1>1 DEF LookUpOrNewIpcConnection
  <2> QED
    BY <2>1, <2>2 DEF TypeOK, OrphansOnly, CallersAlive
<1>2. ASSUME NEW r \in Req, ConnectNativeInit(r) PROVE OrphansOnly'
  BY <1>2, <1>a
     DEF TypeOK, OrphansOnly, CallersAlive, ConnectNativeInit
<1>3. ASSUME NEW r \in Req, ConnectNativeConnecting(r) PROVE OrphansOnly'
  BY <1>3, <1>a
     DEF TypeOK, OrphansOnly, CallersAlive, ConnectNativeConnecting
<1>4. ASSUME NEW r \in Req, RetryNew(r) PROVE OrphansOnly'
  <2>1. \/ status' = status
        \/ status' = [status EXCEPT ![<<r, 2>>] = "INIT"]
    BY <1>4 DEF RetryNew, NewIpcConnection
  <2>2. pending' = pending /\ alive' = alive
    BY <1>4 DEF RetryNew
  <2> QED
    BY <2>1, <2>2 DEF TypeOK, OrphansOnly, CallersAlive
<1>5. ASSUME NEW t \in Closing, CloseRemove(t) PROVE OrphansOnly'
  BY <1>5, <1>a
     DEF TypeOK, OrphansOnly, CallersAlive, CloseRemove
<1>6. ASSUME NEW t \in Closing, CloseCheckEmpty(t) PROVE OrphansOnly'
  BY <1>6, <1>a
     DEF TypeOK, OrphansOnly, CallersAlive, CloseCheckEmpty,
         IsRequestListEmpty
<1>7. ASSUME NEW r \in Req, DeathBegin(r) PROVE OrphansOnly'
  BY <1>7, <1>a
     DEF TypeOK, OrphansOnly, CallersAlive, DeathBegin, RecipientKeys,
         ConnKey
<1>8. ASSUME NEW c \in Conn, OnAbilityConnectDone(c) PROVE OrphansOnly'
  BY <1>8, <1>a
     DEF TypeOK, OrphansOnly, CallersAlive, OnAbilityConnectDone, connVars
<1>9. ASSUME NEW c \in Conn, OnAbilityConnectFailed(c) PROVE OrphansOnly'
  BY <1>9, <1>a
     DEF TypeOK, OrphansOnly, CallersAlive, OnAbilityConnectFailed
<1>10. ASSUME NEW c \in Conn, OnAbilityDisconnectDone(c) PROVE OrphansOnly'
  BY <1>10, <1>a
     DEF TypeOK, OrphansOnly, CallersAlive, OnAbilityDisconnectDone
<1>11. ASSUME NEW p \in Proc, CallerDies(p) PROVE OrphansOnly'
  BY <1>11, <1>a
     DEF TypeOK, OrphansOnly, CallersAlive, CallerDies, connVars
<1>12. ASSUME UNCHANGED <<status, pending, alive>> PROVE OrphansOnly'
  BY <1>12, <1>a
     DEF TypeOK, OrphansOnly, CallersAlive
<1> QED
  BY <1>1, <1>2, <1>3, <1>4, <1>5, <1>6, <1>7, <1>8, <1>9, <1>10, <1>11,
     <1>12
     DEF Next, vars, ConnectCall, CloseCall, DeathHandler, AbilityCallback,
         DisconnectDone, ConnectBegin, ConnectRejected,
         ConnectNativeDisconnected, ConnectNativeConnected, RetryDelete,
         ConnectCheckEmpty, ConnectClean, ConnectCleanCheck, ConnectStopExit,
         DisconnectBegin, DisconnectLookUp, StopBegin, CloseTell,
         CloseAbility, CloseDelete, DeathTell, DeathAbility, DeathClean,
         DeathCleanCheck, DisconnectDoneClean, DisconnectDoneCheck, RunTask,
         ExitSaProcess, UnloadSystemAbility, ExtensionCrashes, connVars

(* What the extension has been told is not taken back.                     *)
ToldStays == \A r \in Req : told[r] # <<>> => told'[r] # <<>>

(* A call to the extension is added to what it was told.                   *)
LEMMA TellStays ==
  ASSUME TypeOK, NEW S, NEW call \in ExtCall, Tell(S, call)
  PROVE  ToldStays
<1>1. \A s \in Seq(ExtCall) : Append(s, call) # <<>>
  OBVIOUS
<1> QED
  BY <1>1 DEF TypeOK, Tell, ToldStays

(* The extension is told more and more.                                    *)
LEMMA ToldStaysStep ==
  ASSUME TypeOK, [Next]_vars
  PROVE  ToldStays
<1>1. ASSUME NEW r \in Req, ConnectNativeConnected(r) PROVE ToldStays
  <2>1. told' = told \/ Tell({r}, "ConnectNative")
    BY <1>1 DEF ConnectNativeConnected
  <2> QED
    BY <2>1, TellStays DEF ToldStays, ExtCall
<1>2. ASSUME NEW t \in Closing, CloseTell(t) PROVE ToldStays
  BY <1>2, TellStays DEF CloseTell, ExtCall
<1>3. ASSUME NEW r \in Req, DeathTell(r) PROVE ToldStays
  BY <1>3, TellStays DEF DeathTell, ExtCall
<1>4. ASSUME NEW c \in Conn, OnAbilityConnectDone(c) PROVE ToldStays
  <2>1. told' = told \/ \E S : Tell(S, "ConnectNative")
    BY <1>4 DEF OnAbilityConnectDone, AnswerPending
  <2> QED
    BY <2>1, TellStays DEF ToldStays, ExtCall
<1>5. ASSUME NEW c \in Conn, OnAbilityConnectFailed(c) PROVE ToldStays
  <2>1. told' = told \/ \E S : Tell(S, "ConnectNative")
    BY <1>5 DEF OnAbilityConnectFailed, AnswerPending
  <2> QED
    BY <2>1, TellStays DEF ToldStays, ExtCall
<1>6. ASSUME UNCHANGED <<told>> PROVE ToldStays
  BY <1>6
     DEF ToldStays
<1> QED
  BY <1>1, <1>2, <1>3, <1>4, <1>5, <1>6
     DEF Next, vars, ConnectCall, CloseCall, DeathHandler, AbilityCallback,
         DisconnectDone, ConnectBegin, ConnectRejected,
         LookUpOrNewIpcConnection, ConnectNativeDisconnected,
         ConnectNativeInit, ConnectNativeConnecting, RetryDelete, RetryNew,
         ConnectCheckEmpty, ConnectClean, ConnectCleanCheck, ConnectStopExit,
         DisconnectBegin, DisconnectLookUp, StopBegin, CloseRemove,
         CloseCheckEmpty, CloseAbility, CloseDelete, DeathBegin,
         DeathAbility, DeathClean, DeathCleanCheck, OnAbilityDisconnectDone,
         DisconnectDoneClean, DisconnectDoneCheck, RunTask, ExitSaProcess,
         UnloadSystemAbility, CallerDies, ExtensionCrashes, reqVars

(* StopNativeConnectionFromExtension comes for a request that the extension*)
(* was told of.                                                            *)
LEMMA StopToldStep ==
  ASSUME TypeOK, ToldStays, StopTold, [Next]_vars
  PROVE  StopTold'
<1>a. \A r \in Req : dpc[<<r, "ext">>] # "idle" => told'[r] # <<>>
  BY DEF StopTold, ToldStays
<1>b. ASSUME NEW t \in Closing, dpc[t] # "idle" \/ t[2] # "ext" \/ told'[t[1]] # <<>>,
             NEW step, dpc' = [dpc EXCEPT ![t] = step]
      PROVE  StopTold'
  <2> SUFFICES ASSUME NEW r \in Req, dpc'[<<r, "ext">>] # "idle" PROVE told'[r] # <<>>
    BY DEF StopTold
  <2>1. CASE <<r, "ext">> = t
    BY <1>a, <1>b, <2>1
  <2>2. CASE <<r, "ext">> # t
    BY <1>a, <1>b, <2>2 DEF TypeOK, Closing
  <2> QED
    BY <2>1, <2>2
<1>1. ASSUME NEW r \in Req, DisconnectBegin(r) PROVE StopTold'
  <2>1. <<r, "app">> \in Closing
    BY DEF Closing
  <2>2. \E step : dpc' = [dpc EXCEPT ![<<r, "app">>] = step]
    BY <1>1 DEF DisconnectBegin, CloseEnd
  <2> QED
    BY <1>b, <2>1, <2>2
<1>2. ASSUME NEW r \in Req, DisconnectLookUp(r) PROVE StopTold'
  <2>1. <<r, "app">> \in Closing
    BY DEF Closing
  <2>2. \E step : dpc' = [dpc EXCEPT ![<<r, "app">>] = step]
    BY <1>2 DEF DisconnectLookUp, CloseEnd
  <2> QED
    BY <1>b, <2>1, <2>2
<1>3. ASSUME NEW r \in Req, StopBegin(r) PROVE StopTold'
  <2>1. <<r, "ext">> \in Closing /\ told'[r] # <<>>
    BY <1>3 DEF Closing, StopBegin, reqVars
  <2>2. \E step : dpc' = [dpc EXCEPT ![<<r, "ext">>] = step]
    BY <1>3 DEF StopBegin, CloseEnd
  <2> QED
    BY <1>b, <2>1, <2>2
<1>4. ASSUME NEW t \in Closing, CloseRemove(t) PROVE StopTold'
  BY <1>4, <1>b DEF CloseRemove, CloseAt, CloseEnd
<1>5. ASSUME NEW t \in Closing, CloseTell(t) PROVE StopTold'
  BY <1>5, <1>b DEF CloseTell, CloseAt, CloseEnd
<1>6. ASSUME NEW t \in Closing, CloseCheckEmpty(t) PROVE StopTold'
  BY <1>6, <1>b DEF CloseCheckEmpty, CloseAt, CloseEnd
<1>7. ASSUME NEW t \in Closing, CloseAbility(t) PROVE StopTold'
  BY <1>7, <1>b DEF CloseAbility, CloseAt, CloseEnd
<1>8. ASSUME NEW t \in Closing, CloseDelete(t) PROVE StopTold'
  BY <1>8, <1>b DEF CloseDelete, CloseAt, CloseEnd
<1>9. ASSUME UNCHANGED <<dpc>> PROVE StopTold'
  BY <1>9, <1>a
     DEF StopTold
<1> QED
  BY <1>1, <1>2, <1>3, <1>4, <1>5, <1>6, <1>7, <1>8, <1>9
     DEF Next, vars, ConnectCall, CloseCall, DeathHandler, AbilityCallback,
         DisconnectDone, ConnectBegin, ConnectRejected,
         LookUpOrNewIpcConnection, ConnectNativeDisconnected,
         ConnectNativeInit, ConnectNativeConnecting, ConnectNativeConnected,
         RetryDelete, RetryNew, ConnectCheckEmpty, ConnectClean,
         ConnectCleanCheck, ConnectStopExit, DeathBegin, DeathTell,
         DeathAbility, DeathClean, DeathCleanCheck, OnAbilityConnectDone,
         OnAbilityConnectFailed, OnAbilityDisconnectDone,
         DisconnectDoneClean, DisconnectDoneCheck, RunTask, ExitSaProcess,
         UnloadSystemAbility, CallerDies, ExtensionCrashes, closeVars

(* A connection that was given up while the ability manager still holds it *)
(* is about to be disconnected, and one that it let go of to leave the map.*)
GivenUpLetsGo == \A c \in Conn :
    status[c] = "DISCONNECTED" /\ ams[c] \in {"connecting", "connected"} => LetsGo(c)
GoneLeavesMap == \A c \in Conn : ams[c] = "gone" => LeavesMap(c)

(* A closing call and a death handler keep at their connection until they  *)
(* have disconnected its ability.                                          *)
CloseKeeps == \A t \in Closing : dpc[t] = "ability" =>
    (dpc'[t] = "ability" /\ dconn'[t] = dconn[t]) \/ CloseAbility(t)
DeathKeeps == \A r \in Req : hpc[r] \in {"tell", "ability"} =>
    \/ hpc'[r] \in {"tell", "ability"} /\ recipient'[r] = recipient[r]
    \/ DeathAbility(r)

(* A closing call works on one connection.                                 *)
LEMMA CloseKeepsStep ==
  ASSUME TypeOK, [Next]_vars
  PROVE  CloseKeeps
<1>b. ASSUME NEW t \in Closing, dpc[t] # "ability", NEW step, NEW c,
             dpc' = [dpc EXCEPT ![t] = step],
             dconn' = dconn \/ dconn' = [dconn EXCEPT ![t] = c]
      PROVE  CloseKeeps
  BY <1>b DEF TypeOK, CloseKeeps
<1>1. ASSUME NEW r \in Req, DisconnectBegin(r) PROVE CloseKeeps
  <2>1. <<r, "app">> \in Closing /\ dpc[<<r, "app">>] # "ability"
    BY <1>1 DEF Closing, DisconnectBegin, CloseAt
  <2>2. \E step : dpc' = [dpc EXCEPT ![<<r, "app">>] = step]
    BY <1>1 DEF DisconnectBegin, CloseEnd
  <2>3. dconn' = dconn \/ \E c : dconn' = [dconn EXCEPT ![<<r, "app">>] = c]
    BY <1>1 DEF DisconnectBegin
  <2> QED
    BY <1>b, <2>1, <2>2, <2>3
<1>2. ASSUME NEW r \in Req, DisconnectLookUp(r) PROVE CloseKeeps
  <2>1. <<r, "app">> \in Closing /\ dpc[<<r, "app">>] # "ability"
    BY <1>2 DEF Closing, DisconnectLookUp, CloseAt
  <2>2. \E step : dpc' = [dpc EXCEPT ![<<r, "app">>] = step]
    BY <1>2 DEF DisconnectLookUp, CloseEnd
  <2>3. dconn' = dconn \/ \E c : dconn' = [dconn EXCEPT ![<<r, "app">>] = c]
    BY <1>2 DEF DisconnectLookUp
  <2> QED
    BY <1>b, <2>1, <2>2, <2>3
<1>3. ASSUME NEW r \in Req, StopBegin(r) PROVE CloseKeeps
  <2>1. <<r, "ext">> \in Closing /\ dpc[<<r, "ext">>] # "ability"
    BY <1>3 DEF Closing, StopBegin, CloseAt
  <2>2. \E step : dpc' = [dpc EXCEPT ![<<r, "ext">>] = step]
    BY <1>3 DEF StopBegin, CloseEnd
  <2>3. dconn' = dconn \/ \E c : dconn' = [dconn EXCEPT ![<<r, "ext">>] = c]
    BY <1>3 DEF StopBegin
  <2> QED
    BY <1>b, <2>1, <2>2, <2>3
<1>4. ASSUME NEW t \in Closing, CloseRemove(t) PROVE CloseKeeps
  <2>1. t \in Closing /\ dpc[t] # "ability"
    BY <1>4 DEF Closing, CloseRemove, CloseAt
  <2>2. \E step : dpc' = [dpc EXCEPT ![t] = step]
    BY <1>4 DEF CloseRemove, CloseEnd
  <2>3. dconn' = dconn \/ \E c : dconn' = [dconn EXCEPT ![t] = c]
    BY <1>4 DEF CloseRemove
  <2> QED
    BY <1>b, <2>1, <2>2, <2>3
<1>5. ASSUME NEW t \in Closing, CloseTell(t) PROVE CloseKeeps
  <2>1. t \in Closing /\ dpc[t] # "ability"
    BY <1>5 DEF Closing, CloseTell, CloseAt
  <2>2. \E step : dpc' = [dpc EXCEPT ![t] = step]
    BY <1>5 DEF CloseTell, CloseEnd
  <2>3. dconn' = dconn \/ \E c : dconn' = [dconn EXCEPT ![t] = c]
    BY <1>5 DEF CloseTell
  <2> QED
    BY <1>b, <2>1, <2>2, <2>3
<1>6. ASSUME NEW t \in Closing, CloseCheckEmpty(t) PROVE CloseKeeps
  <2>1. t \in Closing /\ dpc[t] # "ability"
    BY <1>6 DEF Closing, CloseCheckEmpty, CloseAt
  <2>2. \E step : dpc' = [dpc EXCEPT ![t] = step]
    BY <1>6 DEF CloseCheckEmpty, CloseEnd
  <2>3. dconn' = dconn \/ \E c : dconn' = [dconn EXCEPT ![t] = c]
    BY <1>6 DEF CloseCheckEmpty
  <2> QED
    BY <1>b, <2>1, <2>2, <2>3
<1>7. ASSUME NEW t \in Closing, CloseAbility(t) PROVE CloseKeeps
  <2>1. dconn' = dconn /\ \E step : dpc' = [dpc EXCEPT ![t] = step]
    BY <1>7 DEF CloseAbility, CloseEnd
  <2> QED
    BY <1>7, <2>1 DEF TypeOK, CloseKeeps
<1>8. ASSUME NEW t \in Closing, CloseDelete(t) PROVE CloseKeeps
  <2>1. t \in Closing /\ dpc[t] # "ability"
    BY <1>8 DEF Closing, CloseDelete, CloseAt
  <2>2. \E step : dpc' = [dpc EXCEPT ![t] = step]
    BY <1>8 DEF CloseDelete, CloseEnd
  <2>3. dconn' = dconn \/ \E c : dconn' = [dconn EXCEPT ![t] = c]
    BY <1>8 DEF CloseDelete
  <2> QED
    BY <1>b, <2>1, <2>2, <2>3
<1>9. ASSUME UNCHANGED <<dpc, dconn>> PROVE CloseKeeps
  BY <1>9
     DEF CloseKeeps
<1> QED
  BY <1>1, <1>2, <1>3, <1>4, <1>5, <1>6, <1>7, <1>8, <1>9
     DEF Next, vars, ConnectCall, CloseCall, DeathHandler, AbilityCallback,
         DisconnectDone, ConnectBegin, ConnectRejected,
         LookUpOrNewIpcConnection, ConnectNativeDisconnected,
         ConnectNativeInit, ConnectNativeConnecting, ConnectNativeConnected,
         RetryDelete, RetryNew, ConnectCheckEmpty, ConnectClean,
         ConnectCleanCheck, ConnectStopExit, DeathBegin, DeathTell,
         DeathAbility, DeathClean, DeathCleanCheck, OnAbilityConnectDone,
         OnAbilityConnectFailed, OnAbilityDisconnectDone,
         DisconnectDoneClean, DisconnectDoneCheck, RunTask, ExitSaProcess,
         UnloadSystemAbility, CallerDies, ExtensionCrashes, closeVars

(* A death handler works on the connection of its recipient, which is set  *)
(* before.                                                                 *)
LEMMA DeathKeepsStep ==
  ASSUME TypeOK, RecipientSet, DeathWorks, [Next]_vars
  PROVE  DeathKeeps
<1>1. ASSUME NEW r \in Req, ConnectNativeInit(r) PROVE DeathKeeps
  <2>1. hpc[r] = "idle" /\ hpc' = hpc
    BY <1>1 DEF DeathWorks, RecipientSet, ConnectNativeInit, ConnectAt, deathVars
  <2>2. \/ recipient' = recipient
        \/ \E c : recipient' = [recipient EXCEPT ![r] = c]
    BY <1>1 DEF ConnectNativeInit, ConnectAccepted, ConnectFailed
  <2> QED
    BY <2>1, <2>2 DEF TypeOK, DeathKeeps
<1>2. ASSUME NEW r \in Req, ConnectNativeConnecting(r) PROVE DeathKeeps
  <2>1. hpc[r] = "idle" /\ hpc' = hpc
    BY <1>2 DEF DeathWorks, RecipientSet, ConnectNativeConnecting, ConnectAt, deathVars
  <2>2. \/ recipient' = recipient
        \/ \E c : recipient' = [recipient EXCEPT ![r] = c]
    BY <1>2 DEF ConnectNativeConnecting, ConnectAccepted, ConnectFailed
  <2> QED
    BY <2>1, <2>2 DEF TypeOK, DeathKeeps
<1>3. ASSUME NEW r \in Req, ConnectNativeConnected(r) PROVE DeathKeeps
  <2>1. hpc[r] = "idle" /\ hpc' = hpc
    BY <1>3 DEF DeathWorks, RecipientSet, ConnectNativeConnected, ConnectAt, deathVars
  <2>2. \/ recipient' = recipient
        \/ \E c : recipient' = [recipient EXCEPT ![r] = c]
    BY <1>3 DEF ConnectNativeConnected, ConnectAccepted, ConnectFailed
  <2> QED
    BY <2>1, <2>2 DEF TypeOK, DeathKeeps
<1>4. ASSUME NEW r \in Req, DeathBegin(r) PROVE DeathKeeps
  BY <1>4
     DEF TypeOK, DeathKeeps, DeathAt, DeathBegin, reqVars
<1>5. ASSUME NEW r \in Req, DeathTell(r) PROVE DeathKeeps
  BY <1>5
     DEF TypeOK, DeathKeeps, DeathAt, DeathTell
<1>6. ASSUME NEW r \in Req, DeathAbility(r) PROVE DeathKeeps
  BY <1>6
     DEF TypeOK, DeathKeeps, DeathAt, DeathAbility, reqVars
<1>7. ASSUME NEW r \in Req, DeathClean(r) PROVE DeathKeeps
  BY <1>7
     DEF TypeOK, DeathKeeps, DeathAt, DeathClean, reqVars
<1>8. ASSUME NEW r \in Req, DeathCleanCheck(r) PROVE DeathKeeps
  BY <1>8
     DEF TypeOK, DeathKeeps, DeathAt, DeathCleanCheck, reqVars
<1>9. ASSUME UNCHANGED <<hpc, recipient>> PROVE DeathKeeps
  BY <1>9
     DEF TypeOK, DeathKeeps, DeathAt
<1> QED
  BY <1>1, <1>2, <1>3, <1>4, <1>5, <1>6, <1>7, <1>8, <1>9
     DEF Next, vars, ConnectCall, CloseCall, DeathHandler, AbilityCallback,
         DisconnectDone, ConnectBegin, ConnectRejected,
         LookUpOrNewIpcConnection, ConnectNativeDisconnected, RetryDelete,
         RetryNew, ConnectCheckEmpty, ConnectClean, ConnectCleanCheck,
         ConnectStopExit, DisconnectBegin, DisconnectLookUp, StopBegin,
         CloseRemove, CloseTell, CloseCheckEmpty, CloseAbility, CloseDelete,
         OnAbilityConnectDone, OnAbilityConnectFailed,
         OnAbilityDisconnectDone, DisconnectDoneClean, DisconnectDoneCheck,
         RunTask, ExitSaProcess, UnloadSystemAbility, CallerDies,
         ExtensionCrashes, ConnectFailed, reqVars, deathVars

(* They ask the ability manager, which does not refuse.                    *)
LEMMA LetsGoKept ==
  ASSUME TypeOK, CloseWorks, DeathWorks, Faults \cap Refusals = {},
         CloseKeeps, DeathKeeps, NEW c \in Conn, LetsGo(c)
  PROVE  LetsGo(c)' \/ ams'[c] \notin {"connecting", "connected"}
<1>1. "refuse_early" \notin Faults /\ "disconnect_err" \notin Faults
      /\ "null_client" \notin Faults
  BY DEF Refusals
<1>2. ASSUME DisconnectAbilityOk(c) \/ DisconnectAbilityErr(c)
      PROVE  ams'[c] \notin {"connecting", "connected"}
  BY <1>1, <1>2 DEF TypeOK, DisconnectAbilityOk, DisconnectAbilityErr
<1>3. ASSUME NEW t \in Closing, dpc[t] = "ability", dconn[t] = c
      PROVE  LetsGo(c)' \/ ams'[c] \notin {"connecting", "connected"}
  <2>1. CASE dpc'[t] = "ability" /\ dconn'[t] = c
    BY <2>1 DEF LetsGo
  <2>2. CASE CloseAbility(t)
    BY <1>1, <1>2, <1>3, <2>2 DEF CloseAbility
  <2> QED
    BY <1>3, <2>1, <2>2 DEF CloseKeeps
<1>4. ASSUME NEW r \in Req, hpc[r] \in {"tell", "ability"}, recipient[r] = c
      PROVE  LetsGo(c)' \/ ams'[c] \notin {"connecting", "connected"}
  <2>1. CASE hpc'[r] \in {"tell", "ability"} /\ recipient'[r] = c
    BY <2>1 DEF LetsGo
  <2>2. CASE DeathAbility(r)
    BY <1>1, <1>2, <1>4, <2>2 DEF DeathAbility
  <2> QED
    BY <1>4, <2>1, <2>2 DEF DeathKeeps
<1> QED
  BY <1>3, <1>4 DEF LetsGo

(* Whoever makes a connection DISCONNECTED goes on to disconnect its       *)
(* ability.                                                                *)
LEMMA GivenUpLetsGoStep ==
  ASSUME TypeOK, CloseWorks, DeathWorks, Faults \cap Refusals = {},
         CloseKeeps, DeathKeeps, GivenUpLetsGo, [Next]_vars
  PROVE  GivenUpLetsGo'
<1>a. \A c \in Conn :
        LetsGo(c) => LetsGo(c)' \/ ams'[c] \notin {"connecting", "connected"}
  BY LetsGoKept
<1>1. ASSUME NEW r \in Req, LookUpOrNewIpcConnection(r) PROVE GivenUpLetsGo'
  <2>1. \/ status' = status
        \/ status' = [status EXCEPT ![<<r, 1>>] = "INIT"]
    BY <1>1 DEF LookUpOrNewIpcConnection, NewIpcConnection
  <2>2. ams' = ams
    BY <1>1 DEF LookUpOrNewIpcConnection
  <2> QED
    BY <1>a, <2>1, <2>2 DEF TypeOK, GivenUpLetsGo
<1>2. ASSUME NEW r \in Req, ConnectNativeInit(r) PROVE GivenUpLetsGo'
  BY <1>2, <1>a
     DEF TypeOK, GivenUpLetsGo, ConnectNativeInit
<1>3. ASSUME NEW r \in Req, RetryNew(r) PROVE GivenUpLetsGo'
  <2>1. \/ status' = status
        \/ status' = [status EXCEPT ![<<r, 2>>] = "INIT"]
    BY <1>3 DEF RetryNew, NewIpcConnection
  <2>2. ams' = ams
    BY <1>3 DEF RetryNew
  <2> QED
    BY <1>a, <2>1, <2>2 DEF TypeOK, GivenUpLetsGo
<1>4. ASSUME NEW t \in Closing, CloseCheckEmpty(t) PROVE GivenUpLetsGo'
  <2>1. UNCHANGED <<ams, dconn>>
    BY <1>4 DEF CloseCheckEmpty
  <2>2. CASE status' = status
    BY <1>a, <2>1, <2>2 DEF GivenUpLetsGo
  <2>3. CASE status' = [status EXCEPT ![dconn[t]] = "DISCONNECTED"] /\ dpc'[t] = "ability"
    <3>1. LetsGo(dconn[t])'
      BY <2>1, <2>3 DEF LetsGo
    <3> QED
      BY <1>a, <2>1, <2>3, <3>1 DEF TypeOK, GivenUpLetsGo
  <2> QED
    BY <1>4, <2>2, <2>3 DEF TypeOK, CloseCheckEmpty
<1>5. ASSUME NEW t \in Closing, CloseAbility(t) PROVE GivenUpLetsGo'
  BY <1>5, <1>a
     DEF TypeOK, GivenUpLetsGo, CloseAbility, DisconnectAbilityOk,
         DisconnectAbilityErr, CloseAt, connVars
<1>6. ASSUME NEW r \in Req, DeathBegin(r) PROVE GivenUpLetsGo'
  <2>1. /\ UNCHANGED <<ams, recipient>> /\ hpc'[r] = "tell"
        /\ status' = [status EXCEPT ![recipient[r]] = "DISCONNECTED"]
    BY <1>6 DEF TypeOK, DeathBegin, reqVars
  <2>2. LetsGo(recipient[r])'
    BY <2>1 DEF LetsGo
  <2> QED
    BY <1>a, <2>1, <2>2 DEF TypeOK, GivenUpLetsGo
<1>7. ASSUME NEW r \in Req, DeathAbility(r) PROVE GivenUpLetsGo'
  BY <1>7, <1>a
     DEF TypeOK, GivenUpLetsGo, DeathAbility, DisconnectAbilityOk,
         DisconnectAbilityErr, connVars
<1>8. ASSUME NEW c \in Conn, OnAbilityConnectDone(c) PROVE GivenUpLetsGo'
  BY <1>8, <1>a
     DEF TypeOK, GivenUpLetsGo, OnAbilityConnectDone, IsConnecting, connVars
<1>9. ASSUME NEW c \in Conn, OnAbilityConnectFailed(c) PROVE GivenUpLetsGo'
  BY <1>9, <1>a
     DEF TypeOK, GivenUpLetsGo, OnAbilityConnectFailed, IsConnecting
<1>10. ASSUME NEW c \in Conn, OnAbilityDisconnectDone(c) PROVE GivenUpLetsGo'
  BY <1>10, <1>a
     DEF TypeOK, GivenUpLetsGo, OnAbilityDisconnectDone
<1>11. ASSUME NEW c \in Conn, ExtensionCrashes(c) PROVE GivenUpLetsGo'
  BY <1>11, <1>a
     DEF TypeOK, GivenUpLetsGo, ExtensionCrashes, connVars
<1>12. ASSUME UNCHANGED <<status, ams>> PROVE GivenUpLetsGo'
  BY <1>12, <1>a
     DEF TypeOK, GivenUpLetsGo
<1> QED
  BY <1>1, <1>2, <1>3, <1>4, <1>5, <1>6, <1>7, <1>8, <1>9, <1>10, <1>11,
     <1>12
     DEF Next, vars, ConnectCall, CloseCall, DeathHandler, AbilityCallback,
         DisconnectDone, ConnectBegin, ConnectRejected,
         ConnectNativeDisconnected, ConnectNativeConnecting,
         ConnectNativeConnected, RetryDelete, ConnectCheckEmpty,
         ConnectClean, ConnectCleanCheck, ConnectStopExit, DisconnectBegin,
         DisconnectLookUp, StopBegin, CloseRemove, CloseTell, CloseDelete,
         DeathTell, DeathClean, DeathCleanCheck, DisconnectDoneClean,
         DisconnectDoneCheck, RunTask, ExitSaProcess, UnloadSystemAbility,
         CallerDies, connVars

(* OnAbilityDisconnectDone deletes the entry of its connection, and none is*)
(* made with a connection that exists.                                     *)
LEMMA GoneLeavesMapStep ==
  ASSUME TypeOK, NotMadeYet, AmsMade, Faults \cap Refusals = {},
         GoneLeavesMap, [Next]_vars
  PROVE  GoneLeavesMap'
<1>1. ASSUME NEW r \in Req, LookUpOrNewIpcConnection(r) PROVE GoneLeavesMap'
  <2>1. <<r, 1>> \in Conn /\ status[<<r, 1>>] = "NONE"
    BY <1>1, NewConnIsConn DEF NotMadeYet, LookUpOrNewIpcConnection, ConnectAt
  <2>2. ams[<<r, 1>>] # "gone"
    BY <2>1 DEF AmsMade
  <2>3. \/ connMap' = connMap
        \/ connMap' = [connMap EXCEPT ![KeyOf[r]] = <<r, 1>>]
    BY <1>1 DEF LookUpOrNewIpcConnection, NewIpcConnection
  <2>4. ams' = ams /\ apc' = apc
    BY <1>1 DEF LookUpOrNewIpcConnection
  <2>5. \A c \in Conn : ConnKey(c) \in Key
    BY DEF ConnKey, Conn
  <2> QED
    BY <2>2, <2>3, <2>4, <2>5 DEF TypeOK, GoneLeavesMap, LeavesMap
<1>2. ASSUME NEW r \in Req, ConnectNativeInit(r) PROVE GoneLeavesMap'
  BY <1>2
     DEF TypeOK, GoneLeavesMap, LeavesMap, ConnectNativeInit, mapVars
<1>3. ASSUME NEW r \in Req, RetryDelete(r) PROVE GoneLeavesMap'
  BY <1>3
     DEF TypeOK, GoneLeavesMap, LeavesMap, RetryDelete, DeleteIpcConnect
<1>4. ASSUME NEW r \in Req, RetryNew(r) PROVE GoneLeavesMap'
  <2>1. <<r, 2>> \in Conn /\ status[<<r, 2>>] = "NONE"
    BY <1>4, NewConnIsConn DEF NotMadeYet, RetryNew, ConnectAt
  <2>2. ams[<<r, 2>>] # "gone"
    BY <2>1 DEF AmsMade
  <2>3. \/ connMap' = connMap
        \/ connMap' = [connMap EXCEPT ![KeyOf[r]] = <<r, 2>>]
    BY <1>4 DEF RetryNew, NewIpcConnection
  <2>4. ams' = ams /\ apc' = apc
    BY <1>4 DEF RetryNew
  <2>5. \A c \in Conn : ConnKey(c) \in Key
    BY DEF ConnKey, Conn
  <2> QED
    BY <2>2, <2>3, <2>4, <2>5 DEF TypeOK, GoneLeavesMap, LeavesMap
<1>5. ASSUME NEW r \in Req, ConnectClean(r) PROVE GoneLeavesMap'
  BY <1>5
     DEF TypeOK, GoneLeavesMap, LeavesMap, ConnectClean, DeleteIpcConnect
<1>6. ASSUME NEW t \in Closing, CloseAbility(t) PROVE GoneLeavesMap'
  BY <1>6
     DEF TypeOK, GoneLeavesMap, LeavesMap, CloseAbility, DisconnectAbilityOk,
         DisconnectAbilityErr, mapVars
<1>7. ASSUME NEW t \in Closing, CloseDelete(t) PROVE GoneLeavesMap'
  BY <1>7
     DEF TypeOK, GoneLeavesMap, LeavesMap, CloseDelete, DeleteIpcConnect
<1>8. ASSUME NEW r \in Req, DeathAbility(r) PROVE GoneLeavesMap'
  BY <1>8
     DEF TypeOK, GoneLeavesMap, LeavesMap, DeathAbility, DisconnectAbilityOk,
         DisconnectAbilityErr, mapVars
<1>9. ASSUME NEW r \in Req, DeathClean(r) PROVE GoneLeavesMap'
  BY <1>9
     DEF TypeOK, GoneLeavesMap, LeavesMap, DeathClean, DeleteIpcConnect
<1>10. ASSUME NEW c \in Conn, OnAbilityConnectDone(c) PROVE GoneLeavesMap'
  BY <1>10
     DEF TypeOK, GoneLeavesMap, LeavesMap, OnAbilityConnectDone, mapVars
<1>11. ASSUME NEW c \in Conn, OnAbilityConnectFailed(c) PROVE GoneLeavesMap'
  BY <1>11
     DEF TypeOK, GoneLeavesMap, LeavesMap, OnAbilityConnectFailed, Refusals,
         mapVars
<1>12. ASSUME NEW c \in Conn, OnAbilityDisconnectDone(c) PROVE GoneLeavesMap'
  BY <1>12
     DEF TypeOK, GoneLeavesMap, LeavesMap, OnAbilityDisconnectDone, mapVars
<1>13. ASSUME NEW c \in Conn, DisconnectDoneClean(c) PROVE GoneLeavesMap'
  <2>1. /\ ams' = ams
        /\ apc' = [apc EXCEPT ![c] = "cleanCheck"]
        /\ connMap' = [connMap EXCEPT ![ConnKey(c)] = NoConn]
    BY <1>13 DEF DisconnectDoneClean, DeleteIpcConnect
  <2>2. ConnKey(c) \in Key
    BY DEF ConnKey, Conn
  <2> QED
    BY <2>1, <2>2 DEF TypeOK, GoneLeavesMap, LeavesMap
<1>14. ASSUME NEW c \in Conn, DisconnectDoneCheck(c) PROVE GoneLeavesMap'
  BY <1>14
     DEF TypeOK, GoneLeavesMap, LeavesMap, DisconnectDoneCheck, mapVars
<1>15. ASSUME NEW c \in Conn, ExtensionCrashes(c) PROVE GoneLeavesMap'
  BY <1>15
     DEF TypeOK, GoneLeavesMap, LeavesMap, ExtensionCrashes, mapVars
<1>16. ASSUME UNCHANGED <<ams, apc, connMap>> PROVE GoneLeavesMap'
  BY <1>16
     DEF TypeOK, GoneLeavesMap, LeavesMap
<1> QED
  BY <1>1, <1>2, <1>3, <1>4, <1>5, <1>6, <1>7, <1>8, <1>9, <1>10, <1>11,
     <1>12, <1>13, <1>14, <1>15, <1>16
     DEF Next, vars, ConnectCall, CloseCall, DeathHandler, AbilityCallback,
         DisconnectDone, ConnectBegin, ConnectRejected,
         ConnectNativeDisconnected, ConnectNativeConnecting,
         ConnectNativeConnected, ConnectCheckEmpty, ConnectCleanCheck,
         ConnectStopExit, DisconnectBegin, DisconnectLookUp, StopBegin,
         CloseRemove, CloseTell, CloseCheckEmpty, DeathBegin, DeathTell,
         DeathCleanCheck, RunTask, ExitSaProcess, UnloadSystemAbility,
         CallerDies, mapVars

----------------------------------------------------------------------------
(* The invariant of what the service asks of the ability manager.  That a  *)
(* connection which was given up has been known to it takes a long way:    *)
(* whoever gives it up got to it through a request, and a request is       *)
(* accepted only on a connection that is connecting or connected.          *)
NothingIsLeft == Faults \cap Refusals = {} => GivenUpLetsGo /\ GoneLeavesMap
AskInv ==
    /\ ConnInv
    /\ ConnectWorks
    /\ PendingWaits
    /\ ConnectingAsks
    /\ KeysFit
    /\ OrphansOnly
    /\ StopTold
    /\ RecipientBegun
    /\ CloseBegun
    /\ BegunAsked
    /\ AskedBegun
    /\ NothingIsLeft

(* The service starts with nothing asked.                                  *)
LEMMA AskInvInit == Init => AskInv
<1> SUFFICES ASSUME Init PROVE AskInv
  OBVIOUS
<1>1. ConnInv
  BY ConnInvInit
<1>2. PendingWaits /\ ConnectingAsks /\ OrphansOnly /\ BegunAsked
  BY DEF Init, PendingWaits, ConnectingAsks, OrphansOnly, BegunAsked, Begun
<1>3. KeysFit
  BY DEF Init, KeysFit, MapKeys, CallKeys, RecipientKeys, PendingKeys
<1>4. StopTold /\ RecipientBegun /\ CloseBegun
  BY DEF Init, StopTold, RecipientBegun, CloseBegun, Closing
<1>6. AskedBegun /\ ConnectWorks
  BY DEF Init, AskedBegun, ConnectWorks
<1>5. NothingIsLeft
  BY DEF Init, NothingIsLeft, GivenUpLetsGo, GoneLeavesMap
<1> QED
  BY <1>1, <1>2, <1>3, <1>4, <1>5, <1>6 DEF AskInv

(* Every step keeps it.                                                    *)
LEMMA AskInvStep == AskInv /\ [Next]_vars => AskInv'
<1> SUFFICES ASSUME AskInv, [Next]_vars PROVE AskInv'
  OBVIOUS
<1> USE DEF AskInv, ConnInv, WorksOnConn, AbilityGivenUp, PointersMade, KeysFit
<1>1. ConnInv'
  BY ConnInvStep
<1>2. FinalConns /\ BegunStays /\ ToldStays
  BY FinalConnsStep, BegunStaysStep, ToldStaysStep
<1>3. PendingWaits' /\ ConnectingAsks'
  BY PendingWaitsStep, ConnectingAsksStep
<1>4. KeysFit'
  BY MapKeysStep, CallKeysStep, RecipientKeysStep, PendingKeysStep
<1>5. OrphansOnly' /\ StopTold'
  BY <1>2, OrphansOnlyStep, StopToldStep
<1>6. RecipientBegun' /\ CloseBegun'
  BY <1>2, RecipientBegunStep, CloseBegunStep
<1>7. BegunAsked' /\ AskedBegun' /\ ConnectWorks'
  BY <1>2, BegunAskedStep, AskedBegunStep, ConnectWorksStep
<1>8. NothingIsLeft'
  <2> SUFFICES ASSUME Faults \cap Refusals = {}
               PROVE  GivenUpLetsGo' /\ GoneLeavesMap'
    BY DEF NothingIsLeft
  <2>1. CloseKeeps /\ DeathKeeps
    BY CloseKeepsStep, DeathKeepsStep
  <2> QED
    BY <2>1, GivenUpLetsGoStep, GoneLeavesMapStep DEF NothingIsLeft
<1> QED
  BY <1>1, <1>3, <1>4, <1>5, <1>6, <1>7, <1>8

(* Several handlers give up one connection and each does a part of what is *)
(* left to do; between them they disconnect its ability and delete its     *)
(* entry, if the ability manager refuses nothing.                          *)
THEOREM GivenUpEnds == Spec => []GivenUpIsFinished
<1>1. Init => AskInv
  BY AskInvInit
<1>2. AskInv /\ [Next]_vars => AskInv'
  BY AskInvStep
<1>3. AskInv => GivenUpIsFinished
  <2> SUFFICES ASSUME AskInv, Faults \cap Refusals = {},
                      NEW c \in Conn, status[c] = "DISCONNECTED"
               PROVE  \/ LetsGo(c)
                      \/ ams[c] \in {"closing", "disconnecting", "crashed"}
                      \/ ams[c] = "gone" /\ LeavesMap(c)
    BY DEF GivenUpIsFinished
  <2>1. ams[c] # "none"
    BY DEF AskInv, BegunAsked, Begun, Refusals
  <2>2. ams[c] \in AmsState
    BY DEF AskInv, ConnInv, TypeOK
  <2>3. GivenUpLetsGo /\ GoneLeavesMap
    BY DEF AskInv, NothingIsLeft
  <2> QED
    BY <2>1, <2>2, <2>3 DEF GivenUpLetsGo, GoneLeavesMap, AmsState
<1> QED
  BY <1>1, <1>2, <1>3, PTL DEF Spec
=============================================================================
