--------------------- MODULE NativeMessagingRequestProofs --------------------
(***************************************************************************)
(* Theorems about the requests of NativeMessaging, for every set of        *)
(* requests, keys and processes and every choice of faults: a request is   *)
(* held in one place, a connect call that is refused leaves no trace, what *)
(* the caller and the extension hear of a request is a life of it, and no  *)
(* request that waits for its answer is forgotten.                         *)
(***************************************************************************)
EXTENDS NativeMessagingProofs, SequenceTheorems

USE NMAssumption DEF ConstantsAssumption

----------------------------------------------------------------------------
(* The result of a connect call fits where the call stands.                *)
LEMMA ResultFitsStep ==
  ASSUME TypeOK, ResultFits, [Next]_vars
  PROVE  ResultFits'
<1> USE DEF TypeOK, ResultFits, ConnectAt
<1>1. ASSUME NEW r \in Req, ConnectBegin(r) \/ ConnectRejected(r)
      PROVE  ResultFits'
  BY <1>1 DEF ConnectBegin, ConnectRejected
<1>2. ASSUME NEW r \in Req, LookUpOrNewIpcConnection(r) PROVE ResultFits'
  BY <1>2 DEF LookUpOrNewIpcConnection
<1>3. ASSUME NEW r \in Req, ConnectNativeDisconnected(r) PROVE ResultFits'
  BY <1>3 DEF ConnectNativeDisconnected, ConnectFailed
<1>4. ASSUME NEW r \in Req,
             ConnectNativeInit(r) \/ ConnectNativeConnecting(r) \/ ConnectNativeConnected(r)
      PROVE  ResultFits'
  <2>1. cpc[r] \in {"connect", "retryConnect"}
    BY <1>4 DEF ConnectNativeInit, ConnectNativeConnecting, ConnectNativeConnected
  <2>2. ConnectAccepted(r, cconn[r]) \/ ConnectFailed(r)
    BY <1>4 DEF ConnectNativeInit, ConnectNativeConnecting, ConnectNativeConnected
  <2>3. CASE ConnectAccepted(r, cconn[r])
    BY <2>1, <2>3 DEF ConnectAccepted
  <2>4. CASE ConnectFailed(r)
    BY <2>1, <2>4 DEF ConnectFailed
  <2> QED
    BY <2>2, <2>3, <2>4
<1>5. ASSUME NEW r \in Req, RetryDelete(r) \/ RetryNew(r) PROVE ResultFits'
  BY <1>5 DEF RetryDelete, RetryNew
<1>6. ASSUME NEW r \in Req, ConnectCheckEmpty(r) PROVE ResultFits'
  BY <1>6 DEF ConnectCheckEmpty
<1>7. ASSUME NEW r \in Req, ConnectClean(r) \/ ConnectCleanCheck(r)
      PROVE  ResultFits'
  BY <1>7 DEF ConnectClean, ConnectCleanCheck
<1>8. ASSUME NEW r \in Req, ConnectStopExit(r) PROVE ResultFits'
  BY <1>8 DEF ConnectStopExit
<1>9. ASSUME UNCHANGED <<cpc, cres>> PROVE ResultFits'
  BY <1>9
<1> QED
  BY <1>1, <1>2, <1>3, <1>4, <1>5, <1>6, <1>7, <1>8, <1>9
     DEF Next, vars, ConnectCall, CloseCall, DeathHandler, AbilityCallback,
         DisconnectDone, DisconnectBegin, DisconnectLookUp, StopBegin,
         CloseRemove, CloseTell, CloseCheckEmpty, CloseAbility, CloseDelete,
         DeathBegin, DeathTell, DeathAbility, DeathClean, DeathCleanCheck,
         OnAbilityConnectDone, OnAbilityConnectFailed,
         OnAbilityDisconnectDone, DisconnectDoneClean, DisconnectDoneCheck,
         RunTask, ExitSaProcess, UnloadSystemAbility, CallerDies,
         ExtensionCrashes, connectVars

(* A request that was accepted stays so.                                   *)
AcceptedStays == \A r \in Req : Accepted(r) => Accepted(r)'

LEMMA AcceptedStaysStep ==
  ASSUME TypeOK, ResultFits, [Next]_vars
  PROVE  AcceptedStays
<1> USE DEF TypeOK, ResultFits, ConnectAt, AcceptedStays, Accepted
<1>1. ASSUME NEW r \in Req, ConnectBegin(r) \/ ConnectRejected(r)
      PROVE  AcceptedStays
  BY <1>1 DEF ConnectBegin, ConnectRejected
<1>2. ASSUME NEW r \in Req, LookUpOrNewIpcConnection(r) PROVE AcceptedStays
  BY <1>2 DEF LookUpOrNewIpcConnection
<1>3. ASSUME NEW r \in Req, ConnectNativeDisconnected(r) PROVE AcceptedStays
  BY <1>3 DEF ConnectNativeDisconnected, ConnectFailed
<1>4. ASSUME NEW r \in Req,
             ConnectNativeInit(r) \/ ConnectNativeConnecting(r) \/ ConnectNativeConnected(r)
      PROVE  AcceptedStays
  <2>1. cpc[r] \in {"connect", "retryConnect"}
    BY <1>4 DEF ConnectNativeInit, ConnectNativeConnecting, ConnectNativeConnected
  <2>2. ConnectAccepted(r, cconn[r]) \/ ConnectFailed(r)
    BY <1>4 DEF ConnectNativeInit, ConnectNativeConnecting, ConnectNativeConnected
  <2>3. CASE ConnectAccepted(r, cconn[r])
    BY <2>1, <2>3 DEF ConnectAccepted
  <2>4. CASE ConnectFailed(r)
    BY <2>1, <2>4 DEF ConnectFailed
  <2> QED
    BY <2>2, <2>3, <2>4
<1>5. ASSUME NEW r \in Req, RetryDelete(r) \/ RetryNew(r) PROVE AcceptedStays
  BY <1>5 DEF RetryDelete, RetryNew
<1>6. ASSUME NEW r \in Req, ConnectCheckEmpty(r) PROVE AcceptedStays
  BY <1>6 DEF ConnectCheckEmpty
<1>7. ASSUME NEW r \in Req, ConnectClean(r) \/ ConnectCleanCheck(r)
      PROVE  AcceptedStays
  BY <1>7 DEF ConnectClean, ConnectCleanCheck
<1>8. ASSUME NEW r \in Req, ConnectStopExit(r) PROVE AcceptedStays
  BY <1>8 DEF ConnectStopExit
<1>9. ASSUME UNCHANGED <<cpc, cres>> PROVE AcceptedStays
  BY <1>9
<1> QED
  BY <1>1, <1>2, <1>3, <1>4, <1>5, <1>6, <1>7, <1>8, <1>9
     DEF Next, vars, ConnectCall, CloseCall, DeathHandler, AbilityCallback,
         DisconnectDone, DisconnectBegin, DisconnectLookUp, StopBegin,
         CloseRemove, CloseTell, CloseCheckEmpty, CloseAbility, CloseDelete,
         DeathBegin, DeathTell, DeathAbility, DeathClean, DeathCleanCheck,
         OnAbilityConnectDone, OnAbilityConnectFailed,
         OnAbilityDisconnectDone, DisconnectDoneClean, DisconnectDoneCheck,
         RunTask, ExitSaProcess, UnloadSystemAbility, CallerDies,
         ExtensionCrashes, connectVars

(* No handler touches a request that was not accepted: a list, a handler's *)
(* popDeleteList and the event queue name accepted requests only, and what *)
(* a handler does to a request it found there.                             *)
LEMMA OnlyAcceptedTouchedStep ==
  ASSUME TypeOK, ResultFits, OnlyAcceptedTouched, AcceptedStays, CloseWorks,
         [Next]_vars
  PROVE  OnlyAcceptedTouched'
<1> SUFFICES ASSUME NEW r \in Req, ~Accepted(r)'
             PROVE  Untouched(r)'
  BY DEF OnlyAcceptedTouched
<1>a. ~Accepted(r) /\ Untouched(r)
  BY DEF AcceptedStays, OnlyAcceptedTouched
<1>t. /\ pending \in [Conn -> SUBSET Req] /\ connected \in [Conn -> SUBSET Req]
      /\ tasks \in [Req -> Seq(Callback)] /\ heard \in [Req -> Seq(Callback)]
      /\ told \in [Req -> Seq(ExtCall)]
      /\ recipient \in [Req -> Conn \cup {NoConn}]
      /\ cpc \in [Req -> ConnectPc]
      /\ dpc \in [Closing -> ClosePc]
      /\ hpop \in [Req -> SUBSET Req]
      /\ dconn \in [Closing -> Conn \cup {NoConn}]
  BY DEF TypeOK
<1> USE <1>a, <1>t DEF Untouched
<1>1. ASSUME NEW q \in Req, ConnectNativeDisconnected(q) PROVE Untouched(r)'
  BY <1>1 DEF ConnectNativeDisconnected, ConnectFailed, connVars, closeVars, deathVars
<1>2. ASSUME NEW q \in Req, ConnectNativeInit(q) PROVE Untouched(r)'
  <2>1. CASE q = r
    <3>1. ~ConnectAccepted(r, cconn[r])
      BY DEF ConnectAccepted, Accepted
    <3>2. pending' = [pending EXCEPT ![cconn[r]] =
                         RemovePendingRequestUnlock(pending[cconn[r]] \cup {r}, r)]
      BY <1>2, <2>1, <3>1 DEF ConnectNativeInit
    <3>3. \A c \in Conn : r \notin pending'[c]
      BY <3>2 DEF RemovePendingRequestUnlock
    <3>4. UNCHANGED <<connected, recipient, tasks, heard, told, closeVars, deathVars>>
      BY <1>2, <2>1, <3>1 DEF ConnectNativeInit, ConnectFailed
    <3> QED
      BY <3>3, <3>4 DEF closeVars, deathVars
  <2>2. CASE q # r
    <3>1. \A c \in Conn : r \notin pending'[c]
      <4>1. PICK l : /\ l \subseteq pending[cconn[q]] \cup {q}
                     /\ pending' = [pending EXCEPT ![cconn[q]] = l]
        BY <1>2 DEF ConnectNativeInit, RemovePendingRequestUnlock
      <4> QED
        BY <2>2, <4>1
    <3>2. recipient'[r] = recipient[r]
      BY <1>2, <2>2 DEF ConnectNativeInit, ConnectAccepted, ConnectFailed
    <3>3. UNCHANGED <<connected, tasks, heard, told, closeVars, deathVars>>
      BY <1>2 DEF ConnectNativeInit
    <3> QED
      BY <3>1, <3>2, <3>3 DEF closeVars, deathVars
  <2> QED
    BY <2>1, <2>2
<1>3. ASSUME NEW q \in Req, ConnectNativeConnecting(q) PROVE Untouched(r)'
  <2>1. ConnectAccepted(q, cconn[q]) /\ q # r
    BY <1>3 DEF ConnectNativeConnecting, ConnectAccepted, Accepted
  <2>2. \A c \in Conn : r \notin pending'[c]
    BY <1>3, <2>1 DEF ConnectNativeConnecting
  <2>3. recipient'[r] = recipient[r]
    BY <2>1 DEF ConnectAccepted
  <2> QED
    BY <1>3, <2>2, <2>3 DEF ConnectNativeConnecting, closeVars, deathVars
<1>4. ASSUME NEW q \in Req, ConnectNativeConnected(q) PROVE Untouched(r)'
  <2>1. UNCHANGED <<pending, heard, closeVars, deathVars>>
    BY <1>4 DEF ConnectNativeConnected
  <2>2. CASE ConnectFailed(q) /\ UNCHANGED <<connected, tasks, told>>
    BY <2>1, <2>2 DEF ConnectFailed, closeVars, deathVars
  <2>3. CASE ConnectAccepted(q, cconn[q])
    <3>1. q # r
      BY <2>3 DEF ConnectAccepted, Accepted
    <3>2. ~ConnectFailed(q)
      BY <2>3 DEF ConnectAccepted, ConnectFailed
    <3>3. /\ connected' = [connected EXCEPT ![cconn[q]] = @ \cup {q}]
          /\ Post({q}, "OnConnect") /\ Tell({q}, "ConnectNative")
      BY <1>4, <3>2 DEF ConnectNativeConnected
    <3>4. recipient'[r] = recipient[r]
      BY <2>3, <3>1 DEF ConnectAccepted
    <3> QED
      BY <2>1, <3>1, <3>3, <3>4 DEF Post, Tell, closeVars, deathVars
  <2> QED
    BY <1>4, <2>2, <2>3 DEF ConnectNativeConnected
<1>5. ASSUME NEW t \in Closing, CloseRemove(t) PROVE Untouched(r)'
  <2>1. UNCHANGED <<reqVars, deathVars>>
    BY <1>5 DEF CloseRemove
  <2>2. \A c \in Conn : r \notin pending'[c] /\ r \notin connected'[c]
    <3>1. \A c \in Conn : pending'[c] \subseteq pending[c]
      <4>1. pending' = pending \/ pending' = Erased(pending, dconn[t], t[1])
        BY <1>5 DEF CloseRemove
      <4> QED
        BY <4>1 DEF Erased
    <3>2. \A c \in Conn : connected'[c] \subseteq connected[c]
      <4>1. connected' = connected \/ connected' = Erased(connected, dconn[t], t[1])
        BY <1>5 DEF CloseRemove
      <4> QED
        BY <4>1 DEF Erased
    <3> QED
      BY <3>1, <3>2
  <2>3. ASSUME NEW u \in Closing, u[1] = r, dpc'[u] = "tell" PROVE FALSE
    <3>1. u = t /\ r \in Held(dconn[t])
      <4>1. dpc[u] # "tell"
        BY <2>3
      <4>2. /\ t[1] \notin Held(dconn[t]) => dpc' = [dpc EXCEPT ![t] = "done"]
            /\ dpc' = [dpc EXCEPT ![t] = "tell"] \/ dpc' = [dpc EXCEPT ![t] = "done"]
        BY <1>5 DEF CloseRemove, CloseEnd, Held
      <4> QED
        BY <2>3, <4>1, <4>2
    <3>2. dconn[t] \in Conn
      BY <1>5 DEF CloseRemove, CloseAt, CloseWorks
    <3> QED
      BY <3>1, <3>2 DEF Held
  <2> QED
    BY <2>1, <2>2, <2>3 DEF reqVars, deathVars
<1>6. ASSUME NEW t \in Closing, CloseTell(t) PROVE Untouched(r)'
  <2>1. t[1] # r
    BY <1>6 DEF CloseTell, CloseAt
  <2>2. tasks'[r] = tasks[r] /\ told'[r] = told[r]
    BY <1>6, <2>1 DEF CloseTell, Post, Tell
  <2>3. \A u \in Closing : dpc'[u] = "tell" => dpc[u] = "tell"
    BY <1>6 DEF CloseTell
  <2> QED
    BY <1>6, <2>2, <2>3 DEF CloseTell, connVars, deathVars
<1>7. ASSUME NEW t \in Closing,
             \/ CloseCheckEmpty(t) \/ CloseAbility(t) \/ CloseDelete(t)
      PROVE  Untouched(r)'
  BY <1>7 DEF CloseCheckEmpty, CloseAbility, CloseDelete, CloseEnd, connVars,
              reqVars, deathVars
<1>8. ASSUME NEW q \in Req, DisconnectBegin(q) \/ DisconnectLookUp(q) \/ StopBegin(q)
      PROVE  Untouched(r)'
  BY <1>8 DEF DisconnectBegin, DisconnectLookUp, StopBegin, CloseEnd, connVars,
              reqVars, deathVars
<1>9. ASSUME NEW q \in Req, DeathBegin(q) PROVE Untouched(r)'
  <2>1. recipient[q] \in Conn
    BY <1>9 DEF DeathBegin
  <2>2. \A c \in Conn : connected'[c] \subseteq connected[c]
    BY <1>9, <2>1 DEF DeathBegin, LeftBySwap
  <2>3. r \notin PopDeleteList(recipient[q])
    BY <2>1 DEF PopDeleteList
  <2>4. \A p \in Req : r \notin hpop'[p]
    BY <1>9, <2>3 DEF DeathBegin
  <2> QED
    BY <1>9, <2>2, <2>4 DEF DeathBegin, reqVars, closeVars
<1>10. ASSUME NEW q \in Req, DeathTell(q) PROVE Untouched(r)'
  BY <1>10 DEF DeathTell, Post, Tell, connVars, closeVars
<1>11. ASSUME NEW q \in Req, DeathCleanCheck(q) PROVE Untouched(r)'
  BY <1>11 DEF DeathCleanCheck, connVars, reqVars, closeVars
<1>12. ASSUME NEW c \in Conn, OnAbilityConnectDone(c) \/ OnAbilityConnectFailed(c)
       PROVE  Untouched(r)'
  <2>1. UNCHANGED <<heard, recipient, closeVars, deathVars>>
    BY <1>12 DEF OnAbilityConnectDone, OnAbilityConnectFailed
  <2>2. CASE UNCHANGED <<pending, connected, tasks, told>>
    BY <2>1, <2>2 DEF closeVars, deathVars
  <2>3. ASSUME NEW S \in SUBSET pending[c], MovePending(c, S), AnswerPending(pending[c], S)
        PROVE  Untouched(r)'
    <3>1. r \notin pending[c] /\ r \notin S
      OBVIOUS
    <3>2. tasks'[r] = tasks[r] /\ told'[r] = told[r]
      BY <2>3, <3>1 DEF AnswerPending, Tell
    <3>3. \A d \in Conn : r \notin pending'[d] /\ r \notin connected'[d]
      BY <2>3, <3>1 DEF MovePending
    <3> QED
      BY <2>1, <3>2, <3>3 DEF closeVars, deathVars
  <2> QED
    BY <1>12, <2>2, <2>3 DEF OnAbilityConnectDone, OnAbilityConnectFailed, connVars
<1>13. ASSUME NEW c \in Conn, OnAbilityDisconnectDone(c) PROVE Untouched(r)'
  BY <1>13 DEF OnAbilityDisconnectDone, Held, Post, closeVars, deathVars
<1>14. ASSUME NEW q \in Req, RunTask(q) PROVE Untouched(r)'
  <2>1. q # r
    BY <1>14 DEF RunTask
  <2>2. tasks'[r] = tasks[r] /\ heard'[r] = heard[r]
    BY <1>14, <2>1 DEF RunTask, RunOnConnect, RunOnDisconnect, RunOnFailed, Delivered
  <2> QED
    BY <1>14, <2>2 DEF RunTask, connVars, closeVars, deathVars
<1>15. ASSUME UNCHANGED <<pending, connected, reqVars, dpc, hpop>> PROVE Untouched(r)'
  BY <1>15 DEF reqVars
<1> QED
  BY <1>1, <1>2, <1>3, <1>4, <1>5, <1>6, <1>7, <1>8, <1>9, <1>10, <1>11, <1>12,
     <1>13, <1>14, <1>15
     DEF Next, vars, ConnectCall, CloseCall, DeathHandler, AbilityCallback,
         DisconnectDone, ConnectBegin, ConnectRejected,
         LookUpOrNewIpcConnection, RetryDelete, RetryNew, ConnectCheckEmpty,
         ConnectClean, ConnectCleanCheck, ConnectStopExit, DeathAbility,
         DeathClean, DisconnectDoneClean, DisconnectDoneCheck, ExitSaProcess,
         UnloadSystemAbility, CallerDies, ExtensionCrashes, connVars,
         closeVars, deathVars

(* Lists that shrink or that exchange requests on one connection hold no   *)
(* request twice.                                                          *)
LEMMA HeldOnceWithin ==
  ASSUME HeldOnce,
         \A c \in Conn : pending'[c] \cap connected'[c] = {},
         \A c \in Conn : Held(c)' \subseteq Held(c)
  PROVE  HeldOnce'
BY DEF HeldOnce

(* A connect call that has not been accepted finds its request nowhere.    *)
LEMMA NotHeldBefore ==
  ASSUME ResultFits, OnlyAcceptedTouched, NEW r \in Req,
         ConnectAt(r, {"connect", "retryConnect"})
  PROVE  \A c \in Conn : r \notin pending[c] /\ r \notin connected[c]
BY DEF ResultFits, OnlyAcceptedTouched, Accepted, Untouched, ConnectAt

(* Such a call may add its request to one list of one connection.          *)
LEMMA HeldOnceAdd ==
  ASSUME TypeOK, HeldOnce, NEW r \in Req, NEW c, NEW l, l \subseteq {r},
         \A d \in Conn : r \notin pending[d] /\ r \notin connected[d],
         \/ pending' = [pending EXCEPT ![c] = @ \cup l] /\ UNCHANGED connected
         \/ connected' = [connected EXCEPT ![c] = @ \cup l] /\ UNCHANGED pending
  PROVE  HeldOnce'
<1>1. pending \in [Conn -> SUBSET Req] /\ connected \in [Conn -> SUBSET Req]
  BY DEF TypeOK
<1>2. CASE pending' = [pending EXCEPT ![c] = @ \cup l] /\ UNCHANGED connected
  <2>1. \A d \in Conn : pending'[d] = IF d = c THEN pending[d] \cup l ELSE pending[d]
    BY <1>1, <1>2
  <2> QED
    BY <1>2, <2>1 DEF HeldOnce, Held
<1>3. CASE connected' = [connected EXCEPT ![c] = @ \cup l] /\ UNCHANGED pending
  <2>1. \A d \in Conn : connected'[d] = IF d = c THEN connected[d] \cup l ELSE connected[d]
    BY <1>1, <1>3
  <2> QED
    BY <1>3, <2>1 DEF HeldOnce, Held
<1> QED
  BY <1>2, <1>3

(* No step puts a request into a second list.                              *)
LEMMA HeldOnceStep ==
  ASSUME TypeOK, ResultFits, OnlyAcceptedTouched, HeldOnce, [Next]_vars
  PROVE  HeldOnce'
<1>t. pending \in [Conn -> SUBSET Req] /\ connected \in [Conn -> SUBSET Req]
  BY DEF TypeOK
<1>h. \A c \in Conn : pending[c] \cap connected[c] = {}
  BY DEF HeldOnce
<1>1. ASSUME NEW r \in Req, ConnectNativeInit(r) PROVE HeldOnce'
  <2>1. \A c \in Conn : r \notin pending[c] /\ r \notin connected[c]
    BY <1>1, NotHeldBefore DEF ConnectNativeInit
  <2>2. UNCHANGED connected
    BY <1>1 DEF ConnectNativeInit
  <2>3. CASE pending' = [pending EXCEPT ![cconn[r]] = @ \cup {r}]
    BY <2>1, <2>2, <2>3, HeldOnceAdd
  <2>4. CASE pending' = [pending EXCEPT ![cconn[r]] =
                            RemovePendingRequestUnlock(@ \cup {r}, r)]
    <3>1. \A c \in Conn : pending'[c] = pending[c]
      BY <1>t, <2>1, <2>4 DEF RemovePendingRequestUnlock
    <3> QED
      BY <1>h, <2>2, <3>1, HeldOnceWithin DEF Held
  <2> QED
    BY <1>1, <2>3, <2>4 DEF ConnectNativeInit
<1>2. ASSUME NEW r \in Req, ConnectNativeConnecting(r) PROVE HeldOnce'
  <2>1. \A c \in Conn : r \notin pending[c] /\ r \notin connected[c]
    BY <1>2, NotHeldBefore DEF ConnectNativeConnecting
  <2>2. pending' = [pending EXCEPT ![cconn[r]] = @ \cup {r}] /\ UNCHANGED connected
    BY <1>2 DEF ConnectNativeConnecting
  <2> QED
    BY <2>1, <2>2, HeldOnceAdd
<1>3. ASSUME NEW r \in Req, ConnectNativeConnected(r) PROVE HeldOnce'
  <2>1. \A c \in Conn : r \notin pending[c] /\ r \notin connected[c]
    BY <1>3, NotHeldBefore DEF ConnectNativeConnected
  <2>2. UNCHANGED pending
    BY <1>3 DEF ConnectNativeConnected
  <2>3. CASE connected' = [connected EXCEPT ![cconn[r]] = @ \cup {r}]
    BY <2>1, <2>2, <2>3, HeldOnceAdd
  <2>4. CASE UNCHANGED connected
    BY <2>2, <2>4 DEF HeldOnce, Held
  <2> QED
    BY <1>3, <2>3, <2>4 DEF ConnectNativeConnected
<1>4. ASSUME NEW t \in Closing, CloseRemove(t) PROVE HeldOnce'
  <2>1. \A c \in Conn : pending'[c] \subseteq pending[c]
    <3>1. pending' = pending \/ pending' = Erased(pending, dconn[t], t[1])
      BY <1>4 DEF CloseRemove
    <3> QED
      BY <1>t, <3>1 DEF Erased
  <2>2. \A c \in Conn : connected'[c] \subseteq connected[c]
    <3>1. connected' = connected \/ connected' = Erased(connected, dconn[t], t[1])
      BY <1>4 DEF CloseRemove
    <3> QED
      BY <1>t, <3>1 DEF Erased
  <2> QED
    BY <1>h, <2>1, <2>2, HeldOnceWithin DEF Held
<1>5. ASSUME NEW r \in Req, DeathBegin(r) PROVE HeldOnce'
  <2>1. UNCHANGED pending
    BY <1>5 DEF DeathBegin
  <2>2. \A c \in Conn : connected'[c] \subseteq connected[c]
    BY <1>t, <1>5 DEF DeathBegin, LeftBySwap
  <2> QED
    BY <1>h, <2>1, <2>2, HeldOnceWithin DEF Held
<1>6. ASSUME NEW c \in Conn, OnAbilityConnectDone(c) \/ OnAbilityConnectFailed(c)
      PROVE  HeldOnce'
  <2>1. CASE UNCHANGED <<pending, connected>>
    BY <2>1 DEF HeldOnce, Held
  <2>2. ASSUME NEW S \in SUBSET pending[c], MovePending(c, S) PROVE HeldOnce'
    <3>1. \A d \in Conn : pending'[d] = IF d = c THEN {} ELSE pending[d]
      BY <1>t, <2>2 DEF MovePending
    <3>2. \A d \in Conn : connected'[d] = IF d = c THEN connected[d] \cup S
                                          ELSE connected[d]
      BY <1>t, <2>2 DEF MovePending
    <3>3. S \subseteq pending[c]
      OBVIOUS
    <3>4. \A d \in Conn : pending'[d] \cap connected'[d] = {}
      BY <1>h, <3>1, <3>2
    <3>5. \A d \in Conn : Held(d)' \subseteq Held(d)
      BY <3>1, <3>2, <3>3 DEF Held
    <3> QED
      BY <3>4, <3>5, HeldOnceWithin
  <2> QED
    BY <1>6, <2>1, <2>2 DEF OnAbilityConnectDone, OnAbilityConnectFailed, connVars
<1>7. ASSUME NEW c \in Conn, OnAbilityDisconnectDone(c) PROVE HeldOnce'
  <2>1. \A d \in Conn : pending'[d] \subseteq pending[d] /\ connected'[d] \subseteq connected[d]
    BY <1>t, <1>7 DEF OnAbilityDisconnectDone
  <2> QED
    BY <1>h, <2>1, HeldOnceWithin DEF Held
<1>8. ASSUME UNCHANGED <<pending, connected>> PROVE HeldOnce'
  BY <1>8 DEF HeldOnce, Held
<1> QED
  BY <1>1, <1>2, <1>3, <1>4, <1>5, <1>6, <1>7, <1>8
     DEF Next, vars, ConnectCall, CloseCall, DeathHandler, AbilityCallback,
         DisconnectDone, ConnectBegin, ConnectRejected,
         LookUpOrNewIpcConnection, ConnectNativeDisconnected, RetryDelete,
         RetryNew, ConnectCheckEmpty, ConnectClean, ConnectCleanCheck,
         ConnectStopExit, DisconnectBegin, DisconnectLookUp, StopBegin,
         CloseTell, CloseCheckEmpty, CloseAbility, CloseDelete, DeathTell,
         DeathAbility, DeathClean, DeathCleanCheck, DisconnectDoneClean,
         DisconnectDoneCheck, RunTask, ExitSaProcess, UnloadSystemAbility,
         CallerDies, ExtensionCrashes, connVars

----------------------------------------------------------------------------
(* The invariant from which the theorems below follow.  That a request is  *)
(* added to a list once rests on its not being anywhere before its call is *)
(* accepted, and this on the calls and handlers that may hold it.          *)
RequestInv ==
    /\ ConnInv
    /\ ResultFits
    /\ OnlyAcceptedTouched
    /\ HeldOnce

LEMMA RequestInvInit == Init => RequestInv
<1> SUFFICES ASSUME Init PROVE RequestInv
  OBVIOUS
<1>1. ConnInv
  BY ConnInvInit
<1>2. ResultFits
  BY DEF Init, ResultFits
<1>3. OnlyAcceptedTouched
  BY DEF Init, OnlyAcceptedTouched, Untouched
<1>4. HeldOnce
  BY DEF Init, HeldOnce, Held
<1> QED
  BY <1>1, <1>2, <1>3, <1>4 DEF RequestInv

LEMMA RequestInvStep == RequestInv /\ [Next]_vars => RequestInv'
<1> SUFFICES ASSUME RequestInv, [Next]_vars PROVE RequestInv'
  OBVIOUS
<1> USE DEF RequestInv
<1>1. ConnInv'
  BY ConnInvStep
<1>2. TypeOK /\ CloseWorks
  BY DEF ConnInv, WorksOnConn
<1>3. ResultFits'
  BY <1>2, ResultFitsStep
<1>4. AcceptedStays
  BY <1>2, AcceptedStaysStep
<1>5. OnlyAcceptedTouched'
  BY <1>2, <1>4, OnlyAcceptedTouchedStep
<1>6. HeldOnce'
  BY <1>2, HeldOnceStep
<1> QED
  BY <1>1, <1>3, <1>5, <1>6

(* Neither the retry after CONNECT_STATUS_ERROR nor the move in            *)
(* OnAbilityConnectDone leaves a request in two places.                    *)
THEOREM RequestHeldOnce == Spec => []HeldOnce
<1>1. RequestInv => HeldOnce
  BY DEF RequestInv
<1>2. Init => RequestInv
  BY RequestInvInit
<1>3. RequestInv /\ [Next]_vars => RequestInv'
  BY RequestInvStep
<1> QED
  BY <1>1, <1>2, <1>3, PTL DEF Spec

(* A connect call that returned an error left its request in no list and   *)
(* told nobody of it, whatever handlers ran while it was served.           *)
THEOREM RefusedLeavesNoTrace == Spec => []RefusedIsSilent
<1>1. RequestInv => RefusedIsSilent
  BY DEF RequestInv, ResultFits, OnlyAcceptedTouched, Accepted, Untouched,
         RefusedIsSilent, Held
<1>2. Init => RequestInv
  BY RequestInvInit
<1>3. RequestInv /\ [Next]_vars => RequestInv'
  BY RequestInvStep
<1> QED
  BY <1>1, <1>2, <1>3, PTL DEF Spec

----------------------------------------------------------------------------
(* Who may still speak of a request holds it alone ...                     *)

(* A request that no new list, handler or call takes stays in one hand.    *)
LEMMA OneHandKept ==
  ASSUME NEW r \in Req, OneHand(r),
         InPending(r)' => InPending(r),
         InConnected(r)' => InConnected(r) \/ InPending(r),
         \A t \in Closing : ClosedBy(t, r)' => ClosedBy(t, r),
         \A q \in Req : PoppedBy(q, r)' => PoppedBy(q, r)
  PROVE  OneHand(r)'
<1>1. Closed(r)' => Closed(r)
  BY DEF Closed
<1>2. Popped(r)' => Popped(r)
  BY DEF Popped
<1> QED
  BY <1>1, <1>2 DEF OneHand

(* A request is nowhere, or is in one list of one connection only.         *)
LEMMA OnlyIn ==
  ASSUME HeldOnce, NEW r \in Req, NEW c \in Conn
  PROVE  /\ r \in pending[c] => /\ r \notin connected[c]
                                /\ \A d \in Conn \ {c} : r \notin Held(d)
         /\ r \in connected[c] => /\ r \notin pending[c]
                                  /\ \A d \in Conn \ {c} : r \notin Held(d)
BY DEF HeldOnce, Held

(* A request whose connect call is still to be accepted is in no hand.     *)
LEMMA NoHandBefore ==
  ASSUME ResultFits, OnlyAcceptedTouched, NEW r \in Req,
         ConnectAt(r, {"connect", "retryConnect"})
  PROVE  /\ ~InPending(r) /\ ~InConnected(r) /\ ~Popped(r) /\ ~Closed(r)
         /\ tasks[r] = <<>> /\ heard[r] = <<>> /\ told[r] = <<>>
<1>1. ~Accepted(r)
  BY DEF ResultFits, Accepted, ConnectAt
<1>2. Untouched(r)
  BY <1>1 DEF OnlyAcceptedTouched
<1> QED
  BY <1>2 DEF Untouched, InPending, InConnected, Popped, PoppedBy, Closed, ClosedBy

(* A connect call puts no request but its own into a list.                 *)
LEMMA OthersKept ==
  ASSUME TypeOK, NEW q \in Req, NEW r \in Req, r # q,
         ConnectNativeInit(q) \/ ConnectNativeConnecting(q) \/ ConnectNativeConnected(q)
  PROVE  /\ InPending(r)' => InPending(r)
         /\ InConnected(r)' => InConnected(r)
<1>t. pending \in [Conn -> SUBSET Req] /\ connected \in [Conn -> SUBSET Req]
  BY DEF TypeOK
<1>1. \A c \in Conn : pending'[c] \subseteq pending[c] \cup {q}
  <2>1. ConnectNativeInit(q) =>
            \E l : l \subseteq pending[cconn[q]] \cup {q} /\ pending' = [pending EXCEPT ![cconn[q]] = l]
    BY DEF ConnectNativeInit, RemovePendingRequestUnlock
  <2>2. ConnectNativeInit(q) => \A c \in Conn : pending'[c] \subseteq pending[c] \cup {q}
    BY <1>t, <2>1
  <2> QED
    BY <1>t, <2>2 DEF ConnectNativeConnecting, ConnectNativeConnected
<1>2. \A c \in Conn : connected'[c] \subseteq connected[c] \cup {q}
  <2>1. \/ connected' = [connected EXCEPT ![cconn[q]] = @ \cup {q}]
        \/ UNCHANGED connected
    BY DEF ConnectNativeInit, ConnectNativeConnecting, ConnectNativeConnected
  <2> QED
    BY <1>t, <2>1
<1> QED
  BY <1>1, <1>2 DEF InPending, InConnected

(* The calls and handlers that give a request up take none.                *)
LEMMA CloseGivesUp ==
  ASSUME TypeOK, NEW r \in Req,
         \/ \E t \in Closing : \/ CloseTell(t) \/ CloseCheckEmpty(t)
                              \/ CloseAbility(t) \/ CloseDelete(t)
         \/ \E q \in Req : DisconnectBegin(q) \/ DisconnectLookUp(q) \/ StopBegin(q)
  PROVE  /\ UNCHANGED <<pending, connected, hpc, hpop>>
         /\ \A u \in Closing : ClosedBy(u, r)' => ClosedBy(u, r)
<1>t. dpc \in [Closing -> ClosePc]
  BY DEF TypeOK
<1>1. UNCHANGED <<pending, connected, hpc, hpop>>
  BY DEF CloseTell, CloseCheckEmpty, CloseAbility, CloseDelete, DisconnectBegin,
         DisconnectLookUp, StopBegin, connVars, deathVars
<1>2. \E t \in Closing, step \in ClosePc \ {"tell"} : dpc' = [dpc EXCEPT ![t] = step]
  BY DEF CloseTell, CloseCheckEmpty, CloseAbility, CloseDelete, CloseEnd,
         DisconnectBegin, DisconnectLookUp, StopBegin, Closing, ClosePc
<1>3. \A u \in Closing : ClosedBy(u, r)' => ClosedBy(u, r)
  BY <1>t, <1>2 DEF ClosedBy
<1> QED
  BY <1>1, <1>3

(* A death handler lets go of the requests it popped.                      *)
LEMMA DeathGivesUp ==
  ASSUME TypeOK, NEW r \in Req, NEW q \in Req, DeathHandler(q)
  PROVE  /\ UNCHANGED <<pending, connected, dpc>>
         /\ \A p \in Req : PoppedBy(p, r)' => p # q /\ PoppedBy(p, r)
<1>t. hpc \in [Req -> DeathPc] /\ hpop \in [Req -> SUBSET Req]
  BY DEF TypeOK
<1>1. UNCHANGED <<pending, connected, dpc>>
  BY DEF DeathHandler, DeathTell, DeathAbility, DeathClean, DeathCleanCheck,
         connVars, closeVars
<1>2. /\ \E step \in DeathPc \ {"tell"} : hpc' = [hpc EXCEPT ![q] = step]
      /\ \A p \in Req : p # q => hpop'[p] = hpop[p]
  BY <1>t DEF DeathHandler, DeathTell, DeathAbility, DeathClean, DeathCleanCheck, DeathPc
<1>3. \A p \in Req : PoppedBy(p, r)' => p # q /\ PoppedBy(p, r)
  BY <1>t, <1>2 DEF PoppedBy
<1> QED
  BY <1>1, <1>3

(* No step puts a request into a second hand.                              *)
LEMMA InOneHandStep ==
  ASSUME TypeOK, ResultFits, OnlyAcceptedTouched, HeldOnce, InOneHand, CloseWorks,
         [Next]_vars
  PROVE  InOneHand'
<1> SUFFICES ASSUME NEW r \in Req PROVE OneHand(r)'
  BY DEF InOneHand
<1>a. OneHand(r)
  BY DEF InOneHand
<1>t. /\ pending \in [Conn -> SUBSET Req] /\ connected \in [Conn -> SUBSET Req]
      /\ dpc \in [Closing -> ClosePc] /\ hpc \in [Req -> DeathPc]
      /\ hpop \in [Req -> SUBSET Req] /\ recipient \in [Req -> Conn \cup {NoConn}]
      /\ dconn \in [Closing -> Conn \cup {NoConn}]
  BY DEF TypeOK
<1>l. ASSUME UNCHANGED <<pending, connected>>
      PROVE  InPending(r)' = InPending(r) /\ InConnected(r)' = InConnected(r)
  BY <1>l DEF InPending, InConnected
<1>d. ASSUME UNCHANGED <<hpc, hpop>>
      PROVE  \A q \in Req : PoppedBy(q, r)' => PoppedBy(q, r)
  BY <1>d DEF PoppedBy
<1>c. ASSUME UNCHANGED dpc
      PROVE  \A t \in Closing : ClosedBy(t, r)' => ClosedBy(t, r)
  BY <1>c DEF ClosedBy
<1>1. ASSUME NEW q \in Req,
             ConnectNativeInit(q) \/ ConnectNativeConnecting(q) \/ ConnectNativeConnected(q)
      PROVE  OneHand(r)'
  <2>1. UNCHANGED <<dpc, hpc, hpop>>
    BY <1>1 DEF ConnectNativeInit, ConnectNativeConnecting, ConnectNativeConnected,
                closeVars, deathVars
  <2>2. CASE r = q
    <3>1. ~Popped(r) /\ ~Closed(r)
      BY <1>1, <2>2, NoHandBefore
         DEF ConnectNativeInit, ConnectNativeConnecting, ConnectNativeConnected
    <3>2. ~Popped(r)' /\ ~Closed(r)'
      BY <2>1, <3>1 DEF Popped, PoppedBy, Closed, ClosedBy
    <3> QED
      BY <3>2 DEF OneHand, Popped, Closed
  <2>3. CASE r # q
    BY <1>1, <1>a, <1>c, <1>d, <2>1, <2>3, OthersKept, OneHandKept
  <2> QED
    BY <2>2, <2>3
<1>2. ASSUME NEW t \in Closing, CloseRemove(t) PROVE OneHand(r)'
  <2>1. dconn[t] \in Conn /\ UNCHANGED <<hpc, hpop>>
    BY <1>2, <1>t DEF CloseRemove, CloseAt, CloseWorks, deathVars
  <2>2. \A q \in Req : PoppedBy(q, r)' => PoppedBy(q, r)
    BY <1>d, <2>1
  <2>3. /\ \A c \in Conn : pending'[c] \subseteq pending[c]
        /\ \A c \in Conn : connected'[c] \subseteq connected[c]
    <3>1. pending' = pending \/ pending' = Erased(pending, dconn[t], t[1])
      BY <1>2 DEF CloseRemove
    <3>2. connected' = connected \/ connected' = Erased(connected, dconn[t], t[1])
      BY <1>2 DEF CloseRemove
    <3> QED
      BY <1>t, <3>1, <3>2 DEF Erased
  <2>4. CASE t[1] = r /\ r \in Held(dconn[t])
    <3>1. InPending(r) \/ InConnected(r)
      BY <2>1, <2>4 DEF Held, InPending, InConnected
    <3>2. ~Closed(r) /\ ~Popped(r)
      BY <1>a, <3>1 DEF OneHand
    <3>3. \A d \in Conn : r \notin pending'[d] /\ r \notin connected'[d]
      <4>1. CASE r \in pending[dconn[t]]
        <5>1. pending' = Erased(pending, dconn[t], r) /\ connected' = connected
          BY <1>2, <2>4, <4>1 DEF CloseRemove, Held
        <5>2. r \notin pending'[dconn[t]]
          BY <1>t, <2>1, <5>1 DEF Erased
        <5> QED
          BY <2>1, <2>3, <4>1, <5>1, <5>2, OnlyIn DEF Held
      <4>2. CASE r \in connected[dconn[t]] \ pending[dconn[t]]
        <5>1. connected' = Erased(connected, dconn[t], r) /\ pending' = pending
          BY <1>2, <2>4, <4>2 DEF CloseRemove, Held
        <5>2. r \notin connected'[dconn[t]]
          BY <1>t, <2>1, <5>1 DEF Erased
        <5> QED
          BY <2>1, <2>3, <4>2, <5>1, <5>2, OnlyIn DEF Held
      <4> QED
        BY <2>4, <4>1, <4>2 DEF Held
    <3>4. ~InPending(r)' /\ ~InConnected(r)' /\ ~Popped(r)'
      BY <2>2, <3>2, <3>3 DEF InPending, InConnected, Popped
    <3>5. \A u \in Closing : ClosedBy(u, r)' => u = t
      <4>1. dpc' = [dpc EXCEPT ![t] = "tell"]
        BY <1>2, <2>4 DEF CloseRemove
      <4> QED
        BY <1>t, <3>2, <4>1 DEF Closed, ClosedBy
    <3> QED
      BY <3>4, <3>5 DEF OneHand, Popped
  <2>5. CASE ~(t[1] = r /\ r \in Held(dconn[t]))
    <3>1. \A u \in Closing : ClosedBy(u, r)' => ClosedBy(u, r)
      <4>1. \/ dpc' = [dpc EXCEPT ![t] = "done"]
            \/ t[1] # r /\ dpc' = [dpc EXCEPT ![t] = "tell"]
        BY <1>2, <2>5 DEF CloseRemove, CloseEnd, Held
      <4> QED
        BY <1>t, <4>1 DEF ClosedBy
    <3>2. (InPending(r)' => InPending(r)) /\ (InConnected(r)' => InConnected(r))
      BY <2>3 DEF InPending, InConnected
    <3> QED
      BY <1>a, <2>2, <3>1, <3>2, OneHandKept
  <2> QED
    BY <2>4, <2>5
<1>3. ASSUME \/ \E t \in Closing : \/ CloseTell(t) \/ CloseCheckEmpty(t)
                                  \/ CloseAbility(t) \/ CloseDelete(t)
             \/ \E q \in Req : DisconnectBegin(q) \/ DisconnectLookUp(q) \/ StopBegin(q)
      PROVE  OneHand(r)'
  BY <1>3, <1>a, <1>l, <1>d, CloseGivesUp, OneHandKept
<1>5. ASSUME NEW q \in Req, DeathBegin(q) PROVE OneHand(r)'
  <2> DEFINE c == recipient[q]
  <2>1. c \in Conn /\ UNCHANGED <<pending, dpc>>
    BY <1>5, <1>t DEF DeathBegin, closeVars
  <2>2. /\ hpop' = [hpop EXCEPT ![q] = PopDeleteList(c)]
        /\ connected' = [connected EXCEPT ![c] = LeftBySwap(c)]
        /\ hpc' = [hpc EXCEPT ![q] = "tell"]
    BY <1>5 DEF DeathBegin
  <2>3. \A t \in Closing : ClosedBy(t, r)' => ClosedBy(t, r)
    BY <1>c, <2>1
  <2>4. \A d \in Conn : connected'[d] \subseteq connected[d]
    BY <1>t, <2>1, <2>2 DEF LeftBySwap
  <2>5. InPending(r)' = InPending(r) /\ (InConnected(r)' => InConnected(r))
    BY <2>1, <2>4 DEF InPending, InConnected
  <2>6. CASE r \in PopDeleteList(c)
    <3>1. r \in connected[c] /\ LeftBySwap(c) = {}
      BY <2>6 DEF PopDeleteList, LeftBySwap
    <3>2. ~Closed(r) /\ ~Popped(r)
      BY <1>a, <2>1, <3>1 DEF OneHand, InConnected
    <3>3. ~InPending(r)'
      BY <2>1, <3>1, OnlyIn DEF InPending, Held
    <3>4. ~InConnected(r)'
      <4>1. connected'[c] = {}
        BY <1>t, <2>1, <2>2, <3>1
      <4> QED
        BY <2>1, <2>4, <3>1, <4>1, OnlyIn DEF InConnected, Held
    <3>5. ~Closed(r)'
      BY <2>3, <3>2 DEF Closed
    <3>6. \A p \in Req : PoppedBy(p, r)' => p = q
      BY <1>t, <2>2, <3>2 DEF Popped, PoppedBy
    <3> QED
      BY <3>3, <3>4, <3>5, <3>6 DEF OneHand, Closed
  <2>7. CASE r \notin PopDeleteList(c)
    <3>1. \A p \in Req : PoppedBy(p, r)' => PoppedBy(p, r)
      BY <1>t, <2>2, <2>7 DEF PoppedBy
    <3> QED
      BY <1>a, <2>3, <2>5, <3>1, OneHandKept
  <2> QED
    BY <2>6, <2>7
<1>4. ASSUME NEW q \in Req, DeathHandler(q) PROVE OneHand(r)'
  BY <1>4, <1>a, <1>l, <1>c, DeathGivesUp, OneHandKept
<1>6. ASSUME NEW c \in Conn, AbilityCallback(c) PROVE OneHand(r)'
  <2>1. UNCHANGED <<dpc, hpc, hpop>>
    BY <1>6 DEF AbilityCallback, OnAbilityConnectDone, OnAbilityConnectFailed,
                OnAbilityDisconnectDone, closeVars, deathVars
  <2>2. \A d \in Conn : /\ pending'[d] \subseteq pending[d]
                        /\ connected'[d] \subseteq connected[d] \cup pending[d]
    <3>1. \/ UNCHANGED <<pending, connected>>
          \/ \E S \in SUBSET pending[c] : MovePending(c, S)
          \/ /\ pending' = [pending EXCEPT ![c] = {}]
             /\ connected' = [connected EXCEPT ![c] = {}]
      BY <1>6 DEF AbilityCallback, OnAbilityConnectDone, OnAbilityConnectFailed,
                  OnAbilityDisconnectDone, connVars
    <3>2. CASE \E S \in SUBSET pending[c] : MovePending(c, S)
      BY <1>t, <3>2 DEF MovePending
    <3>3. CASE /\ pending' = [pending EXCEPT ![c] = {}]
               /\ connected' = [connected EXCEPT ![c] = {}]
      BY <1>t, <3>3
    <3> QED
      BY <3>1, <3>2, <3>3
  <2>3. /\ InPending(r)' => InPending(r)
        /\ InConnected(r)' => InConnected(r) \/ InPending(r)
    BY <2>2 DEF InPending, InConnected
  <2> QED
    BY <1>a, <1>c, <1>d, <2>1, <2>3, OneHandKept
<1>7. ASSUME UNCHANGED <<pending, connected, dpc, hpc, hpop>> PROVE OneHand(r)'
  BY <1>a, <1>l, <1>c, <1>d, <1>7, OneHandKept
<1> QED
  BY <1>1, <1>2, <1>3, <1>4, <1>5, <1>6, <1>7
     DEF Next, vars, ConnectCall, CloseCall, DisconnectDone, ConnectBegin,
         ConnectRejected, LookUpOrNewIpcConnection, ConnectNativeDisconnected,
         RetryDelete, RetryNew, ConnectCheckEmpty, ConnectClean,
         ConnectCleanCheck, ConnectStopExit, DisconnectDoneClean,
         DisconnectDoneCheck, RunTask, ExitSaProcess, UnloadSystemAbility,
         CallerDies, ExtensionCrashes, connVars, closeVars, deathVars

----------------------------------------------------------------------------
(* ... and knows how far it has come.  The queues are short.               *)
LEMMA ShortQueues ==
  ASSUME NEW x, NEW y
  PROVE  /\ Append(<<>>, x) = <<x>> /\ Append(<<x>>, y) = <<x, y>>
         /\ Head(<<x>>) = x /\ Tail(<<x>>) = <<>>
         /\ Head(<<x, y>>) = x /\ Tail(<<x, y>>) = <<y>>
         /\ <<x>> # <<>> /\ <<x, y>> # <<>> /\ <<x, y>> # <<y>> /\ <<x, y>> # <<x>>
<1>1. /\ <<x>> \in Seq({x, y}) /\ <<x, y>> \in Seq({x, y})
      /\ Len(<<x>>) = 1 /\ Len(<<x, y>>) = 2
      /\ <<x, y>>[1] = x /\ <<x, y>>[2] = y
  OBVIOUS
<1>2. Append(<<x>>, y) = <<x, y>>
  <2>1. /\ Append(<<x>>, y) \in Seq({x, y}) /\ Len(Append(<<x>>, y)) = 2
        /\ Append(<<x>>, y)[1] = x /\ Append(<<x>>, y)[2] = y
    BY <1>1, AppendProperties
  <2>2. \A i \in 1..2 : Append(<<x>>, y)[i] = <<x, y>>[i]
    BY <1>1, <2>1
  <2> QED
    BY <1>1, <2>1, <2>2, SeqEqual
<1>3. Append(<<>>, x) = <<x>>
  OBVIOUS
<1>4. Head(<<x>>) = x /\ Tail(<<x>>) = <<>>
  OBVIOUS
<1>5. Head(<<x, y>>) = x /\ Tail(<<x, y>>) = <<y>>
  OBVIOUS
<1>6. <<x>> # <<>> /\ <<x, y>> # <<>>
  OBVIOUS
<1>7. <<x, y>> # <<y>> /\ <<x, y>> # <<x>>
  OBVIOUS
<1> QED
  BY <1>2, <1>3, <1>4, <1>5, <1>6, <1>7

(* A request of which nothing was said, ...                                *)
LEMMA FreshBefore ==
  ASSUME NEW r \in Req, Life(r), tasks[r] = <<>>, told[r] = <<>>, heard[r] = <<>>
  PROVE  Fresh(r)
<1>1. <<"ConnectNative">> # <<>> /\ <<"OnConnect", "OnDisconnect">> # <<>>
      /\ <<"OnFailed">> # <<>>
  BY ShortQueues
<1> QED
  BY <1>1 DEF Life, Phase, Fresh, Served, Ended, Failing, Over

(* A request of which a step says nothing and that goes from hand to hand  *)
(* no other way than this is where it was.                                 *)
LEMMA LifeKept ==
  ASSUME NEW r \in Req, Life(r), alive' \subseteq alive,
         tasks'[r] = tasks[r], isConnected'[r] = isConnected[r],
         heard'[r] = heard[r], told'[r] = told[r],
         InPending(r)' => InPending(r),
         InConnected(r)' => InConnected(r),
         Popped(r)' => Popped(r) \/ InConnected(r),
         Closed(r)' => Closed(r) \/ InPending(r) \/ InConnected(r)
  PROVE  Life(r)'
<1>1. OpenHeard(r) => OpenHeard(r)'
  BY DEF OpenHeard
<1>2. (Fresh(r) => Fresh(r)') /\ (Over(r) => Over(r)') /\ (Failing(r) => Failing(r)')
      /\ (ToldFits(r) => ToldFits(r)')
  BY DEF Fresh, Over, Failing, ToldFits
<1>3. Served(r) => Served(r)'
  BY <1>1 DEF Served, Opening, Opened
<1>4. Ended(r) => Ended(r)'
  BY <1>1 DEF Ended, Ending, ToldFits
<1> QED
  BY <1>2, <1>3, <1>4 DEF Life, Phase

(* What a post makes of a request.                                         *)
LEMMA OpeningPosted ==
  ASSUME NEW r \in Req, Fresh(r), tasks'[r] = Append(tasks[r], "OnConnect"),
         told'[r] = Append(told[r], "ConnectNative"),
         isConnected'[r] = isConnected[r], heard'[r] = heard[r]
  PROVE  Served(r)'
BY ShortQueues DEF Fresh, Served, Opening

(* A pending request that the extension refused.                           *)
LEMMA FailingPosted ==
  ASSUME NEW r \in Req, Fresh(r), tasks'[r] = Append(tasks[r], "OnFailed"),
         told'[r] = told[r], isConnected'[r] = isConnected[r], heard'[r] = heard[r]
  PROVE  Phase(r)'
BY ShortQueues DEF Fresh, Phase, Failing

(* The end of a request that waits or is served.                           *)
LEMMA EndPosted ==
  ASSUME NEW r \in Req, Fresh(r) \/ Served(r), alive' = alive,
         tasks'[r] = Append(tasks[r], "OnDisconnect"),
         \/ told'[r] = told[r]
         \/ Served(r) /\ told'[r] = Append(told[r], "DisconnectNative"),
         isConnected'[r] = isConnected[r], heard'[r] = heard[r]
  PROVE  Phase(r)'
<1>1. CASE Fresh(r)
  <2>1. tasks'[r] = <<"OnDisconnect">> /\ ~isConnected'[r] /\ heard'[r] = <<>>
    BY <1>1, ShortQueues DEF Fresh
  <2>2. told'[r] = <<>>
    BY <1>1, ShortQueues DEF Fresh, Served
  <2> QED
    BY <2>1, <2>2 DEF Phase, Over, ToldFits
<1>2. CASE Served(r)
  <2>1. told'[r] \in {<<"ConnectNative">>, <<"ConnectNative", "DisconnectNative">>}
    BY <1>2, ShortQueues DEF Served
  <2>2. ToldFits(r)' /\ told'[r] # <<>>
    BY <2>1, ShortQueues DEF ToldFits
  <2>3. OpenHeard(r) => OpenHeard(r)'
    BY DEF OpenHeard
  <2>4. Ending(r)'
    <3>1. CASE Opening(r)
      BY <3>1, ShortQueues DEF Opening, Ending
    <3>2. CASE Opened(r)
      BY <2>3, <3>2, ShortQueues DEF Opened, Ending
    <3> QED
      BY <1>2, <3>1, <3>2 DEF Served
  <2> QED
    BY <2>2, <2>4 DEF Phase, Ended
<1> QED
  BY <1>1, <1>2

(* What a step may let the caller of a request hear.                       *)
HeardStep(r) ==
    \/ heard'[r] = heard[r]
    \/ heard[r] = <<>> /\ heard'[r] \in {<<"OnConnect">>, <<"OnFailed">>}
    \/ heard[r] = <<"OnConnect">> /\ heard'[r] = <<"OnConnect", "OnDisconnect">>

(* What the run of a posted callback makes of its request.                 *)
LEMMA CallbackRun ==
  ASSUME TypeOK, NEW r \in Req, Phase(r), RunTask(r)
  PROVE  /\ ~Fresh(r) /\ Phase(r)' /\ (Served(r) => Served(r)')
         /\ HeardStep(r)
<1>t. /\ tasks \in [Req -> Seq(Callback)] /\ heard \in [Req -> Seq(Callback)]
      /\ isConnected \in [Req -> BOOLEAN]
  BY DEF TypeOK
<1>1. /\ tasks[r] # <<>> /\ tasks'[r] = Tail(tasks[r])
      /\ told'[r] = told[r] /\ alive' = alive
  BY <1>t DEF RunTask
<1>2. ~Fresh(r)
  BY <1>1 DEF Fresh
<1>3. (ToldFits(r) => ToldFits(r)')
  BY <1>1 DEF ToldFits
<1>4. ASSUME Head(tasks[r]) = "OnConnect"
      PROVE  /\ isConnected'[r]
             /\ ~isConnected[r] => heard'[r] = IF ProcOf[r] \in alive
                                               THEN Append(heard[r], "OnConnect")
                                               ELSE heard[r]
  <2>1. RunOnConnect(r)
    BY <1>4 DEF RunTask
  <2>2. isConnected'[r]
    BY <1>t, <2>1 DEF RunOnConnect
  <2>3. ~isConnected[r] => heard' = Delivered(r, "OnConnect")
    BY <2>1 DEF RunOnConnect
  <2> QED
    BY <1>t, <2>2, <2>3 DEF Delivered
<1>5. ASSUME Head(tasks[r]) = "OnDisconnect"
      PROVE  /\ ~isConnected'[r]
             /\ isConnected[r] => heard'[r] = IF ProcOf[r] \in alive
                                              THEN Append(heard[r], "OnDisconnect")
                                              ELSE heard[r]
             /\ ~isConnected[r] => heard'[r] = heard[r]
  <2>1. RunOnDisconnect(r)
    BY <1>5 DEF RunTask
  <2>2. ~isConnected'[r]
    BY <1>t, <2>1 DEF RunOnDisconnect
  <2>3. /\ isConnected[r] => heard' = Delivered(r, "OnDisconnect")
        /\ ~isConnected[r] => heard' = heard
    BY <2>1 DEF RunOnDisconnect
  <2> QED
    BY <1>t, <2>2, <2>3 DEF Delivered
<1>6. ASSUME Head(tasks[r]) = "OnFailed"
      PROVE  /\ isConnected'[r] = isConnected[r]
             /\ heard'[r] = IF ProcOf[r] \in alive THEN Append(heard[r], "OnFailed")
                            ELSE heard[r]
  BY <1>t, <1>6 DEF RunTask, RunOnFailed, Delivered
<1>7. CASE Served(r)
  <2>1. tasks[r] = <<"OnConnect">> /\ ~isConnected[r] /\ heard[r] = <<>>
    BY <1>1, <1>7 DEF Served, Opening, Opened
  <2>2. tasks'[r] = <<>> /\ isConnected'[r]
    BY <1>1, <1>4, <2>1, ShortQueues
  <2>3. heard'[r] = IF ProcOf[r] \in alive THEN <<"OnConnect">> ELSE <<>>
    BY <1>4, <2>1, ShortQueues
  <2>4. OpenHeard(r)'
    BY <1>1, <2>3 DEF OpenHeard
  <2>5. Opened(r)'
    BY <2>2, <2>4 DEF Opened
  <2>6. Served(r)'
    BY <1>1, <1>7, <2>5 DEF Served
  <2> QED
    BY <1>2, <2>1, <2>3, <2>6 DEF Phase, HeardStep
<1>8. CASE Ended(r)
  <2>1. ~Served(r)
    BY <1>8, ShortQueues DEF Ended, Ending, Served, Opening, Opened
  <2>2. CASE tasks[r] = <<"OnConnect", "OnDisconnect">>
    <3>1. ~isConnected[r] /\ heard[r] = <<>>
      BY <1>8, <2>2, ShortQueues DEF Ended, Ending
    <3>2. tasks'[r] = <<"OnDisconnect">> /\ isConnected'[r]
      BY <1>1, <1>4, <2>2, ShortQueues
    <3>3. heard'[r] = IF ProcOf[r] \in alive THEN <<"OnConnect">> ELSE <<>>
      BY <1>4, <2>2, <3>1, ShortQueues
    <3>4. OpenHeard(r)'
      BY <1>1, <3>3 DEF OpenHeard
    <3>5. Ending(r)'
      BY <3>2, <3>4 DEF Ending
    <3>6. Ended(r)'
      BY <1>1, <1>3, <1>8, <3>5 DEF Ended
    <3> QED
      BY <1>2, <2>1, <3>1, <3>3, <3>6 DEF Phase, HeardStep
  <2>3. CASE tasks[r] # <<"OnConnect", "OnDisconnect">>
    <3>1. tasks[r] = <<"OnDisconnect">> /\ isConnected[r] /\ OpenHeard(r)
      BY <1>8, <2>3 DEF Ended, Ending
    <3>2. tasks'[r] = <<>> /\ ~isConnected'[r]
      BY <1>1, <1>5, <3>1, ShortQueues
    <3>3. \/ heard'[r] = heard[r] /\ heard[r] \in {<<>>, <<"OnConnect">>}
          \/ heard[r] = <<"OnConnect">> /\ heard'[r] = <<"OnConnect", "OnDisconnect">>
      BY <1>5, <3>1, ShortQueues DEF OpenHeard
    <3>4. Over(r)'
      BY <3>2, <3>3 DEF Over
    <3> QED
      BY <1>2, <1>3, <1>8, <2>1, <3>3, <3>4 DEF Phase, HeardStep, Ended
  <2> QED
    BY <2>2, <2>3
<1>9. CASE Failing(r) /\ told[r] = <<>>
  <2>1. ~Served(r)
    BY <1>9, ShortQueues DEF Served
  <2>2. tasks'[r] = <<>> /\ ~isConnected'[r]
    BY <1>1, <1>6, <1>9, ShortQueues DEF Failing
  <2>3. heard[r] = <<>> /\ heard'[r] \in {<<>>, <<"OnFailed">>}
    BY <1>6, <1>9, ShortQueues DEF Failing
  <2>4. Over(r)' /\ ToldFits(r)'
    BY <1>1, <1>9, <2>2, <2>3 DEF Over, ToldFits
  <2> QED
    BY <1>2, <2>1, <2>3, <2>4 DEF Phase, HeardStep
<1>10. CASE Over(r) /\ ToldFits(r)
  <2>1. tasks[r] = <<"OnDisconnect">> /\ ~isConnected[r]
    BY <1>1, <1>10 DEF Over
  <2>2. ~Served(r)
    BY <2>1, ShortQueues DEF Served, Opening, Opened
  <2>3. tasks'[r] = <<>> /\ ~isConnected'[r] /\ heard'[r] = heard[r]
    BY <1>1, <1>5, <2>1, ShortQueues
  <2>4. Over(r)'
    BY <1>10, <2>3 DEF Over
  <2> QED
    BY <1>2, <1>3, <1>10, <2>2, <2>3, <2>4 DEF Phase, HeardStep
<1> QED
  BY <1>2, <1>7, <1>8, <1>9, <1>10 DEF Phase

(* A connect call tells of its own request only, and this is waiting or    *)
(* served once the call is accepted.                                       *)
LEMMA LifeConnect ==
  ASSUME TypeOK, ResultFits, OnlyAcceptedTouched, NEW q \in Req, NEW r \in Req, Life(r),
         ConnectNativeInit(q) \/ ConnectNativeConnecting(q) \/ ConnectNativeConnected(q)
  PROVE  Life(r)'
<1>t. tasks \in [Req -> Seq(Callback)] /\ told \in [Req -> Seq(ExtCall)]
  BY DEF TypeOK
<1>1. UNCHANGED <<dpc, hpc, hpop, alive, isConnected, heard>>
  BY DEF ConnectNativeInit, ConnectNativeConnecting, ConnectNativeConnected,
         closeVars, deathVars
<1>2. Popped(r)' = Popped(r) /\ Closed(r)' = Closed(r)
  BY <1>1 DEF Popped, PoppedBy, Closed, ClosedBy
<1>3. CASE r # q
  <2>1. tasks'[r] = tasks[r] /\ told'[r] = told[r]
    BY <1>t, <1>3 DEF ConnectNativeInit, ConnectNativeConnecting,
                      ConnectNativeConnected, Post, Tell
  <2> QED
    BY <1>1, <1>2, <1>3, <2>1, OthersKept, LifeKept
<1>4. CASE r = q
  <2>1. /\ ~InPending(r) /\ ~InConnected(r) /\ ~Popped(r) /\ ~Closed(r)
        /\ tasks[r] = <<>> /\ heard[r] = <<>> /\ told[r] = <<>>
    BY <1>4, NoHandBefore
       DEF ConnectNativeInit, ConnectNativeConnecting, ConnectNativeConnected
  <2>2. Fresh(r)
    BY <2>1, FreshBefore
  <2>3. CASE UNCHANGED <<connected, tasks, told>>
    <3>1. Fresh(r)'
      BY <1>1, <2>2, <2>3 DEF Fresh
    <3>2. ~InConnected(r)'
      BY <2>1, <2>3 DEF InConnected
    <3> QED
      BY <1>2, <2>1, <3>1, <3>2 DEF Life, Phase
  <2>4. CASE Post({r}, "OnConnect") /\ Tell({r}, "ConnectNative") /\ UNCHANGED pending
    <3>1. tasks'[r] = Append(tasks[r], "OnConnect") /\ told'[r] = Append(told[r], "ConnectNative")
      BY <1>t, <2>4 DEF Post, Tell
    <3>2. Served(r)'
      BY <1>1, <2>2, <3>1, OpeningPosted
    <3>3. ~InPending(r)'
      BY <2>1, <2>4 DEF InPending
    <3> QED
      BY <1>2, <2>1, <3>2, <3>3 DEF Life, Phase
  <2> QED
    BY <1>4, <2>3, <2>4
       DEF ConnectNativeInit, ConnectNativeConnecting, ConnectNativeConnected
<1> QED
  BY <1>3, <1>4

(* The end of a request is posted and told once: whoever does so holds it  *)
(* alone, and lets it go.                                                  *)
LEMMA LifeClose ==
  ASSUME TypeOK, InOneHand, NEW t \in Closing, NEW r \in Req, Life(r), CloseTell(t)
  PROVE  Life(r)'
<1>t. /\ tasks \in [Req -> Seq(Callback)] /\ told \in [Req -> Seq(ExtCall)]
      /\ dpc \in [Closing -> ClosePc]
  BY DEF TypeOK
<1>1. UNCHANGED <<pending, connected, hpc, hpop, alive, isConnected, heard>>
  BY DEF CloseTell, connVars, deathVars
<1>2. /\ InPending(r)' = InPending(r) /\ InConnected(r)' = InConnected(r)
      /\ Popped(r)' = Popped(r)
  BY <1>1 DEF InPending, InConnected, Popped, PoppedBy
<1>3. dpc' = [dpc EXCEPT ![t] = "checkEmpty"] /\ dpc[t] = "tell"
  BY DEF CloseTell, CloseAt
<1>4. CASE tasks'[r] = tasks[r] /\ told'[r] = told[r]
  <2>1. Closed(r)' => Closed(r)
    BY <1>t, <1>3 DEF Closed, ClosedBy
  <2> QED
    BY <1>1, <1>2, <1>4, <2>1, LifeKept
<1>5. CASE /\ t[1] = r /\ isConnected[r]
           /\ tasks'[r] = Append(tasks[r], "OnDisconnect")
           /\ told'[r] = Append(told[r], "DisconnectNative")
  <2>1. ClosedBy(t, r) /\ Closed(r)
    BY <1>3, <1>5 DEF ClosedBy, Closed
  <2>2. Served(r)
    BY <1>5, <2>1 DEF Life, Fresh
  <2>3. Phase(r)'
    BY <1>1, <1>5, <2>2, EndPosted
  <2>4. ~InPending(r)' /\ ~InConnected(r)' /\ ~Popped(r)'
    BY <1>2, <2>1 DEF InOneHand, OneHand
  <2>5. ~Closed(r)'
    BY <1>t, <1>3, <2>1 DEF InOneHand, OneHand, Closed, ClosedBy
  <2> QED
    BY <2>3, <2>4, <2>5 DEF Life
<1>6. \/ tasks'[r] = tasks[r] /\ told'[r] = told[r]
      \/ /\ t[1] = r /\ isConnected[r]
         /\ tasks'[r] = Append(tasks[r], "OnDisconnect")
         /\ told'[r] = Append(told[r], "DisconnectNative")
  BY <1>t DEF CloseTell, Post, Tell
<1> QED
  BY <1>4, <1>5, <1>6

(* The same for the requests that a death handler popped.                  *)
LEMMA LifeDeath ==
  ASSUME TypeOK, InOneHand, NEW q \in Req, NEW r \in Req, Life(r), DeathHandler(q)
  PROVE  Life(r)'
<1>t. tasks \in [Req -> Seq(Callback)] /\ told \in [Req -> Seq(ExtCall)]
  BY DEF TypeOK
<1>1. UNCHANGED <<pending, connected, dpc, alive, isConnected, heard>>
  BY DEF DeathHandler, DeathTell, DeathAbility, DeathClean, DeathCleanCheck,
         connVars, reqVars, closeVars
<1>2. /\ InPending(r)' = InPending(r) /\ InConnected(r)' = InConnected(r)
      /\ Closed(r)' = Closed(r)
  BY <1>1 DEF InPending, InConnected, Closed, ClosedBy
<1>3. \A p \in Req : PoppedBy(p, r)' => p # q /\ PoppedBy(p, r)
  BY DeathGivesUp
<1>4. CASE tasks'[r] = tasks[r] /\ told'[r] = told[r]
  <2>1. Popped(r)' => Popped(r)
    BY <1>3 DEF Popped
  <2> QED
    BY <1>1, <1>2, <1>4, <2>1, LifeKept
<1>5. CASE /\ PoppedBy(q, r)
           /\ tasks'[r] = Append(tasks[r], "OnDisconnect")
           /\ told'[r] = Append(told[r], "DisconnectNative")
  <2>1. Popped(r) /\ Served(r)
    BY <1>5 DEF Popped, Life
  <2>2. Phase(r)'
    BY <1>1, <1>5, <2>1, EndPosted
  <2>3. ~InPending(r)' /\ ~InConnected(r)' /\ ~Closed(r)'
    BY <1>2, <2>1 DEF InOneHand, OneHand
  <2>4. ~Popped(r)'
    BY <1>3, <1>5 DEF InOneHand, OneHand, Popped
  <2> QED
    BY <2>2, <2>3, <2>4 DEF Life
<1>6. \/ tasks'[r] = tasks[r] /\ told'[r] = told[r]
      \/ /\ PoppedBy(q, r)
         /\ tasks'[r] = Append(tasks[r], "OnDisconnect")
         /\ told'[r] = Append(told[r], "DisconnectNative")
  <2>1. CASE DeathTell(q)
    BY <1>t, <2>1 DEF DeathTell, DeathAt, Post, Tell, PoppedBy
  <2>2. CASE DeathAbility(q) \/ DeathClean(q) \/ DeathCleanCheck(q)
    BY <2>2 DEF DeathAbility, DeathClean, DeathCleanCheck, reqVars
  <2> QED
    BY <2>1, <2>2 DEF DeathHandler
<1> QED
  BY <1>4, <1>5, <1>6

(* The ability manager's callbacks answer the requests of one connection.  *)
LEMMA LifeAbility ==
  ASSUME TypeOK, HeldOnce, InOneHand, NEW c \in Conn, NEW r \in Req, Life(r),
         AbilityCallback(c)
  PROVE  Life(r)'
<1>t. /\ tasks \in [Req -> Seq(Callback)] /\ told \in [Req -> Seq(ExtCall)]
      /\ pending \in [Conn -> SUBSET Req] /\ connected \in [Conn -> SUBSET Req]
  BY DEF TypeOK
<1>1. UNCHANGED <<dpc, hpc, hpop, alive, isConnected, heard>>
  BY DEF AbilityCallback, OnAbilityConnectDone, OnAbilityConnectFailed,
         OnAbilityDisconnectDone, closeVars, deathVars
<1>2. Popped(r)' = Popped(r) /\ Closed(r)' = Closed(r)
  BY <1>1 DEF Popped, PoppedBy, Closed, ClosedBy
<1>3. CASE UNCHANGED <<pending, connected, tasks, told>>
  BY <1>1, <1>2, <1>3, LifeKept DEF InPending, InConnected
<1>4. ASSUME NEW S \in SUBSET pending[c], MovePending(c, S), AnswerPending(pending[c], S)
      PROVE  Life(r)'
  <2>1. \A d \in Conn : /\ pending'[d] = IF d = c THEN {} ELSE pending[d]
                        /\ connected'[d] = IF d = c THEN connected[d] \cup S ELSE connected[d]
    BY <1>t, <1>4 DEF MovePending
  <2>2. CASE r \notin pending[c]
    <3>1. tasks'[r] = tasks[r] /\ told'[r] = told[r]
      BY <1>t, <1>4, <2>2 DEF AnswerPending, Tell
    <3>2. (InPending(r)' => InPending(r)) /\ (InConnected(r)' => InConnected(r))
      BY <2>1, <2>2 DEF InPending, InConnected
    <3> QED
      BY <1>1, <1>2, <3>1, <3>2, LifeKept
  <2>3. CASE r \in pending[c]
    <3>1. InPending(r) /\ Fresh(r) /\ ~Popped(r) /\ ~Closed(r)
      BY <2>3 DEF InPending, Life, InOneHand, OneHand
    <3>2. ~InPending(r)'
      BY <2>1, <2>3, OnlyIn DEF InPending, Held
    <3>3. CASE r \in S
      <4>1. tasks'[r] = Append(tasks[r], "OnConnect") /\ told'[r] = Append(told[r], "ConnectNative")
        BY <1>t, <1>4, <3>3 DEF AnswerPending, Tell
      <4>2. Served(r)'
        BY <1>1, <3>1, <4>1, OpeningPosted
      <4> QED
        BY <1>2, <3>1, <3>2, <4>2 DEF Life, Phase
    <3>4. CASE r \notin S
      <4>1. tasks'[r] = Append(tasks[r], "OnFailed") /\ told'[r] = told[r]
        BY <1>t, <1>4, <2>3, <3>4 DEF AnswerPending, Tell
      <4>2. Phase(r)'
        BY <1>1, <3>1, <4>1, FailingPosted
      <4>3. ~InConnected(r)'
        BY <2>1, <2>3, <3>4, OnlyIn DEF InConnected, Held
      <4> QED
        BY <1>2, <3>1, <3>2, <4>2, <4>3 DEF Life
    <3> QED
      BY <3>3, <3>4
  <2> QED
    BY <2>2, <2>3
<1>5. CASE OnAbilityDisconnectDone(c)
  <2>1. \A d \in Conn : /\ pending'[d] = IF d = c THEN {} ELSE pending[d]
                        /\ connected'[d] = IF d = c THEN {} ELSE connected[d]
    BY <1>t, <1>5 DEF OnAbilityDisconnectDone
  <2>2. told'[r] = told[r]
    BY <1>5 DEF OnAbilityDisconnectDone
  <2>3. CASE r \notin Held(c)
    <3>1. tasks'[r] = tasks[r]
      BY <1>5, <2>3 DEF OnAbilityDisconnectDone, Post
    <3>2. (InPending(r)' => InPending(r)) /\ (InConnected(r)' => InConnected(r))
      BY <2>1 DEF InPending, InConnected
    <3> QED
      BY <1>1, <1>2, <2>2, <3>1, <3>2, LifeKept
  <2>4. CASE r \in Held(c)
    <3>1. InPending(r) \/ InConnected(r)
      BY <2>4 DEF Held, InPending, InConnected
    <3>2. ~Popped(r) /\ ~Closed(r) /\ (Fresh(r) \/ Served(r))
      BY <3>1 DEF InOneHand, OneHand, Life
    <3>3. tasks'[r] = Append(tasks[r], "OnDisconnect")
      BY <1>t, <1>5, <2>4 DEF OnAbilityDisconnectDone, Post
    <3>4. Phase(r)'
      BY <1>1, <2>2, <3>2, <3>3, EndPosted
    <3>5. ~InPending(r)' /\ ~InConnected(r)'
      BY <2>1, <2>4, OnlyIn DEF InPending, InConnected, Held
    <3> QED
      BY <1>2, <3>2, <3>4, <3>5 DEF Life
  <2> QED
    BY <2>3, <2>4
<1> QED
  BY <1>3, <1>4, <1>5
     DEF AbilityCallback, OnAbilityConnectDone, OnAbilityConnectFailed, connVars

(* Every step leaves each request in a stage its holder knows.             *)
LEMMA LifeFitsStep ==
  ASSUME TypeOK, ResultFits, OnlyAcceptedTouched, HeldOnce, InOneHand, CloseWorks,
         LifeFits, [Next]_vars
  PROVE  LifeFits'
<1> SUFFICES ASSUME NEW r \in Req PROVE Life(r)'
  BY DEF LifeFits
<1>a. Life(r)
  BY DEF LifeFits
<1>t. /\ tasks \in [Req -> Seq(Callback)] /\ heard \in [Req -> Seq(Callback)]
      /\ isConnected \in [Req -> BOOLEAN]
      /\ pending \in [Conn -> SUBSET Req] /\ connected \in [Conn -> SUBSET Req]
      /\ dpc \in [Closing -> ClosePc] /\ hpc \in [Req -> DeathPc]
      /\ hpop \in [Req -> SUBSET Req] /\ recipient \in [Req -> Conn \cup {NoConn}]
      /\ dconn \in [Closing -> Conn \cup {NoConn}]
  BY DEF TypeOK
<1>l. ASSUME UNCHANGED <<pending, connected>>
      PROVE  InPending(r)' = InPending(r) /\ InConnected(r)' = InConnected(r)
  BY <1>l DEF InPending, InConnected
<1>d. ASSUME UNCHANGED <<hpc, hpop>> PROVE Popped(r)' = Popped(r)
  BY <1>d DEF Popped, PoppedBy
<1>c. ASSUME UNCHANGED dpc PROVE Closed(r)' = Closed(r)
  BY <1>c DEF Closed, ClosedBy
<1>1. ASSUME NEW q \in Req,
             ConnectNativeInit(q) \/ ConnectNativeConnecting(q) \/ ConnectNativeConnected(q)
      PROVE  Life(r)'
  BY <1>1, <1>a, LifeConnect
<1>2. ASSUME NEW t \in Closing, CloseRemove(t) PROVE Life(r)'
  <2>1. dconn[t] \in Conn /\ UNCHANGED <<reqVars, alive, hpc, hpop>>
    BY <1>2, <1>t DEF CloseRemove, CloseAt, CloseWorks, deathVars
  <2>2. (InPending(r)' => InPending(r)) /\ (InConnected(r)' => InConnected(r))
    <3>1. pending' = pending \/ pending' = Erased(pending, dconn[t], t[1])
      BY <1>2 DEF CloseRemove
    <3>2. connected' = connected \/ connected' = Erased(connected, dconn[t], t[1])
      BY <1>2 DEF CloseRemove
    <3>3. \A c \in Conn : pending'[c] \subseteq pending[c]
      BY <1>t, <3>1 DEF Erased
    <3>4. \A c \in Conn : connected'[c] \subseteq connected[c]
      BY <1>t, <3>2 DEF Erased
    <3> QED
      BY <3>3, <3>4 DEF InPending, InConnected
  <2>3. Closed(r)' => Closed(r) \/ InPending(r) \/ InConnected(r)
    <3>1. \/ dpc' = [dpc EXCEPT ![t] = "done"]
          \/ t[1] \in Held(dconn[t]) /\ dpc' = [dpc EXCEPT ![t] = "tell"]
      BY <1>2 DEF CloseRemove, CloseEnd, Held
    <3> QED
      BY <1>t, <2>1, <3>1 DEF Closed, ClosedBy, InPending, InConnected, Held
  <2> QED
    BY <1>a, <1>d, <2>1, <2>2, <2>3, LifeKept DEF reqVars
<1>3. ASSUME NEW t \in Closing, CloseTell(t) PROVE Life(r)'
  BY <1>3, <1>a, LifeClose
<1>4. ASSUME \/ \E t \in Closing : CloseCheckEmpty(t) \/ CloseAbility(t) \/ CloseDelete(t)
             \/ \E q \in Req : DisconnectBegin(q) \/ DisconnectLookUp(q) \/ StopBegin(q)
      PROVE  Life(r)'
  <2>1. UNCHANGED <<pending, connected, hpc, hpop>> /\ (Closed(r)' => Closed(r))
    BY <1>4, CloseGivesUp DEF Closed
  <2>2. UNCHANGED <<reqVars, alive>>
    BY <1>4 DEF CloseCheckEmpty, CloseAbility, CloseDelete, DisconnectBegin,
                DisconnectLookUp, StopBegin
  <2> QED
    BY <1>a, <1>l, <1>d, <2>1, <2>2, LifeKept DEF reqVars
<1>5. ASSUME NEW q \in Req, DeathBegin(q) PROVE Life(r)'
  <2> DEFINE c == recipient[q]
  <2>1. c \in Conn /\ UNCHANGED <<pending, dpc, reqVars, alive>>
    BY <1>5, <1>t DEF DeathBegin, closeVars
  <2>2. /\ hpop' = [hpop EXCEPT ![q] = PopDeleteList(c)]
        /\ connected' = [connected EXCEPT ![c] = LeftBySwap(c)]
        /\ hpc' = [hpc EXCEPT ![q] = "tell"]
    BY <1>5 DEF DeathBegin
  <2>3. InPending(r)' = InPending(r) /\ (InConnected(r)' => InConnected(r))
    BY <1>t, <2>1, <2>2 DEF InPending, InConnected, LeftBySwap
  <2>4. Popped(r)' => Popped(r) \/ InConnected(r)
    BY <1>t, <2>1, <2>2 DEF Popped, PoppedBy, InConnected, PopDeleteList
  <2> QED
    BY <1>a, <1>c, <2>1, <2>3, <2>4, LifeKept DEF reqVars
<1>6. ASSUME NEW q \in Req, DeathHandler(q) PROVE Life(r)'
  BY <1>6, <1>a, LifeDeath
<1>7. ASSUME NEW c \in Conn, AbilityCallback(c) PROVE Life(r)'
  BY <1>7, <1>a, LifeAbility
<1>8. ASSUME NEW q \in Req, RunTask(q) PROVE Life(r)'
  <2>1. UNCHANGED <<pending, connected, dpc, hpc, hpop, told, alive>>
    BY <1>8 DEF RunTask, connVars, closeVars, deathVars
  <2>2. CASE q = r
    <3>1. ~Fresh(r) /\ Phase(r)' /\ (Served(r) => Served(r)')
      BY <1>8, <1>a, <2>2, CallbackRun DEF Life
    <3> QED
      BY <1>a, <1>l, <1>d, <1>c, <2>1, <3>1 DEF Life
  <2>3. CASE q # r
    <3>1. tasks'[r] = tasks[r] /\ isConnected'[r] = isConnected[r] /\ heard'[r] = heard[r]
      BY <1>8, <1>t, <2>3 DEF RunTask, RunOnConnect, RunOnDisconnect, RunOnFailed, Delivered
    <3> QED
      BY <1>a, <1>l, <1>d, <1>c, <2>1, <3>1, LifeKept
  <2> QED
    BY <2>2, <2>3
<1>9. ASSUME UNCHANGED <<pending, connected, dpc, hpc, hpop, reqVars>>, alive' \subseteq alive
      PROVE  Life(r)'
  <2>1. UNCHANGED <<pending, connected, dpc, hpc, hpop>> /\ UNCHANGED reqVars
    BY <1>9
  <2>2. UNCHANGED <<tasks, isConnected, heard, told>>
    BY <2>1 DEF reqVars
  <2> QED
    BY <1>a, <1>l, <1>d, <1>c, <1>9, <2>1, <2>2, LifeKept
<1>10. ASSUME NEW q \in Req,
              \/ ConnectBegin(q) \/ ConnectRejected(q) \/ LookUpOrNewIpcConnection(q)
              \/ ConnectNativeDisconnected(q) \/ RetryDelete(q) \/ RetryNew(q)
              \/ ConnectCheckEmpty(q) \/ ConnectClean(q) \/ ConnectCleanCheck(q)
              \/ ConnectStopExit(q)
       PROVE  Life(r)'
  <2>1. UNCHANGED <<pending, connected, dpc, hpc, hpop, reqVars, alive>>
    BY <1>10
       DEF ConnectBegin, ConnectRejected, LookUpOrNewIpcConnection,
           ConnectNativeDisconnected, ConnectFailed, RetryDelete, RetryNew,
           ConnectCheckEmpty, ConnectClean, ConnectCleanCheck, ConnectStopExit,
           connVars, closeVars, deathVars, reqVars
  <2> QED
    BY <1>9, <2>1
<1>11. ASSUME \/ \E c \in Conn : DisconnectDone(c) \/ ExtensionCrashes(c)
              \/ ExitSaProcess \/ UnloadSystemAbility
              \/ \E p \in Proc : CallerDies(p)
              \/ UNCHANGED vars
       PROVE  Life(r)'
  <2>1. UNCHANGED <<pending, connected, dpc, hpc, hpop, reqVars>> /\ alive' \subseteq alive
    BY <1>11
       DEF DisconnectDone, DisconnectDoneClean, DisconnectDoneCheck,
           ExtensionCrashes, ExitSaProcess, UnloadSystemAbility, CallerDies,
           vars, connVars, closeVars, deathVars, reqVars
  <2> QED
    BY <1>9, <2>1
<1> QED
  BY <1>1, <1>2, <1>3, <1>4, <1>5, <1>6, <1>7, <1>8, <1>10, <1>11
     DEF Next, ConnectCall, CloseCall

(* What a step tells the extension of a request.                           *)
ToldStep(r) ==
    \/ told'[r] = told[r]
    \/ told[r] = <<>> /\ told'[r] = <<"ConnectNative">>
    \/ told[r] = <<"ConnectNative">> /\ told'[r] = <<"ConnectNative", "DisconnectNative">>

(* The holder of a request tells no more than this.                        *)
LEMMA ToldSteps ==
  ASSUME TypeOK, ResultFits, OnlyAcceptedTouched, LifeFits, [Next]_vars, NEW r \in Req
  PROVE  ToldStep(r)
<1>t. told \in [Req -> Seq(ExtCall)]
  BY DEF TypeOK
<1>a. Life(r)
  BY DEF LifeFits
<1>1. ASSUME told[r] = <<>>, told'[r] = Append(told[r], "ConnectNative")
      PROVE  ToldStep(r)
  BY <1>1, ShortQueues DEF ToldStep
<1>2. ASSUME Served(r), told'[r] = Append(told[r], "DisconnectNative")
      PROVE  ToldStep(r)
  BY <1>2, ShortQueues DEF ToldStep, Served
<1>3. ASSUME NEW q \in Req, ConnectNativeConnected(q) PROVE ToldStep(r)
  <2>1. CASE r = q /\ Tell({q}, "ConnectNative")
    <3>1. told[r] = <<>>
      BY <1>3, <2>1, NoHandBefore DEF ConnectNativeConnected
    <3>2. told'[r] = Append(told[r], "ConnectNative")
      BY <1>t, <2>1 DEF Tell
    <3> QED
      BY <1>1, <3>1, <3>2
  <2>2. CASE ~(r = q /\ Tell({q}, "ConnectNative"))
    BY <1>3, <1>t, <2>2 DEF ConnectNativeConnected, Tell, ToldStep
  <2> QED
    BY <2>1, <2>2
<1>4. ASSUME NEW t \in Closing, CloseTell(t) PROVE ToldStep(r)
  <2>1. CASE t[1] = r /\ isConnected[r]
    <3>1. Closed(r)
      BY <1>4, <2>1 DEF CloseTell, CloseAt, Closed, ClosedBy
    <3>2. Served(r)
      BY <1>a, <2>1, <3>1 DEF Life, Fresh
    <3>3. told'[r] = Append(told[r], "DisconnectNative") \/ told'[r] = told[r]
      BY <1>4, <1>t DEF CloseTell, Tell
    <3> QED
      BY <1>2, <3>2, <3>3 DEF ToldStep
  <2>2. CASE ~(t[1] = r /\ isConnected[r])
    BY <1>4, <1>t, <2>2 DEF CloseTell, Tell, ToldStep
  <2> QED
    BY <2>1, <2>2
<1>5. ASSUME NEW q \in Req, DeathTell(q) PROVE ToldStep(r)
  <2>1. CASE r \in hpop[q]
    <3>1. Served(r)
      BY <1>5, <1>a, <2>1 DEF DeathTell, DeathAt, Popped, PoppedBy, Life
    <3>2. told'[r] = Append(told[r], "DisconnectNative") \/ told'[r] = told[r]
      BY <1>5, <1>t DEF DeathTell, Tell
    <3> QED
      BY <1>2, <3>1, <3>2 DEF ToldStep
  <2>2. CASE r \notin hpop[q]
    BY <1>5, <1>t, <2>2 DEF DeathTell, Tell, ToldStep
  <2> QED
    BY <2>1, <2>2
<1>6. ASSUME NEW c \in Conn, AbilityCallback(c) PROVE ToldStep(r)
  <2>1. CASE UNCHANGED told
    BY <2>1 DEF ToldStep
  <2>2. ASSUME NEW S \in SUBSET pending[c], Tell(S, "ConnectNative") PROVE ToldStep(r)
    <3>1. CASE r \in S
      <4>1. told[r] = <<>>
        BY <1>a, <3>1 DEF InPending, Life, Fresh
      <4> QED
        BY <1>1, <1>t, <2>2, <3>1, <4>1 DEF Tell
    <3>2. CASE r \notin S
      BY <1>t, <2>2, <3>2 DEF Tell, ToldStep
    <3> QED
      BY <3>1, <3>2
  <2> QED
    BY <1>6, <2>1, <2>2
       DEF AbilityCallback, OnAbilityConnectDone, OnAbilityConnectFailed,
           OnAbilityDisconnectDone, AnswerPending
<1>7. ASSUME UNCHANGED told PROVE ToldStep(r)
  BY <1>7 DEF ToldStep
<1>8. ASSUME NEW q \in Req,
             \/ ConnectBegin(q) \/ ConnectRejected(q) \/ LookUpOrNewIpcConnection(q)
             \/ ConnectNativeDisconnected(q) \/ ConnectNativeInit(q)
             \/ ConnectNativeConnecting(q) \/ RetryDelete(q) \/ RetryNew(q)
             \/ ConnectCheckEmpty(q) \/ ConnectClean(q) \/ ConnectCleanCheck(q)
             \/ ConnectStopExit(q)
      PROVE  UNCHANGED told
  BY <1>8
     DEF ConnectBegin, ConnectRejected, LookUpOrNewIpcConnection,
         ConnectNativeDisconnected, ConnectNativeInit, ConnectNativeConnecting,
         RetryDelete, RetryNew, ConnectCheckEmpty, ConnectClean,
         ConnectCleanCheck, ConnectStopExit, reqVars
<1>9. ASSUME \/ \E q \in Req : \/ DisconnectBegin(q) \/ DisconnectLookUp(q)
                               \/ StopBegin(q) \/ DeathBegin(q) \/ DeathAbility(q)
                               \/ DeathClean(q) \/ DeathCleanCheck(q) \/ RunTask(q)
             \/ \E t \in Closing : \/ CloseRemove(t) \/ CloseCheckEmpty(t)
                                   \/ CloseAbility(t) \/ CloseDelete(t)
             \/ \E c \in Conn : DisconnectDone(c) \/ ExtensionCrashes(c)
             \/ ExitSaProcess \/ UnloadSystemAbility
             \/ \E p \in Proc : CallerDies(p)
             \/ UNCHANGED vars
      PROVE  UNCHANGED told
  BY <1>9
     DEF DisconnectBegin, DisconnectLookUp, StopBegin, DeathBegin, DeathAbility,
         DeathClean, DeathCleanCheck, RunTask, CloseRemove, CloseCheckEmpty,
         CloseAbility, CloseDelete, DisconnectDone, DisconnectDoneClean,
         DisconnectDoneCheck, ExtensionCrashes, ExitSaProcess,
         UnloadSystemAbility, CallerDies, vars, reqVars
<1> QED
  BY <1>3, <1>4, <1>5, <1>6, <1>7, <1>8, <1>9
     DEF Next, ConnectCall, CloseCall, DeathHandler

(* What a step lets the caller of a request hear: only the event queue     *)
(* speaks to it.                                                           *)
LEMMA HeardSteps ==
  ASSUME TypeOK, LifeFits, [Next]_vars, NEW r \in Req
  PROVE  HeardStep(r)
<1>t. heard \in [Req -> Seq(Callback)]
  BY DEF TypeOK
<1>1. CASE RunTask(r)
  BY <1>1, CallbackRun DEF LifeFits, Life
<1>2. ASSUME NEW q \in Req \ {r}, RunTask(q) PROVE HeardStep(r)
  BY <1>2, <1>t
     DEF RunTask, RunOnConnect, RunOnDisconnect, RunOnFailed, Delivered, HeardStep
<1>3. ASSUME UNCHANGED heard PROVE HeardStep(r)
  BY <1>3 DEF HeardStep
<1>4. ASSUME NEW q \in Req, ConnectBegin(q) \/ ConnectRejected(q) \/ ConnectCall(q)
      PROVE  UNCHANGED heard
  BY <1>4
     DEF ConnectBegin, ConnectRejected, ConnectCall, LookUpOrNewIpcConnection,
         ConnectNativeDisconnected, ConnectNativeInit, ConnectNativeConnecting,
         ConnectNativeConnected, RetryDelete, RetryNew, ConnectCheckEmpty,
         ConnectClean, ConnectCleanCheck, ConnectStopExit, reqVars
<1>5. ASSUME \/ \E q \in Req : \/ DisconnectBegin(q) \/ DisconnectLookUp(q)
                               \/ StopBegin(q) \/ DeathBegin(q) \/ DeathHandler(q)
             \/ \E t \in Closing : CloseCall(t)
      PROVE  UNCHANGED heard
  BY <1>5
     DEF DisconnectBegin, DisconnectLookUp, StopBegin, DeathBegin, DeathHandler,
         DeathTell, DeathAbility, DeathClean, DeathCleanCheck, CloseCall,
         CloseRemove, CloseTell, CloseCheckEmpty, CloseAbility, CloseDelete,
         reqVars
<1>6. ASSUME \/ \E c \in Conn : \/ AbilityCallback(c) \/ DisconnectDone(c)
                                \/ ExtensionCrashes(c)
             \/ ExitSaProcess \/ UnloadSystemAbility
             \/ \E p \in Proc : CallerDies(p)
             \/ UNCHANGED vars
      PROVE  UNCHANGED heard
  BY <1>6
     DEF AbilityCallback, OnAbilityConnectDone, OnAbilityConnectFailed,
         OnAbilityDisconnectDone, DisconnectDone, DisconnectDoneClean,
         DisconnectDoneCheck, ExtensionCrashes, ExitSaProcess,
         UnloadSystemAbility, CallerDies, vars, reqVars
<1> QED
  BY <1>1, <1>2, <1>3, <1>4, <1>5, <1>6 DEF Next

----------------------------------------------------------------------------
(* The invariant from which the refinements follow.  What a step tells of  *)
(* a request is known from how far the request has come, and this from who *)
(* alone holds it.                                                         *)
LifeInv ==
    /\ RequestInv
    /\ InOneHand
    /\ LifeFits

(* It holds at first ...                                                   *)
LEMMA LifeInvInit == Init => LifeInv
<1> SUFFICES ASSUME Init PROVE LifeInv
  OBVIOUS
<1>1. RequestInv
  BY RequestInvInit
<1>2. \A r \in Req : Fresh(r)
  BY DEF Init, Fresh
<1>3. \A r \in Req : ~InPending(r) /\ ~InConnected(r) /\ ~Popped(r) /\ ~Closed(r)
  BY DEF Init, InPending, InConnected, Popped, PoppedBy, Closed, ClosedBy
<1>4. InOneHand
  BY <1>3 DEF InOneHand, OneHand, Popped, Closed
<1>5. LifeFits
  BY <1>2, <1>3 DEF LifeFits, Life, Phase
<1> QED
  BY <1>1, <1>4, <1>5 DEF LifeInv

(* ... and every step keeps it.                                            *)
LEMMA LifeInvStep == LifeInv /\ [Next]_vars => LifeInv'
<1> SUFFICES ASSUME LifeInv, [Next]_vars PROVE LifeInv'
  OBVIOUS
<1> USE DEF LifeInv
<1>1. RequestInv'
  BY RequestInvStep
<1>2. TypeOK /\ CloseWorks /\ ResultFits /\ OnlyAcceptedTouched /\ HeldOnce
  BY DEF RequestInv, ConnInv, WorksOnConn
<1>3. InOneHand'
  BY <1>2, InOneHandStep
<1>4. LifeFits'
  BY <1>2, LifeFitsStep
<1> QED
  BY <1>1, <1>3, <1>4

(* The states of the abstract life.                                        *)
LEMMA CallerViews ==
  /\ CallerView(<<>>) = "idle" /\ CallerView(<<"OnConnect">>) = "open"
  /\ CallerView(<<"OnConnect", "OnDisconnect">>) = "closed"
  /\ CallerView(<<"OnFailed">>) = "failed"
<1>1. <<"OnFailed">> # <<"OnConnect">> /\ <<"OnFailed">> # <<"OnConnect", "OnDisconnect">>
  OBVIOUS
<1> QED
  BY <1>1, ShortQueues DEF CallerView

(* The same for the extension, which is never told of a failure.           *)
LEMMA ExtensionViews ==
  /\ ExtensionView(<<>>) = "idle" /\ ExtensionView(<<"ConnectNative">>) = "open"
  /\ ExtensionView(<<"ConnectNative", "DisconnectNative">>) = "closed"
BY ShortQueues DEF ExtensionView

(* A caller hears OnConnect at most once, OnDisconnect at most once and    *)
(* only after it, and nothing after OnFailed, whichever handlers post its  *)
(* callbacks and whenever the event queue runs them.                       *)
THEOREM CallerSeesALife == Spec => CallerProtocol
<1>1. Init => Caller!Init
  BY CallerViews DEF Init, Caller!Init
<1>2. LifeInv /\ LifeInv' /\ [Next]_vars => Caller!Next
  <2> SUFFICES ASSUME LifeInv, LifeInv', [Next]_vars
               PROVE  Caller!Next
    OBVIOUS
  <2>1. LifeFits /\ LifeFits' /\ TypeOK
    BY DEF LifeInv, RequestInv, ConnInv
  <2>2. \A r \in Req : CallerView(heard'[r]) \in Caller!ViewState
    <3> TAKE r \in Req
    <3>1. heard'[r] \in {<<>>, <<"OnConnect">>, <<"OnConnect", "OnDisconnect">>,
                         <<"OnFailed">>}
      BY <2>1 DEF LifeFits, Life, Phase, Fresh, Served, Opening, Opened,
                  OpenHeard, Ended, Ending, Failing, Over
    <3> QED
      BY <3>1, CallerViews DEF Caller!ViewState
  <2>3. \A r \in Req : HeardStep(r)
    BY <2>1, HeardSteps
  <2> QED
    BY <2>2, <2>3, CallerViews DEF Caller!Next, HeardStep
<1> QED
  BY <1>1, <1>2, LifeInvInit, LifeInvStep, PTL DEF Spec, CallerProtocol, Caller!Spec

(* The extension hears ConnectNative at most once and DisconnectNative at  *)
(* most once and only after it, whichever of the caller's disconnect, its  *)
(* own stop and a caller's death come together.                            *)
THEOREM ExtensionSeesALife == Spec => ExtensionProtocol
<1>1. Init => Extension!Init
  BY ExtensionViews DEF Init, Extension!Init
<1>2. LifeInv /\ LifeInv' /\ [Next]_vars => Extension!Next
  <2> SUFFICES ASSUME LifeInv, LifeInv', [Next]_vars
               PROVE  Extension!Next
    OBVIOUS
  <2>1. LifeFits /\ LifeFits' /\ TypeOK /\ ResultFits /\ OnlyAcceptedTouched
    BY DEF LifeInv, RequestInv, ConnInv
  <2>2. \A r \in Req : ExtensionView(told'[r]) \in Extension!ViewState
    <3> TAKE r \in Req
    <3>1. ToldFits(r)'
      BY <2>1 DEF LifeFits, Life, Phase, Fresh, Served, Ended, ToldFits
    <3> QED
      BY <3>1, ExtensionViews DEF ToldFits, Extension!ViewState
  <2>3. \A r \in Req : ToldStep(r)
    BY <2>1, ToldSteps
  <2> QED
    BY <2>2, <2>3, ExtensionViews DEF Extension!Next, ToldStep
<1> QED
  BY <1>1, <1>2, LifeInvInit, LifeInvStep, PTL DEF Spec, ExtensionProtocol, Extension!Spec

----------------------------------------------------------------------------
(* No accepted request is forgotten.  The facts of AskInv leave one thing  *)
(* to show of a request that waits: that a list or the event queue has it. *)
Waits(r) ==
    /\ Accepted(r) /\ heard[r] = <<>>
    /\ dpc[<<r, "app">>] = "idle" /\ CallersAlive(KeyOf[r])
NoneForgotten == \A r \in Req : Waits(r) => InPending(r) \/ Answering(r)

(* A pending request whose callers live is on a connection that connects.  *)
LEMMA PendingIsAwaited ==
  ASSUME AskInv, NEW r \in Req, InPending(r), CallersAlive(KeyOf[r])
  PROVE  Awaited(r)
<1>1. PICK c \in Conn : r \in pending[c]
  BY DEF InPending
<1>2. CallersAlive(ConnKey(c))
  BY <1>1 DEF AskInv, KeysFit, PendingKeys
<1>3. status[c] = "CONNECTING"
  BY <1>1, <1>2 DEF AskInv, PendingWaits, OrphansOnly
<1> QED
  BY <1>1, <1>3 DEF AskInv, ConnectingAsks, Awaited, NeverAsked

(* What is posted comes last.                                              *)
LEMMA HeadKept ==
  ASSUME NEW s \in Seq(Callback), NEW x \in Callback
  PROVE  s # <<>> => Append(s, x) # <<>> /\ Head(Append(s, x)) = Head(s)
  BY AppendProperties, HeadTailProperties, EmptySeq

(* The event queue runs the callbacks of a request in order.               *)
InOrder(r) ==
    \/ RunTask(r)
    \/ tasks[r] # <<>> => tasks'[r] # <<>> /\ Head(tasks'[r]) = Head(tasks[r])

LEMMA PostInOrder ==
  ASSUME TypeOK, NEW r \in Req, NEW S, NEW callback \in Callback, Post(S, callback)
  PROVE  InOrder(r)
  BY HeadKept DEF TypeOK, Post, InOrder

LEMMA AnswerInOrder ==
  ASSUME TypeOK, NEW r \in Req, NEW P, NEW S, AnswerPending(P, S)
  PROVE  InOrder(r)
  BY HeadKept DEF TypeOK, AnswerPending, InOrder, Callback

(* No caller process comes back.                                           *)
LEMMA AliveShrinks ==
  ASSUME TypeOK, [Next]_vars
  PROVE  alive' \subseteq alive
<1>1. ASSUME NEW p \in Proc, CallerDies(p) PROVE alive' \subseteq alive
  BY <1>1
     DEF TypeOK, CallerDies
<1>2. ASSUME UNCHANGED <<alive>> PROVE alive' \subseteq alive
  BY <1>2
     DEF TypeOK
<1> QED
  BY <1>1, <1>2
     DEF Next, vars, ConnectCall, CloseCall, DeathHandler, AbilityCallback,
         DisconnectDone, ConnectBegin, ConnectRejected,
         LookUpOrNewIpcConnection, ConnectNativeDisconnected,
         ConnectNativeInit, ConnectNativeConnecting, ConnectNativeConnected,
         RetryDelete, RetryNew, ConnectCheckEmpty, ConnectClean,
         ConnectCleanCheck, ConnectStopExit, DisconnectBegin,
         DisconnectLookUp, StopBegin, CloseRemove, CloseTell,
         CloseCheckEmpty, CloseAbility, CloseDelete, DeathBegin, DeathTell,
         DeathAbility, DeathClean, DeathCleanCheck, OnAbilityConnectDone,
         OnAbilityConnectFailed, OnAbilityDisconnectDone,
         DisconnectDoneClean, DisconnectDoneCheck, RunTask, ExitSaProcess,
         UnloadSystemAbility, ExtensionCrashes

(* No step posts a callback before another.                                *)
LEMMA InOrderStep ==
  ASSUME TypeOK, NEW r \in Req, [Next]_vars
  PROVE  InOrder(r)
<1>1. ASSUME NEW q \in Req, ConnectNativeConnected(q) PROVE InOrder(r)
  <2>1. tasks' = tasks \/ Post({q}, "OnConnect")
    BY <1>1 DEF ConnectNativeConnected
  <2> QED
    BY <2>1, PostInOrder DEF InOrder, Callback
<1>2. ASSUME NEW t \in Closing, CloseTell(t) PROVE InOrder(r)
  BY <1>2, PostInOrder DEF CloseTell, Callback
<1>3. ASSUME NEW q \in Req, DeathTell(q) PROVE InOrder(r)
  BY <1>3, PostInOrder DEF DeathTell, Callback
<1>4. ASSUME NEW c \in Conn, OnAbilityConnectDone(c) PROVE InOrder(r)
  <2>1. tasks' = tasks \/ \E S : AnswerPending(pending[c], S)
    BY <1>4 DEF OnAbilityConnectDone
  <2> QED
    BY <2>1, AnswerInOrder DEF InOrder
<1>5. ASSUME NEW c \in Conn, OnAbilityConnectFailed(c) PROVE InOrder(r)
  <2>1. tasks' = tasks \/ \E S : AnswerPending(pending[c], S)
    BY <1>5 DEF OnAbilityConnectFailed
  <2> QED
    BY <2>1, AnswerInOrder DEF InOrder
<1>6. ASSUME NEW c \in Conn, OnAbilityDisconnectDone(c) PROVE InOrder(r)
  BY <1>6, PostInOrder DEF OnAbilityDisconnectDone, Callback
<1>7. ASSUME NEW q \in Req, RunTask(q) PROVE InOrder(r)
  BY <1>7 DEF TypeOK, RunTask, InOrder
<1>8. ASSUME UNCHANGED <<tasks>> PROVE InOrder(r)
  BY <1>8
     DEF InOrder
<1> QED
  BY <1>1, <1>2, <1>3, <1>4, <1>5, <1>6, <1>7, <1>8
     DEF Next, vars, ConnectCall, CloseCall, DeathHandler, AbilityCallback,
         DisconnectDone, ConnectBegin, ConnectRejected,
         LookUpOrNewIpcConnection, ConnectNativeDisconnected,
         ConnectNativeInit, ConnectNativeConnecting, RetryDelete, RetryNew,
         ConnectCheckEmpty, ConnectClean, ConnectCleanCheck, ConnectStopExit,
         DisconnectBegin, DisconnectLookUp, StopBegin, CloseRemove,
         CloseCheckEmpty, CloseAbility, CloseDelete, DeathBegin,
         DeathAbility, DeathClean, DeathCleanCheck, DisconnectDoneClean,
         DisconnectDoneCheck, ExitSaProcess, UnloadSystemAbility, CallerDies,
         ExtensionCrashes, reqVars

(* A closing call that has begun does not begin again.                     *)
CloseStays == \A t \in Closing : dpc'[t] = "idle" => dpc[t] = "idle"

(* Each step of a closing call takes it further.                           *)
LEMMA CloseStaysStep ==
  ASSUME TypeOK, [Next]_vars
  PROVE  CloseStays
<1>1. ASSUME NEW r \in Req, DisconnectBegin(r) PROVE CloseStays
  <2>1. \E step \in ClosePc \ {"idle"} : dpc' = [dpc EXCEPT ![<<r, "app">>] = step]
    BY <1>1 DEF DisconnectBegin, CloseEnd, ClosePc
  <2> QED
    BY <2>1 DEF TypeOK, CloseStays
<1>2. ASSUME NEW r \in Req, DisconnectLookUp(r) PROVE CloseStays
  <2>1. \E step \in ClosePc \ {"idle"} : dpc' = [dpc EXCEPT ![<<r, "app">>] = step]
    BY <1>2 DEF DisconnectLookUp, CloseEnd, ClosePc
  <2> QED
    BY <2>1 DEF TypeOK, CloseStays
<1>3. ASSUME NEW r \in Req, StopBegin(r) PROVE CloseStays
  <2>1. \E step \in ClosePc \ {"idle"} : dpc' = [dpc EXCEPT ![<<r, "ext">>] = step]
    BY <1>3 DEF StopBegin, CloseEnd, ClosePc
  <2> QED
    BY <2>1 DEF TypeOK, CloseStays
<1>4. ASSUME NEW t \in Closing, CloseRemove(t) PROVE CloseStays
  <2>1. \E step \in ClosePc \ {"idle"} : dpc' = [dpc EXCEPT ![t] = step]
    BY <1>4 DEF CloseRemove, CloseEnd, ClosePc
  <2> QED
    BY <2>1 DEF TypeOK, CloseStays
<1>5. ASSUME NEW t \in Closing, CloseTell(t) PROVE CloseStays
  <2>1. \E step \in ClosePc \ {"idle"} : dpc' = [dpc EXCEPT ![t] = step]
    BY <1>5 DEF CloseTell, CloseEnd, ClosePc
  <2> QED
    BY <2>1 DEF TypeOK, CloseStays
<1>6. ASSUME NEW t \in Closing, CloseCheckEmpty(t) PROVE CloseStays
  <2>1. \E step \in ClosePc \ {"idle"} : dpc' = [dpc EXCEPT ![t] = step]
    BY <1>6 DEF CloseCheckEmpty, CloseEnd, ClosePc
  <2> QED
    BY <2>1 DEF TypeOK, CloseStays
<1>7. ASSUME NEW t \in Closing, CloseAbility(t) PROVE CloseStays
  <2>1. \E step \in ClosePc \ {"idle"} : dpc' = [dpc EXCEPT ![t] = step]
    BY <1>7 DEF CloseAbility, CloseEnd, ClosePc
  <2> QED
    BY <2>1 DEF TypeOK, CloseStays
<1>8. ASSUME NEW t \in Closing, CloseDelete(t) PROVE CloseStays
  <2>1. \E step \in ClosePc \ {"idle"} : dpc' = [dpc EXCEPT ![t] = step]
    BY <1>8 DEF CloseDelete, CloseEnd, ClosePc
  <2> QED
    BY <2>1 DEF TypeOK, CloseStays
<1>9. ASSUME UNCHANGED <<dpc>> PROVE CloseStays
  BY <1>9
     DEF CloseStays
<1> QED
  BY <1>1, <1>2, <1>3, <1>4, <1>5, <1>6, <1>7, <1>8, <1>9
     DEF Next, vars, ConnectCall, CloseCall, DeathHandler, AbilityCallback,
         DisconnectDone, ConnectBegin, ConnectRejected,
         LookUpOrNewIpcConnection, ConnectNativeDisconnected,
         ConnectNativeInit, ConnectNativeConnecting, ConnectNativeConnected,
         RetryDelete, RetryNew, ConnectCheckEmpty, ConnectClean,
         ConnectCleanCheck, ConnectStopExit, DeathBegin, DeathTell,
         DeathAbility, DeathClean, DeathCleanCheck, OnAbilityConnectDone,
         OnAbilityConnectFailed, OnAbilityDisconnectDone,
         DisconnectDoneClean, DisconnectDoneCheck, RunTask, ExitSaProcess,
         UnloadSystemAbility, CallerDies, ExtensionCrashes, closeVars

(* A request leaves the pending list of a connection when the ability      *)
(* manager answers, or when a closing call takes it out.                   *)
StaysPending(r) ==
    \/ InPending(r)'
    \/ \E c \in Conn : r \in pending[c] /\ AbilityCallback(c)
    \/ \E t \in Closing : t[1] = r /\ CloseRemove(t)

(* A ConnectNative that fails takes out its own request only.              *)
LEMMA StaysPendingStep ==
  ASSUME TypeOK, PendingWaits, NEW r \in Req, InPending(r), [Next]_vars
  PROVE  StaysPending(r)
<1>1. ASSUME NEW q \in Req, ConnectNativeInit(q) PROVE StaysPending(r)
  <2>1. PICK d \in Conn : r \in pending[d]
    BY DEF InPending
  <2>2. d # cconn[q]
    BY <1>1, <2>1 DEF PendingWaits, ConnectNativeInit
  <2>3. pending'[d] = pending[d]
    BY <1>1, <2>2 DEF TypeOK, ConnectNativeInit
  <2> QED
    BY <2>1, <2>3 DEF StaysPending, InPending
<1>2. ASSUME NEW q \in Req, ConnectNativeConnecting(q) PROVE StaysPending(r)
  <2>1. \A d \in Conn : pending[d] \subseteq pending'[d]
    BY <1>2 DEF TypeOK, ConnectNativeConnecting
  <2> QED
    BY <2>1 DEF StaysPending, InPending
<1>3. ASSUME NEW t \in Closing, CloseRemove(t) PROVE StaysPending(r)
  <2>1. CASE t[1] = r
    BY <1>3, <2>1 DEF StaysPending
  <2>2. CASE t[1] # r
    <3>1. pending' = pending \/ pending' = Erased(pending, dconn[t], t[1])
      BY <1>3 DEF CloseRemove
    <3>2. \A d \in Conn : \A q \in Req : r # q /\ r \in pending[d]
            => r \in Erased(pending, dconn[t], q)[d]
      BY DEF TypeOK, Erased
    <3>3. t[1] \in Req
      BY DEF Closing
    <3> QED
      BY <2>2, <3>1, <3>2, <3>3 DEF StaysPending, InPending
  <2> QED
    BY <2>1, <2>2
<1>4. ASSUME NEW c \in Conn, OnAbilityConnectDone(c) PROVE StaysPending(r)
  <2>1. CASE r \in pending[c]
    BY <1>4, <2>1 DEF StaysPending, AbilityCallback
  <2>2. CASE r \notin pending[c]
    <3>1. \A d \in Conn \ {c} : pending'[d] = pending[d]
      BY <1>4 DEF TypeOK, OnAbilityConnectDone, MovePending, connVars
    <3> QED
      BY <2>2, <3>1 DEF StaysPending, InPending
  <2> QED
    BY <2>1, <2>2
<1>5. ASSUME NEW c \in Conn, OnAbilityConnectFailed(c) PROVE StaysPending(r)
  <2>1. CASE r \in pending[c]
    BY <1>5, <2>1 DEF StaysPending, AbilityCallback
  <2>2. CASE r \notin pending[c]
    <3>1. \A d \in Conn \ {c} : pending'[d] = pending[d]
      BY <1>5 DEF TypeOK, OnAbilityConnectFailed, MovePending, connVars
    <3> QED
      BY <2>2, <3>1 DEF StaysPending, InPending
  <2> QED
    BY <2>1, <2>2
<1>6. ASSUME NEW c \in Conn, OnAbilityDisconnectDone(c) PROVE StaysPending(r)
  <2>1. CASE r \in pending[c]
    BY <1>6, <2>1 DEF StaysPending, AbilityCallback
  <2>2. CASE r \notin pending[c]
    <3>1. \A d \in Conn \ {c} : pending'[d] = pending[d]
      BY <1>6 DEF TypeOK, OnAbilityDisconnectDone
    <3> QED
      BY <2>2, <3>1 DEF StaysPending, InPending
  <2> QED
    BY <2>1, <2>2
<1>7. ASSUME UNCHANGED <<pending>> PROVE StaysPending(r)
  BY <1>7
     DEF TypeOK, StaysPending, InPending
<1> QED
  BY <1>1, <1>2, <1>3, <1>4, <1>5, <1>6, <1>7
     DEF Next, vars, ConnectCall, CloseCall, DeathHandler, AbilityCallback,
         DisconnectDone, ConnectBegin, ConnectRejected,
         LookUpOrNewIpcConnection, ConnectNativeDisconnected,
         ConnectNativeConnected, RetryDelete, RetryNew, ConnectCheckEmpty,
         ConnectClean, ConnectCleanCheck, ConnectStopExit, DisconnectBegin,
         DisconnectLookUp, StopBegin, CloseTell, CloseCheckEmpty,
         CloseAbility, CloseDelete, DeathBegin, DeathTell, DeathAbility,
         DeathClean, DeathCleanCheck, DisconnectDoneClean,
         DisconnectDoneCheck, RunTask, ExitSaProcess, UnloadSystemAbility,
         CallerDies, ExtensionCrashes, connVars

(* A connect call waits from the moment it is accepted.                    *)
LEMMA AcceptedWaits ==
  ASSUME AskInv, LifeInv, [Next]_vars, NEW r \in Req, ~Accepted(r), Accepted(r)'
  PROVE  InPending(r)' \/ Answering(r)'
<1>t. /\ TypeOK /\ ResultFits /\ OnlyAcceptedTouched /\ ConnectWorks
  BY DEF AskInv, ConnInv, LifeInv, RequestInv
<1>1. tasks[r] = <<>>
  BY <1>t DEF OnlyAcceptedTouched, Untouched
<1>2. ASSUME ConnectNativeInit(r) \/ ConnectNativeConnecting(r) PROVE InPending(r)'
  <2>1. cconn[r] \in Conn
    BY <1>2, <1>t
       DEF TypeOK, ConnectWorks, ConnectNativeInit, ConnectNativeConnecting, ConnectAt
  <2>2. ~ConnectFailed(r)
    BY <1>t DEF TypeOK, ConnectFailed, Accepted
  <2>3. pending' = [pending EXCEPT ![cconn[r]] = @ \cup {r}]
    BY <1>2, <2>2 DEF ConnectNativeInit, ConnectNativeConnecting
  <2> QED
    BY <1>t, <2>1, <2>3 DEF TypeOK, InPending
<1>3. ASSUME ConnectNativeConnected(r) PROVE Answering(r)'
  <2>1. ~ConnectFailed(r)
    BY <1>t DEF TypeOK, ConnectFailed, Accepted
  <2>2. tasks'[r] = <<"OnConnect">>
    BY <1>t, <1>1, <1>3, <2>1, ShortQueues DEF TypeOK, ConnectNativeConnected, Post
  <2> QED
    BY <2>2, ShortQueues DEF Answering
<1>4. ASSUME NEW q \in Req,
             \/ ConnectBegin(q) \/ ConnectRejected(q) \/ LookUpOrNewIpcConnection(q)
             \/ ConnectNativeDisconnected(q) \/ RetryDelete(q) \/ RetryNew(q)
             \/ ConnectCheckEmpty(q) \/ ConnectClean(q) \/ ConnectCleanCheck(q)
             \/ ConnectStopExit(q)
      PROVE  FALSE
  BY <1>4, <1>t
     DEF TypeOK, ResultFits, Accepted, ConnectAt, ConnectBegin, ConnectRejected,
         LookUpOrNewIpcConnection, ConnectNativeDisconnected, ConnectFailed,
         RetryDelete, RetryNew, ConnectCheckEmpty, ConnectClean,
         ConnectCleanCheck, ConnectStopExit
<1>5. ASSUME NEW q \in Req \ {r},
             \/ ConnectNativeInit(q) \/ ConnectNativeConnecting(q)
             \/ ConnectNativeConnected(q)
      PROVE  FALSE
  <2>1. ConnectAccepted(q, cconn[q]) \/ ConnectFailed(q)
    BY <1>5 DEF ConnectNativeInit, ConnectNativeConnecting, ConnectNativeConnected
  <2> QED
    BY <1>5, <1>t, <2>1 DEF TypeOK, Accepted, ConnectAccepted, ConnectFailed
<1>6. ASSUME UNCHANGED <<cpc, cres>> PROVE FALSE
  BY <1>6 DEF Accepted
<1> QED
  BY <1>2, <1>3, <1>4, <1>5, <1>6
     DEF Next, vars, ConnectCall, CloseCall, DeathHandler, AbilityCallback,
         DisconnectDone, DisconnectBegin, DisconnectLookUp, StopBegin,
         CloseRemove, CloseTell, CloseCheckEmpty, CloseAbility, CloseDelete,
         DeathBegin, DeathTell, DeathAbility, DeathClean, DeathCleanCheck,
         OnAbilityConnectDone, OnAbilityConnectFailed,
         OnAbilityDisconnectDone, DisconnectDoneClean, DisconnectDoneCheck,
         RunTask, ExitSaProcess, UnloadSystemAbility, CallerDies,
         ExtensionCrashes, connectVars

(* An ability manager that owes an answer gives it to all of the list: the *)
(* end of an ability comes for connections that have no pending request.   *)
LEMMA PendingIsAnswered ==
  ASSUME AskInv, LifeInv, NEW r \in Req, CallersAlive(KeyOf[r]),
         NEW c \in Conn, r \in pending[c], AbilityCallback(c)
  PROVE  InPending(r)' \/ Answering(r)'
<1>1. tasks[r] = <<>> /\ TypeOK
  BY DEF LifeInv, LifeFits, Life, InPending, Fresh, RequestInv, ConnInv
<1>2. status[c] = "CONNECTING" /\ ams[c] \in {"connecting", "none"}
  BY DEF AskInv, KeysFit, PendingKeys, PendingWaits, OrphansOnly, ConnectingAsks
<1>3. ~OnAbilityDisconnectDone(c)
  BY <1>2 DEF OnAbilityDisconnectDone
<1>4. PICK S : AnswerPending(pending[c], S)
  BY <1>2, <1>3
     DEF AbilityCallback, OnAbilityConnectDone, OnAbilityConnectFailed, IsConnecting
<1>5. tasks'[r] = <<"OnConnect">> \/ tasks'[r] = <<"OnFailed">>
  BY <1>1, <1>4, ShortQueues DEF TypeOK, AnswerPending
<1> QED
  BY <1>5, ShortQueues DEF Answering

(* The run of an answer is heard.                                          *)
LEMMA AnswerIsHeard ==
  ASSUME TypeOK, NEW r \in Req, Phase(r), Answering(r), ProcOf[r] \in alive,
         heard[r] = <<>>, RunTask(r)
  PROVE  heard'[r] # <<>>
<1>1. Head(tasks[r]) = "OnConnect" => ~isConnected[r]
  BY ShortQueues
     DEF Phase, Fresh, Served, Opening, Opened, Ended, Ending, Failing, Over, Answering
<1>2. \A x : Append(<<>>, x) # <<>>
  BY ShortQueues
<1>3. \E x : heard' = Delivered(r, x)
  BY <1>1 DEF RunTask, RunOnConnect, RunOnDisconnect, RunOnFailed, Answering
<1> QED
  BY <1>2, <1>3 DEF TypeOK, Delivered

(* Every step keeps it.                                                    *)
LEMMA NoneForgottenStep ==
  ASSUME AskInv, LifeInv, NoneForgotten, [Next]_vars
  PROVE  NoneForgotten'
<1> SUFFICES ASSUME NEW r \in Req, Waits(r)'
             PROVE  InPending(r)' \/ Answering(r)'
  BY DEF NoneForgotten
<1>t. TypeOK /\ LifeFits /\ ResultFits /\ OnlyAcceptedTouched /\ Phase(r)
  BY DEF LifeInv, RequestInv, ConnInv, LifeFits, Life
<1>1. heard[r] = <<>> /\ heard'[r] = <<>>
  <2>1. HeardStep(r)
    BY <1>t, HeardSteps
  <2> QED
    BY <2>1, ShortQueues DEF HeardStep, Waits
<1>2. dpc[<<r, "app">>] = "idle"
  BY <1>t, CloseStaysStep DEF CloseStays, Closing, Waits
<1>3. CallersAlive(KeyOf[r]) /\ ProcOf[r] \in alive
  <2>1. alive' \subseteq alive
    BY <1>t, AliveShrinks
  <2> QED
    BY <2>1 DEF Waits, CallersAlive
<1>4. CASE ~Accepted(r)
  BY <1>4, AcceptedWaits DEF Waits
<1>5. CASE InPending(r)
  <2>1. StaysPending(r)
    BY <1>5, <1>t, StaysPendingStep DEF AskInv
  <2>2. ASSUME NEW c \in Conn, r \in pending[c], AbilityCallback(c)
        PROVE  InPending(r)' \/ Answering(r)'
    BY <1>3, <2>2, PendingIsAnswered
  <2>3. ASSUME NEW t \in Closing, t[1] = r, CloseRemove(t) PROVE FALSE
    <3>1. told[r] = <<>>
      BY <1>5, <1>t DEF LifeFits, Life, Fresh
    <3>2. dpc[<<r, "ext">>] = "idle"
      BY <3>1 DEF AskInv, StopTold
    <3>3. t = <<r, "app">> \/ t = <<r, "ext">>
      BY <2>3 DEF Closing
    <3> QED
      BY <1>2, <2>3, <3>2, <3>3 DEF CloseRemove, CloseAt
  <2> QED
    BY <2>1, <2>2, <2>3 DEF StaysPending
<1>6. CASE Answering(r)
  <2>1. InOrder(r)
    BY <1>t, InOrderStep
  <2>2. ~RunTask(r)
    BY <1>1, <1>3, <1>6, <1>t, AnswerIsHeard
  <2> QED
    BY <1>6, <2>1, <2>2 DEF InOrder, Answering
<1>7. CASE Accepted(r) /\ ~InPending(r) /\ ~Answering(r)
  BY <1>1, <1>2, <1>3, <1>7 DEF NoneForgotten, Waits
<1> QED
  BY <1>4, <1>5, <1>6, <1>7

(* Through retries, stops, the deaths of other callers and answers that    *)
(* come late, a request that waits for its answer is pending on a          *)
(* connection whose answer is owed, or its answer is next in the event     *)
(* queue; all but a request on a connection for which the ability manager  *)
(* was never asked (NeverAsked: ConnectNativeInit found no client, one of  *)
(* the Faults).  Without that fault nobody is excused.                     *)
THEOREM WaitingIsNotForgotten == Spec => []AnswerIsOwed
<1>1. Init => AskInv /\ LifeInv /\ NoneForgotten
  <2>1. Init => NoneForgotten
    BY DEF Init, NoneForgotten, Waits, Accepted
  <2> QED
    BY <2>1, AskInvInit, LifeInvInit
<1>2. AskInv /\ LifeInv /\ NoneForgotten /\ [Next]_vars
        => (AskInv /\ LifeInv /\ NoneForgotten)'
  BY AskInvStep, LifeInvStep, NoneForgottenStep
<1>3. AskInv /\ LifeInv /\ NoneForgotten => AnswerIsOwed
  BY PendingIsAwaited DEF NoneForgotten, Waits, AnswerIsOwed
<1> QED
  BY <1>1, <1>2, <1>3, PTL DEF Spec
=============================================================================
