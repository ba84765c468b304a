------------------------- MODULE AppFwkUpdateProofs -------------------------
(***************************************************************************)
(* Proofs about AppFwkUpdate, for every set of calls, clients and paths    *)
(* and every bound of the polling: the polling is bounded, and what a      *)
(* notification has polled for is never lost.                              *)
(***************************************************************************)
EXTENDS AppFwkUpdate, TLAPS

(* A poller's turn posts the next one only below the bound, which it has   *)
(* checked some steps before: nobody else changes its retry count, and a   *)
(* notification has one turn.                                              *)
TurnFits ==
    /\ \A p \in Poller : turn[p] \in {"remove", "post"} =>
          RetryCount(p) < MaxRetry
    /\ pollRun # NoTask <=> turn[Handler] # "none"
    /\ \A n \in Notify : turn[n] # "none" => npc[n] = "poll"

(* A turn changes its own step, and the handler's task when it ends.       *)
LEMMA TurnMoves ==
    ASSUME TypeOK, NEW p \in Poller, DoBootCompletedPolling(p)
    PROVE  /\ turn' \in [Poller -> TurnPc]
           /\ \A q \in Poller : q # p => turn'[q] = turn[q]
           /\ pollRun' \in {pollRun, NoTask}
           /\ pollRun' # pollRun => p = Handler
           /\ lib' \in LibState
           /\ UNCHANGED <<paramVars, booted, mounts, up, unloadTasks, vpc, npc>>
<1> USE DEF TypeOK, TurnPc, LibState, TurnGoto, TurnEnds
<1>1. CASE CheckBooted(p)
    BY <1>1 DEF CheckBooted, spawnVars
<1>2. CASE SendLoad(p)
    BY <1>2 DEF SendLoad
<1>3. CASE RemovePollTask(p) \/ PostPollTask(p)
    BY <1>3 DEF RemovePollTask, PostPollTask, spawnVars
<1> QED BY <1>1, <1>2, <1>3 DEF DoBootCompletedPolling

(* The next turn counts one more than this one.                            *)
LEMMA PostFits ==
    ASSUME TypeOK, TurnFits, NEW p \in Poller, turn[p] = "post"
    PROVE  RetryCount(p) + 1 \in 1..MaxRetry
<1>1. RetryCount(p) < MaxRetry
    BY DEF TurnFits
<1>2. p = Handler => pollRun # NoTask
    BY DEF TurnFits
<1>3. RetryCount(p) \in 0..MaxRetry
    BY <1>2, AppFwkAssumption DEF AFAssumption, RetryCount, TypeOK, NoTask
<1> QED BY <1>1, <1>3, AppFwkAssumption DEF AFAssumption

(* Every step keeps the types; a post needs the bound of its turn.         *)
LEMMA TypeOKStep ==
    ASSUME TypeOK, TurnFits, [Next]_vars
    PROVE  TypeOK'
<1> USE AppFwkAssumption DEF AFAssumption, VerifyPc, VerifyOver, NotifyPc,
        NotifyOver, LibState
<1>1. CASE UNCHANGED vars
    BY <1>1 DEF TypeOK, vars, paramVars, spawnVars, taskVars, pollVars
<1>2. ASSUME NEW v \in Verify, VerifyStep(v) PROVE TypeOK'
    <2>1. CASE VerifyBegin(v) \/ SendUnload(v) \/ ComparePath(v)
        BY <2>1 DEF TypeOK, VerifyBegin, SendUnload, ComparePath,
                    VerifyGoto, paramVars, spawnVars, taskVars, pollVars
    <2>2. CASE \/ SetWebInstallPath(v) \/ SetWebCorePackageName(v)
               \/ SendUpdateMount(v)
        BY <2>2 DEF TypeOK, SetWebInstallPath, SetWebCorePackageName,
                    SendUpdateMount, VerifyGoto, paramVars, spawnVars,
                    taskVars, pollVars
    <2> QED BY <1>2, <2>1, <2>2 DEF VerifyStep
<1>3. ASSUME NEW p \in Poller, DoBootCompletedPolling(p) PROVE TypeOK'
    <2>1. poll' \in [Poller -> {NoTask} \cup 1..MaxRetry]
        <3>1. CASE PostPollTask(p)
            BY <3>1, PostFits DEF PostPollTask, TypeOK
        <3>2. CASE RemovePollTask(p)
            BY <3>2 DEF RemovePollTask
        <3>3. CASE CheckBooted(p) \/ SendLoad(p)
            BY <3>3 DEF CheckBooted, SendLoad, TypeOK
        <3> QED BY <1>3, <3>1, <3>2, <3>3 DEF DoBootCompletedPolling
    <2> HIDE DEF LibState
    <2> QED BY <1>3, <2>1, TurnMoves DEF TypeOK, paramVars
<1>4. ASSUME NEW n \in Notify,
             \/ NotifyBegin(n) \/ RemoveUnloadTask(n) \/ PostUnloadTask(n)
             \/ NotifySet(n)
      PROVE  TypeOK'
    <2>1. CASE NotifyBegin(n)
        BY <2>1 DEF TypeOK, NotifyBegin, NotifyGoto, paramVars, spawnVars,
                    taskVars, pollVars
    <2>2. CASE RemoveUnloadTask(n)
        BY <2>2 DEF TypeOK, RemoveUnloadTask, NotifyGoto, paramVars,
                    spawnVars, pollVars
    <2>3. CASE NotifySet(n)
        BY <2>3 DEF TypeOK, NotifySet, SetCompleted, NotifyGoto, spawnVars,
                    taskVars, pollVars
    <2>4. CASE PostUnloadTask(n)
        BY <2>4 DEF TypeOK, PostUnloadTask, NotifyGoto, paramVars, spawnVars,
                    Poller, TurnPc
    <2> QED BY <1>4, <2>1, <2>2, <2>3, <2>4
<1>5. CASE PollTask
    BY <1>5 DEF TypeOK, PollTask, TurnGoto, TurnPc, Poller, paramVars,
                spawnVars
<1>6. CASE NotifyArkWebInstallSuccess \/ OnStart \/ BootCompletes
    <2>1. CASE NotifyArkWebInstallSuccess
        BY <2>1 DEF TypeOK, NotifyArkWebInstallSuccess, SetCompleted,
                    spawnVars, taskVars, pollVars
    <2>2. CASE OnStart
        BY <2>2 DEF TypeOK, OnStart, paramVars, spawnVars, pollVars
    <2>3. CASE BootCompletes
        BY <2>3 DEF TypeOK, BootCompletes, paramVars, spawnVars, taskVars,
                    pollVars
    <2> QED BY <1>6, <2>1, <2>2, <2>3
<1>7. CASE UnloadTask
    <2>1. UNCHANGED <<installPath, packageName, completed, booted, mounts,
                      lib, pollRun>>
        BY <1>7 DEF UnloadTask, paramVars, spawnVars
    <2>2. up' \in BOOLEAN /\ unloadTasks' \in Nat
        <3>1. /\ up' = FALSE \/ up' = up
              /\ unloadTasks' = 0 \/ unloadTasks' = unloadTasks - 1
              /\ unloadTasks > 0
            BY <1>7 DEF UnloadTask
        <3>2. up' \in BOOLEAN
            BY <3>1 DEF TypeOK
        <3>3. unloadTasks' \in Nat
            BY <3>1 DEF TypeOK
        <3> QED BY <3>2, <3>3
    <2>3. /\ poll' \in [Poller -> {NoTask} \cup 1..MaxRetry]
          /\ turn' \in [Poller -> TurnPc]
        BY <1>7 DEF UnloadTask, TypeOK, TurnPc
    <2>4. vpc' \in [Verify -> VerifyPc] /\ npc' \in [Notify -> NotifyPc]
        BY <1>7 DEF UnloadTask, TypeOK
    <2> QED BY <2>1, <2>2, <2>3, <2>4 DEF TypeOK
<1> QED
    BY <1>1, <1>2, <1>3, <1>4, <1>5, <1>6, <1>7
       DEF Next, NotifyStep, HandlerStep, Poller

(* A turn that goes on has found its count below the bound.                *)
LEMMA TurnFitsStep ==
    ASSUME TypeOK, TurnFits, [Next]_vars
    PROVE  TurnFits'
<1> USE AppFwkAssumption DEF AFAssumption
<1>0. Handler \in Poller
    BY DEF Poller
<1>1. CASE UNCHANGED <<turn, pollRun, npc>>
    BY <1>1 DEF TurnFits, RetryCount
<1>2. ASSUME NEW p \in Poller, DoBootCompletedPolling(p) PROVE TurnFits'
    <2>1. CASE CheckBooted(p)
        BY <1>0, <2>1 DEF CheckBooted, TurnGoto, PollingOver, TurnFits,
                          RetryCount, TypeOK, NoTask
    <2>2. CASE RemovePollTask(p)
        BY <1>0, <2>2 DEF RemovePollTask, TurnGoto, TurnFits, RetryCount,
                          TypeOK
    <2>3. CASE SendLoad(p) \/ PostPollTask(p)
        <3>1. /\ turn' = [turn EXCEPT ![p] = "none"] /\ UNCHANGED npc
              /\ pollRun' = IF p = Handler THEN NoTask ELSE pollRun
            BY <2>3 DEF SendLoad, PostPollTask, TurnGoto, TurnEnds
        <3>2. \A q \in Poller : turn'[q] \in {"remove", "post"} =>
                 q # p /\ turn'[q] = turn[q] /\ RetryCount(q)' = RetryCount(q)
            BY <3>1 DEF TypeOK, RetryCount
        <3>3. pollRun' # NoTask <=> turn'[Handler] # "none"
            BY <1>0, <3>1 DEF TurnFits, TypeOK
        <3>4. \A n \in Notify : turn'[n] # "none" => npc'[n] = "poll"
            BY <3>1 DEF TurnFits, TypeOK, Poller
        <3> QED BY <3>2, <3>3, <3>4 DEF TurnFits
    <2> QED BY <1>2, <2>1, <2>2, <2>3 DEF DoBootCompletedPolling
<1>3. ASSUME NEW n \in Notify, PostUnloadTask(n) PROVE TurnFits'
    BY <1>0, <1>3 DEF PostUnloadTask, NotifyGoto, TurnFits, RetryCount,
                      TypeOK, Poller
<1>4. CASE PollTask
    BY <1>0, <1>4 DEF PollTask, TurnGoto, TurnFits, RetryCount, TypeOK
<1>5. CASE UnloadTask
    <2>1. CASE UNCHANGED <<turn, npc>>
        <3>1. UNCHANGED pollRun
            BY <1>5 DEF UnloadTask
        <3> QED BY <1>1, <2>1, <3>1
    <2>2. CASE turn' = [p \in Poller |-> "none"]
        <3>1. pollRun' = NoTask
            BY <1>5 DEF UnloadTask
        <3> QED BY <1>0, <2>2, <3>1 DEF TurnFits, Poller
    <2> QED BY <1>5, <2>1, <2>2 DEF UnloadTask
<1>6. ASSUME NEW n \in Notify,
             NotifyBegin(n) \/ RemoveUnloadTask(n) \/ NotifySet(n)
      PROVE  TurnFits'
    BY <1>0, <1>6 DEF NotifyBegin, RemoveUnloadTask, NotifySet, NotifyGoto,
                      TurnFits, RetryCount, TypeOK, Poller, taskVars, pollVars
<1> QED
    BY <1>1, <1>2, <1>3, <1>4, <1>5, <1>6
       DEF Next, vars, taskVars, pollVars, VerifyStep, VerifyBegin,
           SendUnload, ComparePath, SetWebInstallPath, SetWebCorePackageName,
           SendUpdateMount, NotifyStep, HandlerStep,
           NotifyArkWebInstallSuccess, OnStart, BootCompletes, Poller

(* The types and the turns keep each other up.                             *)
LEMMA AlwaysFits == Spec => [](TypeOK /\ TurnFits)
<1>1. Init => TypeOK
    <2> SUFFICES ASSUME Init PROVE TypeOK
        OBVIOUS
    <2>1. /\ installPath \in Path \cup {NoPath}
          /\ packageName \in Path \cup {NoPath}
          /\ mounts \in Path \cup {NoPath}
        BY DEF Init
    <2>2. completed \in BOOLEAN /\ booted \in BOOLEAN /\ up \in BOOLEAN
        BY DEF Init
    <2>3. /\ lib \in LibState /\ unloadTasks \in Nat
          /\ poll \in [Poller -> {NoTask} \cup 1..MaxRetry]
          /\ turn \in [Poller -> TurnPc]
          /\ pollRun \in {NoTask} \cup 1..MaxRetry
          /\ vpc \in [Verify -> VerifyPc] /\ npc \in [Notify -> NotifyPc]
        BY DEF Init, LibState, TurnPc, VerifyPc, VerifyOver, NotifyPc,
               NotifyOver
    <2> QED BY <2>1, <2>2, <2>3 DEF TypeOK
<1>2. Init => TurnFits
    BY DEF Init, TurnFits, Poller
<1> QED BY <1>1, <1>2, TypeOKStep, TurnFitsStep, PTL DEF Spec

(* The polling is bounded: the retry count of a posted or running polling  *)
(* task stays in 1..MaxRetry, whichever thread posted it and however the   *)
(* steps of their turns mix.                                               *)
THEOREM TypeCorrect == Spec => []TypeOK
BY AlwaysFits, PTL

----------------------------------------------------------------------------
(* What a notification that has polled may rely on.                        *)
Due ==
    \/ lib # "unloaded"
    \/ turn[Handler] # "none"
    \/ \E p \in Poller : poll[p] # NoTask \/ turn[p] = "post"

(* A step of a call changes the program counter of that call alone.        *)
LEMMA VerifyStepsAlone ==
    ASSUME TypeOK, NEW v \in Verify, VerifyStep(v)
    PROVE  /\ vpc[v] \notin {"ok", "err"}
           /\ \A w \in Verify : w # v => vpc'[w] = vpc[w]
    BY DEF TypeOK, VerifyStep, VerifyBegin, SendUnload, ComparePath,
           SetWebInstallPath, SetWebCorePackageName, SendUpdateMount,
           VerifyGoto

(* Who removes the others' tasks is about to post one; a turn that posts   *)
(* none loads the library.                                                 *)
LEMMA TurnLeadsOn ==
    ASSUME TypeOK, TurnFits, NEW p \in Poller, DoBootCompletedPolling(p)
    PROVE  /\ Due => Due'
           /\ turn'[p] = "none" => Due'
<1>1. CASE CheckBooted(p)
    BY <1>1 DEF CheckBooted, TurnGoto, Due, TypeOK, spawnVars
<1>2. CASE SendLoad(p)
    BY <1>2 DEF SendLoad, Due
<1>3. CASE RemovePollTask(p)
    BY <1>3 DEF RemovePollTask, TurnGoto, Due, TypeOK
<1>4. CASE PostPollTask(p)
    <2>1. RetryCount(p) + 1 # NoTask
        BY <1>4, PostFits DEF PostPollTask, NoTask
    <2>2. poll'[p] # NoTask
        BY <1>4, <2>1 DEF PostPollTask, TypeOK
    <2> QED BY <2>2 DEF Due
<1> QED BY <1>1, <1>2, <1>3, <1>4 DEF DoBootCompletedPolling

(* What a notification waits for stays in sight as long as no call tells   *)
(* AppSpawn to unload and the process lives.                               *)
LEMMA DueStays ==
    ASSUME TypeOK, TurnFits, [Next]_vars, NoneUnloads', Due,
           NEW n \in Notify, npc'[n] = "poll"
    PROVE  Due'
<1>0. Handler \in Poller
    BY DEF Poller
<1>1. CASE UNCHANGED <<lib, poll, turn>>
    BY <1>1 DEF Due
<1>2. ASSUME NEW v \in Verify, VerifyStep(v)
      PROVE  UNCHANGED <<lib, poll, turn>>
    BY <1>2 DEF VerifyStep, VerifyBegin, SendUnload, ComparePath,
           SetWebInstallPath, SetWebCorePackageName, SendUpdateMount,
           VerifyGoto, NoneUnloads, TypeOK, spawnVars, taskVars, pollVars
<1>3. ASSUME NEW p \in Poller, DoBootCompletedPolling(p) PROVE Due'
    BY <1>3, TurnLeadsOn
<1>4. ASSUME NEW m \in Notify, PostUnloadTask(m) PROVE Due'
    BY <1>4, AppFwkAssumption
       DEF PostUnloadTask, Due, TurnFits, TypeOK, AFAssumption, Poller,
           spawnVars
<1>5. CASE PollTask
    BY <1>0, <1>5 DEF PollTask, TurnGoto, Due, TypeOK
<1>6. CASE UnloadTask
    <2>1. UNCHANGED <<lib, poll, turn>>
        BY <1>6 DEF UnloadTask, TypeOK, NotifyOver, spawnVars
    <2> QED BY <1>1, <2>1
<1> QED
    BY <1>1, <1>2, <1>3, <1>4, <1>5, <1>6
       DEF Next, vars, NotifyStep, NotifyBegin, RemoveUnloadTask, NotifySet,
           HandlerStep, NotifyArkWebInstallSuccess, OnStart, BootCompletes,
           spawnVars, taskVars, pollVars, Poller

(* A notification comes to its end of polling by its own turn.             *)
LEMMA PolledByTurn ==
    ASSUME TypeOK, TurnFits, [Next]_vars, NEW n \in Notify,
           npc'[n] = "poll", turn'[n] = "none",
           ~(npc[n] = "poll" /\ turn[n] = "none")
    PROVE  DoBootCompletedPolling(n)
<1> USE AppFwkAssumption DEF AFAssumption
<1>0. n \in Poller /\ n # Handler
    BY DEF Poller
<1>1. ASSUME NEW m \in Notify, NotifyStep(m) PROVE DoBootCompletedPolling(n)
    <2>1. CASE \/ NotifyBegin(m) \/ RemoveUnloadTask(m) \/ NotifySet(m)
               \/ PostUnloadTask(m)
        BY <1>0, <2>1 DEF NotifyBegin, RemoveUnloadTask, NotifySet,
                          PostUnloadTask, NotifyGoto, TypeOK, taskVars,
                          pollVars, Poller
    <2>2. CASE DoBootCompletedPolling(m)
        <3>1. m \in Poller
            BY DEF Poller
        <3> QED BY <1>0, <2>2, <3>1, TurnMoves
    <2> QED BY <1>1, <2>1, <2>2 DEF NotifyStep
<1>2. CASE DoBootCompletedPolling(Handler)
    <2>1. Handler \in Poller
        BY DEF Poller
    <2> QED BY <1>0, <1>2, <2>1, TurnMoves
<1>3. CASE PollTask
    BY <1>0, <1>3 DEF PollTask, TurnGoto, TypeOK
<1>4. CASE UnloadTask
    BY <1>0, <1>4 DEF UnloadTask, TypeOK, NotifyOver
<1>5. CASE UNCHANGED <<npc, turn>>
    BY <1>5
<1> QED
    BY <1>1, <1>2, <1>3, <1>4, <1>5
       DEF Next, vars, VerifyStep, VerifyBegin, SendUnload, ComparePath,
           SetWebInstallPath, SetWebCorePackageName, SendUpdateMount,
           HandlerStep, NotifyArkWebInstallSuccess, OnStart, BootCompletes,
           taskVars, pollVars

(* No call goes back to before its message to AppSpawn.                    *)
LEMMA UnloadsStay ==
    ASSUME TypeOK, [Next]_vars, NoneUnloads'
    PROVE  NoneUnloads
<1>1. ASSUME NEW v \in Verify, VerifyStep(v) PROVE NoneUnloads
    <2>1. vpc[v] \in {"idle", "unload"}
        BY <1>1 DEF VerifyStep, VerifyBegin, SendUnload, ComparePath,
               SetWebInstallPath, SetWebCorePackageName, SendUpdateMount,
               VerifyGoto, NoneUnloads, TypeOK
    <2> QED BY <1>1, <2>1, VerifyStepsAlone DEF NoneUnloads
<1>2. CASE UnloadTask
    BY <1>2 DEF UnloadTask, NoneUnloads, TypeOK, VerifyOver
<1>3. CASE UNCHANGED vpc
    BY <1>3 DEF NoneUnloads
<1>4. ASSUME NEW p \in Poller, DoBootCompletedPolling(p) PROVE UNCHANGED vpc
    BY <1>4, TurnMoves
<1> QED
    BY <1>1, <1>2, <1>3, <1>4
       DEF Next, vars, NotifyStep, NotifyBegin, RemoveUnloadTask,
           PostUnloadTask, NotifySet, HandlerStep, PollTask,
           NotifyArkWebInstallSuccess, OnStart, BootCompletes, Poller

(* Until a call unloads the library, a notification that has polled has it *)
(* loaded or refused, or a polling task is posted, running or, its         *)
(* forerunners removed, about to be posted, in every interleaving of the   *)
(* turns of several notifications and the handler: the safety half of      *)
(* NotifiedLoads, which is left with the event handler.                    *)
THEOREM PolledIsDue == Spec => []LoadIsDue
<1>1. Init => LoadIsDue
    BY DEF Init, LoadIsDue
<1>2. TypeOK /\ TurnFits /\ LoadIsDue /\ [Next]_vars => LoadIsDue'
    <2> SUFFICES ASSUME TypeOK, TurnFits, LoadIsDue, [Next]_vars, NoneUnloads',
                        NEW n \in Notify, npc'[n] = "poll", turn'[n] = "none"
                 PROVE  Due'
        BY DEF LoadIsDue, Due
    <2>1. CASE npc[n] = "poll" /\ turn[n] = "none"
        <3>1. Due
            BY <2>1, UnloadsStay DEF LoadIsDue, Due
        <3> QED BY <3>1, DueStays
    <2>2. CASE ~(npc[n] = "poll" /\ turn[n] = "none")
        <3>1. DoBootCompletedPolling(n) /\ n \in Poller
            BY <2>2, PolledByTurn DEF Poller
        <3> QED BY <3>1, TurnLeadsOn
    <2> QED BY <2>1, <2>2
<1> QED BY <1>1, <1>2, AlwaysFits, PTL DEF Spec
=============================================================================
