---------------------------- MODULE AppFwkUpdate ----------------------------
(***************************************************************************)
(* AppFwkUpdateService, the system ability that installs a new version of  *)
(* the web engine: it records the path and the package name in persistent  *)
(* parameters and tells AppSpawn to unload, mount and load the library.    *)
(* Calls come from the foundation process on IPC threads; the delayed      *)
(* unload task and the polling for the end of the boot run on the event    *)
(* handler "unload".  Each step is one access to a parameter, one message  *)
(* to AppSpawn or one change of the handler's queue.                       *)
(***************************************************************************)
EXTENDS Integers

(* An operator named F_X is F with the mistake X: it is used nowhere and   *)
(* shows that some property depends on F being as it is.                   *)

CONSTANTS
    Verify,     \* calls of VerifyPackageInstall
    Notify,     \* calls of NotifyFWKAfterBmsStart
    Client,     \* callers of VerifyPackageInstall
    ClientOf,   \* the caller of each call: it makes one call at a time
    Path,       \* hap paths
    PathOf,     \* the path each call installs
    NoPath,     \* the empty parameter
    Handler,    \* the thread of the event handler
    MaxRetry,   \* BOOT_POLLING_MAX_RETRY_COUNT
    PreloadMode,   \* const.startup.nwebspawn.preloadMode
    Faults      \* what may go wrong

FaultKinds == {"unload_msg_err", "mount_err", "load_err",  \* AppSpawn
               "set_path_err", "set_name_err", "completed_err",
               "unload_err",   \* UnloadSystemAbility fails
               "late_call"}    \* a call runs when the unload task is due

AFAssumption ==
    /\ ClientOf \in [Verify -> Client]
    /\ PathOf \in [Verify -> Path]
    /\ NoPath \notin Path
    /\ Handler \notin Notify
    /\ MaxRetry \in Nat
    /\ PreloadMode \in BOOLEAN
    /\ Faults \subseteq FaultKinds
ASSUME AppFwkAssumption == AFAssumption

NoTask == -1

(* The threads that run DoBootCompletedPolling: the IPC thread of each     *)
(* notification and the handler's.                                         *)
Poller == Notify \cup {Handler}

VARIABLES
    installPath,   \* persist.arkwebcore.install_path
    packageName,   \* persist.arkwebcore.package_name, named by its path
    completed,     \* web.engine.install.completed
    booted,        \* bootevent.boot.completed
    mounts,        \* the path AppSpawn last updated its mount points for
    lib,           \* what AppSpawn last did with the library
    up,            \* the service process runs
    unloadTasks,   \* how many tasks "unload" are posted
    poll,          \* retryCount of the task "boot_completed_poller" that
                   \* each poller has posted and that waits
    pollRun,       \* that of the task the handler is running
    turn,          \* each poller's step in DoBootCompletedPolling
    vpc,           \* the step of each VerifyPackageInstall
    npc            \* the step of each NotifyFWKAfterBmsStart

paramVars == <<installPath, packageName, completed>>
spawnVars == <<mounts, lib>>
pollVars == <<poll, pollRun, turn>>
taskVars == <<up, unloadTasks, pollVars>>
vars == <<paramVars, booted, spawnVars, taskVars, vpc, npc>>

LibState == {"unloaded", "loaded", "refused"}
VerifyOver == {"idle", "ok", "err"}
NotifyOver == {"idle", "done"}
VerifyPc == VerifyOver \cup {"unload", "compare", "path", "name", "mount"}
NotifyPc == NotifyOver \cup {"refresh", "repost", "poll"}
TurnPc == {"none", "check", "send", "remove", "post"}

Init ==
    /\ installPath \in Path \cup {NoPath}
    /\ packageName = installPath
    /\ completed = FALSE
    /\ booted \in BOOLEAN
    /\ mounts = installPath
    /\ lib = "unloaded"
    /\ up = FALSE
    /\ unloadTasks = 0
    /\ poll = [p \in Poller |-> NoTask]
    /\ pollRun = NoTask
    /\ turn = [p \in Poller |-> "none"]
    /\ vpc = [v \in Verify |-> "idle"]
    /\ npc = [n \in Notify |-> "idle"]

----------------------------------------------------------------------------
(* VerifyPackageInstall.  An error leaves the steps before it done.        *)

VerifyGoto(v, step) == vpc' = [vpc EXCEPT ![v] = step]

VerifyBegin(v) ==
    /\ up
    /\ vpc[v] = "idle"
    /\ \A w \in Verify : ClientOf[w] = ClientOf[v] => vpc[w] \in VerifyOver
    /\ VerifyGoto(v, "unload")
    /\ UNCHANGED <<paramVars, booted, spawnVars, taskVars, npc>>

SendUnload(v) ==
    /\ vpc[v] = "unload"
    /\ \/ lib' = "unloaded" /\ VerifyGoto(v, "compare")
       \/ /\ "unload_msg_err" \in Faults
          /\ VerifyGoto(v, "err")
          /\ UNCHANGED lib
    /\ UNCHANGED <<paramVars, booted, mounts, taskVars, npc>>

ComparePath_Swapped(v) ==
    /\ vpc[v] = "compare"
    /\ VerifyGoto(v, IF installPath # PathOf[v] THEN "ok" ELSE "path")
    /\ UNCHANGED <<paramVars, booted, spawnVars, taskVars, npc>>
ComparePath(v) ==
    /\ vpc[v] = "compare"
    /\ VerifyGoto(v, IF installPath = PathOf[v] THEN "ok" ELSE "path")
    /\ UNCHANGED <<paramVars, booted, spawnVars, taskVars, npc>>

SetWebInstallPath(v) ==
    /\ vpc[v] = "path"
    /\ \/ installPath' = PathOf[v] /\ VerifyGoto(v, "name")
       \/ /\ "set_path_err" \in Faults
          /\ VerifyGoto(v, "err")
          /\ UNCHANGED installPath
    /\ UNCHANGED <<packageName, completed, booted, spawnVars, taskVars, npc>>

SetWebCorePackageName(v) ==
    /\ vpc[v] = "name"
    /\ \/ packageName' = PathOf[v] /\ VerifyGoto(v, "mount")
       \/ /\ "set_name_err" \in Faults
          /\ VerifyGoto(v, "err")
          /\ UNCHANGED packageName
    /\ UNCHANGED <<installPath, completed, booted, spawnVars, taskVars, npc>>

SendUpdateMount(v) ==
    /\ vpc[v] = "mount"
    /\ \/ mounts' = PathOf[v] /\ VerifyGoto(v, "ok")
       \/ /\ "mount_err" \in Faults
          /\ VerifyGoto(v, "err")
          /\ UNCHANGED mounts
    /\ UNCHANGED <<paramVars, booted, lib, taskVars, npc>>

----------------------------------------------------------------------------
(* NotifyFWKAfterBmsStart and the polling, on an IPC thread at first and   *)
(* then on the handler's.                                                  *)

NotifyGoto(n, step) == npc' = [npc EXCEPT ![n] = step]

NotifyBegin(n) ==
    /\ up
    /\ npc[n] = "idle"
    /\ NotifyGoto(n, IF packageName = NoPath THEN "done" ELSE "refresh")
    /\ UNCHANGED <<paramVars, booted, spawnVars, taskVars, vpc>>

(* PostDelayUnloadTask.                                                    *)
RemoveUnloadTask(n) ==
    /\ npc[n] = "refresh"
    /\ unloadTasks' = 0
    /\ NotifyGoto(n, "repost")
    /\ UNCHANGED <<paramVars, booted, spawnVars, up, pollVars, vpc>>

PostUnloadTask(n) ==
    /\ npc[n] = "repost"
    /\ unloadTasks' = unloadTasks + 1
    /\ turn' = [turn EXCEPT ![n] = "check"]
    /\ NotifyGoto(n, "poll")
    /\ UNCHANGED <<paramVars, booted, spawnVars, up, poll, pollRun, vpc>>

RetryCount(p) == IF p = Handler THEN pollRun ELSE 0

TurnGoto(p, step) == turn' = [turn EXCEPT ![p] = step]

(* The handler is free again when its turn ends.                           *)
TurnEnds(p) ==
    /\ TurnGoto(p, "none")
    /\ pollRun' = IF p = Handler THEN NoTask ELSE pollRun

PollingOver_OneMore(p) == booted \/ RetryCount(p) > MaxRetry
PollingOver(p) == booted \/ RetryCount(p) >= MaxRetry

CheckBooted_GivesUp(p) ==
    /\ turn[p] = "check"
    /\ \/ booted /\ TurnGoto(p, "send") /\ UNCHANGED pollRun
       \/ ~PollingOver(p) /\ TurnGoto(p, "remove") /\ UNCHANGED pollRun
       \/ ~booted /\ PollingOver(p) /\ TurnEnds(p)
    /\ UNCHANGED <<paramVars, booted, spawnVars, up, unloadTasks, poll, vpc,
                   npc>>
CheckBooted(p) ==
    /\ turn[p] = "check"
    /\ TurnGoto(p, IF PollingOver(p) THEN "send" ELSE "remove")
    /\ UNCHANGED <<paramVars, booted, spawnVars, up, unloadTasks, poll,
                   pollRun, vpc, npc>>

SendLoad(p) ==
    /\ turn[p] = "send"
    /\ lib' \in {"loaded"} \cup {l \in {"refused"} : "load_err" \in Faults}
    /\ TurnEnds(p)
    /\ UNCHANGED <<paramVars, booted, mounts, up, unloadTasks, poll, vpc, npc>>

RemovePollTask(p) ==
    /\ turn[p] = "remove"
    /\ poll' = [q \in Poller |-> NoTask]
    /\ TurnGoto(p, "post")
    /\ UNCHANGED <<paramVars, booted, spawnVars, up, unloadTasks, pollRun, vpc,
                   npc>>

PostPollTask_SameCount(p) ==
    /\ turn[p] = "post"
    /\ poll' = [poll EXCEPT ![p] = RetryCount(p)]
    /\ TurnEnds(p)
    /\ UNCHANGED <<paramVars, booted, spawnVars, up, unloadTasks, vpc, npc>>
PostPollTask(p) ==
    /\ turn[p] = "post"
    /\ poll' = [poll EXCEPT ![p] = RetryCount(p) + 1]
    /\ TurnEnds(p)
    /\ UNCHANGED <<paramVars, booted, spawnVars, up, unloadTasks, vpc, npc>>

DoBootCompletedPolling(p) ==
    CheckBooted(p) \/ SendLoad(p) \/ RemovePollTask(p) \/ PostPollTask(p)

SetCompleted ==
    \/ completed' = TRUE
    \/ "completed_err" \in Faults /\ UNCHANGED completed

NotifySet(n) ==
    /\ npc[n] = "poll"
    /\ turn[n] = "none"
    /\ SetCompleted
    /\ NotifyGoto(n, "done")
    /\ UNCHANGED <<installPath, packageName, booted, spawnVars, taskVars,
                   vpc>>

PollTask ==
    /\ pollRun = NoTask
    /\ \E p \in Poller :
          /\ poll[p] # NoTask
          /\ pollRun' = poll[p]
          /\ poll' = [poll EXCEPT ![p] = NoTask]
    /\ TurnGoto(Handler, "check")
    /\ UNCHANGED <<paramVars, booted, spawnVars, up, unloadTasks, vpc, npc>>

NotifyArkWebInstallSuccess ==
    /\ up
    /\ PreloadMode
    /\ booted
    /\ SetCompleted
    /\ UNCHANGED <<installPath, packageName, booted, spawnVars, taskVars,
                   vpc, npc>>

----------------------------------------------------------------------------
(* The life of the process.                                                *)

OnStart ==
    /\ ~up
    /\ up' = TRUE
    /\ unloadTasks' = 1
    /\ UNCHANGED <<paramVars, booted, spawnVars, pollVars, vpc, npc>>

Idle ==
    /\ \A v \in Verify : vpc[v] \in VerifyOver
    /\ \A n \in Notify : npc[n] \in NotifyOver
    /\ \A p \in Poller : poll[p] = NoTask

(* The task is due TASK_DELAY_TIME after the last start or notification,   *)
(* which is longer than the polling lasts, and looks at nothing.  The      *)
(* calls the process still runs and its tasks are lost with it.            *)
UnloadTask ==
    /\ unloadTasks > 0
    /\ pollRun = NoTask
    /\ Idle \/ "late_call" \in Faults
    /\ \/ /\ up' = FALSE
          /\ unloadTasks' = 0
          /\ poll' = [p \in Poller |-> NoTask]
          /\ turn' = [p \in Poller |-> "none"]
          /\ vpc' = [v \in Verify |->
                        IF vpc[v] \in VerifyOver THEN vpc[v] ELSE "err"]
          /\ npc' = [n \in Notify |->
                        IF npc[n] \in NotifyOver THEN npc[n] ELSE "done"]
       \/ /\ "unload_err" \in Faults
          /\ unloadTasks' = unloadTasks - 1
          /\ UNCHANGED <<up, poll, turn, vpc, npc>>
    /\ UNCHANGED <<paramVars, booted, spawnVars, pollRun>>

BootCompletes ==
    /\ ~booted
    /\ booted' = TRUE
    /\ UNCHANGED <<paramVars, spawnVars, taskVars, vpc, npc>>

----------------------------------------------------------------------------
VerifyStep(v) ==
    \/ VerifyBegin(v) \/ SendUnload(v) \/ ComparePath(v)
    \/ SetWebInstallPath(v) \/ SetWebCorePackageName(v)
    \/ SendUpdateMount(v)

NotifyStep(n) ==
    \/ NotifyBegin(n) \/ RemoveUnloadTask(n) \/ PostUnloadTask(n)
    \/ DoBootCompletedPolling(n) \/ NotifySet(n)

HandlerStep == PollTask \/ DoBootCompletedPolling(Handler)

Next ==
    \/ \E v \in Verify : VerifyStep(v)
    \/ \E n \in Notify : NotifyStep(n)
    \/ HandlerStep
    \/ NotifyArkWebInstallSuccess \/ OnStart \/ UnloadTask \/ BootCompletes

Spec == Init /\ [][Next]_vars

(* The IPC threads and the event handler go on; nothing makes the boot     *)
(* end.                                                                    *)
FairSpec ==
    /\ Spec
    /\ \A n \in Notify : WF_vars(npc[n] # "idle" /\ NotifyStep(n))
    /\ WF_vars(HandlerStep)

----------------------------------------------------------------------------
(* Types.  The polling never counts beyond its bound, whichever thread     *)
(* posts its next turn.                                                    *)
TypeOK ==
    /\ installPath \in Path \cup {NoPath}
    /\ packageName \in Path \cup {NoPath}
    /\ completed \in BOOLEAN
    /\ booted \in BOOLEAN
    /\ mounts \in Path \cup {NoPath}
    /\ lib \in LibState
    /\ up \in BOOLEAN
    /\ unloadTasks \in Nat
    /\ poll \in [Poller -> {NoTask} \cup 1..MaxRetry]
    /\ turn \in [Poller -> TurnPc]
    /\ pollRun \in {NoTask} \cup 1..MaxRetry
    /\ vpc \in [Verify -> VerifyPc]
    /\ npc \in [Notify -> NotifyPc]

(* VerifyPackageInstall answers 0 only if the parameters and the mount     *)
(* points are those of the package it was called for, also when it finds   *)
(* the path unchanged and looks no further: as long as no call before it   *)
(* failed, and one client makes the calls.                                 *)
SuccessMeansInstalled ==
    [][\A v \in Verify :
          /\ vpc[v] # "ok" /\ vpc'[v] = "ok"
          /\ \A w \in Verify : vpc[w] # "err"
          => <<installPath', packageName', mounts'>>
                = <<PathOf[v], PathOf[v], PathOf[v]>>]_vars

(* No call has told AppSpawn to unload the library.                        *)
NoneUnloads == \A v \in Verify : vpc[v] \in {"idle", "unload"}

(* A notification that has polled leaves the library loaded, or refused, or *)
(* a task that will see to it: one that is posted, or that the handler     *)
(* runs, or that a poller is about to post.  The tasks of all pollers have *)
(* one name, and each removes the others' before it posts its own.         *)
LoadIsDue ==
    NoneUnloads =>
        \A n \in Notify : npc[n] = "poll" /\ turn[n] = "none" =>
            \/ lib # "unloaded"
            \/ turn[Handler] # "none"
            \/ \E p \in Poller : poll[p] # NoTask \/ turn[p] = "post"

(* Once a notification starts to poll AppSpawn is told to load the         *)
(* library, even if the boot never completes and other notifications       *)
(* replace its polling task, unless the process is unloaded.               *)
NotifiedLoads ==
    \A n \in Notify : turn[n] = "check" ~> lib # "unloaded" \/ ~up
=============================================================================
