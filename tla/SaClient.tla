------------------------------ MODULE SaClient -----------------------------
(***************************************************************************)
(* How a process gets the proxy of a system ability that is loaded on      *)
(* demand: WebNativeMessagingClient, and AppFwkUpdateClient step for step. *)
(* A call returns the cached proxy, or what CheckSystemAbility finds, or   *)
(* loads the system ability and waits for the load callback, which runs    *)
(* on an IPC thread, for at most LOAD_SA_TIMEOUT_MS.  The death recipient  *)
(* drops the cached proxy and calls the user's death callback.             *)
(*                                                                         *)
(* Every start of the system ability has a number; 0 stands for null.  A   *)
(* step is a section under mutex_ or loadSaMutex_, or one call to the      *)
(* system ability manager or to the IPC framework.                         *)
(***************************************************************************)
EXTENDS Naturals

(* An operator named F_X is F with the mistake X: it is used nowhere and   *)
(* shows that some property depends on F being as it is.                   *)

CONSTANTS
    Call,       \* calls of GetWebNativeMessagingProxy
    MaxStarts,  \* how often the system ability may be started
    MayDie,     \* starts of it that may end
    Faults      \* what may go wrong

FaultKinds == {"load_err",       \* no manager, or LoadSystemAbility fails
               "start_err",      \* the load callback reports a failure
               "null_remote",    \* the load callback gets no object
               "recipient_err",  \* AddDeathRecipient fails
               "timeout"}        \* the callback comes too late

ClientAssumption ==
    /\ MaxStarts \in Nat
    /\ MayDie \subseteq 1..MaxStarts
    /\ Faults \subseteq FaultKinds
ASSUME SCAssumption == ClientAssumption

VARIABLES
    running,   \* the start of the system ability that runs, or 0
    starts,    \* how often it has been started
    proxy,     \* webNativeMessagingProxy_
    finished,  \* loadSaFinished_
    pc,        \* the step of each call
    result,    \* what a call has found or returns
    load,      \* the step of the load callback of each call
    remote,    \* the object that callback was given
    watches,   \* death recipients ever attached to each start
    obituaries,  \* OnRemoteDied calls to come for each start
    hpc,       \* the step of OnRemoteDied for each start
    told       \* starts whose death the user's callback was called for

samVars == <<running, starts, obituaries>>
callVars == <<pc, result>>
loadVars == <<load, remote, watches>>
deathVars == <<hpc, told>>
vars == <<samVars, proxy, finished, callVars, loadVars, deathVars>>

Start == 1..MaxStarts
CallPc == {"idle", "check", "begin", "load", "wait", "store", "get", "done"}
LoadPc == {"none", "asked", "success", "watched", "stored", "done",
           "fail", "cleared", "failed"}

(* A call that has timed out looks the system ability up, and caches it,   *)
(* while it holds loadSaMutex_.                                            *)
LoadMutexFree == \A c \in Call : pc[c] # "store"

Init ==
    /\ running = 0
    /\ starts = 0
    /\ proxy = 0
    /\ finished = FALSE
    /\ pc = [c \in Call |-> "idle"]
    /\ result = [c \in Call |-> 0]
    /\ load = [c \in Call |-> "none"]
    /\ remote = [c \in Call |-> 0]
    /\ watches = [i \in Start |-> 0]
    /\ obituaries = [i \in Start |-> 0]
    /\ hpc = [i \in Start |-> "idle"]
    /\ told = {}

Return(c, i) ==
    /\ pc' = [pc EXCEPT ![c] = "done"]
    /\ result' = [result EXCEPT ![c] = i]

Goto(c, step) ==
    /\ pc' = [pc EXCEPT ![c] = step]
    /\ UNCHANGED result

----------------------------------------------------------------------------
(* GetWebNativeMessagingProxy and LoadNativeMessagingService.              *)

GetCached(c) ==
    /\ pc[c] = "idle"
    /\ IF proxy # 0 THEN Return(c, proxy) ELSE Goto(c, "check")
    /\ UNCHANGED <<samVars, proxy, finished, loadVars, deathVars>>

(* What CheckSystemAbility finds is returned and neither cached nor        *)
(* watched.                                                                *)
CheckSystemAbility(c) ==
    /\ pc[c] = "check"
    /\ \/ IF running # 0 THEN Return(c, running) ELSE Goto(c, "begin")
       \/ "load_err" \in Faults /\ Return(c, 0)
    /\ UNCHANGED <<samVars, proxy, finished, loadVars, deathVars>>

BeginLoad(c) ==
    /\ pc[c] = "begin"
    /\ LoadMutexFree
    /\ finished' = FALSE
    /\ Goto(c, "load")
    /\ UNCHANGED <<samVars, proxy, loadVars, deathVars>>

LoadSystemAbility(c) ==
    /\ pc[c] = "load"
    /\ \/ /\ Goto(c, "wait")
          /\ load' = [load EXCEPT ![c] = "asked"]
       \/ /\ "load_err" \in Faults
          /\ Return(c, 0)
          /\ UNCHANGED load
    /\ UNCHANGED <<samVars, proxy, finished, remote, watches, deathVars>>

WaitFinished(c) ==
    /\ pc[c] = "wait"
    /\ LoadMutexFree
    /\ finished
    /\ Goto(c, "get")
    /\ UNCHANGED <<samVars, proxy, finished, loadVars, deathVars>>

LoadTimesOut_NoCheck(c) ==
    /\ pc[c] = "wait"
    /\ "timeout" \in Faults
    /\ LoadMutexFree
    /\ ~finished
    /\ Return(c, 0)
    /\ UNCHANGED <<samVars, proxy, finished, loadVars, deathVars>>
LoadTimesOut_Never(c) ==
    /\ pc[c] = "wait"
    /\ finished
    /\ Goto(c, "get")
    /\ UNCHANGED <<samVars, proxy, finished, loadVars, deathVars>>
LoadTimesOut(c) ==
    /\ pc[c] = "wait"
    /\ "timeout" \in Faults
    /\ LoadMutexFree
    /\ ~finished
    /\ IF running = 0
         THEN Return(c, 0)
         ELSE /\ pc' = [pc EXCEPT ![c] = "store"]
              /\ result' = [result EXCEPT ![c] = running]
    /\ UNCHANGED <<samVars, proxy, finished, loadVars, deathVars>>

(* No death recipient is attached here.                                    *)
StoreFound(c) ==
    /\ pc[c] = "store"
    /\ proxy' = result[c]
    /\ Goto(c, "get")
    /\ UNCHANGED <<samVars, finished, loadVars, deathVars>>

GetLoaded(c) ==
    /\ pc[c] = "get"
    /\ Return(c, proxy)
    /\ UNCHANGED <<samVars, proxy, finished, loadVars, deathVars>>

----------------------------------------------------------------------------
(* The load callback of c's load.                                          *)

Watch(i, n) == watches' = [watches EXCEPT ![i] = @ + n]

(* AddDeathRecipient on a dead object fails, or its obituary follows at    *)
(* once.                                                                   *)
AddDeathRecipient_Ignored(c) ==
    /\ load[c] = "success"
    /\ load' = [load EXCEPT ![c] = "watched"]
    /\ IF remote[c] = running
         THEN \/ Watch(remote[c], 1)
              \/ "recipient_err" \in Faults /\ UNCHANGED watches
         ELSE UNCHANGED watches
    /\ UNCHANGED <<samVars, proxy, finished, callVars, remote, deathVars>>
AddDeathRecipient(c) ==
    /\ load[c] = "success"
    /\ \/ /\ load' = [load EXCEPT ![c] = "watched"]
          /\ Watch(remote[c], 1)
          /\ obituaries' = [obituaries EXCEPT ![remote[c]] =
                               IF remote[c] = running THEN @ ELSE @ + 1]
       \/ /\ "recipient_err" \in Faults \/ remote[c] # running
          /\ load' = [load EXCEPT ![c] = "done"]
          /\ UNCHANGED <<watches, obituaries>>
    /\ UNCHANGED <<running, starts, proxy, finished, callVars, remote,
                   deathVars>>

StoreLoaded_TellsDeath(c) ==
    /\ \/ /\ load[c] = "watched"
          /\ proxy' = remote[c]
          /\ load' = [load EXCEPT ![c] = "stored"]
          /\ UNCHANGED hpc
       \/ /\ load[c] = "fail"
          /\ proxy' = 0
          /\ load' = [load EXCEPT ![c] = "cleared"]
          /\ hpc' = [i \in Start |-> IF i = proxy THEN "tell" ELSE hpc[i]]
    /\ UNCHANGED <<samVars, finished, callVars, remote, watches, told>>
StoreLoaded(c) ==
    /\ \/ /\ load[c] = "watched"
          /\ proxy' = remote[c]
          /\ load' = [load EXCEPT ![c] = "stored"]
       \/ /\ load[c] = "fail"
          /\ proxy' = 0
          /\ load' = [load EXCEPT ![c] = "cleared"]
    /\ UNCHANGED <<samVars, finished, callVars, remote, watches, deathVars>>

FinishLoad(c) ==
    /\ load[c] \in {"stored", "cleared"}
    /\ LoadMutexFree
    /\ finished' = TRUE
    /\ load' = [load EXCEPT ![c] =
                   IF load[c] = "stored" THEN "done" ELSE "failed"]
    /\ UNCHANGED <<samVars, proxy, callVars, remote, watches, deathVars>>

----------------------------------------------------------------------------
(* OnRemoteDied of the death recipient, for start i.                       *)

(* The recipient of an object that is not the cached one does nothing.     *)
OnRemoteDied(i) ==
    /\ hpc[i] = "idle"
    /\ obituaries[i] > 0
    /\ obituaries' = [obituaries EXCEPT ![i] = @ - 1]
    /\ hpc' = [hpc EXCEPT ![i] = IF proxy = i THEN "clear" ELSE "idle"]
    /\ UNCHANGED <<running, starts, proxy, finished, callVars, loadVars,
                   told>>

ClearProxy(i) ==
    /\ hpc[i] = "clear"
    /\ proxy' = 0
    /\ hpc' = [hpc EXCEPT ![i] = "tell"]
    /\ UNCHANGED <<samVars, finished, callVars, loadVars, told>>

CallDeathCallback(i) ==
    /\ hpc[i] = "tell"
    /\ told' = told \cup {i}
    /\ hpc' = [hpc EXCEPT ![i] = "idle"]
    /\ UNCHANGED <<samVars, proxy, finished, callVars, loadVars>>

----------------------------------------------------------------------------
(* The system ability manager, which also starts the system ability when   *)
(* other processes ask it to.                                              *)

SaStarts ==
    /\ running = 0
    /\ starts < MaxStarts
    /\ starts' = starts + 1
    /\ running' = starts + 1
    /\ UNCHANGED <<obituaries, proxy, finished, callVars, loadVars,
                   deathVars>>

(* It exits when idle, or crashes.                                         *)
SaDies ==
    /\ running \in MayDie
    /\ obituaries' = [obituaries EXCEPT ![running] = watches[running]]
    /\ running' = 0
    /\ UNCHANGED <<starts, proxy, finished, callVars, loadVars, deathVars>>

(* WebNativeMessagingLoadCallback passes a success on unless the object is *)
(* null, and then tells nobody.                                            *)
AnswerLoad(c) ==
    /\ load[c] = "asked"
    /\ \/ /\ running # 0
          /\ remote' = [remote EXCEPT ![c] = running]
          /\ load' = [load EXCEPT ![c] = "success"]
       \/ /\ "null_remote" \in Faults
          /\ load' = [load EXCEPT ![c] = "done"]
          /\ UNCHANGED remote
       \/ /\ "start_err" \in Faults
          /\ running = 0
          /\ load' = [load EXCEPT ![c] = "fail"]
          /\ UNCHANGED remote
    /\ UNCHANGED <<samVars, proxy, finished, callVars, watches, deathVars>>

----------------------------------------------------------------------------
ClientStep(c) ==
    \/ GetCached(c) \/ CheckSystemAbility(c) \/ BeginLoad(c)
    \/ LoadSystemAbility(c) \/ WaitFinished(c) \/ LoadTimesOut(c)
    \/ StoreFound(c) \/ GetLoaded(c)

CallbackStep(c) == AddDeathRecipient(c) \/ StoreLoaded(c) \/ FinishLoad(c)

DeathStep(i) == OnRemoteDied(i) \/ ClearProxy(i) \/ CallDeathCallback(i)

ManagerStep == SaStarts \/ SaDies \/ \E c \in Call : AnswerLoad(c)

Next ==
    \/ \E c \in Call : ClientStep(c) \/ CallbackStep(c)
    \/ \E i \in Start : DeathStep(i)
    \/ ManagerStep

Spec == Init /\ [][Next]_vars

(* A call that has begun goes on, its wait ends when it is over or when it *)
(* has lasted long enough, and the callbacks that have begun go on.        *)
FairSpec ==
    /\ Spec
    /\ \A c \in Call :
          /\ WF_vars(pc[c] # "idle" /\ ClientStep(c))
          /\ WF_vars(CallbackStep(c))
    /\ \A i \in Start : WF_vars(DeathStep(i))

----------------------------------------------------------------------------
Types ==
    /\ running \in Start \cup {0}
    /\ starts \in 0..MaxStarts
    /\ proxy \in Start \cup {0}
    /\ finished \in BOOLEAN
    /\ pc \in [Call -> CallPc]
    /\ result \in [Call -> Start \cup {0}]
    /\ load \in [Call -> LoadPc]
    /\ remote \in [Call -> Start \cup {0}]
    /\ watches \in [Start -> Nat]
    /\ obituaries \in [Start -> Nat]
    /\ hpc \in [Start -> {"idle", "clear", "tell"}]
    /\ told \subseteq Start

(* Types.  And whatever start OnRemoteDied is still to run for, or drops   *)
(* the proxy and calls the user's callback for, has ended: neither a load  *)
(* that fails nor an answer that comes late passes for the death of a      *)
(* system ability that runs.                                               *)
TypeOK ==
    /\ Types
    /\ \A i \in Start : obituaries[i] > 0 \/ hpc[i] # "idle" => i # running

(* A load callback caches a proxy only once a death recipient is attached  *)
(* to it: OnLoadSystemAbilitySuccess attaches it first and gives the proxy *)
(* up if that fails.  What a call finds after a timeout has none.          *)
CachedIsWatched ==
    [][proxy' \notin {0, proxy} /\ (\A c \in Call : pc'[c] = pc[c])
       => watches[proxy'] > 0]_vars

(* The first start of the system ability has not ended, if it has begun,   *)
(* and no load has been told of a failure.                                 *)
Undisturbed ==
    /\ starts <= 1
    /\ running = starts
    /\ \A c \in Call : load[c] \notin {"fail", "cleared", "failed"}

(* A call that has waited for its load returns null only if the system     *)
(* ability does not run, has died before or failed to load, though all     *)
(* calls share loadSaFinished_, an answer may set it for another call, be  *)
(* cut short, or come too late.                                            *)
NullOnlyWithoutService ==
    [][\A c \in Call :
          pc[c] \in {"wait", "get"} /\ pc'[c] = "done" /\ result'[c] = 0
          => running = 0 \/ ~Undisturbed]_vars

(* Every call returns, even when no callback sets loadSaFinished_: a null  *)
(* object, a refused recipient, or another call's BeginLoad that takes it  *)
(* back.                                                                   *)
CallsReturn == \A c \in Call : pc[c] # "idle" ~> pc[c] = "done"

(* Seen from a caller, every way to a proxy is one step and what loads and *)
(* OnRemoteDied do to the cached one is nothing: it gets null or a start   *)
(* of the service there has been, and only starts that have ended are told *)
(* to be dead.                                                             *)
Source == INSTANCE ProxySource WITH
    returned <- {c \in Call : pc[c] = "done"},
    result <- [c \in Call |-> IF pc[c] = "done" THEN result[c] ELSE 0]
ImplementsProxySource == Source!Spec
=============================================================================
