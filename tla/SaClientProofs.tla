--------------------------- MODULE SaClientProofs --------------------------
(***************************************************************************)
(* Proofs about SaClient, for every set of calls and every number of       *)
(* starts: deaths are told of what has died, what a cached proxy may be    *)
(* relied on for, a wait for the load does not end with null while the     *)
(* system ability runs, and callers see what ProxySource promises.         *)
(***************************************************************************)
EXTENDS SaClient, TLAPS

----------------------------------------------------------------------------
(* Types.                                                                  *)

(* Every variable keeps its type.                                          *)
LEMMA TypesHold == Spec => []Types
<1> USE SCAssumption DEF ClientAssumption
<1>1. Init => Types
    <2> SUFFICES ASSUME Init PROVE Types
        OBVIOUS
    <2>1. running \in Start \cup {0} /\ proxy \in Start \cup {0}
        BY DEF Init
    <2>2. starts \in 0..MaxStarts
        <3>1. starts = 0
            BY DEF Init
        <3> QED BY <3>1
    <2>3. finished \in BOOLEAN
        BY DEF Init
    <2>4. /\ pc \in [Call -> CallPc] /\ result \in [Call -> Start \cup {0}]
          /\ load \in [Call -> LoadPc] /\ remote \in [Call -> Start \cup {0}]
        BY DEF Init, CallPc, LoadPc
    <2>5. /\ watches \in [Start -> Nat] /\ obituaries \in [Start -> Nat]
          /\ hpc \in [Start -> {"idle", "clear", "tell"}]
          /\ told \subseteq Start
        BY DEF Init
    <2> QED BY <2>1, <2>2, <2>3, <2>4, <2>5 DEF Types
<1>2. Types /\ [Next]_vars => Types'
    <2> SUFFICES ASSUME Types, [Next]_vars
                 PROVE  Types'
        OBVIOUS
    <2>1. CASE UNCHANGED vars
        BY <2>1 DEF Types, vars, samVars, callVars, loadVars, deathVars
    <2>2. ASSUME NEW c \in Call,
                 \/ GetCached(c) \/ CheckSystemAbility(c) \/ BeginLoad(c)
                 \/ WaitFinished(c)
          PROVE  Types'
        BY <2>2 DEF Types, GetCached, CheckSystemAbility, BeginLoad,
                    WaitFinished, Return, Goto, CallPc, samVars, loadVars,
                    deathVars
    <2>3. ASSUME NEW c \in Call, LoadSystemAbility(c) PROVE Types'
        BY <2>3 DEF Types, LoadSystemAbility, Return, Goto, CallPc, LoadPc,
                    samVars, deathVars
    <2>4. ASSUME NEW c \in Call,
                 LoadTimesOut(c) \/ StoreFound(c) \/ GetLoaded(c)
          PROVE  Types'
        BY <2>4 DEF Types, LoadTimesOut, StoreFound, GetLoaded, Return,
                    Goto, CallPc, samVars, loadVars, deathVars
    <2>5. ASSUME NEW c \in Call, AddDeathRecipient(c) PROVE Types'
        BY <2>5 DEF Types, AddDeathRecipient, Watch, LoadPc, callVars,
                    deathVars
    <2>6. ASSUME NEW c \in Call, StoreLoaded(c) \/ FinishLoad(c)
          PROVE  Types'
        BY <2>6 DEF Types, StoreLoaded, FinishLoad, LoadPc, samVars,
                    callVars, deathVars
    <2>7. ASSUME NEW i \in Start, OnRemoteDied(i) PROVE Types'
        BY <2>7 DEF Types, OnRemoteDied, callVars, loadVars
    <2>8. ASSUME NEW i \in Start, ClearProxy(i) \/ CallDeathCallback(i)
          PROVE  Types'
        BY <2>8 DEF Types, ClearProxy, CallDeathCallback, samVars,
                    callVars, loadVars
    <2>9. CASE SaStarts
        BY <2>9 DEF Types, SaStarts, Start, callVars, loadVars, deathVars
    <2>10. CASE SaDies
        BY <2>10 DEF Types, SaDies, callVars, loadVars, deathVars
    <2>11. ASSUME NEW c \in Call, AnswerLoad(c) PROVE Types'
        BY <2>11 DEF Types, AnswerLoad, LoadPc, samVars, callVars,
                     deathVars
    <2> QED
        BY <2>1, <2>2, <2>3, <2>4, <2>5, <2>6, <2>7, <2>8, <2>9, <2>10,
           <2>11
           DEF Next, ClientStep, CallbackStep, DeathStep, ManagerStep
<1> QED BY <1>1, <1>2, PTL DEF Spec

----------------------------------------------------------------------------
(* A load callback caches only what it has attached a recipient to.        *)

(* Between AddDeathRecipient and StoreLoaded the recipient is attached:    *)
(* the invariant behind CachedIsWatched.                                   *)
WatchedFirst ==
    \A c \in Call :
        /\ load[c] \in {"success", "watched"} => remote[c] # 0
        /\ load[c] = "watched" => watches[remote[c]] > 0

LEMMA WatchedFirstStep == Types /\ WatchedFirst /\ [Next]_vars => WatchedFirst'
<1> SUFFICES ASSUME Types, WatchedFirst, [Next]_vars
             PROVE  WatchedFirst'
    OBVIOUS
<1> USE DEF WatchedFirst
<1>1. CASE UNCHANGED vars
    BY <1>1 DEF vars, samVars, callVars, loadVars, deathVars
<1>2. ASSUME NEW c \in Call,
             \/ GetCached(c) \/ CheckSystemAbility(c) \/ BeginLoad(c)
             \/ WaitFinished(c) \/ LoadTimesOut(c) \/ StoreFound(c)
             \/ GetLoaded(c)
      PROVE  WatchedFirst'
    BY <1>2 DEF GetCached, CheckSystemAbility, BeginLoad, WaitFinished,
                LoadTimesOut, StoreFound, GetLoaded, loadVars
<1>3. ASSUME NEW c \in Call, LoadSystemAbility(c) PROVE WatchedFirst'
    BY <1>3 DEF Types, LoadSystemAbility
<1>4. ASSUME NEW c \in Call, AddDeathRecipient(c) PROVE WatchedFirst'
    BY <1>4 DEF Types, AddDeathRecipient, Watch
<1>5. ASSUME NEW c \in Call, StoreLoaded(c) \/ FinishLoad(c)
      PROVE  WatchedFirst'
    BY <1>5 DEF Types, StoreLoaded, FinishLoad
<1>6. ASSUME NEW i \in Start, DeathStep(i) PROVE WatchedFirst'
    BY <1>6 DEF DeathStep, OnRemoteDied, ClearProxy, CallDeathCallback,
                loadVars
<1>7. CASE SaStarts \/ SaDies
    BY <1>7 DEF SaStarts, SaDies, loadVars
<1>8. ASSUME NEW c \in Call, AnswerLoad(c) PROVE WatchedFirst'
    BY <1>8 DEF Types, AnswerLoad
<1> QED
    BY <1>1, <1>2, <1>3, <1>4, <1>5, <1>6, <1>7, <1>8
       DEF Next, ClientStep, CallbackStep, ManagerStep

(* A load callback caches only a proxy that has had a death recipient.     *)
THEOREM CachedProxyIsWatched == Spec => CachedIsWatched
<1> DEFINE Watched ==
        proxy' \notin {0, proxy} /\ (\A c \in Call : pc'[c] = pc[c])
        => watches[proxy'] > 0
<1>1. Init => WatchedFirst
    BY DEF Init, WatchedFirst
<1>2. Types /\ WatchedFirst /\ [Next]_vars => [Watched]_vars
    <2> SUFFICES ASSUME Types, WatchedFirst, Next,
                        proxy' \notin {0, proxy}, \A c \in Call : pc'[c] = pc[c]
                 PROVE  watches[proxy'] > 0
        OBVIOUS
    <2>1. ASSUME NEW c \in Call, StoreLoaded(c) PROVE watches[proxy'] > 0
        BY <2>1 DEF StoreLoaded, WatchedFirst
    <2>2. ASSUME NEW c \in Call PROVE ~StoreFound(c)
        BY DEF StoreFound, Goto, Types
    <2>3. ASSUME NEW c \in Call,
                 \/ GetCached(c) \/ CheckSystemAbility(c) \/ BeginLoad(c)
                 \/ LoadSystemAbility(c) \/ WaitFinished(c)
                 \/ LoadTimesOut(c) \/ GetLoaded(c)
          PROVE  UNCHANGED proxy
        BY <2>3 DEF GetCached, CheckSystemAbility, BeginLoad,
                    LoadSystemAbility, WaitFinished, LoadTimesOut, GetLoaded
    <2>4. ASSUME NEW c \in Call,
                 AddDeathRecipient(c) \/ FinishLoad(c) \/ AnswerLoad(c)
          PROVE  UNCHANGED proxy
        BY <2>4 DEF AddDeathRecipient, FinishLoad, AnswerLoad
    <2>5. ASSUME NEW i \in Start, DeathStep(i)
          PROVE  proxy' = 0 \/ UNCHANGED proxy
        BY <2>5 DEF DeathStep, OnRemoteDied, ClearProxy, CallDeathCallback
    <2>6. CASE SaStarts \/ SaDies
        BY <2>6 DEF SaStarts, SaDies
    <2> QED
        BY <2>1, <2>2, <2>3, <2>4, <2>5, <2>6
           DEF Next, ClientStep, CallbackStep, ManagerStep
<1> QED
    BY <1>1, <1>2, WatchedFirstStep, TypesHold, PTL DEF Spec, CachedIsWatched

----------------------------------------------------------------------------
(* A wait does not end with null while the system ability runs.            *)

(* What has been loaded is cached before anyone is told that the load is   *)
(* over, and nothing drops it.                                             *)
Cached ==
    /\ \A i \in Start : obituaries[i] = 0 /\ hpc[i] = "idle"
    /\ \A c \in Call : load[c] \in {"success", "watched"} =>
          remote[c] # 0 /\ remote[c] = running
    /\ \A c \in Call : load[c] = "stored" => proxy # 0
    /\ \A c \in Call : pc[c] = "store" => result[c] # 0
    /\ \A c \in Call : pc[c] = "get" => proxy # 0
    /\ finished => proxy # 0

NotAsked == {"idle", "check", "begin", "load"}

(* As long as the first start lives and no load has failed: the invariant  *)
(* behind NullOnlyWithoutService.                                          *)
LoadedIsCached ==
    /\ running <= starts
    /\ \A c \in Call : pc[c] \in NotAsked => load[c] = "none"
    /\ Undisturbed => Cached

LEMMA LoadedIsCachedStep ==
    Types /\ LoadedIsCached /\ [Next]_vars => LoadedIsCached'
<1> SUFFICES ASSUME Types, LoadedIsCached, [Next]_vars
             PROVE  LoadedIsCached'
    OBVIOUS
<1> USE SCAssumption DEF ClientAssumption
<1>0. \A c \in Call : pc'[c] \in NotAsked => load'[c] = "none"
    <2> USE DEF LoadedIsCached, NotAsked, Types
    <2>1. CASE UNCHANGED vars
        BY <2>1 DEF vars, callVars, loadVars
    <2>2. ASSUME NEW c \in Call, ClientStep(c), ~LoadSystemAbility(c)
          PROVE  \A d \in Call : pc'[d] \in NotAsked => load'[d] = "none"
        <3>1. UNCHANGED load
            BY <2>2 DEF ClientStep, GetCached, CheckSystemAbility, BeginLoad,
                        WaitFinished, LoadTimesOut, StoreFound, GetLoaded,
                        loadVars
        <3>2. \A d \in Call : pc'[d] \in NotAsked => pc[d] \in NotAsked
            BY <2>2 DEF ClientStep, GetCached, CheckSystemAbility, BeginLoad,
                        WaitFinished, LoadTimesOut, StoreFound, GetLoaded,
                        Return, Goto
        <3> QED BY <3>1, <3>2
    <2>3. ASSUME NEW c \in Call, LoadSystemAbility(c)
          PROVE  \A d \in Call : pc'[d] \in NotAsked => load'[d] = "none"
        BY <2>3 DEF LoadSystemAbility, Return, Goto
    <2>4. ASSUME NEW c \in Call, CallbackStep(c) \/ AnswerLoad(c)
          PROVE  \A d \in Call : pc'[d] \in NotAsked => load'[d] = "none"
        BY <2>4 DEF CallbackStep, AddDeathRecipient, StoreLoaded, FinishLoad,
                    AnswerLoad, callVars
    <2>5. ASSUME NEW i \in Start, DeathStep(i)
          PROVE  UNCHANGED <<pc, load>>
        BY <2>5 DEF DeathStep, OnRemoteDied, ClearProxy, CallDeathCallback,
                    callVars, loadVars
    <2>6. CASE SaStarts \/ SaDies
        BY <2>6 DEF SaStarts, SaDies, callVars, loadVars
    <2> QED
        BY <2>1, <2>2, <2>3, <2>4, <2>5, <2>6 DEF Next, ManagerStep
(* No step brings back what was disturbed.                                 *)
<1>1. running' <= starts' /\ (Undisturbed' => Undisturbed)
    <2> USE DEF LoadedIsCached, Undisturbed, Types, Start
    <2>1. CASE UNCHANGED vars
        BY <2>1 DEF vars, samVars, loadVars
    <2>2. ASSUME NEW c \in Call, ClientStep(c)
          PROVE  running' <= starts' /\ (Undisturbed' => Undisturbed)
        <3>1. UNCHANGED samVars
            BY <2>2 DEF ClientStep, GetCached, CheckSystemAbility, BeginLoad,
                        LoadSystemAbility, WaitFinished, LoadTimesOut,
                        StoreFound, GetLoaded
        <3>2. UNCHANGED load \/ load' = [load EXCEPT ![c] = "asked"]
            BY <2>2 DEF ClientStep, GetCached, CheckSystemAbility, BeginLoad,
                        LoadSystemAbility, WaitFinished, LoadTimesOut,
                        StoreFound, GetLoaded, loadVars
        <3>3. pc[c] = "load" \/ UNCHANGED load
            BY <2>2 DEF ClientStep, GetCached, CheckSystemAbility, BeginLoad,
                        LoadSystemAbility, WaitFinished, LoadTimesOut,
                        StoreFound, GetLoaded, loadVars
        <3>4. \A d \in Call : load'[d] = load[d] \/ load[d] = "none"
            BY <3>2, <3>3 DEF NotAsked
        <3> QED BY <3>1, <3>4 DEF samVars
    <2>3. ASSUME NEW c \in Call, CallbackStep(c) \/ AnswerLoad(c)
          PROVE  running' <= starts' /\ (Undisturbed' => Undisturbed)
        BY <2>3 DEF CallbackStep, AddDeathRecipient, StoreLoaded, FinishLoad,
                    AnswerLoad, samVars
    <2>4. ASSUME NEW i \in Start, DeathStep(i)
          PROVE  running' <= starts' /\ (Undisturbed' => Undisturbed)
        BY <2>4 DEF DeathStep, OnRemoteDied, ClearProxy, CallDeathCallback,
                    samVars, loadVars
    <2>5. CASE SaStarts \/ SaDies
        BY <2>5 DEF SaStarts, SaDies, loadVars
    <2> QED
        BY <2>1, <2>2, <2>3, <2>4, <2>5 DEF Next, ManagerStep
<1> SUFFICES ASSUME Undisturbed', Undisturbed, Cached, running <= starts
             PROVE  Cached'
    BY <1>0, <1>1 DEF LoadedIsCached
<1> USE DEF Cached
<1>3. CASE UNCHANGED vars
    BY <1>3 DEF vars, samVars, callVars, loadVars, deathVars
<1>4. ASSUME NEW c \in Call,
             \/ GetCached(c) \/ CheckSystemAbility(c) \/ BeginLoad(c)
      PROVE  Cached'
    BY <1>4 DEF Types, GetCached, CheckSystemAbility, BeginLoad, Return,
                Goto, samVars, loadVars, deathVars
<1>5. ASSUME NEW c \in Call, LoadSystemAbility(c) PROVE Cached'
    BY <1>5 DEF Types, LoadSystemAbility, Return, Goto, samVars, deathVars
<1>6. ASSUME NEW c \in Call, WaitFinished(c) \/ GetLoaded(c) PROVE Cached'
    BY <1>6 DEF Types, WaitFinished, GetLoaded, Return, Goto, samVars,
                loadVars, deathVars
<1>7. ASSUME NEW c \in Call, LoadTimesOut(c) \/ StoreFound(c) PROVE Cached'
    BY <1>7 DEF Types, LoadTimesOut, StoreFound, Return, Goto, samVars,
                loadVars, deathVars
<1>8. ASSUME NEW c \in Call, AddDeathRecipient(c) PROVE Cached'
    BY <1>8 DEF Types, AddDeathRecipient, Watch, callVars, deathVars
<1>9. ASSUME NEW c \in Call, StoreLoaded(c) \/ FinishLoad(c) PROVE Cached'
    BY <1>9 DEF Types, Undisturbed, StoreLoaded, FinishLoad, samVars,
                callVars, deathVars
<1>10. ASSUME NEW i \in Start, DeathStep(i) PROVE Cached'
    BY <1>10 DEF Types, DeathStep, OnRemoteDied, ClearProxy,
                 CallDeathCallback
<1>11. CASE SaStarts
    BY <1>11 DEF Types, SaStarts, callVars, loadVars, deathVars
<1>12. CASE SaDies
    <2>1. running # 0
        BY <1>12 DEF SaDies
    <2>2. starts = 0 /\ running = 0
        BY <1>12 DEF Types, Undisturbed, SaDies, Start
    <2> QED BY <2>1, <2>2
<1>13. ASSUME NEW c \in Call, AnswerLoad(c) PROVE Cached'
    BY <1>13 DEF Types, AnswerLoad, samVars, callVars, deathVars
<1> QED
    BY <1>3, <1>4, <1>5, <1>6, <1>7, <1>8, <1>9, <1>10, <1>11, <1>12, <1>13
       DEF Next, ClientStep, CallbackStep, ManagerStep

(* As long as the first start lives and no load has failed, no call that   *)
(* has waited for the system ability gets null while it runs.              *)
THEOREM WaitsEndWithService == Spec => NullOnlyWithoutService
<1> USE SCAssumption DEF ClientAssumption
<1>1. Init => LoadedIsCached
    BY DEF Init, LoadedIsCached, Cached, NotAsked
<1> DEFINE EndsWithService ==
        \A c \in Call :
            pc[c] \in {"wait", "get"} /\ pc'[c] = "done" /\ result'[c] = 0
            => running = 0 \/ ~Undisturbed
<1>2. Types /\ LoadedIsCached /\ [Next]_vars => [EndsWithService]_vars
    <2> SUFFICES ASSUME Types, LoadedIsCached, Next, NEW c \in Call,
                        pc[c] \in {"wait", "get"}, pc'[c] = "done",
                        result'[c] = 0, Undisturbed
                 PROVE  running = 0
        OBVIOUS
    <2>1. ASSUME NEW d \in Call, LoadTimesOut(d) PROVE running = 0
        BY <2>1 DEF Types, LoadTimesOut, Return
    <2>2. ASSUME NEW d \in Call, GetLoaded(d) PROVE running = 0
        BY <2>2 DEF Types, LoadedIsCached, Cached, GetLoaded, Return
    <2>3. ASSUME NEW d \in Call, GetCached(d) \/ CheckSystemAbility(d)
          PROVE  running = 0
        BY <2>3 DEF Types, GetCached, CheckSystemAbility, Return, Goto
    <2>4. ASSUME NEW d \in Call,
                 \/ BeginLoad(d) \/ LoadSystemAbility(d) \/ WaitFinished(d)
                 \/ StoreFound(d)
          PROVE  running = 0
        BY <2>4 DEF Types, BeginLoad, LoadSystemAbility, WaitFinished,
                    StoreFound, Return, Goto
    <2>5. ASSUME UNCHANGED callVars PROVE running = 0
        BY <2>5 DEF callVars
    <2>6. ASSUME NEW d \in Call, CallbackStep(d) \/ AnswerLoad(d)
          PROVE  running = 0
        BY <2>5, <2>6 DEF CallbackStep, AddDeathRecipient, StoreLoaded,
                          FinishLoad, AnswerLoad
    <2>7. ASSUME NEW i \in Start, DeathStep(i) PROVE running = 0
        BY <2>5, <2>7 DEF DeathStep, OnRemoteDied, ClearProxy,
                          CallDeathCallback
    <2>8. CASE SaStarts \/ SaDies
        BY <2>5, <2>8 DEF SaStarts, SaDies
    <2> QED
        BY <2>1, <2>2, <2>3, <2>4, <2>6, <2>7, <2>8
           DEF Next, ClientStep, ManagerStep
<1> QED
    BY <1>1, <1>2, LoadedIsCachedStep, TypesHold, PTL
       DEF Spec, NullOnlyWithoutService

----------------------------------------------------------------------------
(* SaClient implements ProxySource.                                        *)

(* Every proxy stands for a start there has been, and OnRemoteDied runs    *)
(* for starts that have ended: the invariant behind the refinement.        *)
OnlyRealStarts ==
    /\ running \in 0..starts /\ proxy \in 0..starts
    /\ \A c \in Call : result[c] \in 0..starts /\ remote[c] \in 0..starts
    /\ \A c \in Call : load[c] \in {"success", "watched"} => remote[c] # 0
    /\ \A i \in Start : watches[i] > 0 => i <= starts
    /\ \A i \in Start : obituaries[i] > 0 \/ hpc[i] # "idle" =>
                           i <= starts /\ i # running

LEMMA RealStartsInit == Init => OnlyRealStarts
BY SCAssumption DEF ClientAssumption, Init, OnlyRealStarts

LEMMA RealStartsStep ==
    Types /\ OnlyRealStarts /\ [Next]_vars => OnlyRealStarts'
<1> SUFFICES ASSUME Types, OnlyRealStarts, [Next]_vars
             PROVE  OnlyRealStarts'
    OBVIOUS
<1> USE SCAssumption DEF ClientAssumption, OnlyRealStarts, Types
<1>1. CASE UNCHANGED vars
    BY <1>1 DEF vars, samVars, callVars, loadVars, deathVars
<1>2. ASSUME NEW c \in Call, ClientStep(c) PROVE OnlyRealStarts'
    <2>1. UNCHANGED <<samVars, remote, watches, deathVars>>
        BY <1>2 DEF ClientStep, GetCached, CheckSystemAbility, BeginLoad,
                    LoadSystemAbility, WaitFinished, LoadTimesOut, StoreFound,
                    GetLoaded, loadVars
    <2>2. proxy' \in 0..starts
        BY <1>2 DEF ClientStep, GetCached, CheckSystemAbility, BeginLoad,
                    LoadSystemAbility, WaitFinished, LoadTimesOut, StoreFound,
                    GetLoaded
    <2>3. \A d \in Call : result'[d] \in 0..starts
        BY <1>2 DEF ClientStep, GetCached, CheckSystemAbility, BeginLoad,
                    LoadSystemAbility, WaitFinished, LoadTimesOut, StoreFound,
                    GetLoaded, Return, Goto
    <2>4. \A d \in Call : load'[d] \in {"success", "watched"} =>
                               load[d] \in {"success", "watched"}
        BY <1>2 DEF ClientStep, GetCached, CheckSystemAbility, BeginLoad,
                    LoadSystemAbility, WaitFinished, LoadTimesOut, StoreFound,
                    GetLoaded, loadVars
    <2> QED BY <2>1, <2>2, <2>3, <2>4 DEF samVars, deathVars
<1>3. ASSUME NEW c \in Call, AddDeathRecipient(c) PROVE OnlyRealStarts'
    BY <1>3 DEF AddDeathRecipient, Watch, callVars, deathVars
<1>4. ASSUME NEW c \in Call, StoreLoaded(c) \/ FinishLoad(c) PROVE OnlyRealStarts'
    BY <1>4 DEF StoreLoaded, FinishLoad, samVars, callVars, deathVars
<1>5. ASSUME NEW i \in Start, DeathStep(i) PROVE OnlyRealStarts'
    BY <1>5 DEF DeathStep, OnRemoteDied, ClearProxy, CallDeathCallback,
                samVars, callVars, loadVars
<1>6. CASE SaStarts
    BY <1>6 DEF SaStarts, callVars, loadVars, deathVars, Start
<1>7. CASE SaDies
    BY <1>7 DEF SaDies, callVars, loadVars, deathVars, Start
<1>8. ASSUME NEW c \in Call, AnswerLoad(c) PROVE OnlyRealStarts'
    BY <1>8 DEF AnswerLoad, samVars, callVars, deathVars
<1> QED
    BY <1>1, <1>2, <1>3, <1>4, <1>5, <1>6, <1>7, <1>8
       DEF Next, CallbackStep, ManagerStep

(* OnRemoteDied never drops the proxy and calls the user's callback for a  *)
(* start of the system ability that still runs.                            *)
THEOREM TypeCorrect == Spec => []TypeOK
<1>1. Types /\ OnlyRealStarts => TypeOK
    BY DEF OnlyRealStarts, TypeOK
<1> QED
    BY <1>1, RealStartsInit, RealStartsStep, TypesHold, PTL DEF Spec

(* What a call returns is the start it has found or null, and only starts  *)
(* that have ended are told to be dead: whatever the calls, the loads and  *)
(* OnRemoteDied do to the cached proxy between them, with every fault.     *)
THEOREM Implements == Spec => ImplementsProxySource
<1> USE DEF Source!vars, Source!serviceVars, Source!callVars
<1>1. Init => Source!Init
    BY DEF Init, Source!Init
<1>2. Types /\ OnlyRealStarts /\ [Next]_vars => [Source!Next]_(Source!vars)
    <2> SUFFICES ASSUME Types, OnlyRealStarts, [Next]_vars
                 PROVE  Source!Next \/ UNCHANGED Source!vars
        OBVIOUS
    <2> DEFINE Returned == {c \in Call : pc[c] = "done"}
               Result == [c \in Call |-> IF pc[c] = "done" THEN result[c] ELSE 0]
    <2>1. CASE UNCHANGED vars
        BY <2>1 DEF vars, samVars, callVars, deathVars
    <2>2. ASSUME NEW c \in Call, NEW i \in 0..starts, pc[c] # "done", Return(c, i),
                 UNCHANGED <<samVars, deathVars>>
          PROVE  Source!Next
        <3>1. c \notin Returned /\ Returned' = Returned \cup {c}
            BY <2>2 DEF Return, Types
        <3>2. Result' = [Result EXCEPT ![c] = i]
            BY <2>2 DEF Return, Types
        <3>3. Source!GetProxy(c)
            BY <2>2, <3>1, <3>2 DEF Source!GetProxy, samVars, deathVars
        <3> QED BY <3>3 DEF Source!Next
    <2>3. ASSUME NEW c \in Call, ClientStep(c)
          PROVE  Source!Next \/ UNCHANGED Source!vars
        <3>1. pc[c] # "done" /\ UNCHANGED <<samVars, deathVars>>
            BY <2>3 DEF ClientStep, GetCached, CheckSystemAbility, BeginLoad,
                        LoadSystemAbility, WaitFinished, LoadTimesOut,
                        StoreFound, GetLoaded
        <3>2. \/ \E i \in 0..starts : Return(c, i)
              \/ /\ \E step \in CallPc \ {"done"} : pc' = [pc EXCEPT ![c] = step]
                 /\ \A d \in Call : d # c => result'[d] = result[d]
            BY <2>3 DEF ClientStep, GetCached, CheckSystemAbility, BeginLoad,
                        LoadSystemAbility, WaitFinished, LoadTimesOut,
                        StoreFound, GetLoaded, Return, Goto, CallPc,
                        Types, OnlyRealStarts
        <3>3. CASE \E i \in 0..starts : Return(c, i)
            BY <2>2, <3>1, <3>3
        <3>4. CASE /\ \E step \in CallPc \ {"done"} : pc' = [pc EXCEPT ![c] = step]
                   /\ \A d \in Call : d # c => result'[d] = result[d]
            <4>1. Returned' = Returned /\ Result' = Result
                BY <3>1, <3>4 DEF Types
            <4> QED BY <3>1, <4>1 DEF samVars, deathVars
        <3> QED BY <3>2, <3>3, <3>4
    <2>4. ASSUME NEW c \in Call, CallbackStep(c) \/ AnswerLoad(c)
          PROVE  UNCHANGED Source!vars
        BY <2>4 DEF CallbackStep, AddDeathRecipient, StoreLoaded, FinishLoad,
                    AnswerLoad, samVars, callVars, deathVars
    <2>5. ASSUME NEW i \in Start, OnRemoteDied(i) \/ ClearProxy(i)
          PROVE  UNCHANGED Source!vars
        BY <2>5 DEF OnRemoteDied, ClearProxy, samVars, callVars
    <2>6. ASSUME NEW i \in Start, CallDeathCallback(i) PROVE Source!Next
        <3>1. i \in 1..starts /\ i # running
            BY <2>6, SCAssumption
               DEF CallDeathCallback, OnlyRealStarts, Start, Types, ClientAssumption
        <3>2. Source!CallDeathCallback(i)
            BY <2>6, <3>1
               DEF Source!CallDeathCallback, CallDeathCallback, samVars, callVars
        <3> QED BY <3>2 DEF Source!Next, Source!Start, Start
    <2>7. CASE SaStarts
        <3>1. Source!SaStarts
            BY <2>7 DEF SaStarts, Source!SaStarts, callVars, deathVars
        <3> QED BY <3>1 DEF Source!Next
    <2>8. CASE SaDies
        <3>1. Source!SaDies
            BY <2>8 DEF SaDies, Source!SaDies, callVars, deathVars
        <3> QED BY <3>1 DEF Source!Next
    <2> QED
        BY <2>1, <2>3, <2>4, <2>5, <2>6, <2>7, <2>8
           DEF Next, DeathStep, ManagerStep
<1> QED
    BY <1>1, <1>2, RealStartsInit, RealStartsStep, TypesHold, PTL
       DEF Spec, Source!Spec, ImplementsProxySource
=============================================================================
