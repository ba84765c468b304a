-------------------------- MODULE RequestRegistry --------------------------
(***************************************************************************)
(* How a ConnectionNativeRequest gets its ids and is found by them.        *)
(* connectIdMap_ maps the service's id of a request, innerConnectionId_,   *)
(* to the request; InnerIdMap_ maps a caller's (token, pid, connection id) *)
(* to the service's id.  A connect call checks, draws an id, creates the   *)
(* request and inserts it; the destructor erases what the request's ids    *)
(* name.  Each map has a mutex of its own and the id counter has none.     *)
(*                                                                         *)
(* A step is a section under one mutex, or one access to the counter: a    *)
(* build that keeps what it has read or written in a register does what    *)
(* accesses with nothing between them do.                                  *)
(* InsertRequestMap holds connectIdMutex_ over both of its writes: what    *)
(* others do to InnerIdMap_ between them might as well happen before, so   *)
(* it is one step.                                                         *)
(***************************************************************************)
EXTENDS Integers, FiniteSets

(* An operator named F_X is F with the mistake X: it is used nowhere and   *)
(* shows that some property depends on F being as it is.                   *)

CONSTANTS
    Call,            \* connect calls, each making at most one request
    Thread,          \* IPC threads of the service
    ThreadOf,        \* the thread that serves a call
    Key,             \* (callerTokenId, callerPid, callerConnectId)
    KeyOf,           \* what a call is made with
    Disconnected,    \* calls whose key a disconnect call is made with
    BadWant,         \* calls whose want FillRequestWithWant may refuse
    MaxId,           \* INT32_MAX
    RandomIds,       \* what GetRandomUint32FromUrandom may return
    MaxRequestSize,  \* MAX_REQUEST_SIZE
    NoCall,          \* no request
    NoId,            \* no entry in InnerIdMap_, no id yet
    NoKey            \* a key that no caller has

(* int32_t.                                                                *)
MinId == -MaxId - 1
Id == MinId..MaxId

RegistryAssumption ==
    /\ ThreadOf \in [Call -> Thread]
    /\ KeyOf \in [Call -> Key]
    /\ Disconnected \subseteq Call
    /\ BadWant \subseteq Call
    /\ MaxId \in Nat
    /\ RandomIds \subseteq 0..MaxId
    /\ MaxRequestSize \in Nat
    /\ NoCall \notin Call
    /\ NoId \notin Id
    /\ NoKey \notin Key
    /\ IsFiniteSet(Thread)
ASSUME RRAssumption == RegistryAssumption

VARIABLES
    idStart,    \* g_ConnectionIdStart
    byInner,    \* connectIdMap_: the request of an id, or NoCall
    byCaller,   \* InnerIdMap_: the id of a key, or NoId
    pc,         \* the step of a connect call, then the life of its request
    seen,       \* what a call's ++ has read from g_ConnectionIdStart
    inner,      \* innerConnectionId_ of a call's request
    key,        \* callerTokenId_, callerPid_, callerConnectionId_
    lpc,        \* the step of the disconnect call made with a call's key
    lid,        \* the id that disconnect call has read
    found       \* the request it has found

vars == <<idStart, byInner, byCaller, pc, seen, inner, key, lpc, lid, found>>
mapVars == <<byInner, byCaller>>
idVars == <<idStart, seen>>
lookupVars == <<lpc, lid, found>>

CounterPc == {"unset", "seed", "limit", "read", "write", "restart", "return"}
Serving == {"size", "fill"} \cup CounterPc
Pc == {"idle", "live", "erase", "eraseKey", "gone"} \cup Serving
LookupPc == {"idle", "request", "holds", "done"}

(* The calls that have passed the size check and have no request in        *)
(* connectIdMap_ yet.                                                      *)
Admitted == {c \in Call : pc[c] \in Serving \ {"size"}}

(* GetAliveSize.                                                           *)
AliveIds == {i \in Id : byInner[i] # NoCall}
AliveSize == Cardinality(AliveIds)

AliveSizeFits_OneMore == AliveSize <= MaxRequestSize + 1
AliveSizeFits == AliveSize <= MaxRequestSize

(* GetInnerConnectionIdFromMap: an entry of -1 looks like none.            *)
InnerIdOf(k) == IF byCaller[k] = NoId THEN -1 ELSE byCaller[k]

Init ==
    /\ idStart = -1
    /\ byInner = [i \in Id |-> NoCall]
    /\ byCaller = [k \in Key |-> NoId]
    /\ pc = [c \in Call |-> "idle"]
    /\ seen = [c \in Call |-> -1]
    /\ inner = [c \in Call |-> NoId]
    /\ key = [c \in Call |-> NoKey]
    /\ lpc = [c \in Call |-> "idle"]
    /\ lid = [c \in Call |-> -1]
    /\ found = [c \in Call |-> NoCall]

----------------------------------------------------------------------------
(* A connect call.                                                         *)

(* A caller may not reuse the id of a request that exists.                 *)
CheckCallerId_Skipped(c) ==
    /\ pc[c] = "idle"
    /\ \A d \in Call : ThreadOf[d] = ThreadOf[c] => pc[d] \notin Serving
    /\ pc' = [pc EXCEPT ![c] = "size"]
    /\ UNCHANGED <<mapVars, idVars, inner, key, lookupVars>>
CheckCallerId(c) ==
    /\ pc[c] = "idle"
    /\ \A d \in Call : ThreadOf[d] = ThreadOf[c] => pc[d] \notin Serving
    /\ pc' = [pc EXCEPT ![c] =
                 IF InnerIdOf(KeyOf[c]) = -1 THEN "size" ELSE "gone"]
    /\ UNCHANGED <<mapVars, idVars, inner, key, lookupVars>>

CheckSize(c) ==
    /\ pc[c] = "size"
    /\ pc' = [pc EXCEPT ![c] = IF AliveSizeFits THEN "unset" ELSE "gone"]
    /\ UNCHANGED <<mapVars, idVars, inner, key, lookupVars>>

(* CreateUniqueConnectionID: every access reads or writes the plain        *)
(* counter, under no lock, and other calls may come between any two.       *)
IsIdStartUnset(c) ==
    /\ pc[c] = "unset"
    /\ pc' = [pc EXCEPT ![c] = IF idStart = -1 THEN "seed" ELSE "limit"]
    /\ UNCHANGED <<mapVars, idVars, inner, key, lookupVars>>

SeedIdStart(c) ==
    /\ pc[c] = "seed"
    /\ idStart' \in RandomIds
    /\ pc' = [pc EXCEPT ![c] = "return"]
    /\ UNCHANGED <<mapVars, seen, inner, key, lookupVars>>

IsIdStartBelowLimit(c) ==
    /\ pc[c] = "limit"
    /\ pc' = [pc EXCEPT ![c] = IF idStart < MaxId THEN "read" ELSE "restart"]
    /\ UNCHANGED <<mapVars, idVars, inner, key, lookupVars>>

ReadIdStart(c) ==
    /\ pc[c] = "read"
    /\ seen' = [seen EXCEPT ![c] = idStart]
    /\ pc' = [pc EXCEPT ![c] = "write"]
    /\ UNCHANGED <<mapVars, idStart, inner, key, lookupVars>>

(* The counter may have come to INT32_MAX since it was compared: then ++   *)
(* overflows, and the build's addition wraps around.                       *)
Incremented(v) == IF v = MaxId THEN MinId ELSE v + 1

WriteIdStart_Same(c) ==
    /\ pc[c] = "write"
    /\ idStart' = seen[c]
    /\ pc' = [pc EXCEPT ![c] = "return"]
    /\ UNCHANGED <<mapVars, seen, inner, key, lookupVars>>
WriteIdStart(c) ==
    /\ pc[c] = "write"
    /\ idStart' = Incremented(seen[c])
    /\ pc' = [pc EXCEPT ![c] = "return"]
    /\ UNCHANGED <<mapVars, seen, inner, key, lookupVars>>

RestartIdStart(c) ==
    /\ pc[c] = "restart"
    /\ idStart' = 0
    /\ pc' = [pc EXCEPT ![c] = "return"]
    /\ UNCHANGED <<mapVars, seen, inner, key, lookupVars>>

ReturnIdStart(c) ==
    /\ pc[c] = "return"
    /\ inner' = [inner EXCEPT ![c] = idStart]
    /\ pc' = [pc EXCEPT ![c] = "fill"]
    /\ UNCHANGED <<mapVars, idVars, key, lookupVars>>

(* FillRequestWithWant or CheckAbilityIsWebExtensionAbility fails: the     *)
(* request is destroyed before any of its ids is set, and the constructor  *)
(* leaves them uninitialized.                                              *)
RefuseWant(c) ==
    /\ pc[c] = "fill"
    /\ c \in BadWant
    /\ \E i \in Id, k \in Key \cup {NoKey} :
          /\ inner' = [inner EXCEPT ![c] = i]
          /\ key' = [key EXCEPT ![c] = k]
    /\ pc' = [pc EXCEPT ![c] = "erase"]
    /\ UNCHANGED <<mapVars, idVars, lookupVars>>

(* CreateNativeRequest sets the ids; InsertRequestMap.                     *)
InsertRequestMap_ReRead(c) ==
    /\ pc[c] = "fill"
    /\ key' = [key EXCEPT ![c] = KeyOf[c]]
    /\ byInner' = [byInner EXCEPT ![inner[c]] = c]
    /\ byCaller' = [byCaller EXCEPT ![KeyOf[c]] = idStart]
    /\ pc' = [pc EXCEPT ![c] = "live"]
    /\ UNCHANGED <<idVars, inner, lookupVars>>
InsertRequestMap(c) ==
    /\ pc[c] = "fill"
    /\ key' = [key EXCEPT ![c] = KeyOf[c]]
    /\ byInner' = [byInner EXCEPT ![inner[c]] = c]
    /\ byCaller' = [byCaller EXCEPT ![KeyOf[c]] = inner[c]]
    /\ pc' = [pc EXCEPT ![c] = "live"]
    /\ UNCHANGED <<idVars, inner, lookupVars>>

----------------------------------------------------------------------------
(* The destructor, when nothing holds the request any more.                *)

Release(c) ==
    /\ pc[c] = "live"
    /\ \A d \in Call : found[d] # c
    /\ pc' = [pc EXCEPT ![c] = "erase"]
    /\ UNCHANGED <<mapVars, idVars, inner, key, lookupVars>>

RemoveRequestMap(c) ==
    /\ pc[c] = "erase"
    /\ byInner' = [i \in Id |-> IF i = inner[c] THEN NoCall ELSE byInner[i]]
    /\ pc' = [pc EXCEPT ![c] = "eraseKey"]
    /\ UNCHANGED <<byCaller, idVars, inner, key, lookupVars>>

RemoveInnerConnectionIdMap_Skipped(c) ==
    /\ pc[c] = "eraseKey"
    /\ pc' = [pc EXCEPT ![c] = "gone"]
    /\ UNCHANGED <<mapVars, idVars, inner, key, lookupVars>>
RemoveInnerConnectionIdMap(c) ==
    /\ pc[c] = "eraseKey"
    /\ byCaller' = [k \in Key |-> IF k = key[c] THEN NoId ELSE byCaller[k]]
    /\ pc' = [pc EXCEPT ![c] = "gone"]
    /\ UNCHANGED <<byInner, idVars, inner, key, lookupVars>>

----------------------------------------------------------------------------
(* The disconnect call made with c's key.                                  *)

GetInnerConnectionIdFromMap(c) ==
    /\ lpc[c] = "idle"
    /\ c \in Disconnected
    /\ lid' = [lid EXCEPT ![c] = InnerIdOf(KeyOf[c])]
    /\ lpc' = [lpc EXCEPT ![c] =
                  IF InnerIdOf(KeyOf[c]) = -1 THEN "done" ELSE "request"]
    /\ UNCHANGED <<mapVars, idVars, pc, inner, key, found>>

(* The weak pointer of a request whose destructor runs gives null.         *)
Locked(i) ==
    IF \E c \in Call : byInner[i] = c /\ pc[c] = "live"
      THEN byInner[i] ELSE NoCall

GetExistConnectId(c) ==
    /\ lpc[c] = "request"
    /\ found' = [found EXCEPT ![c] = Locked(lid[c])]
    /\ lpc' = [lpc EXCEPT ![c] =
                  IF Locked(lid[c]) = NoCall THEN "done" ELSE "holds"]
    /\ UNCHANGED <<mapVars, idVars, pc, inner, key, lid>>

DropRequest(c) ==
    /\ lpc[c] = "holds"
    /\ found' = [found EXCEPT ![c] = NoCall]
    /\ lpc' = [lpc EXCEPT ![c] = "done"]
    /\ UNCHANGED <<mapVars, idVars, pc, inner, key, lid>>

----------------------------------------------------------------------------
ConnectCall(c) ==
    \/ CheckCallerId(c) \/ CheckSize(c)
    \/ IsIdStartUnset(c) \/ SeedIdStart(c) \/ IsIdStartBelowLimit(c)
    \/ ReadIdStart(c) \/ WriteIdStart(c) \/ RestartIdStart(c)
    \/ ReturnIdStart(c)
    \/ RefuseWant(c) \/ InsertRequestMap(c)

Destructor(c) ==
    Release(c) \/ RemoveRequestMap(c) \/ RemoveInnerConnectionIdMap(c)

DisconnectCall(c) ==
    GetInnerConnectionIdFromMap(c) \/ GetExistConnectId(c) \/ DropRequest(c)

Next == \E c \in Call : ConnectCall(c) \/ Destructor(c) \/ DisconnectCall(c)

Spec == Init /\ [][Next]_vars

----------------------------------------------------------------------------
(* Types: what each variable holds, the ids of a refused request among     *)
(* them, whose value is whatever its memory held.                          *)
TypeOK ==
    /\ idStart \in Id
    /\ byInner \in [Id -> Call \cup {NoCall}]
    /\ byCaller \in [Key -> Id \cup {NoId}]
    /\ pc \in [Call -> Pc]
    /\ seen \in [Call -> Id]
    /\ inner \in [Call -> Id \cup {NoId}]
    /\ key \in [Call -> Key \cup {NoKey}]
    /\ lpc \in [Call -> LookupPc]
    /\ lid \in [Call -> Id]
    /\ found \in [Call -> Call \cup {NoCall}]

(* Both maps name every live request: the service finds it by its own id   *)
(* and by its caller's.  CheckCallerId, the counter and the destructor     *)
(* keep this up between them when the calls come one after the other.      *)
RoutedById ==
    \A c \in Call : pc[c] = "live" =>
        byInner[inner[c]] = c /\ byCaller[KeyOf[c]] = inner[c]

(* A disconnect call, which looks up two maps in two critical sections,    *)
(* acts on a request made with its own key and on no other caller's.       *)
FindsOwn ==
    \A c \in Call : found[c] # NoCall => KeyOf[found[c]] = KeyOf[c]

(* In any interleaving, over lost increments, the overflow of the counter  *)
(* and entries that refused requests erase, a disconnect call that acts on *)
(* another caller's request does so because the counter gave the id of     *)
(* that request also to a request of the call's own caller.                *)
FindsOthersOnlyById ==
    \A c \in Call : found[c] # NoCall =>
        \/ KeyOf[found[c]] = KeyOf[c]
        \/ \E e \in Call : KeyOf[e] = KeyOf[c] /\ inner[e] = inner[found[c]]

(* When every request is gone and no call is served both maps are empty:   *)
(* overwritten or wrongly erased entries never leave one behind that       *)
(* GetAliveSize would count, or CONNECTION_ID_EXIST refuse, for ever.      *)
EmptiedWithRequests ==
    (\A c \in Call : pc[c] \in {"idle", "gone"}) =>
        /\ \A i \in Id : byInner[i] = NoCall
        /\ \A k \in Key : byCaller[k] = NoId

(* The size check precedes the insertion by several steps and compares     *)
(* with >: the number of requests may pass MAX_REQUEST_SIZE, by as many    *)
(* as there are IPC threads and no more.                                   *)
AliveSizeBounded == AliveSize <= MaxRequestSize + Cardinality(Thread)
=============================================================================
