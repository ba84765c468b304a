----------------------- MODULE RequestRegistryProofs -----------------------
(***************************************************************************)
(* Proofs about RequestRegistry, for every set of calls, threads and keys  *)
(* and every MaxId and MaxRequestSize: the types, that the maps are empty  *)
(* once the requests are gone, the bound on the number of requests, and    *)
(* that ids given twice are the only way to another caller's request.      *)
(***************************************************************************)
EXTENDS RequestRegistry, FunctionTheorems, FiniteSetTheorems, TLAPS

(* What CreateUniqueConnectionID does before it returns: of the variables, *)
(* only the counter, what a ++ has read and the step of the call change.   *)
MoveIdStart(c) ==
    \/ IsIdStartUnset(c) \/ SeedIdStart(c) \/ IsIdStartBelowLimit(c)
    \/ ReadIdStart(c) \/ WriteIdStart(c) \/ RestartIdStart(c)

(* The steps of Next, one by one.                                          *)
LEMMA NextCases ==
    ASSUME Next
    PROVE  \E c \in Call :
              \/ CheckCallerId(c) \/ CheckSize(c)
              \/ MoveIdStart(c) \/ ReturnIdStart(c)
              \/ RefuseWant(c) \/ InsertRequestMap(c)
              \/ Release(c) \/ RemoveRequestMap(c)
              \/ RemoveInnerConnectionIdMap(c)
              \/ GetInnerConnectionIdFromMap(c) \/ GetExistConnectId(c)
              \/ DropRequest(c)
BY DEF Next, ConnectCall, Destructor, DisconnectCall, MoveIdStart

----------------------------------------------------------------------------
(* Types.                                                                  *)

(* CreateUniqueConnectionID keeps the call among those being served, and   *)
(* the counter an int32_t.                                                 *)
LEMMA IdStartMoves ==
    ASSUME TypeOK, NEW c \in Call, MoveIdStart(c)
    PROVE  /\ pc[c] \in CounterPc
           /\ \E s \in CounterPc : pc' = [pc EXCEPT ![c] = s]
           /\ idStart' \in Id
           /\ seen' \in [Call -> Id]
           /\ UNCHANGED <<byInner, byCaller, inner, key, lpc, lid, found>>
<1> USE RRAssumption DEF RegistryAssumption, TypeOK, CounterPc
<1>1. CASE IsIdStartUnset(c) \/ IsIdStartBelowLimit(c)
    BY <1>1 DEF IsIdStartUnset, IsIdStartBelowLimit, mapVars, idVars,
                lookupVars
<1>2. CASE SeedIdStart(c) \/ RestartIdStart(c)
    <2>1. RandomIds \subseteq Id /\ 0 \in Id
        BY DEF Id, MinId
    <2> QED BY <1>2, <2>1 DEF SeedIdStart, RestartIdStart, mapVars, lookupVars
<1>3. CASE ReadIdStart(c)
    BY <1>3 DEF ReadIdStart, mapVars, lookupVars
<1>4. CASE WriteIdStart(c)
    <2>1. Incremented(seen[c]) \in Id
        BY DEF Incremented, Id, MinId
    <2> QED BY <1>4, <2>1 DEF WriteIdStart, mapVars, lookupVars
<1> QED BY <1>1, <1>2, <1>3, <1>4 DEF MoveIdStart

(* The request of an id, or null.                                          *)
LEMMA LockedIsCall ==
    ASSUME TypeOK, NEW i \in Id
    PROVE  Locked(i) \in Call \cup {NoCall}
BY DEF Locked

(* The ids are drawn from Id, a refused request's from wherever its memory *)
(* comes from.                                                             *)
LEMMA TypeCorrect == Spec => []TypeOK
<1>1. Init => TypeOK
    BY RRAssumption DEF RegistryAssumption, Init, TypeOK, Id, MinId, Pc, LookupPc
<1>2. TypeOK /\ [Next]_vars => TypeOK'
    <2> SUFFICES ASSUME TypeOK, [Next]_vars
                 PROVE  TypeOK'
        OBVIOUS
    <2> USE RRAssumption DEF RegistryAssumption
    <2>1. CASE UNCHANGED vars
        BY <2>1 DEF TypeOK, vars
    <2>2. ASSUME NEW c \in Call, CheckCallerId(c) PROVE TypeOK'
        BY <2>2 DEF TypeOK, CheckCallerId, mapVars, idVars, lookupVars, Pc,
                    Serving
    <2>3. ASSUME NEW c \in Call, CheckSize(c) PROVE TypeOK'
        BY <2>3 DEF TypeOK, CheckSize, mapVars, idVars, lookupVars, Pc,
                    Serving, CounterPc
    <2>4. ASSUME NEW c \in Call, MoveIdStart(c) PROVE TypeOK'
        BY <2>4, IdStartMoves DEF TypeOK, Pc, Serving
    <2>6. ASSUME NEW c \in Call, ReturnIdStart(c) PROVE TypeOK'
        BY <2>6 DEF TypeOK, ReturnIdStart, mapVars, idVars, lookupVars, Pc,
                    Serving, CounterPc
    <2>7. ASSUME NEW c \in Call, RefuseWant(c) PROVE TypeOK'
        BY <2>7 DEF TypeOK, RefuseWant, mapVars, idVars, lookupVars, Pc
    <2>8. ASSUME NEW c \in Call, InsertRequestMap(c) PROVE TypeOK'
        BY <2>8 DEF TypeOK, InsertRequestMap, idVars, lookupVars, Pc
    <2>9. ASSUME NEW c \in Call, Release(c) PROVE TypeOK'
        BY <2>9 DEF TypeOK, Release, mapVars, idVars, lookupVars, Pc
    <2>10. ASSUME NEW c \in Call, RemoveRequestMap(c) PROVE TypeOK'
        BY <2>10 DEF TypeOK, RemoveRequestMap, idVars, lookupVars, Pc
    <2>11. ASSUME NEW c \in Call, RemoveInnerConnectionIdMap(c) PROVE TypeOK'
        BY <2>11 DEF TypeOK, RemoveInnerConnectionIdMap, idVars, lookupVars,
                     Pc
    <2>12. ASSUME NEW c \in Call, GetInnerConnectionIdFromMap(c) PROVE TypeOK'
        <3>1. InnerIdOf(KeyOf[c]) \in Id
            BY DEF InnerIdOf, TypeOK, Id, MinId
        <3> QED
            BY <2>12, <3>1 DEF TypeOK, GetInnerConnectionIdFromMap, mapVars,
                               idVars, LookupPc
    <2>13. ASSUME NEW c \in Call, GetExistConnectId(c) PROVE TypeOK'
        <3>1. Locked(lid[c]) \in Call \cup {NoCall}
            BY LockedIsCall DEF TypeOK
        <3> QED
            BY <2>13, <3>1 DEF TypeOK, GetExistConnectId, mapVars, idVars,
                               LookupPc
    <2>14. ASSUME NEW c \in Call, DropRequest(c) PROVE TypeOK'
        BY <2>14 DEF TypeOK, DropRequest, mapVars, idVars, LookupPc
    <2> QED
        BY <2>1, <2>2, <2>3, <2>4, <2>6, <2>7, <2>8, <2>9, <2>10,
           <2>11, <2>12, <2>13, <2>14, NextCases
<1> QED BY <1>1, <1>2, PTL DEF Spec

----------------------------------------------------------------------------
(* The maps hold nothing but what a request's own destructor will erase.   *)

(* Whatever connectIdMap_ and InnerIdMap_ hold, a request that is not      *)
(* destroyed yet will erase it: the invariant behind EmptiedWithRequests.  *)
EntriesOwned ==
    /\ \A i \in Id : \A c \in Call :
          byInner[i] = c => pc[c] \in {"live", "erase"} /\ inner[c] = i
    /\ \A k \in Key : byCaller[k] # NoId =>
          \E c \in Call :
             pc[c] \in {"live", "erase", "eraseKey"} /\ key[c] = k

(* Every step, the chance erasure by a refused request included, keeps it. *)
LEMMA EntriesOwnedStep ==
    ASSUME TypeOK, EntriesOwned, [Next]_vars
    PROVE  EntriesOwned'
<1> DEFINE InnerOwned == \A i \in Id : \A c \in Call :
          byInner[i] = c => pc[c] \in {"live", "erase"} /\ inner[c] = i
<1> DEFINE CallerOwned == \A k \in Key : byCaller[k] # NoId =>
          \E c \in Call :
             pc[c] \in {"live", "erase", "eraseKey"} /\ key[c] = k
<1> USE RRAssumption DEF RegistryAssumption
<1>1. CASE UNCHANGED vars
    BY <1>1 DEF EntriesOwned, vars
<1>2. ASSUME NEW d \in Call, CheckCallerId(d) \/ CheckSize(d)
      PROVE  EntriesOwned'
    BY <1>2 DEF EntriesOwned, TypeOK, CheckCallerId, CheckSize, mapVars
<1>3. ASSUME NEW d \in Call, MoveIdStart(d) PROVE EntriesOwned'
    BY <1>3, IdStartMoves DEF EntriesOwned, TypeOK, CounterPc
<1>4. ASSUME NEW d \in Call, ReturnIdStart(d) PROVE EntriesOwned'
    BY <1>4 DEF EntriesOwned, TypeOK, ReturnIdStart, mapVars
<1>5. ASSUME NEW d \in Call, RefuseWant(d) PROVE EntriesOwned'
    <2>1. InnerOwned'
        BY <1>5 DEF EntriesOwned, TypeOK, RefuseWant, mapVars
    <2>2. CallerOwned'
        BY <1>5 DEF EntriesOwned, TypeOK, RefuseWant, mapVars
    <2> QED BY <2>1, <2>2 DEF EntriesOwned
<1>6. ASSUME NEW d \in Call, InsertRequestMap(d) PROVE EntriesOwned'
    <2>1. InnerOwned'
        BY <1>6 DEF EntriesOwned, TypeOK, InsertRequestMap
    <2>2. CallerOwned'
        BY <1>6 DEF EntriesOwned, TypeOK, InsertRequestMap
    <2> QED BY <2>1, <2>2 DEF EntriesOwned
<1>7. ASSUME NEW d \in Call, Release(d) PROVE EntriesOwned'
    BY <1>7 DEF EntriesOwned, TypeOK, Release, mapVars
<1>8. ASSUME NEW d \in Call, RemoveRequestMap(d) PROVE EntriesOwned'
    <2>1. InnerOwned'
        BY <1>8 DEF EntriesOwned, TypeOK, RemoveRequestMap
    <2>2. CallerOwned'
        BY <1>8 DEF EntriesOwned, TypeOK, RemoveRequestMap
    <2> QED BY <2>1, <2>2 DEF EntriesOwned
<1>9. ASSUME NEW d \in Call, RemoveInnerConnectionIdMap(d)
      PROVE  EntriesOwned'
    <2>1. InnerOwned'
        BY <1>9 DEF EntriesOwned, TypeOK, RemoveInnerConnectionIdMap
    <2>2. CallerOwned'
        BY <1>9 DEF EntriesOwned, TypeOK, RemoveInnerConnectionIdMap
    <2> QED BY <2>1, <2>2 DEF EntriesOwned
<1>10. ASSUME NEW d \in Call, DisconnectCall(d) PROVE EntriesOwned'
    BY <1>10 DEF EntriesOwned, DisconnectCall, GetInnerConnectionIdFromMap,
                 GetExistConnectId, DropRequest, mapVars
<1> QED
    BY <1>1, <1>2, <1>3, <1>4, <1>5, <1>6, <1>7, <1>8, <1>9, <1>10
       DEF Next, ConnectCall, Destructor, MoveIdStart

(* No request leaves an entry behind, not even one that was refused and    *)
(* erased by chance what others had inserted.                              *)
THEOREM MapsAreEmptied == Spec => []EmptiedWithRequests
<1>1. Init => EntriesOwned
    BY RRAssumption DEF RegistryAssumption, Init, EntriesOwned
<1>2. TypeOK /\ EntriesOwned => EmptiedWithRequests
    BY DEF TypeOK, EntriesOwned, EmptiedWithRequests
<1> QED BY <1>1, <1>2, EntriesOwnedStep, TypeCorrect, PTL DEF Spec

----------------------------------------------------------------------------
(* The bound on the number of requests.                                    *)

(* A thread serves one connect call at a time.                             *)
OnePerThread ==
    \A c, d \in Call :
        /\ pc[c] \in Serving
        /\ pc[d] \in Serving
        /\ ThreadOf[c] = ThreadOf[d]
        => c = d

(* The requests in the map and the calls that have passed the size check   *)
(* and will insert one: the invariant behind AliveSizeBounded.             *)
AdmittedBounded ==
    AliveSize + Cardinality(Admitted)
        <= MaxRequestSize + Cardinality(Thread)

(* A call begins only on a thread that serves no other.                    *)
LEMMA OnePerThreadStep ==
    ASSUME TypeOK, OnePerThread, [Next]_vars
    PROVE  OnePerThread'
<1>1. CASE UNCHANGED vars
    BY <1>1 DEF OnePerThread, vars
<1>2. ASSUME NEW c \in Call, CheckCallerId(c) PROVE OnePerThread'
    BY <1>2 DEF TypeOK, OnePerThread, CheckCallerId, Serving
<1>3. ASSUME NEW c \in Call,
             CheckSize(c) \/ MoveIdStart(c) \/ ReturnIdStart(c)
      PROVE  OnePerThread'
    BY <1>3, IdStartMoves DEF TypeOK, OnePerThread, CheckSize, ReturnIdStart,
                              Serving, CounterPc
<1>4. ASSUME NEW c \in Call, RefuseWant(c) \/ InsertRequestMap(c)
      PROVE  OnePerThread'
    BY <1>4 DEF TypeOK, OnePerThread, RefuseWant, InsertRequestMap, Serving,
                CounterPc
<1>5. ASSUME NEW c \in Call, Destructor(c) PROVE OnePerThread'
    BY <1>5 DEF TypeOK, OnePerThread, Destructor, Release, RemoveRequestMap,
                RemoveInnerConnectionIdMap, Serving, CounterPc
<1>6. ASSUME NEW c \in Call, DisconnectCall(c) PROVE OnePerThread'
    BY <1>6 DEF OnePerThread, DisconnectCall, GetInnerConnectionIdFromMap,
                GetExistConnectId, DropRequest
<1> QED
    BY <1>1, <1>2, <1>3, <1>4, <1>5, <1>6 DEF Next, ConnectCall, MoveIdStart

(* connectIdMap_ is finite, its ids are of type int32_t.                   *)
LEMMA AliveIdsFinite ==
    /\ IsFiniteSet(AliveIds)
    /\ AliveSize \in Nat
<1>1. IsFiniteSet(Id)
    BY RRAssumption, FS_Interval DEF RegistryAssumption, Id, MinId
<1>2. AliveIds \in SUBSET Id
    BY DEF AliveIds
<1>3. IsFiniteSet(AliveIds)
    BY <1>1, <1>2, FS_Subset
<1> QED BY <1>3, FS_CardinalityType DEF AliveSize

(* No more calls are past the size check than there are threads.           *)
LEMMA AdmittedFits ==
    ASSUME TypeOK, OnePerThread
    PROVE  /\ IsFiniteSet(Admitted)
           /\ Cardinality(Admitted) \in Nat
           /\ Cardinality(Admitted) <= Cardinality(Thread)
<1> DEFINE f == [c \in Admitted |-> ThreadOf[c]]
<1>1. f \in [Admitted -> Thread]
    BY RRAssumption DEF RegistryAssumption, Admitted
<1>2. ASSUME NEW c \in Admitted, NEW d \in Admitted, f[c] = f[d]
      PROVE  c = d
    BY <1>2 DEF Admitted, OnePerThread
<1>3. f \in Injection(Admitted, Thread)
    BY <1>1, <1>2 DEF Injection, IsInjective
<1>4. IsFiniteSet(Thread)
    BY RRAssumption DEF RegistryAssumption
<1>5. IsFiniteSet(Admitted) /\ Cardinality(Admitted) <= Cardinality(Thread)
    BY <1>3, <1>4, FS_Injection
<1> QED BY <1>5, FS_CardinalityType

(* The size check is what makes room; the other steps only use it up.      *)
LEMMA AdmittedBoundedStep ==
    ASSUME TypeOK, OnePerThread, TypeOK', OnePerThread',
           AdmittedBounded, [Next]_vars
    PROVE  AdmittedBounded'
<1>1. /\ IsFiniteSet(Thread) /\ Cardinality(Thread) \in Nat
      /\ MaxRequestSize \in Nat
    BY RRAssumption, FS_CardinalityType DEF RegistryAssumption
<1>2. /\ IsFiniteSet(AliveIds) /\ AliveSize \in Nat
      /\ IsFiniteSet(Admitted) /\ Cardinality(Admitted) \in Nat
    BY AliveIdsFinite, AdmittedFits
<1>3. /\ AliveSize' \in Nat
      /\ Cardinality(Admitted') \in Nat
      /\ Cardinality(Admitted') <= Cardinality(Thread)
    <2>1. IsFiniteSet(Id)
        BY RRAssumption, FS_Interval DEF RegistryAssumption, Id, MinId
    <2>2. AliveIds' \in SUBSET Id
        BY DEF AliveIds
    <2>3. AliveSize' \in Nat
        BY <2>1, <2>2, FS_Subset, FS_CardinalityType DEF AliveSize
    <2> DEFINE f == [c \in Admitted' |-> ThreadOf[c]]
    <2>4. f \in [Admitted' -> Thread]
        BY RRAssumption DEF RegistryAssumption, Admitted
    <2>5. ASSUME NEW c \in Admitted', NEW d \in Admitted', f[c] = f[d]
          PROVE  c = d
        BY <2>5 DEF Admitted, OnePerThread
    <2>6. f \in Injection(Admitted', Thread)
        BY <2>4, <2>5 DEF Injection, IsInjective
    <2>7. /\ IsFiniteSet(Admitted')
          /\ Cardinality(Admitted') <= Cardinality(Thread)
        BY <1>1, <2>6, FS_Injection
    <2> QED BY <2>3, <2>7, FS_CardinalityType
(* A step that adds to neither set keeps their sum.                        *)
<1>4. ASSUME AliveIds' \subseteq AliveIds, Admitted' \subseteq Admitted
      PROVE  AdmittedBounded'
    <2>1. AliveSize' <= AliveSize
        BY <1>2, <1>4, FS_Subset DEF AliveSize
    <2>2. Cardinality(Admitted') <= Cardinality(Admitted)
        BY <1>2, <1>4, FS_Subset
    <2> QED BY <1>1, <1>2, <1>3, <2>1, <2>2 DEF AdmittedBounded
<1>5. CASE UNCHANGED vars
    BY <1>4, <1>5 DEF vars, AliveIds, Admitted
<1>6. ASSUME NEW c \in Call, CheckCallerId(c) PROVE AdmittedBounded'
    <2>1. Admitted' \subseteq Admitted
        BY <1>6 DEF TypeOK, CheckCallerId, Admitted, Serving, CounterPc
    <2>2. AliveIds' \subseteq AliveIds
        BY <1>6 DEF CheckCallerId, mapVars, AliveIds
    <2> QED BY <1>4, <2>1, <2>2
<1>7. ASSUME NEW c \in Call, CheckSize(c) PROVE AdmittedBounded'
    <2>1. AliveIds' = AliveIds
        BY <1>7 DEF CheckSize, mapVars, AliveIds
    <2>2. CASE AliveSizeFits
        <3>1. AliveSize' <= MaxRequestSize
            BY <2>1, <2>2 DEF AliveSizeFits, AliveSize
        <3> QED BY <1>1, <1>3, <3>1 DEF AdmittedBounded
    <2>3. CASE ~AliveSizeFits
        <3>1. Admitted' \subseteq Admitted
            BY <1>7, <2>3 DEF TypeOK, CheckSize, Admitted, Serving, CounterPc
        <3> QED BY <1>4, <2>1, <3>1
    <2> QED BY <2>2, <2>3
<1>8. ASSUME NEW c \in Call,
             MoveIdStart(c) \/ ReturnIdStart(c)
      PROVE  AdmittedBounded'
    <2>1. Admitted' \subseteq Admitted
        BY <1>8, IdStartMoves DEF TypeOK, ReturnIdStart, Admitted, Serving,
                                  CounterPc
    <2>2. AliveIds' \subseteq AliveIds
        BY <1>8, IdStartMoves DEF ReturnIdStart, mapVars, AliveIds
    <2> QED BY <1>4, <2>1, <2>2
<1>9. ASSUME NEW c \in Call, RefuseWant(c) PROVE AdmittedBounded'
    <2>1. Admitted' \subseteq Admitted
        BY <1>9 DEF TypeOK, RefuseWant, Admitted, Serving, CounterPc
    <2>2. AliveIds' \subseteq AliveIds
        BY <1>9 DEF RefuseWant, mapVars, AliveIds
    <2> QED BY <1>4, <2>1, <2>2
(* The call's place among the admitted becomes the request's in the map.   *)
<1>10. ASSUME NEW c \in Call, InsertRequestMap(c) PROVE AdmittedBounded'
    <2>1. Admitted' = Admitted \ {c} /\ c \in Admitted
        BY <1>10 DEF TypeOK, InsertRequestMap, Admitted, Serving, CounterPc
    <2>2. Cardinality(Admitted') = Cardinality(Admitted) - 1
        BY <1>2, <2>1, FS_RemoveElement
    <2>3. AliveIds' \subseteq AliveIds \cup {inner[c]}
        BY <1>10 DEF TypeOK, InsertRequestMap, AliveIds
    <2>4. /\ IsFiniteSet(AliveIds \cup {inner[c]})
          /\ Cardinality(AliveIds \cup {inner[c]}) <= AliveSize + 1
          /\ Cardinality(AliveIds \cup {inner[c]}) \in Nat
        <3> DEFINE S == AliveIds \cup {inner[c]}
        <3>1. IsFiniteSet(S) /\ Cardinality(S) \in Nat
            BY <1>2, FS_AddElement, FS_CardinalityType
        <3>2. Cardinality(S) = IF inner[c] \in AliveIds
                                 THEN Cardinality(AliveIds)
                                 ELSE Cardinality(AliveIds) + 1
            BY <1>2, FS_AddElement
        <3> HIDE DEF S
        <3>3. Cardinality(S) <= AliveSize + 1
            BY <1>2, <3>2 DEF AliveSize
        <3> QED BY <3>1, <3>3 DEF S
    <2>5. Cardinality(AliveIds') <= Cardinality(AliveIds \cup {inner[c]})
        BY <2>3, <2>4, FS_Subset
    <2>6. AliveSize' <= AliveSize + 1
        BY <1>2, <1>3, <2>4, <2>5 DEF AliveSize
    <2> QED BY <1>1, <1>2, <1>3, <2>2, <2>6 DEF AdmittedBounded
<1>11. ASSUME NEW c \in Call, Destructor(c) PROVE AdmittedBounded'
    <2>1. Admitted' \subseteq Admitted
        BY <1>11 DEF TypeOK, Destructor, Release, RemoveRequestMap,
                     RemoveInnerConnectionIdMap, Admitted, Serving,
                     CounterPc
    <2>2. AliveIds' \subseteq AliveIds
        BY <1>11 DEF Destructor, Release, RemoveRequestMap,
                     RemoveInnerConnectionIdMap, mapVars, AliveIds
    <2> QED BY <1>4, <2>1, <2>2
<1>12. ASSUME NEW c \in Call, DisconnectCall(c) PROVE AdmittedBounded'
    <2>1. Admitted' \subseteq Admitted /\ AliveIds' \subseteq AliveIds
        BY <1>12 DEF DisconnectCall, GetInnerConnectionIdFromMap,
                     GetExistConnectId, DropRequest, mapVars, Admitted,
                     AliveIds
    <2> QED BY <1>4, <2>1
<1> QED
    BY <1>5, <1>6, <1>7, <1>8, <1>9, <1>10, <1>11, <1>12
       DEF Next, ConnectCall, MoveIdStart

(* MAX_REQUEST_SIZE can be passed by one request per IPC thread, never by  *)
(* more.                                                                   *)
THEOREM AliveSizeIsBounded == Spec => []AliveSizeBounded
<1>1. Init => OnePerThread /\ AdmittedBounded
    <2> SUFFICES ASSUME Init PROVE OnePerThread /\ AdmittedBounded
        OBVIOUS
    <2>1. OnePerThread
        BY DEF Init, OnePerThread, Serving, CounterPc
    <2>2. AliveIds = {} /\ Admitted = {}
        BY DEF Init, AliveIds, Admitted, Serving, CounterPc
    <2>3. AliveSize = 0 /\ Cardinality(Admitted) = 0
        BY <2>2, FS_EmptySet DEF AliveSize
    <2>4. Cardinality(Thread) \in Nat /\ MaxRequestSize \in Nat
        BY RRAssumption, FS_CardinalityType DEF RegistryAssumption
    <2> QED BY <2>1, <2>3, <2>4 DEF AdmittedBounded
<1>2. TypeOK /\ OnePerThread /\ AdmittedBounded => AliveSizeBounded
    <2> SUFFICES ASSUME TypeOK, OnePerThread, AdmittedBounded
                 PROVE  AliveSizeBounded
        OBVIOUS
    <2>1. Cardinality(Thread) \in Nat /\ MaxRequestSize \in Nat
        BY RRAssumption, FS_CardinalityType DEF RegistryAssumption
    <2> QED
        BY <2>1, AliveIdsFinite, AdmittedFits
           DEF AdmittedBounded, AliveSizeBounded
<1> QED
    BY <1>1, <1>2, OnePerThreadStep, AdmittedBoundedStep, TypeCorrect, PTL
       DEF Spec

----------------------------------------------------------------------------
(* Whose request a disconnect call finds.                                  *)

(* The id keeps its request once it was inserted, also when it is gone.    *)
Named == {"live", "erase", "eraseKey", "gone"}

(* InnerIdMap_ gives a key only ids that a request of that key was given,  *)
(* whatever has become of the request; and a disconnect call remembers     *)
(* them right over both of its lookups.                                    *)
GivenForKey(k, i) ==
    \E e \in Call : pc[e] \in Named /\ KeyOf[e] = k /\ inner[e] = i

LookUpsFit ==
    /\ \A k \in Key : byCaller[k] # NoId => GivenForKey(k, byCaller[k])
    /\ \A c \in Call :
          lpc[c] \in {"request", "holds"} => GivenForKey(KeyOf[c], lid[c])
    /\ \A c \in Call : found[c] # NoCall =>
          /\ lpc[c] = "holds"
          /\ pc[found[c]] = "live" /\ inner[found[c]] = lid[c]

(* An id once given for a key stays so: ids are set before the insertion.  *)
LEMMA GivenStays ==
    ASSUME TypeOK, [Next]_vars, NEW k \in Key, NEW i \in Id, GivenForKey(k, i)
    PROVE  GivenForKey(k, i)'
<1>1. PICK e \in Call : pc[e] \in Named /\ KeyOf[e] = k /\ inner[e] = i
    BY DEF GivenForKey
<1> SUFFICES pc'[e] \in Named /\ inner'[e] = inner[e]
    BY <1>1 DEF GivenForKey
<1> USE DEF Named, TypeOK
<1>2. CASE UNCHANGED vars
    BY <1>1, <1>2 DEF vars
<1>3. ASSUME NEW c \in Call, CheckCallerId(c) \/ CheckSize(c)
      PROVE  pc'[e] \in Named /\ inner'[e] = inner[e]
    BY <1>1, <1>3 DEF CheckCallerId, CheckSize
<1>4. ASSUME NEW c \in Call, MoveIdStart(c)
      PROVE  pc'[e] \in Named /\ inner'[e] = inner[e]
    BY <1>1, <1>4, IdStartMoves DEF CounterPc
<1>5. ASSUME NEW c \in Call,
             ReturnIdStart(c) \/ RefuseWant(c) \/ InsertRequestMap(c)
      PROVE  pc'[e] \in Named /\ inner'[e] = inner[e]
    BY <1>1, <1>5 DEF ReturnIdStart, RefuseWant, InsertRequestMap
<1>6. ASSUME NEW c \in Call, Destructor(c)
      PROVE  pc'[e] \in Named /\ inner'[e] = inner[e]
    BY <1>1, <1>6 DEF Destructor, Release, RemoveRequestMap,
                      RemoveInnerConnectionIdMap
<1>7. ASSUME NEW c \in Call, DisconnectCall(c)
      PROVE  pc'[e] \in Named /\ inner'[e] = inner[e]
    BY <1>1, <1>7 DEF DisconnectCall, GetInnerConnectionIdFromMap,
                      GetExistConnectId, DropRequest
<1> QED
    BY <1>2, <1>3, <1>4, <1>5, <1>6, <1>7
       DEF Next, ConnectCall, MoveIdStart

(* What a request is called when it is inserted it is called when it is    *)
(* looked up; a request that is held is not destroyed.                     *)
LEMMA LookUpsFitStep ==
    ASSUME TypeOK, TypeOK', EntriesOwned, LookUpsFit, [Next]_vars
    PROVE  LookUpsFit'
<1> USE RRAssumption DEF RegistryAssumption
<1>1. \A k \in Key : \A i \in Id : GivenForKey(k, i) => GivenForKey(k, i)'
    BY GivenStays
<1>2. \A c \in Call : KeyOf[c] \in Key /\ lid[c] \in Id
    BY DEF TypeOK
(* A step that leaves the maps, the lookups and the live requests alone.   *)
<1>3. ASSUME \A k \in Key : byCaller'[k] \in {byCaller[k], NoId},
             UNCHANGED <<lpc, lid, found>>,
             \A d \in Call : \A c \in Call :
                found[d] = c /\ pc[c] = "live" =>
                    pc'[c] = "live" /\ inner'[c] = inner[c]
      PROVE  LookUpsFit'
    <2>1. \A k \in Key : byCaller'[k] # NoId => GivenForKey(k, byCaller[k])'
        BY <1>1, <1>3 DEF LookUpsFit, TypeOK
    <2>2. \A c \in Call : lpc'[c] \in {"request", "holds"} =>
             GivenForKey(KeyOf[c], lid[c])'
        BY <1>1, <1>2, <1>3 DEF LookUpsFit
    <2>3. \A c \in Call : found'[c] # NoCall =>
             /\ lpc'[c] = "holds"
             /\ pc'[found'[c]] = "live" /\ inner'[found'[c]] = lid'[c]
        BY <1>3 DEF LookUpsFit, TypeOK
    <2> HIDE DEF GivenForKey
    <2> QED BY <2>1, <2>2, <2>3 DEF LookUpsFit
<1>4. CASE UNCHANGED vars
    BY <1>3, <1>4 DEF vars, TypeOK
<1>5. ASSUME NEW c \in Call,
             \/ CheckCallerId(c) \/ CheckSize(c) \/ MoveIdStart(c)
             \/ ReturnIdStart(c) \/ RefuseWant(c) \/ Destructor(c)
      PROVE  LookUpsFit'
    <2>1. CASE CheckCallerId(c) \/ CheckSize(c)
        BY <1>3, <2>1 DEF CheckCallerId, CheckSize, mapVars, lookupVars, TypeOK
    <2>2. CASE MoveIdStart(c)
        BY <1>3, <2>2, IdStartMoves DEF CounterPc, TypeOK
    <2>3. CASE ReturnIdStart(c) \/ RefuseWant(c)
        BY <1>3, <2>3 DEF ReturnIdStart, RefuseWant, mapVars, lookupVars,
                          TypeOK
    <2>4. CASE Destructor(c)
        BY <1>3, <2>4 DEF Destructor, Release, RemoveRequestMap, lookupVars,
                          RemoveInnerConnectionIdMap, mapVars, TypeOK
    <2> QED BY <1>5, <2>1, <2>2, <2>3, <2>4
<1>6. ASSUME NEW c \in Call, InsertRequestMap(c) PROVE LookUpsFit'
    <2>1. /\ pc[c] = "fill" /\ pc' = [pc EXCEPT ![c] = "live"]
          /\ byCaller' = [byCaller EXCEPT ![KeyOf[c]] = inner[c]]
          /\ UNCHANGED <<inner, lpc, lid, found>>
        BY <1>6 DEF InsertRequestMap, lookupVars
    <2>2. GivenForKey(KeyOf[c], inner[c])'
        BY <2>1 DEF GivenForKey, Named, TypeOK
    <2>3. \A k \in Key : byCaller'[k] # NoId => GivenForKey(k, byCaller[k])'
        <3> SUFFICES ASSUME NEW k \in Key, byCaller'[k] # NoId
                     PROVE  GivenForKey(k, byCaller[k])'
            OBVIOUS
        <3>1. CASE k = KeyOf[c]
            <4>1. byCaller'[k] = inner'[c]
                BY <2>1, <3>1, <1>2 DEF TypeOK
            <4> QED BY <2>1, <2>2, <3>1, <4>1 DEF GivenForKey
        <3>2. CASE k # KeyOf[c]
            <4>1. byCaller'[k] = byCaller[k] /\ byCaller[k] \in Id
                BY <2>1, <3>2 DEF TypeOK
            <4>2. GivenForKey(k, byCaller[k])'
                BY <1>1, <4>1 DEF LookUpsFit, TypeOK
            <4> QED BY <4>1, <4>2 DEF GivenForKey
        <3> QED BY <3>1, <3>2
    <2>4. \A d \in Call : lpc'[d] \in {"request", "holds"} =>
             GivenForKey(KeyOf[d], lid[d])'
        BY <1>1, <1>2, <2>1 DEF LookUpsFit
    <2>5. \A d \in Call : found'[d] # NoCall =>
             /\ lpc'[d] = "holds"
             /\ pc'[found'[d]] = "live" /\ inner'[found'[d]] = lid'[d]
        BY <2>1 DEF LookUpsFit, TypeOK
    <2> QED BY <2>3, <2>4, <2>5 DEF LookUpsFit
<1>7. ASSUME NEW c \in Call, DisconnectCall(c) PROVE LookUpsFit'
    <2>1. UNCHANGED <<byInner, byCaller, pc, inner>>
        BY <1>7 DEF DisconnectCall, GetInnerConnectionIdFromMap,
                    GetExistConnectId, DropRequest, mapVars
    <2>2. \A k \in Key : byCaller'[k] # NoId => GivenForKey(k, byCaller[k])'
        BY <2>1 DEF LookUpsFit, GivenForKey
    <2>3. CASE GetInnerConnectionIdFromMap(c)
        <3>1. InnerIdOf(KeyOf[c]) # -1 =>
                 /\ byCaller[KeyOf[c]] # NoId
                 /\ InnerIdOf(KeyOf[c]) = byCaller[KeyOf[c]]
            BY DEF InnerIdOf
        <3>2. InnerIdOf(KeyOf[c]) # -1 =>
                 GivenForKey(KeyOf[c], InnerIdOf(KeyOf[c]))
            BY <1>2, <3>1 DEF LookUpsFit
        <3> QED
            BY <2>1, <2>2, <2>3, <3>2
               DEF GetInnerConnectionIdFromMap, LookUpsFit, GivenForKey, TypeOK
    <2>4. CASE GetExistConnectId(c)
        <3>1. Locked(lid[c]) # NoCall =>
                 /\ Locked(lid[c]) \in Call
                 /\ pc[Locked(lid[c])] = "live"
                 /\ inner[Locked(lid[c])] = lid[c]
            BY <1>2 DEF Locked, EntriesOwned
        <3> QED
            BY <2>1, <2>2, <2>4, <3>1
               DEF GetExistConnectId, LookUpsFit, GivenForKey, TypeOK
    <2>5. CASE DropRequest(c)
        BY <2>1, <2>2, <2>5 DEF DropRequest, LookUpsFit, GivenForKey, TypeOK
    <2> QED BY <1>7, <2>3, <2>4, <2>5 DEF DisconnectCall
<1> QED
    BY <1>4, <1>5, <1>6, <1>7 DEF Next, ConnectCall, MoveIdStart

(* Lost increments, the overflow, refused wants and concurrent calls lead  *)
(* a disconnect call to another caller's request only through an id that   *)
(* was given to both callers.                                              *)
THEOREM MisfindsShareAnId == Spec => []FindsOthersOnlyById
<1>1. Init => EntriesOwned /\ LookUpsFit
    BY RRAssumption DEF RegistryAssumption, Init, EntriesOwned, LookUpsFit
<1>2. TypeOK /\ LookUpsFit => FindsOthersOnlyById
    BY DEF TypeOK, LookUpsFit, GivenForKey, FindsOthersOnlyById
<1> QED BY <1>1, <1>2, EntriesOwnedStep, LookUpsFitStep, TypeCorrect, PTL DEF Spec
=============================================================================
