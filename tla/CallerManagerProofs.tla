------------------------- MODULE CallerManagerProofs -------------------------
(***************************************************************************)
(* Proofs about CallerManager, for every set of connections and            *)
(* disconnects, every number of starts and every wrap of the serial        *)
(* number: what is in g_connects, what takes it out, and who hears of the  *)
(* service's death.                                                        *)
(***************************************************************************)
EXTENDS CallerManager, TLAPS

----------------------------------------------------------------------------
(* The inductive invariant.                                                *)

(* A connection has its serial number from the first, and nothing happens  *)
(* to it before.                                                           *)
InsertedFirst ==
    \A n \in Conn :
        /\ work[n] = "none" <=> connectionId[n] = 0
        /\ connectionId[n] = 0 =>
              /\ n \notin heard
              /\ \A t \in Types : tasks[n][t] = 0
              /\ session[n].st = "none"

(* An entry stands under the serial number of its connection.              *)
EntriesFit == \A k \in Serial : connects[k] # NoConn => connectionId[connects[k]] = k

IInv == CMTypeOK /\ InsertedFirst /\ EntriesFit /\ RegisteredUntilEnd

LEMMA InitIInv == CMInit => IInv
<1> SUFFICES ASSUME CMInit PROVE IInv
    OBVIOUS
<1> USE CMAssumption, PSAssumption DEF CallerAssumption, SourceAssumption, CMInit
<1>1. TypeOK
    BY DEF Init, TypeOK
<1>2. CMTypeOK
    BY <1>1 DEF CMTypeOK, Serial, Types, Ends
<1>3. InsertedFirst /\ EntriesFit
    BY DEF InsertedFirst, EntriesFit
<1>4. RegisteredUntilEnd
    BY DEF RegisteredUntilEnd
<1> QED BY <1>2, <1>3, <1>4 DEF IInv

----------------------------------------------------------------------------
(* The types.                                                              *)

(* The steps of the library keep its types.                                *)
LEMMA SourceTypes ==
    ASSUME TypeOK,
           \/ SaStarts \/ SaDies \/ UNCHANGED vars
           \/ \E c \in Call : GetProxy(c)
           \/ \E i \in Start : CallDeathCallback(i)
    PROVE  TypeOK'
<1> USE PSAssumption DEF SourceAssumption, TypeOK, serviceVars, callVars, Start
<1>1. CASE SaStarts
    BY <1>1 DEF SaStarts
<1>2. CASE SaDies
    BY <1>2 DEF SaDies
<1>3. CASE UNCHANGED vars
    BY <1>3 DEF vars
<1>4. ASSUME NEW c \in Call, GetProxy(c) PROVE TypeOK'
    BY <1>4 DEF GetProxy
<1>5. ASSUME NEW i \in Start, CallDeathCallback(i) PROVE TypeOK'
    BY <1>5 DEF CallDeathCallback
<1> QED BY <1>1, <1>2, <1>3, <1>4, <1>5

(* A posted callback is one more task, or one more mute connection.        *)
LEMMA PostedTypes ==
    ASSUME CMTypeOK, NEW ns \in SUBSET Conn, NEW t \in Types,
           DoJsExtensionConnectCallback(ns, t)
    PROVE  /\ tasks' \in [Conn -> [Types -> Nat]]
           /\ mute' \subseteq Conn
           /\ mute \subseteq mute'
           /\ \A n \in Conn : n \notin ns => tasks'[n] = tasks[n]
           /\ \A n \in ns : tasks'[n][t] = tasks[n][t] + 1 \/ n \in mute'
           /\ \A n \in Conn, u \in Types : tasks[n][u] > 0 => tasks'[n][u] > 0
<1> USE DEF CMTypeOK, DoJsExtensionConnectCallback
<1>1. PICK lost \in SUBSET (ns \cap MayMute) :
         /\ tasks' = [n \in Conn |-> IF n \in ns \ lost
                                       THEN [tasks[n] EXCEPT ![t] = @ + 1]
                                       ELSE tasks[n]]
         /\ mute' = mute \cup lost
    OBVIOUS
<1>2. tasks' \in [Conn -> [Types -> Nat]]
    BY <1>1
<1>3. mute' \subseteq Conn /\ mute \subseteq mute'
    BY <1>1
<1>4. \A n \in Conn : n \notin ns => tasks'[n] = tasks[n]
    BY <1>1
<1>5. \A n \in ns : tasks'[n][t] = tasks[n][t] + 1 \/ n \in mute'
    BY <1>1
<1>6. \A n \in Conn, u \in Types : tasks[n][u] > 0 => tasks'[n][u] > 0
    BY <1>1
<1> QED BY <1>2, <1>3, <1>4, <1>5, <1>6

(* An end that JavaScript hears takes an entry out and nothing else; one   *)
(* that could not run makes its connection mute.                           *)
LEMMA InvokedTypes ==
    ASSUME CMTypeOK, NEW n \in Conn, NEW t \in Types,
           InvokeConnectNativeCallback(n, t)
    PROVE  /\ connects' \in [Serial -> Conn \cup {NoConn}]
           /\ heard' \subseteq Conn
           /\ serialNumber' = serialNumber /\ connectionId' = connectionId
           /\ mute' \subseteq Conn /\ mute \subseteq mute' /\ heard \subseteq heard'
           /\ \/ connects' = connects /\ heard' = heard
                 /\ (t \notin Ends \/ n \in mute')
              \/ /\ connects' = [connects EXCEPT ![connectionId[n]] = NoConn]
                 /\ heard' = heard \cup {n} /\ t \in Ends
BY CMAssumption DEF CallerAssumption, CMTypeOK, InvokeConnectNativeCallback,
                    RemoveConnection, managerVars, Types, Ends

(* What only moves the library, or nothing, keeps the invariant.           *)
LEMMA LibraryKeeps ==
    ASSUME IInv, TypeOK', UNCHANGED cmVars
    PROVE  IInv'
BY DEF IInv, CMTypeOK, InsertedFirst, EntriesFit, RegisteredUntilEnd,
       SerialUnique, PostedEnd, cmVars, managerVars, jsVars

(* So does a step that only moves a call on which has begun.               *)
LEMMA WorkKeeps ==
    ASSUME IInv, UNCHANGED <<managerVars, session, jsVars, vars>>,
           NEW c \in Call, NEW w \in {"busy", "refused", "sent", "done"},
           c \in Disc \/ work[c] # "none",
           work' = [work EXCEPT ![c] = w]
    PROVE  IInv'
<1> USE CMAssumption DEF CallerAssumption, managerVars, jsVars, IInv
<1>1. TypeOK'
    BY SourceTypes DEF CMTypeOK
<1>2. CMTypeOK'
    BY <1>1 DEF CMTypeOK
<1>3. InsertedFirst'
    BY DEF InsertedFirst, CMTypeOK, Disc
<1>4. EntriesFit' /\ RegisteredUntilEnd'
    BY DEF EntriesFit, RegisteredUntilEnd, SerialUnique, PostedEnd
<1> QED BY <1>2, <1>3, <1>4

----------------------------------------------------------------------------
(* The steps.                                                              *)

(* Types and owners after a callback was posted for connections that have  *)
(* a serial number.                                                        *)
LEMMA PostKeeps ==
    ASSUME IInv, NEW ns \in SUBSET Conn, NEW t \in Types,
           DoJsExtensionConnectCallback(ns, t),
           \A n \in ns : connectionId[n] # 0,
           UNCHANGED <<managerVars, heard, vars>>,
           work' \in [Call -> {"none", "busy", "refused", "sent", "done"}],
           \A c \in Conn : work'[c] = work[c],
           NEW m \in ns, NEW s \in [start : Start \cup {0},
                                   st : {"none", "accepted", "connected", "ended"}],
           session' = [session EXCEPT ![m] = s]
    PROVE  IInv'
<1> USE DEF IInv, managerVars
<1>1. TypeOK'
    BY SourceTypes DEF CMTypeOK
<1>2. CMTypeOK'
    BY <1>1, PostedTypes DEF CMTypeOK
<1>3. InsertedFirst'
    <2> SUFFICES ASSUME NEW n \in Conn
                 PROVE  /\ work'[n] = "none" <=> connectionId'[n] = 0
                        /\ connectionId'[n] = 0 =>
                              /\ n \notin heard'
                              /\ \A u \in Types : tasks'[n][u] = 0
                              /\ session'[n].st = "none"
        BY DEF InsertedFirst
    <2>1. connectionId[n] = 0 => tasks'[n] = tasks[n]
        BY PostedTypes
    <2>2. connectionId[n] = 0 => session'[n] = session[n]
        BY DEF CMTypeOK
    <2> QED BY <2>1, <2>2 DEF InsertedFirst
<1>4. EntriesFit'
    BY DEF EntriesFit
<1>5. RegisteredUntilEnd'
    <2>1. mute \subseteq mute'
        BY PostedTypes
    <2>2. \A n \in Conn : PostedEnd(n) => PostedEnd(n)'
        BY PostedTypes DEF PostedEnd, Types
    <2> QED BY <2>1, <2>2 DEF RegisteredUntilEnd, SerialUnique
<1> QED BY <1>2, <1>3, <1>4, <1>5

LEMMA ConnectKeeps == ASSUME IInv, NEW n \in Conn, ConnectNative(n) PROVE IInv'
<1> USE CMAssumption DEF CallerAssumption, ConnectNative, InsertConnection, IInv, jsVars
<1>1. TypeOK'
    BY SourceTypes DEF CMTypeOK
<1>2. CMTypeOK'
    BY <1>1 DEF CMTypeOK, Serial
<1>3. connectionId[n] = 0 /\ n \notin heard /\ serialNumber \in Serial
    BY DEF InsertedFirst, CMTypeOK
<1>4. InsertedFirst'
    BY <1>3 DEF InsertedFirst, CMTypeOK, Serial
<1>5. \A k \in Serial : connects[k] # NoConn => connects[k] # n
    BY <1>3 DEF EntriesFit, Serial
<1>6. EntriesFit'
    BY <1>3, <1>5 DEF EntriesFit, CMTypeOK
<1>7. ASSUME NEW m \in Conn, m # n
      PROVE  /\ connectionId'[m] # 0 /\ SerialUnique(m)' /\ m \notin mute' =>
                   connects'[connectionId'[m]] = m \/ m \in heard' \/ PostedEnd(m)'
             /\ m \in heard' => connects'[connectionId'[m]] # m
    <2>1. connectionId'[m] = connectionId[m]
        BY <1>7 DEF CMTypeOK
    <2>2. SerialUnique(m)' /\ connectionId[m] # 0 => SerialUnique(m)
        BY <1>3, <1>7, <2>1 DEF SerialUnique, CMTypeOK
    <2>3. connects[connectionId[m]] = m /\ connectionId[m] # 0 =>
              connects'[connectionId[m]] = m
        BY <1>3 DEF CMTypeOK
    <2>4. m \in heard => connectionId[m] \in Serial /\ connects'[connectionId[m]] # m
        BY <1>3, <1>7 DEF CMTypeOK, InsertedFirst, RegisteredUntilEnd
    <2> QED BY <2>1, <2>2, <2>3, <2>4 DEF RegisteredUntilEnd, PostedEnd
<1>8. SerialUnique(n)' => connects[serialNumber] = NoConn
    <2> SUFFICES ASSUME SerialUnique(n)', connects[serialNumber] # NoConn
                 PROVE  FALSE
        OBVIOUS
    <2>1. connects[serialNumber] \in Conn
        BY <1>3 DEF CMTypeOK
    <2>2. connectionId[connects[serialNumber]] = serialNumber
        BY <1>3 DEF EntriesFit
    <2> QED BY <1>3, <1>5, <2>1, <2>2 DEF SerialUnique, CMTypeOK
<1>9. RegisteredUntilEnd'
    BY <1>3, <1>7, <1>8 DEF RegisteredUntilEnd, CMTypeOK
<1> QED BY <1>2, <1>4, <1>6, <1>9

(* JavaScript hears a callback of n, out of the posted ones or in place.   *)
LEMMA InvokeKeeps ==
    ASSUME IInv, NEW n \in Conn, NEW t \in Types,
           InvokeConnectNativeCallback(n, t), connectionId[n] # 0,
           tasks' \in [Conn -> [Types -> Nat]],
           \A m \in Conn, u \in Types :
               m # n \/ u # t => tasks'[m][u] = tasks[m][u],
           work' \in [Call -> {"none", "busy", "refused", "sent", "done"}],
           \A c \in Conn : work'[c] = "none" <=> work[c] = "none",
           UNCHANGED <<session, vars>>
    PROVE  IInv'
<1> USE CMAssumption DEF CallerAssumption, IInv
<1>1. TypeOK'
    BY SourceTypes DEF CMTypeOK
<1>2. CMTypeOK'
    BY <1>1, InvokedTypes DEF CMTypeOK
<1>3. connectionId[n] \in Serial
    BY DEF CMTypeOK
<1>4. InsertedFirst'
    BY InvokedTypes DEF InsertedFirst, CMTypeOK
<1>5. EntriesFit'
    <2>1. CASE connects' = connects
        BY <2>1, InvokedTypes DEF EntriesFit
    <2>2. CASE connects' = [connects EXCEPT ![connectionId[n]] = NoConn]
        BY <2>2, InvokedTypes DEF EntriesFit, CMTypeOK
    <2> QED BY <2>1, <2>2, InvokedTypes
<1>6. ASSUME NEW m \in Conn
      PROVE  /\ connectionId'[m] # 0 /\ SerialUnique(m)' /\ m \notin mute' =>
                   connects'[connectionId'[m]] = m \/ m \in heard' \/ PostedEnd(m)'
             /\ m \in heard' => connects'[connectionId'[m]] # m
    <2>1. CASE t \notin Ends
        <3>1. /\ connects' = connects /\ heard' = heard /\ connectionId' = connectionId
              /\ mute \subseteq mute'
            BY <2>1, InvokedTypes
        <3>2. PostedEnd(m)' <=> PostedEnd(m)
            BY <2>1 DEF PostedEnd, Types
        <3> QED BY <3>1, <3>2 DEF RegisteredUntilEnd, SerialUnique
    <2>2. CASE t \in Ends /\ m = n
        <3>1. CASE connects' = connects /\ heard' = heard /\ n \in mute'
            BY <2>2, <3>1, InvokedTypes DEF RegisteredUntilEnd
        <3>2. CASE /\ connects' = [connects EXCEPT ![connectionId[n]] = NoConn]
                   /\ heard' = heard \cup {n}
            BY <1>3, <2>2, <3>2, InvokedTypes DEF CMTypeOK
        <3> QED BY <2>2, <3>1, <3>2, InvokedTypes
    <2>3. CASE t \in Ends /\ m # n
        <3>1. /\ connectionId' = connectionId /\ mute \subseteq mute'
              /\ \/ connects' = connects
                 \/ connects' = [connects EXCEPT ![connectionId[n]] = NoConn]
              /\ m \in heard' <=> m \in heard
            BY <2>3, InvokedTypes
        <3>2. SerialUnique(m)' => SerialUnique(m) /\ connectionId[n] # connectionId[m]
            BY <2>3, <3>1 DEF SerialUnique
        <3>3. PostedEnd(m)' <=> PostedEnd(m)
            BY <2>3 DEF PostedEnd, Types
        <3>4. connectionId[m] # 0 => connectionId[m] \in Serial
            BY DEF CMTypeOK
        <3>5. m \in heard => connectionId[m] # 0
            BY DEF InsertedFirst
        <3> QED BY <2>3, <3>1, <3>2, <3>3, <3>4, <3>5 DEF RegisteredUntilEnd, CMTypeOK
    <2> QED BY <2>1, <2>2, <2>3
<1>7. RegisteredUntilEnd'
    BY <1>6 DEF RegisteredUntilEnd
<1> QED BY <1>2, <1>4, <1>5, <1>7

(* Every entry fails and goes.                                             *)
LEMMA FailAllKeeps == ASSUME IInv, NEW i \in Start, ServiceDied(i) PROVE IInv'
<1> USE DEF IInv, ServiceDied, FailAll
<1>1. TypeOK'
    BY SourceTypes DEF CMTypeOK
<1> DEFINE ns == {connects[k] : k \in Serial} \ {NoConn}
<1>2. ns \in SUBSET Conn
    BY DEF CMTypeOK
<1>3. \A n \in ns : connectionId[n] # 0
    BY DEF EntriesFit, CMTypeOK, Serial
<1>4. "failed" \in Types /\ "failed" \in Ends
    BY DEF Types, Ends
<1>5. DoJsExtensionConnectCallback(ns, "failed")
    OBVIOUS
<1> HIDE DEF ns
<1>6. CMTypeOK'
    BY <1>1, <1>2, <1>4, <1>5, PostedTypes DEF CMTypeOK
<1>7. InsertedFirst'
    <2>1. \A n \in Conn : connectionId[n] = 0 => tasks'[n] = tasks[n]
        BY <1>2, <1>3, <1>4, <1>5, PostedTypes
    <2> QED BY <2>1 DEF InsertedFirst
<1>8. EntriesFit'
    BY DEF EntriesFit
<1>9. ASSUME NEW n \in Conn
      PROVE  /\ connectionId'[n] # 0 /\ SerialUnique(n)' /\ n \notin mute' =>
                   connects'[connectionId'[n]] = n \/ n \in heard' \/ PostedEnd(n)'
             /\ n \in heard' => connects'[connectionId'[n]] # n
    <2>1. connectionId[n] # 0 => connectionId[n] \in Serial
        BY DEF CMTypeOK
    <2>2. n \in heard => connectionId[n] # 0
        BY DEF InsertedFirst
    <2>3. connectionId[n] # 0 => connects'[connectionId[n]] # n
        BY <2>1, CMAssumption DEF CallerAssumption
    <2>4. n \notin mute' => n \notin mute
        BY <1>2, <1>4, <1>5, PostedTypes
    <2>5. PostedEnd(n) => PostedEnd(n)'
        BY <1>2, <1>4, <1>5, PostedTypes DEF PostedEnd, Types
    <2>6. connectionId[n] # 0 /\ connects[connectionId[n]] = n => n \in ns
        BY <2>1, CMAssumption DEF ns, CallerAssumption
    <2>7. n \in ns => PostedEnd(n)' \/ n \in mute'
        <3> SUFFICES ASSUME n \in ns, n \notin mute' PROVE tasks'[n]["failed"] > 0
            BY <1>4 DEF PostedEnd
        <3>1. tasks'[n]["failed"] = tasks[n]["failed"] + 1
            BY <1>2, <1>4, <1>5, PostedTypes
        <3>2. tasks[n]["failed"] \in Nat
            BY <1>4 DEF CMTypeOK
        <3> QED BY <3>1, <3>2
    <2>8. SerialUnique(n)' => SerialUnique(n)
        BY DEF SerialUnique
    <2> QED
        BY <2>2, <2>3, <2>4, <2>5, <2>6, <2>7, <2>8 DEF RegisteredUntilEnd
<1>10. RegisteredUntilEnd'
    BY <1>9 DEF RegisteredUntilEnd
<1> QED BY <1>6, <1>7, <1>8, <1>10

LEMMA StepKeeps == ASSUME IInv, [CMNext]_<<cmVars, vars>> PROVE IInv'
<1> USE CMAssumption DEF CallerAssumption
<1> DEFINE W == {"busy", "refused", "sent", "done"}
<1>1. ASSUME NEW n \in Conn, ConnectNative(n) PROVE IInv'
    BY <1>1, ConnectKeeps
<1>2. ASSUME NEW n \in Conn, ConnectNativeExcute(n) PROVE IInv'
    <2> USE <1>2 DEF ConnectNativeExcute, HasProxy
    <2>1. n \in Call /\ work[n] # "none"
        BY DEF IInv
    <2>2. CASE UNCHANGED session
        <3>1. PICK w \in W : work' = [work EXCEPT ![n] = w]
            BY <2>2
        <3> QED BY <2>1, <2>2, <3>1, WorkKeeps
    <2>3. CASE /\ result[n] # 0 /\ result[n] = running
               /\ session' = [session EXCEPT ![n] = [start |-> running, st |-> "accepted"]]
               /\ work' = [work EXCEPT ![n] = "sent"]
        <3> USE <2>3 DEF IInv, managerVars, jsVars
        <3>1. TypeOK' /\ running \in Start \cup {0}
            BY SourceTypes, PSAssumption DEF CMTypeOK, TypeOK, Start, SourceAssumption
        <3>2. CMTypeOK'
            BY <3>1 DEF CMTypeOK
        <3>3. InsertedFirst'
            BY <2>1 DEF InsertedFirst, CMTypeOK
        <3>4. EntriesFit' /\ RegisteredUntilEnd'
            BY DEF EntriesFit, RegisteredUntilEnd, SerialUnique, PostedEnd
        <3> QED BY <3>2, <3>3, <3>4
    <2> QED BY <2>2, <2>3
<1>3. ASSUME NEW n \in Conn, ConnectNativeComplete(n) PROVE IInv'
    <2> USE <1>3 DEF ConnectNativeComplete
    <2>1. n \in Call /\ work[n] # "none" /\ connectionId[n] # 0
        BY DEF IInv, InsertedFirst
    <2>2. CASE InvokeConnectNativeCallback(n, "failed")
        <3>1. "failed" \in Types
            BY DEF Types, Ends
        <3>2. /\ work' \in [Call -> {"none", "busy", "refused", "sent", "done"}]
              /\ \A c \in Conn : work'[c] = "none" <=> work[c] = "none"
              /\ tasks' \in [Conn -> [Types -> Nat]]
            BY <2>1 DEF IInv, CMTypeOK
        <3> QED BY <2>1, <2>2, <3>1, <3>2, InvokeKeeps
    <2>3. CASE UNCHANGED <<managerVars, heard, mute>>
        BY <2>1, <2>3, WorkKeeps DEF jsVars
    <2> QED BY <2>2, <2>3
<1>4. ASSUME NEW n \in Conn, NEW t \in Types, UvInvokeConnectNativeCallback(n, t)
      PROVE  IInv'
    <2> USE <1>4 DEF UvInvokeConnectNativeCallback
    <2>1. connectionId[n] # 0
        BY DEF IInv, InsertedFirst, CMTypeOK
    <2>2. /\ tasks' \in [Conn -> [Types -> Nat]]
          /\ \A m \in Conn, u \in Types : m # n \/ u # t => tasks'[m][u] = tasks[m][u]
        BY DEF IInv, CMTypeOK
    <2>3. work' \in [Call -> {"none", "busy", "refused", "sent", "done"}]
        BY DEF IInv, CMTypeOK
    <2> QED BY <2>1, <2>2, <2>3, InvokeKeeps
<1>5. ASSUME NEW n \in Conn, SessionConnects(n) \/ SessionEnds(n) PROVE IInv'
    <2>1. connectionId[n] # 0
        BY <1>5 DEF IInv, InsertedFirst, SessionConnects, SessionEnds, Served
    <2>2. PICK t \in Types, s \in [start : Start \cup {0},
                                  st : {"none", "accepted", "connected", "ended"}] :
              /\ DoJsExtensionConnectCallback({n}, t)
              /\ session' = [session EXCEPT ![n] = s]
        <3>1. session[n] \in [start : Start \cup {0},
                              st : {"none", "accepted", "connected", "ended"}]
            BY DEF IInv, CMTypeOK
        <3>2. CASE SessionConnects(n)
            BY <3>1, <3>2 DEF SessionConnects, Types
        <3>3. CASE SessionEnds(n)
            BY <3>1, <3>3 DEF SessionEnds, EndSession, Types, Ends
        <3> QED BY <1>5, <3>2, <3>3
    <2>3. UNCHANGED <<managerVars, work, heard, vars>>
        BY <1>5 DEF SessionConnects, SessionEnds
    <2>4. /\ work' \in [Call -> {"none", "busy", "refused", "sent", "done"}]
          /\ \A c \in Conn : work'[c] = work[c]
        BY <2>3 DEF IInv, CMTypeOK
    <2> QED BY <2>1, <2>2, <2>3, <2>4, PostKeeps
<1>6. ASSUME NEW d \in Disc, DisconnectNative(d) PROVE IInv'
    BY <1>6, WorkKeeps DEF DisconnectNative
<1>7. ASSUME NEW d \in Disc, DisconnectNativeExcute(d) PROVE IInv'
    <2> USE <1>7 DEF DisconnectNativeExcute
    <2>1. CASE Served(OfConn[d]) /\ EndSession(OfConn[d], "disconnect")
        <3>1. OfConn[d] \in Conn /\ "disconnect" \in Types
            BY DEF Types, Ends
        <3>2. connectionId[OfConn[d]] # 0
            BY <2>1, <3>1 DEF IInv, InsertedFirst, Served
        <3>3. session[OfConn[d]] \in [start : Start \cup {0},
                                      st : {"none", "accepted", "connected", "ended"}]
            BY <3>1 DEF IInv, CMTypeOK
        <3>4. PICK s \in [start : Start \cup {0},
                          st : {"none", "accepted", "connected", "ended"}] :
                  session' = [session EXCEPT ![OfConn[d]] = s]
            BY <2>1, <3>3 DEF EndSession
        <3>5. /\ work' \in [Call -> {"none", "busy", "refused", "sent", "done"}]
              /\ \A c \in Conn : work'[c] = work[c]
            BY DEF IInv, CMTypeOK, Disc
        <3>6. DoJsExtensionConnectCallback({OfConn[d]}, "disconnect")
            BY <2>1 DEF EndSession
        <3>7. UNCHANGED <<managerVars, heard, vars>>
            OBVIOUS
        <3> DEFINE n == OfConn[d]
        <3>8. /\ {n} \in SUBSET Conn /\ \A m \in {n} : connectionId[m] # 0
              /\ n \in {n} /\ DoJsExtensionConnectCallback({n}, "disconnect")
              /\ session' = [session EXCEPT ![n] = s]
            BY <3>1, <3>2, <3>4, <3>6
        <3> HIDE DEF n
        <3> QED BY <3>1, <3>5, <3>7, <3>8, PostKeeps
    <2>2. CASE UNCHANGED <<session, tasks, mute>>
        BY <2>2, WorkKeeps DEF jsVars
    <2> QED BY <2>1, <2>2
<1>8. ASSUME NEW c \in Call, AskForProxy(c) PROVE IInv'
    BY <1>8, SourceTypes, LibraryKeeps DEF AskForProxy, IInv, CMTypeOK
<1>9. ASSUME NEW i \in Start, ServiceDied(i) PROVE IInv'
    BY <1>9, FailAllKeeps
<1>10. CASE ServiceStep \/ UNCHANGED <<cmVars, vars>>
    BY <1>10, SourceTypes, LibraryKeeps DEF ServiceStep, IInv, CMTypeOK
<1> QED
    BY <1>1, <1>2, <1>3, <1>4, <1>5, <1>6, <1>7, <1>8, <1>9, <1>10
       DEF CMNext, ConnStep

----------------------------------------------------------------------------
(* The death of a start that is told.                                      *)

(* What has been told is over, and a start has accepted only connections   *)
(* that had their serial number.                                           *)
ToldIsOver == running \notin told
AcceptedInserted == \A n \in Conn : session[n].start # 0 => connectionId[n] # 0

DInv == ToldIsOver /\ AcceptedInserted /\ ToldDeathIsPosted

LEMMA InitDInv == CMInit => DInv
BY DEF CMInit, Init, DInv, ToldIsOver, AcceptedInserted, ToldDeathIsPosted

(* A new start has a number of its own, and what runs is not told.         *)
LEMMA ToldIsOverKept ==
    ASSUME IInv, ToldIsOver, [CMNext]_<<cmVars, vars>> PROVE ToldIsOver'
<1> USE DEF ToldIsOver
<1>1. running \in Nat /\ starts \in Nat /\ \A i \in told : i \in 1..starts
    BY PSAssumption DEF IInv, CMTypeOK, TypeOK, SourceAssumption
<1>2. CASE UNCHANGED vars
    BY <1>2 DEF vars, serviceVars
<1>3. CASE SaStarts
    BY <1>1, <1>3 DEF SaStarts
<1>4. CASE SaDies
    BY <1>1, <1>4 DEF SaDies
<1>5. ASSUME NEW i \in Start, CallDeathCallback(i) PROVE ToldIsOver'
    BY <1>5 DEF CallDeathCallback, serviceVars
<1>6. ASSUME NEW c \in Call, GetProxy(c) PROVE ToldIsOver'
    BY <1>6 DEF GetProxy, serviceVars
<1> QED
    BY <1>2, <1>3, <1>4, <1>5, <1>6
       DEF CMNext, ConnStep, ConnectNative, ConnectNativeExcute, ConnectNativeComplete,
           UvInvokeConnectNativeCallback, SessionConnects, SessionEnds, DisconnectNative,
           DisconnectNativeExcute, AskForProxy, ServiceDied, ServiceStep

(* Which step changes the start that a connection was accepted by.         *)
LEMMA SessionSteps ==
    ASSUME IInv, [CMNext]_<<cmVars, vars>>, NEW n \in Conn
    PROVE  \/ session'[n].start = session[n].start
           \/ /\ work[n] = "busy"
              /\ session'[n].start = running
              /\ UNCHANGED <<managerVars, jsVars, vars>>
<1> USE DEF IInv, CMTypeOK
<1>1. CASE UNCHANGED session
    BY <1>1
<1>2. ASSUME NEW m \in Conn, ConnectNativeExcute(m), ~UNCHANGED session
      PROVE  \/ session'[n].start = session[n].start
             \/ /\ work[n] = "busy"
                /\ session'[n].start = running
                /\ UNCHANGED <<managerVars, jsVars, vars>>
    BY <1>2 DEF ConnectNativeExcute, HasProxy
<1>3. ASSUME NEW m \in Conn, NEW s \in {"connected", "ended"},
             session' = [session EXCEPT ![m].st = s]
      PROVE  session'[n].start = session[n].start
    BY <1>3
<1>4. \A d \in Disc : OfConn[d] \in Conn
    BY CMAssumption DEF CallerAssumption
<1> QED
    BY <1>1, <1>2, <1>3, <1>4
       DEF CMNext, ConnStep, ConnectNative, ConnectNativeComplete, cmVars,
           UvInvokeConnectNativeCallback, SessionConnects, SessionEnds, EndSession,
           DisconnectNative, DisconnectNativeExcute, AskForProxy, ServiceDied, ServiceStep

(* A connection keeps its serial number.                                   *)
LEMMA NumberKept ==
    ASSUME IInv, [CMNext]_<<cmVars, vars>>, NEW n \in Conn, connectionId[n] # 0
    PROVE  connectionId'[n] = connectionId[n]
<1> USE DEF IInv, managerVars
<1>1. ASSUME NEW m \in Conn, ConnectNative(m) PROVE connectionId'[n] = connectionId[n]
    BY <1>1 DEF ConnectNative, InsertConnection, InsertedFirst, CMTypeOK
<1>2. ASSUME NEW m \in Conn, ConnStep(m) PROVE connectionId' = connectionId
    BY <1>2, InvokedTypes
       DEF ConnStep, ConnectNativeExcute, ConnectNativeComplete,
           UvInvokeConnectNativeCallback, InvokeConnectNativeCallback, RemoveConnection
<1> QED
    BY <1>1, <1>2
       DEF CMNext, cmVars, SessionConnects, SessionEnds, DisconnectNative,
           DisconnectNativeExcute, AskForProxy, ServiceDied, ServiceStep

(* Who shares a serial number now shares it from now on.                   *)
LEMMA UniqueBefore ==
    ASSUME IInv, [CMNext]_<<cmVars, vars>>, NEW n \in Conn, connectionId[n] # 0,
           SerialUnique(n)'
    PROVE  SerialUnique(n)
BY NumberKept DEF SerialUnique

(* An end that is sure stays so, until it is heard.                        *)
LEMMA EndStaysSure ==
    ASSUME IInv, [CMNext]_<<cmVars, vars>>, NEW n \in Conn, EndIsSure(n)
    PROVE  EndIsSure(n)'
<1> USE DEF EndIsSure
<1>1. ASSUME UNCHANGED <<tasks, mute>>, heard \subseteq heard' PROVE EndIsSure(n)'
    BY <1>1 DEF PostedEnd
<1>2. ASSUME NEW ns \in SUBSET Conn, NEW t \in Types,
             DoJsExtensionConnectCallback(ns, t), heard' = heard
      PROVE  EndIsSure(n)'
    BY <1>2, PostedTypes DEF IInv, PostedEnd, Types
<1>3. ASSUME NEW m \in Conn, NEW t \in Types, UvInvokeConnectNativeCallback(m, t)
      PROVE  EndIsSure(n)'
    <2> USE <1>3 DEF UvInvokeConnectNativeCallback, IInv
    <2>1. CASE m = n /\ t \in Ends
        BY <2>1, InvokedTypes
    <2>2. CASE m # n \/ t \notin Ends
        <3>1. PostedEnd(n) => PostedEnd(n)'
            BY <2>2 DEF PostedEnd, CMTypeOK, Types
        <3>2. heard \subseteq heard' /\ mute \subseteq mute'
            BY InvokedTypes
        <3> QED BY <3>1, <3>2
    <2> QED BY <2>1, <2>2
<1>4. ASSUME NEW m \in Conn, ConnStep(m) PROVE EndIsSure(n)'
    <2>1. CASE ConnectNativeExcute(m)
        BY <1>1, <2>1 DEF ConnectNativeExcute, jsVars
    <2>2. CASE ConnectNativeComplete(m)
        <3>1. CASE InvokeConnectNativeCallback(m, "failed")
            <4>1. "failed" \in Types
                BY DEF Types, Ends
            <4>2. heard \subseteq heard' /\ mute \subseteq mute'
                BY <3>1, <4>1, InvokedTypes DEF IInv
            <4> QED BY <2>2, <4>2, <1>1 DEF ConnectNativeComplete, PostedEnd
        <3>2. CASE UNCHANGED <<managerVars, heard, mute>>
            BY <1>1, <2>2, <3>2 DEF ConnectNativeComplete
        <3> QED BY <2>2, <3>1, <3>2 DEF ConnectNativeComplete
    <2> QED BY <1>3, <1>4, <2>1, <2>2 DEF ConnStep
<1>5. ASSUME NEW m \in Conn, SessionConnects(m) \/ SessionEnds(m) PROVE EndIsSure(n)'
    <2>1. PICK t \in Types : DoJsExtensionConnectCallback({m}, t) /\ heard' = heard
        BY <1>5 DEF SessionConnects, SessionEnds, EndSession, Types, Ends
    <2> QED BY <1>2, <2>1
<1>6. ASSUME NEW d \in Disc, DisconnectNativeExcute(d) PROVE EndIsSure(n)'
    <2>1. OfConn[d] \in Conn /\ "disconnect" \in Types
        BY CMAssumption DEF CallerAssumption, Types, Ends
    <2>2. {OfConn[d]} \in SUBSET Conn
        BY <2>1
    <2> QED
        BY <1>1, <1>2, <1>6, <2>1, <2>2 DEF DisconnectNativeExcute, EndSession
<1>7. ASSUME NEW i \in Start, ServiceDied(i) PROVE EndIsSure(n)'
    <2>1. {connects[k] : k \in Serial} \ {NoConn} \in SUBSET Conn /\ "failed" \in Types
        BY DEF IInv, CMTypeOK, Types, Ends
    <2> QED BY <1>2, <1>7, <2>1 DEF ServiceDied, FailAll
<1> QED
    BY <1>1, <1>4, <1>5, <1>6, <1>7
       DEF CMNext, ConnectNative, DisconnectNative, AskForProxy, ServiceStep, cmVars, jsVars

(* Every connection in g_connects has its end posted when a death is told. *)
LEMMA DeathPosts ==
    ASSUME IInv, NEW i \in Start, ServiceDied(i), NEW n \in Conn,
           connectionId[n] # 0, SerialUnique(n)
    PROVE  EndIsSure(n)'
<1> USE DEF IInv
<1> DEFINE ns == {connects[k] : k \in Serial} \ {NoConn}
<1>1. ns \in SUBSET Conn /\ "failed" \in Types /\ "failed" \in Ends
    BY DEF CMTypeOK, Types, Ends
<1>2. DoJsExtensionConnectCallback(ns, "failed")
    BY DEF ServiceDied, FailAll
<1>3. CASE connects[connectionId[n]] = n
    <2>1. n \in ns
        BY <1>3, CMAssumption DEF CMTypeOK, CallerAssumption
    <2> HIDE DEF ns
    <2>2. tasks'[n]["failed"] = tasks[n]["failed"] + 1 \/ n \in mute'
        BY <1>1, <1>2, <2>1, PostedTypes
    <2>3. tasks[n]["failed"] \in Nat
        BY <1>1 DEF CMTypeOK
    <2>4. n \in mute' \/ tasks'[n]["failed"] > 0
        BY <2>2, <2>3
    <2> QED BY <1>1, <2>4 DEF EndIsSure, PostedEnd
<1>4. CASE connects[connectionId[n]] # n
    <2>1. EndIsSure(n)
        BY <1>4 DEF RegisteredUntilEnd, EndIsSure
    <2>2. CMNext
        BY DEF CMNext
    <2> QED BY <2>1, <2>2, EndStaysSure
<1> QED BY <1>3, <1>4

LEMMA DStepKeeps == ASSUME IInv, DInv, [CMNext]_<<cmVars, vars>> PROVE DInv'
<1> USE DEF DInv
<1>1. ToldIsOver'
    BY ToldIsOverKept
<1>2. AcceptedInserted'
    <2> SUFFICES ASSUME NEW n \in Conn, session'[n].start # 0
                 PROVE  connectionId'[n] # 0
        BY DEF AcceptedInserted
    <2>1. connectionId[n] # 0
        BY SessionSteps DEF AcceptedInserted, IInv, InsertedFirst
    <2> QED BY <2>1, NumberKept
<1>3. ASSUME NEW n \in Conn, session'[n].start \in told', SerialUnique(n)'
      PROVE  EndIsSure(n)'
    <2>1. session'[n].start = session[n].start
        BY <1>3, SessionSteps DEF ToldIsOver, vars
    <2>2. connectionId[n] # 0
        <3>1. 0 \notin told'
            BY StepKeeps DEF IInv, CMTypeOK, TypeOK
        <3> QED BY <1>3, <2>1, <3>1 DEF AcceptedInserted
    <2>3. SerialUnique(n)
        BY <1>3, <2>2, UniqueBefore
    <2>4. CASE session[n].start \in told
        BY <2>3, <2>4, EndStaysSure DEF ToldDeathIsPosted
    <2>5. CASE session[n].start \notin told
        <3>1. told' # told
            BY <1>3, <2>1, <2>5
        <3>2. PICK i \in Start : ServiceDied(i)
            BY <3>1
               DEF CMNext, ConnStep, ConnectNative, ConnectNativeExcute,
                   ConnectNativeComplete, UvInvokeConnectNativeCallback, SessionConnects,
                   SessionEnds, DisconnectNative, DisconnectNativeExcute, AskForProxy,
                   GetProxy, ServiceStep, SaStarts, SaDies, vars
        <3> QED BY <2>2, <2>3, <3>2, DeathPosts
    <2> QED BY <2>4, <2>5
<1> QED BY <1>1, <1>2, <1>3 DEF ToldDeathIsPosted

----------------------------------------------------------------------------
(* The theorems.                                                           *)

THEOREM Invariant == CMSpec => []IInv
BY InitIInv, StepKeeps, PTL DEF CMSpec

(* The registry, the works, the sessions and the posted callbacks keep     *)
(* their types, over every wrap of the serial number.                      *)
THEOREM TypeCorrect == CMSpec => []CMTypeOK
<1>1. IInv => CMTypeOK
    BY DEF IInv
<1> QED BY <1>1, Invariant, PTL

(* A connection stays in g_connects until its end is heard or posted, and  *)
(* is out of it once it is heard.                                          *)
THEOREM Registered == CMSpec => []RegisteredUntilEnd
<1>1. IInv => RegisteredUntilEnd
    BY DEF IInv
<1> QED BY <1>1, Invariant, PTL

(* Once the service's death is told, a connection which it had accepted    *)
(* and whose serial number is its own has its end posted, or has lost a    *)
(* callback or heard its end: the safety half of DeathIsHeard, which is    *)
(* left with the event loop.                                               *)
THEOREM DeathIsPosted == CMSpec => []ToldDeathIsPosted
<1>1. IInv /\ DInv /\ [CMNext]_<<cmVars, vars>> => DInv'
    BY DStepKeeps
<1>2. DInv => ToldDeathIsPosted
    BY DEF DInv
<1> QED BY <1>1, <1>2, InitDInv, Invariant, PTL DEF CMSpec

(* Whatever the order in which ends are posted, run and repeated, an entry *)
(* whose serial number is its own goes by its own end or by the service's  *)
(* death.                                                                  *)
THEOREM Removed == CMSpec => RemovedByOwnEnd
<1> DEFINE Own ==
        \A k \in Serial :
            connects[k] # NoConn /\ connects'[k] # connects[k] /\ SerialUnique(connects[k]) =>
                \/ connects[k] \in heard' \ heard
                \/ \E i \in Start : ServiceDied(i)
<1>1. IInv /\ [CMNext]_<<cmVars, vars>> => [Own]_<<cmVars, vars>>
    <2> SUFFICES ASSUME IInv, CMNext, NEW k \in Serial,
                        connects[k] # NoConn, connects'[k] # connects[k],
                        SerialUnique(connects[k])
                 PROVE  \/ connects[k] \in heard' \ heard
                        \/ \E i \in Start : ServiceDied(i)
        OBVIOUS
    <2> DEFINE m == connects[k]
    <2>1. m \in Conn /\ connectionId[m] = k
        BY DEF IInv, CMTypeOK, EntriesFit
    <2>2. m \notin heard
        BY <2>1 DEF IInv, RegisteredUntilEnd
    <2>3. ASSUME UNCHANGED managerVars PROVE FALSE
        BY <2>3 DEF managerVars
    <2>4. ASSUME NEW n \in Conn, ConnectNative(n) PROVE FALSE
        BY <2>4 DEF ConnectNative, InsertConnection, IInv, CMTypeOK
    <2>5. ASSUME NEW n \in Conn, NEW t \in Types, InvokeConnectNativeCallback(n, t)
          PROVE  m \in heard' \ heard
        <3>1. /\ connects' = [connects EXCEPT ![connectionId[n]] = NoConn]
              /\ heard' = heard \cup {n}
            BY <2>3, <2>5 DEF InvokeConnectNativeCallback, RemoveConnection, managerVars
        <3>2. connectionId[n] = k
            BY <3>1 DEF IInv, CMTypeOK
        <3>3. n = m
            BY <2>1, <3>2 DEF SerialUnique
        <3> QED BY <2>2, <3>1, <3>3
    <2>6. ASSUME NEW n \in Conn, ConnStep(n) PROVE m \in heard' \ heard
        <3>1. CASE ConnectNativeExcute(n)
            BY <2>3, <3>1 DEF ConnectNativeExcute
        <3>2. CASE ConnectNativeComplete(n)
            BY <2>3, <2>5, <3>2 DEF ConnectNativeComplete, Types, Ends, managerVars
        <3>3. ASSUME NEW t \in Types, UvInvokeConnectNativeCallback(n, t)
              PROVE  m \in heard' \ heard
            BY <2>5, <3>3 DEF UvInvokeConnectNativeCallback
        <3> QED BY <2>6, <3>1, <3>2, <3>3 DEF ConnStep
    <2>7. ASSUME NEW n \in Conn, SessionConnects(n) \/ SessionEnds(n) PROVE FALSE
        BY <2>3, <2>7 DEF SessionConnects, SessionEnds
    <2>8. ASSUME NEW d \in Disc, DisconnectNative(d) \/ DisconnectNativeExcute(d)
          PROVE  FALSE
        BY <2>3, <2>8 DEF DisconnectNative, DisconnectNativeExcute
    <2>9. ASSUME NEW c \in Call, AskForProxy(c) PROVE FALSE
        BY <2>3, <2>9 DEF AskForProxy, cmVars
    <2>10. CASE ServiceStep
        BY <2>3, <2>10 DEF ServiceStep, cmVars
    <2> QED
        BY <2>4, <2>6, <2>7, <2>8, <2>9, <2>10 DEF CMNext
<1> QED BY <1>1, Invariant, PTL DEF CMSpec, RemovedByOwnEnd
=============================================================================
