----------------------- MODULE JsObjectRegistryProofs ------------------------
(***************************************************************************)
(* Proofs about the registry of JavaScript objects, for every set of       *)
(* objects, names and frames and any number of ids: what the registry      *)
(* holds and drops, and that no call waits for a thread that waits for it. *)
(***************************************************************************)
EXTENDS JsObjectRegistry, FiniteSetTheorems, TLAPS

\* Ids are handed out in order, so a fresh id is not in use.
IdsInOrder == \A i \in objects : i < nextId

\* The engine forgets an id when it sends the release and is not told it again
\* until the release is through.
ReleasedIsGone ==
    \A f \in Frames, i \in Ids : Releasing(f, i) => i \notin proxies[f]

IInv ==
    /\ TypeOK
    /\ IdsInOrder
    /\ RetainedWhileUsed
    /\ NamesCounted
    /\ HeldIdIsLive
    /\ OneIdPerObject
    /\ ReleasedIsGone

USE ObjectsAssumption, FramesAssumption, MaxIdAssumption

-----------------------------------------------------------------------------
(* What the steps of the registry do to the invariant. *)

\* A fresh id is in no container, has no name and no holder.
LEMMA FreshId ==
    ASSUME IInv, nextId \in Ids
    PROVE  /\ nextId \notin objects /\ nextId \notin retained
           /\ names[nextId] = 0 /\ holders[nextId] = {}
           /\ \A n \in Names : named[n] # nextId
           /\ \A f \in Frames : nextId \notin proxies[f]
<1>1. nextId \notin objects
  BY DEF IInv, IdsInOrder, TypeOK, Ids
<1>2. nextId \notin retained
  BY <1>1 DEF IInv, RetainedWhileUsed
<1>3. names[nextId] = 0 /\ holders[nextId] = {}
  BY <1>2 DEF IInv, RetainedWhileUsed, TypeOK
<1>4. \A n \in Names : named[n] # nextId
  BY <1>1 DEF IInv, NamesCounted, Ids, NoId
<1>5. \A f \in Frames : nextId \notin proxies[f]
  BY <1>1 DEF IInv, HeldIdIsLive
<1> QED BY <1>1, <1>2, <1>3, <1>4, <1>5

\* How many names lead to id i.
Count(i) == Cardinality({m \in Names : named[m] = i})

\* Name n is given id v, or no id.
Renamed(n, v) == named' = [named EXCEPT ![n] = v]

\* A name leads to one id: the count of the id it leaves falls by one and the
\* count of the id it gets grows by one, as RemoveName and AddName do.
LEMMA CountOfNames ==
    ASSUME IInv, NEW n \in Names, NEW v \in Ids \cup {NoId}, named[n] # v,
           Renamed(n, v), NEW k \in Ids
    PROVE  /\ names[k] \in Nat
           /\ k = v => Count(k)' = names[k] + 1
           /\ k = named[n] => Count(k)' = names[k] - 1 /\ names[k] > 0
           /\ k # v /\ k # named[n] => Count(k)' = names[k]
<1> DEFINE S == {m \in Names : named[m] = k}
           T == {m \in Names : named'[m] = k}
<1>1. named \in [Names -> Ids \cup {NoId}] /\ names[k] \in Nat
  BY DEF IInv, TypeOK
<1>2. IsFiniteSet(S)
  BY NamesAssumption, FS_Subset
<1>3. names[k] = Cardinality(S)
  BY DEF IInv, NamesCounted
<1>4. Count(k)' = Cardinality(T)
  BY DEF Count
<1>5. ASSUME k = v PROVE Cardinality(T) = Cardinality(S) + 1
  <2>1. T = S \cup {n} /\ n \notin S
    BY <1>1, <1>5 DEF Renamed
  <2> QED BY <1>2, <2>1, FS_AddElement
<1>6. ASSUME k = named[n] PROVE Cardinality(T) = Cardinality(S) - 1 /\ Cardinality(S) # 0
  <2>1. T = S \ {n} /\ n \in S
    BY <1>1, <1>6 DEF Renamed
  <2>2. Cardinality(T) = Cardinality(S) - 1
    BY <1>2, <2>1, FS_RemoveElement
  <2>3. Cardinality(S) # 0
    BY <1>2, <2>1, FS_EmptySet
  <2> QED BY <2>2, <2>3
<1>7. ASSUME k # v, k # named[n] PROVE T = S
  BY <1>1, <1>7 DEF Renamed
<1> HIDE DEF S, T
<1> QED BY <1>1, <1>3, <1>4, <1>5, <1>6, <1>7

\* The part of TypeOK that is about calls and tasks.
CallsOK ==
    /\ call \in [Frames -> [op : Ops, id : Ids \cup {NoId},
                            st : {"idle", "wait", "run", "lost"}]]
    /\ running \in Frames \cup {Nobody}

\* The step sends no release.
NoNewRelease ==
    \A f \in Frames, i \in Ids : Releasing(f, i)' => Releasing(f, i)

\* An object that is shared gains a holder before its id is told; a fresh one has
\* the id no other object has.
LEMMA ShareKeeps ==
    ASSUME IInv, NEW f \in Frames, NEW j \in Objects, Share(f, j), CallsOK', NoNewRelease
    PROVE  IInv'
<1> USE DEF Tell
<1>1. CASE \E i \in FindObjectId(j) :
              /\ holders' = [holders EXCEPT ![i] = @ \cup {f}]
              /\ UNCHANGED <<objects, retained, js, nextId>>
              /\ Tell(f, i)
  <2> PICK i \in FindObjectId(j) :
              /\ holders' = [holders EXCEPT ![i] = @ \cup {f}]
              /\ UNCHANGED <<objects, retained, js, nextId>>
              /\ Tell(f, i)
    BY <1>1
  <2>1. i \in objects /\ i \in Ids
    BY DEF IInv, TypeOK, FindObjectId
  <2>2. TypeOK'
    BY <2>1 DEF IInv, TypeOK, Share, CallsOK
  <2>3. IdsInOrder' /\ OneIdPerObject'
    BY DEF IInv, IdsInOrder, OneIdPerObject
  <2>4. RetainedWhileUsed'
    BY <2>1 DEF IInv, TypeOK, RetainedWhileUsed, Share
  <2>5. NamesCounted'
    BY DEF IInv, NamesCounted, Share
  <2>6. HeldIdIsLive'
    BY <2>1 DEF IInv, TypeOK, HeldIdIsLive
  <2>7. ReleasedIsGone'
    BY DEF IInv, TypeOK, ReleasedIsGone, NoNewRelease
  <2> QED BY <2>2, <2>3, <2>4, <2>5, <2>6, <2>7 DEF IInv
<1>2. CASE /\ FindObjectId(j) = {}
           /\ AddObject(j, {f})
           /\ Tell(f, nextId)
  <2> USE <1>2 DEF AddObject
  <2>1. /\ nextId \notin objects /\ nextId \notin retained
        /\ names[nextId] = 0 /\ holders[nextId] = {}
    BY FreshId
  <2>2. TypeOK'
    <3>1. nextId' \in 1..(MaxId + 1)
      BY DEF Ids
    <3> QED BY <3>1 DEF IInv, TypeOK, Share, CallsOK
  <2>3. IdsInOrder'
    BY DEF IInv, IdsInOrder, TypeOK, Ids
  <2>4. RetainedWhileUsed'
    BY DEF IInv, TypeOK, RetainedWhileUsed, Share
  <2>5. NamesCounted'
    BY DEF IInv, NamesCounted, Share
  <2>6. HeldIdIsLive'
    <3> SUFFICES ASSUME NEW g \in Frames, NEW i \in proxies'[g]
                 PROVE  i \in objects' /\ g \in holders'[i]
      BY DEF HeldIdIsLive
    <3>1. holders' \in [Ids -> SUBSET Frames] /\ i \in Ids
      BY <2>2 DEF TypeOK
    <3>2. i \in proxies[g] \/ (i = nextId /\ g = f)
      BY DEF IInv, TypeOK
    <3>3. CASE i \in proxies[g]
      BY <2>1, <3>1, <3>3 DEF IInv, TypeOK, HeldIdIsLive
    <3>4. CASE i = nextId /\ g = f
      BY <3>1, <3>4 DEF IInv, TypeOK
    <3> QED BY <3>2, <3>3, <3>4
  <2>7. OneIdPerObject'
    BY <2>1 DEF IInv, TypeOK, OneIdPerObject, FindObjectId
  <2>8. ReleasedIsGone'
    BY DEF IInv, TypeOK, ReleasedIsGone, NoNewRelease
  <2> QED BY <2>2, <2>3, <2>4, <2>5, <2>6, <2>7, <2>8 DEF IInv
<1> QED BY <1>1, <1>2 DEF Share

\* Objects without a name are dropped together with all that is known of them.
LEMMA DropKeeps ==
    ASSUME IInv, NEW D, D \subseteq objects, \A i \in D : names[i] = 0,
           Drop(D), CallsOK', NoNewRelease,
           proxies' \in [Frames -> SUBSET Ids],
           \A f \in Frames : proxies'[f] \subseteq proxies[f] \ D
    PROVE  IInv'
<1> USE DEF Drop
<1>1. TypeOK'
  BY DEF IInv, TypeOK, CallsOK
<1>2. IdsInOrder'
  BY DEF IInv, IdsInOrder
<1>3. RetainedWhileUsed'
  BY DEF IInv, TypeOK, RetainedWhileUsed
<1>4. NamesCounted'
  <2>1. names' = names
    BY DEF IInv, TypeOK
  <2>2. \A n \in Names : named[n] \notin D
    <3> SUFFICES ASSUME NEW n \in Names, named[n] \in D PROVE FALSE
      OBVIOUS
    <3> DEFINE S == {m \in Names : named[m] = named[n]}
    <3>1. named[n] \in Ids
      BY DEF IInv, TypeOK
    <3>2. Cardinality(S) = 0
      BY <3>1 DEF IInv, NamesCounted
    <3>3. IsFiniteSet(S)
      BY NamesAssumption, FS_Subset
    <3>4. n \in S
      OBVIOUS
    <3> QED BY <3>2, <3>3, <3>4, FS_EmptySet
  <2> QED BY <2>1, <2>2 DEF IInv, NamesCounted
<1>5. HeldIdIsLive'
  BY DEF IInv, TypeOK, HeldIdIsLive
<1>6. OneIdPerObject'
  BY DEF IInv, TypeOK, OneIdPerObject
<1>7. ReleasedIsGone'
  BY DEF IInv, ReleasedIsGone, NoNewRelease
<1> QED BY <1>1, <1>2, <1>3, <1>4, <1>5, <1>6, <1>7 DEF IInv

-----------------------------------------------------------------------------
(* The steps of Next. *)

\* The names of two objects change when a name passes from one to the other.
LEMMA RegisterKnownKeeps ==
    ASSUME IInv, NEW n \in Names, NEW j \in Objects, RegisterKnown(n, j)
    PROVE  IInv'
<1> USE DEF RegisterKnown
<1> PICK i \in FindObjectId(j) \ {named[n]} :
        /\ named' = [named EXCEPT ![n] = i]
        /\ names' = [k \in Ids |-> IF k = i THEN names[k] + 1
                                   ELSE IF k = named[n] THEN names[k] - 1
                                   ELSE names[k]]
  OBVIOUS
<1>1. i \in objects /\ i \in Ids /\ named[n] # i /\ Renamed(n, i)
  BY DEF Renamed, IInv, TypeOK, FindObjectId
<1>2. NamesCounted'
  <2>1. \A m \in Names : named'[m] # NoId => named'[m] \in objects'
    BY <1>1 DEF IInv, TypeOK, NamesCounted
  <2>2. ASSUME NEW k \in Ids
        PROVE  names'[k] = Count(k)'
    <3>1. /\ names[k] \in Nat
          /\ k = i => Count(k)' = names[k] + 1
          /\ k = named[n] => Count(k)' = names[k] - 1
          /\ k # i /\ k # named[n] => Count(k)' = names[k]
      BY <1>1, <2>2, CountOfNames
    <3> QED BY <1>1, <3>1
  <2> QED BY <2>1, <2>2 DEF NamesCounted, Count
<1>3. TypeOK'
  <2>1. ASSUME NEW k \in Ids PROVE names'[k] \in Nat
    <3>1. named \in [Names -> Ids \cup {NoId}] /\ names[k] \in Nat
      BY DEF IInv, TypeOK
    <3>2. k = named[n] => names[k] > 0
      BY <1>1, CountOfNames
    <3> QED BY <1>1, <3>1, <3>2
  <2>2. names' \in [Ids -> Nat]
    BY <2>1
  <2> QED BY <1>1, <2>2 DEF IInv, TypeOK
<1>4. RetainedWhileUsed'
  <2>1. ASSUME NEW k \in Ids, names'[k] > 0 PROVE k \in objects
    <3>1. names[k] \in Nat
      BY DEF IInv, TypeOK
    <3>2. k = i \/ names[k] > 0
      BY <2>1, <3>1
    <3> QED BY <1>1, <3>2 DEF IInv, RetainedWhileUsed
  <2> QED BY <2>1 DEF IInv, RetainedWhileUsed
<1>5. IdsInOrder' /\ HeldIdIsLive' /\ OneIdPerObject' /\ ReleasedIsGone'
  BY DEF IInv, IdsInOrder, HeldIdIsLive, OneIdPerObject, ReleasedIsGone, Releasing
<1> QED BY <1>2, <1>3, <1>4, <1>5 DEF IInv

\* A new object starts with the one name it is registered under.
LEMMA RegisterNewKeeps ==
    ASSUME IInv, NEW n \in Names, NEW j \in Objects, RegisterNew(n, j)
    PROVE  IInv'
<1> USE DEF RegisterNew, AddObject
<1>1. /\ nextId \notin objects /\ nextId \notin retained
      /\ names[nextId] = 0 /\ holders[nextId] = {}
      /\ \A m \in Names : named[m] # nextId
      /\ \A f \in Frames : nextId \notin proxies[f]
  BY FreshId
<1>2. named \in [Names -> Ids \cup {NoId}] /\ names \in [Ids -> Nat] /\ Renamed(n, nextId)
  BY DEF IInv, TypeOK, Renamed
<1>3. NamesCounted'
  <2>1. \A m \in Names : named'[m] # NoId => named'[m] \in objects'
    BY <1>2 DEF IInv, NamesCounted
  <2>2. ASSUME NEW k \in Ids
        PROVE  names'[k] = Count(k)'
    <3>1. /\ k = nextId => Count(k)' = names[k] + 1
          /\ k = named[n] => Count(k)' = names[k] - 1
          /\ k # nextId /\ k # named[n] => Count(k)' = names[k]
      BY <1>1, <1>2, <2>2, CountOfNames
    <3> QED BY <1>1, <1>2, <3>1
  <2> QED BY <2>1, <2>2 DEF NamesCounted, Count
<1>4. TypeOK'
  <2>1. ASSUME NEW k \in Ids PROVE names'[k] \in Nat
    <3>1. k = named[n] => names[k] > 0
      BY <1>1, <1>2, CountOfNames
    <3> QED BY <1>2, <3>1
  <2>2. names' \in [Ids -> Nat]
    BY <2>1
  <2>3. nextId' \in 1..(MaxId + 1)
    BY DEF Ids
  <2> QED BY <2>2, <2>3 DEF IInv, TypeOK
<1>5. RetainedWhileUsed'
  <2>1. ASSUME NEW k \in Ids, names'[k] > 0 \/ holders'[k] # {} PROVE k \in objects'
    <3>1. k = nextId \/ names[k] > 0 \/ holders[k] # {}
      <4>1. names[k] \in Nat /\ holders \in [Ids -> SUBSET Frames]
        BY DEF IInv, TypeOK
      <4>2. k # nextId => holders'[k] = holders[k]
        BY <4>1
      <4>3. names'[k] > 0 => k = nextId \/ names[k] > 0
        BY <4>1
      <4> QED BY <2>1, <4>2, <4>3
    <3> QED BY <3>1 DEF IInv, RetainedWhileUsed
  <2> QED BY <2>1 DEF IInv, RetainedWhileUsed
<1>6. IdsInOrder'
  BY DEF IInv, IdsInOrder, TypeOK, Ids
<1>7. HeldIdIsLive'
  BY <1>1 DEF IInv, TypeOK, HeldIdIsLive
<1>8. OneIdPerObject'
  BY <1>1 DEF IInv, TypeOK, OneIdPerObject, FindObjectId
<1>9. ReleasedIsGone'
  BY DEF IInv, ReleasedIsGone, Releasing
<1> QED BY <1>3, <1>4, <1>5, <1>6, <1>7, <1>8, <1>9 DEF IInv

\* The object that loses the name had it, so its count does not pass zero.
LEMMA DeleteKeeps ==
    ASSUME IInv, NEW n \in Names, DeleteJavaScriptRegister(n)
    PROVE  IInv'
<1> USE DEF DeleteJavaScriptRegister
<1>1. /\ named \in [Names -> Ids \cup {NoId}] /\ names \in [Ids -> Nat]
      /\ named[n] \in Ids /\ Renamed(n, NoId)
  BY DEF IInv, TypeOK, Renamed
<1>2. NamesCounted'
  <2>1. \A m \in Names : named'[m] # NoId => named'[m] \in objects'
    BY <1>1 DEF IInv, NamesCounted
  <2>2. ASSUME NEW k \in Ids
        PROVE  names'[k] = Count(k)'
    <3>1. k # NoId
      BY DEF Ids, NoId
    <3>2. /\ k = named[n] => Count(k)' = names[k] - 1
          /\ k # named[n] => Count(k)' = names[k]
      BY <1>1, <2>2, <3>1, CountOfNames
    <3> QED BY <1>1, <3>2
  <2> QED BY <2>1, <2>2 DEF NamesCounted, Count
<1>3. TypeOK'
  <2>1. names[named[n]] > 0
    BY <1>1, CountOfNames
  <2>2. names' \in [Ids -> Nat]
    BY <1>1, <2>1
  <2> QED BY <1>1, <2>2 DEF IInv, TypeOK
<1>4. RetainedWhileUsed'
  <2>1. ASSUME NEW k \in Ids, names'[k] > 0 PROVE names[k] > 0
    BY <1>1, <1>3, <2>1 DEF TypeOK
  <2> QED BY <2>1 DEF IInv, RetainedWhileUsed
<1>5. IdsInOrder' /\ HeldIdIsLive' /\ OneIdPerObject' /\ ReleasedIsGone'
  BY DEF IInv, IdsInOrder, HeldIdIsLive, OneIdPerObject, ReleasedIsGone, Releasing
<1> QED BY <1>2, <1>3, <1>4, <1>5 DEF IInv

\* A call that is over sends no release.
LEMMA ReadyIsNoRelease ==
    ASSUME IInv, NEW f \in Frames, Ready(f)
    PROVE  CallsOK' /\ NoNewRelease
BY DEF IInv, TypeOK, CallsOK, Ready, Idle, Ops, NoNewRelease, Releasing

\* The last holder's release drops an object that nobody else holds.
LEMMA ReleaseKeeps ==
    ASSUME IInv, NEW f \in Frames, RemoveJavaScriptObjectHolder(f)
    PROVE  IInv'
<1> DEFINE id == call[f].id
<1>1. Ready(f) /\ CallsOK' /\ NoNewRelease
  BY ReadyIsNoRelease DEF RemoveJavaScriptObjectHolder
<1>2. id \in objects /\ names[id] = 0 /\ id \in Ids
  BY DEF IInv, TypeOK, RemoveJavaScriptObjectHolder
<1>3. id \notin proxies[f]
  BY <1>2 DEF IInv, ReleasedIsGone, Releasing, RemoveJavaScriptObjectHolder, Turn
<1>4. CASE holders[id] \subseteq {f} /\ Drop({id})
  <2>1. \A g \in Frames : id \notin proxies[g]
    BY <1>3, <1>4 DEF IInv, HeldIdIsLive
  <2>2. \A g \in Frames : proxies'[g] \subseteq proxies[g] \ {id}
    BY <2>1 DEF RemoveJavaScriptObjectHolder
  <2>3. proxies' \in [Frames -> SUBSET Ids]
    BY DEF IInv, TypeOK, RemoveJavaScriptObjectHolder
  <2> HIDE DEF id
  <2> QED BY <1>1, <1>2, <1>4, <2>2, <2>3, DropKeeps
<1>5. CASE /\ holders' = [holders EXCEPT ![id] = @ \ {f}]
           /\ UNCHANGED <<objects, retained, js, names, named, nextId>>
  <2> USE <1>5 DEF RemoveJavaScriptObjectHolder
  <2>1. TypeOK'
    BY <1>1, <1>2 DEF IInv, TypeOK, CallsOK
  <2>2. RetainedWhileUsed'
    BY <1>2 DEF IInv, TypeOK, RetainedWhileUsed
  <2>3. HeldIdIsLive'
    BY <1>2, <1>3 DEF IInv, TypeOK, HeldIdIsLive
  <2>4. IdsInOrder' /\ NamesCounted' /\ OneIdPerObject'
    BY DEF IInv, IdsInOrder, NamesCounted, OneIdPerObject
  <2>5. ReleasedIsGone'
    BY <1>1 DEF IInv, ReleasedIsGone, NoNewRelease
  <2> QED BY <2>1, <2>2, <2>3, <2>4, <2>5 DEF IInv
<1> QED BY <1>4, <1>5 DEF RemoveJavaScriptObjectHolder

\* With the document, whatever has no name is dropped and no frame has an id.
LEMMA RemoveTransientKeeps ==
    ASSUME IInv, NEW f \in Frames, RemoveTransientJavaScriptObject(f)
    PROVE  IInv'
<1> DEFINE D == Transient \cup (retained \ objects)
<1>1. CallsOK' /\ NoNewRelease /\ Drop(D)
  BY ReadyIsNoRelease DEF RemoveTransientJavaScriptObject
<1>2. D \subseteq objects /\ \A i \in D : names[i] = 0
  BY DEF IInv, RetainedWhileUsed, Transient
<1>3. /\ proxies' \in [Frames -> SUBSET Ids]
      /\ \A g \in Frames : proxies'[g] \subseteq proxies[g] \ D
  BY DEF RemoveTransientJavaScriptObject
<1> HIDE DEF D
<1> QED BY <1>1, <1>2, <1>3, DropKeeps

\* A call that begins may only take an id away from a frame.
LEMMA StartKeeps ==
    ASSUME IInv, NEW f \in Frames, NEW op \in Ops, NEW id \in Ids \cup {NoId},
           Start(f, op, id), CallsOK',
           \/ call' = call
           \/ \E st \in {"wait", "lost"} :
                call' = [call EXCEPT ![f] = [op |-> op, id |-> id, st |-> st]]
    PROVE  IInv'
<1> USE DEF Start, registry
<1>1. TypeOK'
  BY DEF IInv, TypeOK, CallsOK
<1>2. IdsInOrder' /\ RetainedWhileUsed' /\ NamesCounted' /\ OneIdPerObject'
  BY DEF IInv, IdsInOrder, RetainedWhileUsed, NamesCounted, OneIdPerObject
<1>3. \A g \in Frames : proxies'[g] \subseteq proxies[g]
  BY DEF IInv, TypeOK
<1>4. HeldIdIsLive'
  BY <1>3 DEF IInv, HeldIdIsLive
<1>5. ReleasedIsGone'
  BY <1>3 DEF IInv, TypeOK, ReleasedIsGone, Releasing
<1> QED BY <1>1, <1>2, <1>4, <1>5 DEF IInv

\* A step that leaves the registry and the proxies alone and sends no release.
LEMMA QuietKeeps ==
    ASSUME IInv, UNCHANGED <<registry, proxies>>, CallsOK', NoNewRelease
    PROVE  IInv'
<1> USE DEF registry
<1>1. TypeOK'
  BY DEF IInv, TypeOK, CallsOK
<1>2. ReleasedIsGone'
  BY DEF IInv, ReleasedIsGone, NoNewRelease
<1>3. /\ IdsInOrder' /\ RetainedWhileUsed' /\ NamesCounted'
      /\ HeldIdIsLive' /\ OneIdPerObject'
  BY DEF IInv, IdsInOrder, RetainedWhileUsed, NamesCounted, HeldIdIsLive, OneIdPerObject
<1> QED BY <1>1, <1>2, <1>3 DEF IInv

\* Every step of the system keeps the invariant.
LEMMA NextKeeps == IInv /\ [Next]_vars => IInv'
<1> SUFFICES ASSUME IInv, [Next]_vars PROVE IInv'
  OBVIOUS
<1>1. CASE UNCHANGED vars
  <2>1. UNCHANGED <<registry, proxies>> /\ CallsOK' /\ NoNewRelease
    BY <1>1 DEF vars, IInv, TypeOK, CallsOK, NoNewRelease, Releasing
  <2> QED BY <2>1, QuietKeeps
<1>2. ASSUME NEW n \in Names, NEW j \in Objects, RegisterAgain(n, j) PROVE IInv'
  <2>1. UNCHANGED vars
    BY <1>2 DEF RegisterAgain
  <2> QED BY <1>1, <2>1
<1>3. ASSUME NEW n \in Names, NEW j \in Objects, RegisterKnown(n, j) PROVE IInv'
  BY <1>3, RegisterKnownKeeps
<1>4. ASSUME NEW n \in Names, NEW j \in Objects, RegisterNew(n, j) PROVE IInv'
  BY <1>4, RegisterNewKeeps
<1>5. ASSUME NEW n \in Names, DeleteJavaScriptRegister(n) PROVE IInv'
  BY <1>5, DeleteKeeps
<1>6. ASSUME NEW f \in Frames, NEW j \in Objects, CallH5Function(f, j) PROVE IInv'
  <2>1. CallsOK' /\ NoNewRelease /\ Share(f, j)
    BY <1>6 DEF IInv, TypeOK, CallsOK, NoNewRelease, Releasing, CallH5Function
  <2> QED BY <2>1, ShareKeeps
<1>7. ASSUME NEW f \in Frames, NEW op \in Ops, NEW id \in Ids \cup {NoId},
             Miss(f, op, id) \/ Enter(f, op, id) \/ Post(f, op, id)
      PROVE  IInv'
  <2>1. /\ Start(f, op, id) /\ CallsOK'
        /\ \/ call' = call
           \/ \E st \in {"wait", "lost"} :
                call' = [call EXCEPT ![f] = [op |-> op, id |-> id, st |-> st]]
    BY <1>7 DEF IInv, TypeOK, CallsOK, Miss, Enter, Post, CreateUvQueueWorkEnhanced
  <2> QED BY <2>1, StartKeeps
<1>8. ASSUME NEW f \in Frames, Task(f) PROVE IInv'
  <2>1. ASSUME NEW op \in Ops, Answer(f, op) PROVE IInv'
    BY <2>1, ReadyIsNoRelease, QuietKeeps DEF Answer
  <2>2. ASSUME CallMethod(f) PROVE IInv'
    <3>1. UNCHANGED <<registry, proxies>> /\ CallsOK' /\ NoNewRelease
      BY <2>2 DEF IInv, TypeOK, CallsOK, NoNewRelease, Releasing, CallMethod
    <3> QED BY <3>1, QuietKeeps
  <2> QED BY <1>8, <2>1, <2>2, ReleaseKeeps, RemoveTransientKeeps DEF Task
<1>9. ASSUME NEW f \in Frames, Return(f) PROVE IInv'
  <2>1. ASSUME ReturnValue(f) PROVE IInv'
    BY <2>1, ReadyIsNoRelease, QuietKeeps DEF ReturnValue
  <2>2. ASSUME NEW j \in Objects, ReturnObject(f, j) PROVE IInv'
    BY <2>2, ReadyIsNoRelease, ShareKeeps DEF ReturnObject
  <2> QED BY <1>9, <2>1, <2>2 DEF Return
<1> QED BY <1>1, <1>2, <1>3, <1>4, <1>5, <1>6, <1>7, <1>8, <1>9 DEF Next

\* At the start there is nothing.
LEMMA InitKeeps == Init => IInv
<1> SUFFICES ASSUME Init PROVE IInv
  OBVIOUS
<1> USE DEF Init
<1>1. NamesCounted
  <2>1. ASSUME NEW i \in Ids PROVE {n \in Names : named[n] = i} = {}
    BY <2>1 DEF Ids, NoId
  <2> QED BY <2>1, FS_EmptySet DEF NamesCounted
<1>2. TypeOK
  BY DEF TypeOK, Idle, Ops, NoId
<1>3. IdsInOrder /\ RetainedWhileUsed /\ HeldIdIsLive /\ OneIdPerObject /\ ReleasedIsGone
  BY DEF IdsInOrder, RetainedWhileUsed, HeldIdIsLive, OneIdPerObject, ReleasedIsGone
<1> QED BY <1>1, <1>2, <1>3 DEF IInv

\* The invariant holds in every state.
THEOREM Invariant == Spec => []IInv
BY InitKeeps, NextKeeps, PTL DEF Spec

\* The types of the registry and of the calls.
THEOREM TypeCorrect == Spec => []TypeOK
<1>1. IInv => TypeOK
  BY DEF IInv
<1> QED BY <1>1, Invariant, PTL

\* webview_javascript_result_callback.h:402: a named or held object is retained,
\* and objects_ and retainedObjectSet_ have the same objects.
THEOREM Retained == Spec => []RetainedWhileUsed
<1>1. IInv => RetainedWhileUsed
  BY DEF IInv
<1> QED BY <1>1, Invariant, PTL

\* namesCount_ counts the names of an object, and every name leads to one.
THEOREM Counted == Spec => []NamesCounted
<1>1. IInv => NamesCounted
  BY DEF IInv
<1> QED BY <1>1, Invariant, PTL

\* No id a frame was given and has not released is dropped.
THEOREM HeldIsLive == Spec => []HeldIdIsLive
<1>1. IInv => HeldIdIsLive
  BY DEF IInv
<1> QED BY <1>1, Invariant, PTL

\* An object has one id.
THEOREM OneId == Spec => []OneIdPerObject
<1>1. IInv => OneIdPerObject
  BY DEF IInv
<1> QED BY <1>1, Invariant, PTL

\* A count of zero is no name at all.
LEMMA Unnamed ==
    ASSUME IInv, NEW i \in Ids, names[i] = 0
    PROVE  \A n \in Names : named[n] # i
<1> DEFINE S == {n \in Names : named[n] = i}
<1>1. Cardinality(S) = 0
  BY DEF IInv, NamesCounted
<1>2. IsFiniteSet(S)
  BY NamesAssumption, FS_Subset
<1>3. S = {}
  BY <1>1, <1>2, FS_EmptySet
<1> QED BY <1>3

\* Only a release and the removal of all transient objects drop anything, and
\* what they drop has no name; a release drops what no frame has.
THEOREM Dropped == Spec => DroppedUnused
<1> DEFINE Unused(i) == /\ \A n \in Names : named[n] # i
                        /\ \/ \A f \in Frames : i \notin proxies[f]
                           \/ \A f \in Frames : proxies'[f] = {}
<1>1. ASSUME IInv, Next, NEW i \in objects \ objects'
      PROVE  Unused(i)
  <2>1. PICK f \in Frames : RemoveJavaScriptObjectHolder(f) \/ RemoveTransientJavaScriptObject(f)
    <3>1. ASSUME objects \subseteq objects' PROVE FALSE
      BY <1>1, <3>1
    <3> QED BY <1>1, <3>1 DEF Next, RegisterAgain, RegisterKnown, RegisterNew,
               DeleteJavaScriptRegister, CallH5Function, Share, AddObject, Miss, Enter, Post,
               Start, Task, Return, Answer, CallMethod, ReturnValue, ReturnObject, vars, registry
  <2>2. i \in objects /\ i \in Ids
    BY <1>1 DEF IInv, TypeOK
  <2>3. CASE RemoveJavaScriptObjectHolder(f)
    <3>1. i = call[f].id /\ names[i] = 0 /\ holders[i] \subseteq {f} /\ Releasing(f, i)
      BY <1>1, <2>3 DEF RemoveJavaScriptObjectHolder, Drop, Turn, Releasing
    <3>2. \A g \in Frames : i \notin proxies[g]
      BY <1>1, <2>2, <3>1 DEF IInv, HeldIdIsLive, ReleasedIsGone
    <3> QED BY <1>1, <2>2, <3>1, <3>2, Unnamed
  <2>4. CASE RemoveTransientJavaScriptObject(f)
    <3>1. names[i] = 0
      BY <1>1, <2>4 DEF RemoveTransientJavaScriptObject, Drop, Transient
    <3>2. \A g \in Frames : proxies'[g] = {}
      BY <2>4 DEF RemoveTransientJavaScriptObject
    <3> QED BY <1>1, <2>2, <3>1, <3>2, Unnamed
  <2> QED BY <2>1, <2>3, <2>4
<1>2. IInv /\ [Next]_vars => [\A i \in objects \ objects' : Unused(i)]_vars
  BY <1>1
<1> QED BY <1>2, Invariant, PTL DEF Spec, DroppedUnused
-----------------------------------------------------------------------------
(* Who has the JavaScript thread. *)

\* Whoever has the JavaScript thread is at a step that gives it back.
ThreadGoesBack == running # Nobody => HandsBack(running)

TurnInv == TypeOK /\ ThreadGoesBack /\ NoWaitIsStuck

LEMMA InitTurns == Init => TurnInv
<1> SUFFICES ASSUME Init PROVE TurnInv
  OBVIOUS
<1>1. TypeOK
  BY InitKeeps DEF IInv
<1> QED BY <1>1 DEF Init, TurnInv, ThreadGoesBack, NoWaitIsStuck, Idle

\* A call that ends gives the thread back, or did not have it and nobody has.
LEMMA ReadyTurns ==
    ASSUME TurnInv, TypeOK', NEW f \in Frames, Ready(f),
           running = f \/ running = Nobody
    PROVE  TurnInv'
<1>1. \A g \in Frames \ {f} : call'[g] = call[g]
  BY DEF TurnInv, TypeOK, Ready
<1>2. call'[f].st = "idle" /\ running' = Nobody
  BY DEF TurnInv, TypeOK, Ready, Idle
<1>3. \A g \in Frames \ {f} :
         call[g].st # "run" /\ (call[g].st = "wait" => g \notin InJsThread)
  BY DEF TurnInv, NoWaitIsStuck
<1>4. NoWaitIsStuck'
  BY <1>1, <1>2, <1>3 DEF NoWaitIsStuck
<1> QED BY <1>2, <1>4 DEF TurnInv, ThreadGoesBack

\* Every step of the system leaves each waiting call a way to its end.
LEMMA NextTurns ==
    ASSUME TurnInv, TypeOK', [Next]_vars PROVE TurnInv'
<1>1. CASE UNCHANGED <<call, running>>
  BY <1>1 DEF TurnInv, ThreadGoesBack, NoWaitIsStuck, HandsBack
<1>2. ASSUME NEW f \in Frames, NEW op \in Ops, NEW id \in Ids \cup {NoId}, Enter(f, op, id)
      PROVE  TurnInv'
  <2> USE <1>2 DEF Enter, Start
  <2>1. running = Nobody /\ running' = f /\ f \in InJsThread
    OBVIOUS
  <2>2. call'[f].st = "wait" /\ \A g \in Frames \ {f} : call'[g] = call[g]
    BY DEF TurnInv, TypeOK
  <2>3. \A g \in Frames \ {f} :
            call[g].st # "run" /\ (call[g].st = "wait" => g \notin InJsThread)
    BY <2>1 DEF TurnInv, NoWaitIsStuck
  <2> QED
    BY <2>1, <2>2, <2>3 DEF TurnInv, ThreadGoesBack, NoWaitIsStuck, HandsBack
<1>3. ASSUME NEW f \in Frames, NEW op \in Ops, NEW id \in Ids \cup {NoId}, Post(f, op, id)
      PROVE  TurnInv'
  <2> USE <1>3 DEF Post, Start
  <2>1. CASE UNCHANGED call
    BY <1>1, <2>1
  <2>2. CASE ~UNCHANGED call
    <3>1. /\ call'[f].st \in {"wait", "lost"}
          /\ \A g \in Frames \ {f} : call'[g] = call[g]
      BY <2>2 DEF TurnInv, TypeOK, CreateUvQueueWorkEnhanced
    <3>2. running # f
      BY DEF TurnInv, ThreadGoesBack, HandsBack
    <3>3. ThreadGoesBack'
      BY <3>1, <3>2 DEF TurnInv, TypeOK, ThreadGoesBack, HandsBack
    <3> QED BY <3>1, <3>2, <3>3 DEF TurnInv, ThreadGoesBack, NoWaitIsStuck, HandsBack
  <2> QED BY <2>1, <2>2
<1>4. ASSUME NEW f \in Frames, CallMethod(f) PROVE TurnInv'
  <2> USE <1>4 DEF CallMethod, Turn
  <2>1. running' = f /\ (running = f \/ running = Nobody)
    OBVIOUS
  <2>2. call'[f].st = "run" /\ \A g \in Frames \ {f} : call'[g] = call[g]
    BY DEF TurnInv, TypeOK
  <2>3. \A g \in Frames \ {f} :
            call[g].st # "run" /\ (call[g].st = "wait" => g \notin InJsThread)
    BY <2>1 DEF TurnInv, NoWaitIsStuck
  <2> QED
    BY <2>1, <2>2, <2>3 DEF TurnInv, ThreadGoesBack, NoWaitIsStuck, HandsBack
<1>5. ASSUME NEW f \in Frames, Task(f) PROVE TurnInv'
  <2>1. CASE CallMethod(f)
    BY <1>4, <2>1
  <2>2. CASE ~CallMethod(f)
    <3>1. Ready(f) /\ (running = f \/ running = Nobody)
      BY <1>5, <2>2 DEF Task, Answer, RemoveJavaScriptObjectHolder,
                        RemoveTransientJavaScriptObject, Turn
    <3> QED BY <3>1, ReadyTurns
  <2> QED BY <2>1, <2>2
<1>6. ASSUME NEW f \in Frames, Return(f) PROVE TurnInv'
  <2>1. Ready(f) /\ call[f].st = "run"
    BY <1>6 DEF Return, ReturnValue, ReturnObject
  <2>2. running = f
    BY <2>1 DEF TurnInv, NoWaitIsStuck
  <2> QED BY <2>1, <2>2, ReadyTurns
<1> QED
  BY <1>1, <1>2, <1>3, <1>5, <1>6
     DEF Next, vars, RegisterAgain, RegisterKnown, RegisterNew, DeleteJavaScriptRegister,
         CallH5Function, Miss

\* A queued call always has its turn ahead, a call made on the JavaScript thread has
\* it already, and two methods never run at once: the safety half of
\* EveryCallReturns, which is left with the event loop and the methods.
THEOREM NobodyIsStuck == Spec => []NoWaitIsStuck
<1>1. TurnInv /\ TypeOK' /\ [Next]_vars => TurnInv'
  BY NextTurns
<1>2. TurnInv => NoWaitIsStuck
  BY DEF TurnInv
<1> QED BY <1>1, <1>2, InitTurns, TypeCorrect, PTL DEF Spec
=============================================================================
