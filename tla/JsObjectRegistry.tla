--------------------------- MODULE JsObjectRegistry ---------------------------
(***************************************************************************)
(* The registry of JavaScript objects that one web view lends to its       *)
(* pages: WebviewJavaScriptResultCallBack, NAPI edition.  The application  *)
(* registers objects under names on the JavaScript thread; a page reaches  *)
(* them by object id.  What a method returns, and what the application     *)
(* passes to a function of a page, is added without a name and lives while *)
(* a frame holds it.  The engine calls in from threads of its own, one     *)
(* call at a time for each frame: it looks the id up there, posts a task   *)
(* to the JavaScript thread and waits on a condition variable.             *)
(***************************************************************************)
EXTENDS Naturals, FiniteSets

CONSTANTS
    Objects,      \* JavaScript objects
    Names,        \* names an object is registered under
    Frames,       \* routing ids of frames, each with the engine thread that serves it
    InJsThread,   \* the frames whose engine thread is the JavaScript thread itself
    Nobody,       \* no frame
    NoObject,     \* the record of an id that is not in use
    MaxId         \* bound: ids handed out

ASSUME ObjectsAssumption == NoObject \notin Objects
ASSUME NamesAssumption == IsFiniteSet(Names)
ASSUME FramesAssumption == Nobody \notin Frames /\ InJsThread \subseteq Frames
ASSUME MaxIdAssumption == MaxId \in Nat

NoId == 0
Ids == 1..MaxId
Ops == {"call", "methods", "release", "removeTransient"}
Idle == [op |-> "methods", id |-> NoId, st |-> "idle"]

VARIABLES
    objects,      \* objects_: the ids with an entry
    retained,     \* retainedObjectSet_, each JavaScriptOb named by its id
    js,           \* the JavaScript object an id stands for
    names,        \* namesCount_ of a JavaScriptOb
    holders,      \* holders_ of a JavaScriptOb
    named,        \* namedObjects_: name -> id
    nextId,       \* nextObjectId_
    call,         \* the engine's call for each frame and how far it is
    running,      \* the frame whose task occupies the JavaScript thread
    proxies       \* what the engine has: the ids given to a frame and not released,
                  \* less those given while their release was on its way

registry == <<objects, retained, js, names, holders, named, nextId>>
vars == <<registry, call, running, proxies>>

TypeOK ==
    /\ objects \in SUBSET Ids
    /\ retained \in SUBSET Ids
    /\ js \in [Ids -> Objects \cup {NoObject}]
    /\ names \in [Ids -> Nat]
    /\ holders \in [Ids -> SUBSET Frames]
    /\ named \in [Names -> Ids \cup {NoId}]
    /\ nextId \in 1..(MaxId + 1)
    /\ call \in [Frames -> [op : Ops, id : Ids \cup {NoId},
                            st : {"idle", "wait", "run", "lost"}]]
    /\ running \in Frames \cup {Nobody}
    /\ proxies \in [Frames -> SUBSET Ids]

Init ==
    /\ objects = {} /\ retained = {}
    /\ js = [i \in Ids |-> NoObject]
    /\ names = [i \in Ids |-> 0]
    /\ holders = [i \in Ids |-> {}]
    /\ named = [n \in Names |-> NoId]
    /\ nextId = 1
    /\ call = [f \in Frames |-> Idle]
    /\ running = Nobody
    /\ proxies = [f \in Frames |-> {}]

-----------------------------------------------------------------------------
(* The helpers of the class. *)

\* Mutant: only the named objects are searched.
FindObjectId_Named(j) == {i \in objects : js[i] = j /\ names[i] > 0}

\* FindObjectIdInJsTd walks objects_ for an object that is strictly equal.
FindObjectId(j) == {i \in objects : js[i] = j}

\* AddObject: a fresh id, an entry in objects_ and one in retainedObjectSet_.
AddObject(j, holder) ==
    /\ nextId \in Ids
    /\ nextId' = nextId + 1
    /\ objects' = objects \cup {nextId}
    /\ retained' = retained \cup {nextId}
    /\ js' = [js EXCEPT ![nextId] = j]
    /\ holders' = [holders EXCEPT ![nextId] = holder]

\* Mutant: the object leaves objects_ and stays in retainedObjectSet_.
Drop_Kept(ids) ==
    /\ objects' = objects \ ids
    /\ js' = [i \in Ids |-> IF i \in ids THEN NoObject ELSE js[i]]
    /\ names' = [i \in Ids |-> IF i \in ids THEN 0 ELSE names[i]]
    /\ holders' = [i \in Ids |-> IF i \in ids THEN {} ELSE holders[i]]
    /\ UNCHANGED <<retained, named, nextId>>

\* The JavaScriptObs of `ids` leave both containers and are destroyed.
Drop(ids) ==
    /\ objects' = objects \ ids
    /\ retained' = retained \ ids
    /\ js' = [i \in Ids |-> IF i \in ids THEN NoObject ELSE js[i]]
    /\ names' = [i \in Ids |-> IF i \in ids THEN 0 ELSE names[i]]
    /\ holders' = [i \in Ids |-> IF i \in ids THEN {} ELSE holders[i]]
    /\ UNCHANGED <<named, nextId>>

\* The engine waits for the release of id i by frame f.
Releasing(f, i) == call[f].st = "wait" /\ call[f].op = "release" /\ call[f].id = i

\* Frame f is told id i.  The id of a function stays behind in
\* GetJavaScriptResult, a frame that is gone is told nothing, and an id that
\* crosses its own release is as good as released.
Tell(f, i) ==
    \/ /\ ~Releasing(f, i)
       /\ proxies' = [proxies EXCEPT ![f] = @ \cup {i}]
    \/ UNCHANGED proxies

\* An object on its way to a page of frame f: a known object gets the frame as
\* a holder, any other becomes a transient object.
Share(f, j) ==
    /\ \/ \E i \in FindObjectId(j) :
            /\ holders' = [holders EXCEPT ![i] = @ \cup {f}]
            /\ UNCHANGED <<objects, retained, js, nextId>>
            /\ Tell(f, i)
       \/ /\ FindObjectId(j) = {}
          /\ AddObject(j, {f})
          /\ Tell(f, nextId)
    /\ UNCHANGED <<names, named>>

-----------------------------------------------------------------------------
(* What the application does on the JavaScript thread, between the tasks or *)
(* inside the method that a task is calling.                                *)

AppMayRun == running # Nobody => call[running].st = "run"

\* registerJavaScriptProxy under a name that already stands for the object:
\* only the method lists are set again.
RegisterAgain(n, j) ==
    /\ AppMayRun
    /\ named[n] \in FindObjectId(j)
    /\ UNCHANGED vars

\* Mutant: the object that had the name before keeps its count.
RegisterKnown_OldKept(n, j) ==
    /\ AppMayRun
    /\ \E i \in FindObjectId(j) \ {named[n]} :
        /\ named' = [named EXCEPT ![n] = i]
        /\ names' = [names EXCEPT ![i] = @ + 1]
    /\ UNCHANGED <<objects, retained, js, holders, nextId, call, running, proxies>>

\* registerJavaScriptProxy of an object with an id: it gains the name, and the
\* object that had the name before loses it.
RegisterKnown(n, j) ==
    /\ AppMayRun
    /\ \E i \in FindObjectId(j) \ {named[n]} :
        /\ named' = [named EXCEPT ![n] = i]
        /\ names' = [k \in Ids |-> IF k = i THEN names[k] + 1
                                   ELSE IF k = named[n] THEN names[k] - 1
                                   ELSE names[k]]
    /\ UNCHANGED <<objects, retained, js, holders, nextId, call, running, proxies>>

\* registerJavaScriptProxy of an object seen for the first time.
RegisterNew(n, j) ==
    /\ AppMayRun
    /\ FindObjectId(j) = {}
    /\ AddObject(j, {})
    /\ named' = [named EXCEPT ![n] = nextId]
    /\ names' = [k \in Ids |-> IF k = nextId THEN 1
                               ELSE IF k = named[n] THEN names[k] - 1
                               ELSE names[k]]
    /\ UNCHANGED <<call, running, proxies>>

\* deleteJavaScriptRegister: the name goes, the object stays.
DeleteJavaScriptRegister(n) ==
    /\ AppMayRun
    /\ named[n] # NoId
    /\ named' = [named EXCEPT ![n] = NoId]
    /\ names' = [names EXCEPT ![named[n]] = @ - 1]
    /\ UNCHANGED <<objects, retained, js, holders, nextId, call, running, proxies>>

\* The application calls a function of a page and passes an object.
CallH5Function(f, j) ==
    /\ AppMayRun
    /\ Share(f, j)
    /\ UNCHANGED <<call, running>>

-----------------------------------------------------------------------------
(* The engine's side of a call, on the thread that serves frame f.          *)

\* An engine that sends a release forgets the id whatever becomes of it.
Start(f, op, id) ==
    /\ call[f].st = "idle"
    /\ op = "removeTransient" <=> id = NoId
    /\ id < nextId
    /\ f \in InJsThread => running = Nobody
    /\ proxies' = IF op = "release" THEN [proxies EXCEPT ![f] = @ \ {id}] ELSE proxies
    /\ UNCHANGED registry

Found(op, id) == IF op = "removeTransient" THEN objects # {} ELSE id \in objects

\* FindObject finds nothing and the call ends where it began.  On a thread of
\* the engine's own, it reads an unordered_map that the JavaScript thread may be
\* changing: it may miss an id that is there.
Miss(f, op, id) ==
    /\ Start(f, op, id)
    /\ ~Found(op, id) \/ (f \notin InJsThread /\ op # "removeTransient")
    /\ UNCHANGED <<call, running>>

\* Already on the JavaScript thread, which is taken until the call returns.
Enter(f, op, id) ==
    /\ Start(f, op, id)
    /\ Found(op, id)
    /\ f \in InJsThread
    /\ call' = [call EXCEPT ![f] = [op |-> op, id |-> id, st |-> "wait"]]
    /\ running' = f

\* The task is queued and the engine waits; the queue refuses the task and the
\* wait is over; there is no event loop and nobody will ever set `ready`.
CreateUvQueueWorkEnhanced(f, op, id) ==
    \/ call' = [call EXCEPT ![f] = [op |-> op, id |-> id, st |-> "wait"]]
    \/ UNCHANGED call
    \/ call' = [call EXCEPT ![f] = [op |-> op, id |-> id, st |-> "lost"]]

\* Mutant: a call that is made on the JavaScript thread is queued there as well.
Post_Anywhere(f, op, id) ==
    /\ Start(f, op, id)
    /\ Found(op, id)
    /\ CreateUvQueueWorkEnhanced(f, op, id)
    /\ UNCHANGED running

Post(f, op, id) ==
    /\ Start(f, op, id)
    /\ Found(op, id)
    /\ f \notin InJsThread
    /\ CreateUvQueueWorkEnhanced(f, op, id)
    /\ UNCHANGED running

-----------------------------------------------------------------------------
(* The tasks on the JavaScript thread.  The queue promises no order.        *)

\* The task of frame f may start, with the object it is for looked up again.
Turn(f, op) ==
    /\ call[f].st = "wait"
    /\ call[f].op = op
    /\ running = IF f \in InJsThread THEN f ELSE Nobody

\* `ready` is set and the engine's wait ends.
Ready(f) ==
    /\ call' = [call EXCEPT ![f] = Idle]
    /\ running' = Nobody

\* Mutant: a task that finds no object goes without setting `ready`.
Answer_Found(f, op) ==
    /\ Turn(f, op)
    /\ Found(op, call[f].id)
    /\ Ready(f)
    /\ UNCHANGED <<registry, proxies>>

\* A task that changes nothing: the object is gone, the scope is not valid, the
\* object has no such method, or only its methods were asked for.
Answer(f, op) ==
    /\ Turn(f, op)
    /\ Ready(f)
    /\ UNCHANGED <<registry, proxies>>

\* The method is called: the application's code runs.
CallMethod(f) ==
    /\ Turn(f, "call")
    /\ call[f].id \in objects
    /\ call' = [call EXCEPT ![f].st = "run"]
    /\ running' = f
    /\ UNCHANGED <<registry, proxies>>

\* It returns a plain value, or fails.
ReturnValue(f) ==
    /\ call[f].st = "run"
    /\ Ready(f)
    /\ UNCHANGED <<registry, proxies>>

\* It returns an object: ProcessObjectCaseInJsTd.
ReturnObject(f, j) ==
    /\ call[f].st = "run"
    /\ Share(f, j)
    /\ Ready(f)

\* Mutant: the release of any holder drops the object.
RemoveJavaScriptObjectHolder_Any(f) ==
    /\ Turn(f, "release")
    /\ call[f].id \in objects /\ names[call[f].id] = 0
    /\ Drop({call[f].id})
    /\ Ready(f)
    /\ UNCHANGED proxies

\* RemoveJavaScriptObjectHolderInJsTd: nothing for a named object; an object
\* without a holder left is dropped.
RemoveJavaScriptObjectHolder(f) ==
    LET id == call[f].id IN
    /\ Turn(f, "release")
    /\ id \in objects /\ names[id] = 0
    /\ \/ /\ holders[id] \subseteq {f}
          /\ Drop({id})
       \/ /\ ~(holders[id] \subseteq {f})
          /\ holders' = [holders EXCEPT ![id] = @ \ {f}]
          /\ UNCHANGED <<objects, retained, js, names, named, nextId>>
    /\ Ready(f)
    /\ UNCHANGED proxies

\* Mutant: named objects go as well.
Transient_All == objects

Transient == {i \in objects : names[i] = 0}

\* RemoveTransientJavaScriptObjectInJsTd: the document is gone and what its
\* frames held goes with it, as does a retained object without an entry.
RemoveTransientJavaScriptObject(f) ==
    /\ Turn(f, "removeTransient")
    /\ Drop(Transient \cup (retained \ objects))
    /\ Ready(f)
    /\ proxies' = [g \in Frames |-> {}]

Task(f) ==
    \/ \E op \in Ops : Answer(f, op)
    \/ CallMethod(f)
    \/ RemoveJavaScriptObjectHolder(f)
    \/ RemoveTransientJavaScriptObject(f)

Return(f) == ReturnValue(f) \/ \E j \in Objects : ReturnObject(f, j)

Next ==
    \/ \E n \in Names, j \in Objects :
        RegisterAgain(n, j) \/ RegisterKnown(n, j) \/ RegisterNew(n, j)
    \/ \E n \in Names : DeleteJavaScriptRegister(n)
    \/ \E f \in Frames, j \in Objects : CallH5Function(f, j)
    \/ \E f \in Frames, op \in Ops, id \in Ids \cup {NoId} :
        Miss(f, op, id) \/ Enter(f, op, id) \/ Post(f, op, id)
    \/ \E f \in Frames : Task(f) \/ Return(f)

Spec == Init /\ [][Next]_vars

\* The event loop gets round to every queued task, however many others run in
\* between, and a method that is called returns.
FairSpec == Spec /\ \A f \in Frames : SF_vars(Task(f)) /\ WF_vars(Return(f))

-----------------------------------------------------------------------------
(* Properties. *)

\* webview_javascript_result_callback.h:402: an object is kept in
\* retainedObjectSet_ as long as it has a name or a holder.  objects_ and the set
\* are changed in five places and stay the same set, so that the JavaScriptOb of
\* every id a page can use is alive.
RetainedWhileUsed ==
    /\ retained = objects
    /\ \A i \in Ids : names[i] > 0 \/ holders[i] # {} => i \in retained

\* namesCount_ is the number of names that lead to the object, through every
\* mixture of registrations, renamings and deletions: a count too small would let
\* a frame's release drop an object that still has a name, and a name without an
\* object is dereferenced by RegisterJavaScriptProxy.
NamesCounted ==
    /\ \A n \in Names : named[n] # NoId => named[n] \in objects
    /\ \A i \in Ids : names[i] = Cardinality({n \in Names : named[n] = i})

\* An id the engine got for a frame and has not released leads to an object that
\* the frame holds, whatever the application renames, the other frames release or
\* a method registers while it runs.
HeldIdIsLive ==
    \A f \in Frames : \A i \in proxies[f] : i \in objects /\ f \in holders[i]

\* No object has two ids: a page that gets the same object twice gets the same
\* proxy, although the lookup and the insertion are separate calls.
OneIdPerObject ==
    \A i, k \in objects : js[i] = js[k] => i = k

\* An object is dropped by the release of its last holder or by the removal of all
\* transient objects, never while it has a name; with a release, never while the
\* engine has its id for another frame.
DroppedUnused ==
    [][\A i \in objects \ objects' :
        /\ \A n \in Names : named[n] # i
        /\ \/ \A f \in Frames : i \notin proxies[f]
           \/ \A f \in Frames : proxies'[f] = {}]_vars

\* The call of frame f is at a step that ends it and gives the thread back.
HandsBack(f) == call[f].st = "run" \/ (f \in InJsThread /\ call[f].st = "wait")

\* The engine waits without a timeout, so nobody may wait for a thread that is
\* waiting for him: a call that was made on the JavaScript thread has the thread to
\* itself, any other finds it free or taken by a call that gives it back, and one
\* method runs at a time.
NoWaitIsStuck ==
    \A f \in Frames :
        /\ call[f].st = "run" => running = f
        /\ call[f].st = "wait" =>
              IF f \in InJsThread THEN running = f
              ELSE running = Nobody \/ HandsBack(running)

\* The engine's thread waits without a timeout.  Every call whose task was queued
\* returns, though the object may be gone by then, the method may fail and other
\* tasks may pass it; only a call without an event loop waits for ever.
EveryCallReturns ==
    \A f \in Frames : call[f].st = "wait" ~> call[f].st = "idle"
=============================================================================
