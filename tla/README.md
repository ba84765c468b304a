# web_webview in TLA+

This directory specifies and verifies the parts of the ArkWeb repository
(`web_webview`) that decide something over time: its system abilities, their
clients, and the state those share across threads, processes and restarts.

## 1. Inventory

The repository is the OpenHarmony side of the ArkWeb engine.  The engine
itself (Chromium) is a prebuilt that `ohos_nweb` loads; what is here is the
glue around it.

| Part | Where | State it keeps | What is hard about it |
|---|---|---|---|
| Web native messaging service (SA 8610) | `sa/web_native_messaging/service` | `AbilityConnectMap_`, per connection `status_`, `pendingRequests_`, `connectedRequests_`, per request `isConnected_`, the id maps, the delayed exit task | IPC threads, ability manager callbacks, death notices and an event queue interleave over five locks; calls out under a lock; exit races new work |
| Its client library | `sa/web_native_messaging/client` | the cached proxy, `loadSaFinished_` | load on demand with a timeout, a late answer, the service's death |
| JS / ArkTS binding of the manager | `interfaces/kits/napi/web_native_messaging_extension/extension_manager`, `interfaces/kits/ani/webnativemessagingextension/manager` | `g_connects`, `g_serialNumber` | callbacks from IPC threads against calls from the JS thread; service death |
| Extension side | `interfaces/kits/napi/web_native_messaging_extension/extension` | `connections_` with the descriptors of every connection's pipes, the tasks of the main thread, the result callbacks of its context | IPC threads hand descriptors to tasks that may run after `OnStop`; a closed number comes back; ids repeat |
| Framework update service (SA 8350) | `sa/app_fwk_update` | the system parameter with the installed package, the event handler | partial failure of verify / install / notify, boot order, idle unload |
| Its client library | `sa/app_fwk_update/src/app_fwk_update_client.cpp` | the cached proxy | the same load pattern |
| Engine loading | `ohos_nweb`, `arkweb_utils` | the loaded engine, its version, the init arguments | call order of library load, preload and engine selection |
| Platform adapters | `ohos_adapter/*` (about 40) | per adapter: listeners, handles, sessions | registration against callbacks, reuse of handles |
| JavaScript proxies: object registry | `interfaces/kits/napi/webviewcontroller/webview_javascript_result_callback.cpp` | `objects_`, `retainedObjectSet_`, `namedObjects_`, per object its name count and holders | calls of the engine's threads wait on the JavaScript thread; the application changes the registry inside the methods they call |
| JS / ArkTS / C / Cangjie APIs | `interfaces/kits/*`, `interfaces/native` | controllers, ports, cookies, storage, downloads, schemes, JS proxies | life time of native objects against JS, cross-thread results |
| Bridge | `ohos_glue`, `ohos_interface`, `ohos_wrapper` | reference counts | generated conversions |
| Build, tests, docs | `test`, `docs`, `figures`, scripts | none | none |

How they interact: an application calls the JS binding; the binding calls the
client library, which finds or loads the service through the system ability
manager and keeps a proxy; the service connects the extension ability through
the ability manager and calls the extension's proxy; the extension's calls
come back to the service; callbacks travel from the service's event queue over
IPC to the client library's stub, and from there to the JS thread.

What makes each component correct:

* service: a request is held in one place, told to the extension once and
  ended once, answered or refused, never both; a connection object that was
  given up is never used again; the process exits only when nobody uses it;
* client: every call ends, with a proxy or an error, and the proxy used is
  of a service that runs;
* binding: a connection is in the table from `connectNative` until JavaScript
  hears its end, the end of one connection removes no other, and when the
  service dies every connection it had is told;
* object registry: an object lives while it has a name or a frame that holds
  it, what a page was given stays usable until the page gives it back, and
  every wait of the engine ends;
* extension side: every descriptor that came has exactly one owner who closes
  it, and what JavaScript was told of a connection is true of its descriptors;
* framework update: what the parameter says is what is installed and loaded;
* engine loading: one engine per process, chosen once.

## 2. Modules

| Module | What it is |
|---|---|
| `NativeMessaging` | the service: one process with a program counter per connect call, per disconnect or stop call, per death handler, per ability manager callback that works on after its lock; the event queue; the delayed exit |
| `NativeMessagingProperties` | its invariants, action and liveness properties, and the statements of the repository that do not hold |
| `RequestLifecycle` | the abstract specification: what each observer of a request is promised, the caller, the extension and, in `ExtensionSide`, the extension's JavaScript |
| `NM_*.cfg` | the instances TLC checks |
| `RequestRegistry`, `RR_*.cfg` | the ids of the requests and the maps that find them |
| `ProxySource` | the abstract specification of a client library: what a caller who wants the service's proxy is promised |
| `SaClient`, `SC_*.cfg` | the client library, which implements `ProxySource` |
| `CallerManager`, `CM_ends.cfg` | the JavaScript binding's manager, on top of `ProxySource` |
| `ExtensionSide`, `ES_fds.cfg` | the process of the extension: its stub, its main thread, the descriptors of its connections |
| `AppFwkUpdate`, `AF_update.cfg` | the framework update service |
| `JsObjectRegistry`, `JR_objects.cfg` | the JavaScript objects that a web view lends to its pages |
| `MC*` | each component's instances for TLC |
| `*Proofs` | theorems for every value of the constants |

### NativeMessaging

A connect call is one element of `Req` and makes one request object; the
connection objects it can make are `<<r, 1>>` (by `LookUpOrNewIpcConnection`)
and `<<r, 2>>` (by the retry after `CONNECT_STATUS_ERROR`).  `KeyOf[r]` is the
pair (caller token, extension bundle) that `AbilityConnectMap_` is keyed by.

| State | Code |
|---|---|
| `connMap` | `WebNativeMessagingManager::AbilityConnectMap_` |
| `status`, `pending`, `connected`, `remote` | the fields of `ExtensionIpcConnection` |
| `isConnected`, `recipient` | `isConnected_` and the death recipient of `ConnectionNativeRequest` |
| `tasks` | callbacks in the service's event queue, one FIFO per request |
| `exitTasks`, `epc` | delayed exit tasks in the queue; `ExitSaProcess` between its check and its unload |
| `cpc`, `cconn`, `cres` | a connect call: where it is, its `ipcConnect`, its result |
| `dpc`, `dconn`, `dres` | a disconnect (`<<r, "app">>`) or stop (`<<r, "ext">>`) call |
| `hpc`, `hpop` | `HandleCallerDeath` for the death of one request's callback object |
| `apc` | `OnAbilityDisconnectDone` after its lock |
| `ams`, `alive`, `heard`, `told` | outside the service: the ability manager's record, caller processes, what callers and extension have been told |

A step is what runs under one acquisition of `AbilityConnectMutex_` or of a
connection's `mutex_`, or one call to the ability manager.  `mutex_` is held
across the extension calls in `ConnectNative` and `OnAbilityConnectDone`, so
those are one step each.  The order of callbacks of two different requests is
left open: nothing depends on it.

| Actions | Code |
|---|---|
| `ConnectBegin` ... `ConnectStopExit` | `ConnectWebNativeMessagingExtension` and `ConnectNative` |
| `DisconnectBegin`, `DisconnectLookUp`, `StopBegin`, `Close*` | `DisconnectWebNativeMessagingExtension`, `StopNativeConnectionFromExtension`, `DisconnectNative` |
| `Death*` | `HandleCallerDeath` |
| `OnAbility*`, `DisconnectDone*` | the ability manager's callbacks |
| `RunTask`, `ExitSaProcess`, `UnloadSystemAbility` | the event queue |
| `CallerDies`, `ExtensionCrashes` | the environment |

What the ability manager does is external: it answers each connect it accepted
once, a `DisconnectAbility` of a connection it is still connecting is accepted
or (fault `refuse_early`) refused, and a connection ends with one
`OnAbilityDisconnectDone`.

Names ending in `_X` after a definition's own name (`MovePending_NoErase`) are
the same definition with a plausible mistake.  Nothing uses them; putting one
in the place of the definition makes the property named in `PROJECT.json`
fail, which shows that the property depends on that piece of code.


Properties in `NativeMessagingProperties`:

| Property | What could break it |
|---|---|
| `HeldOnce` | the retry after `CONNECT_STATUS_ERROR`, the move from the pending to the connected list |
| `DisconnectedIsFinal` | a late `OnAbilityConnectDone` reviving a connection that was given up; a connect call adding to it |
| `ServedOverLiveAbility` | the ability disconnected after the lists were found empty, a death that ends a shared connection |
| `CallerProtocol`, `ExtensionProtocol` | refinements: with `view` mapped to what the caller (the extension) of each request has been told, every step is a step of `RequestLifecycle` or stutters |
| `RefusedIsSilent` | an error path that leaves the request in a list, or a callback posted before the refusal |
| `AcceptedIsAnswered` | (liveness) a pending request dropped when the extension fails to start |
| `AnswerIsOwed` | its safety half: a waiting request that no answer of the ability manager and no posted callback will reach |
| `GivenUpIsFinished` | two handlers that give up one connection and each leave the rest to the other: an ability nobody disconnects, an entry nobody deletes |

`GivenUpIsFinished` is about runs in which the ability manager refuses
nothing; with a refusal the entry of a connection does stay in the map (see
below, `nm_x_unused`).  That a connect call which meets a DISCONNECTED
connection may have its new entry deleted is not against it (see below).

`AnswerIsOwed` lets go of a request when a caller of its key dies, because
that death may end it silently (`nm_x_heard`).  One kind of connection is
owed no answer, and `NeverAsked` names it: `ConnectNative` found no client of
the ability manager (fault `null_client`) after it had made the connection
CONNECTING (`extension_ipc_connection.cpp:229-239`).  The exception is of that
connection alone: with the fault allowed every other request still has its
answer coming, and `nm_faults` checks it with the fault and nine others.

### RequestRegistry

The ids of a request and the two maps that find it.  A `Call` is a connect
call with the key `KeyOf[c]` = (token, pid, caller's connection id); it runs
on the IPC thread `ThreadOf[c]`, one call of a thread at a time.

| State | Code |
|---|---|
| `idStart`, `seen` | `g_ConnectionIdStart` and the value that a thread's `++` has read from it |
| `byInner`, `byCaller` | `connectIdMap_`, `InnerIdMap_` |
| `inner`, `key` | the request's `innerConnectionId_` and its caller's three ids |
| `pc` | the connect call, then the life of its request up to the two erasures of the destructor |
| `lpc`, `lid`, `found` | a disconnect call's two lookups and the request it holds |

`CreateUniqueConnectionID` (`web_native_messaging_manager.cpp:58-70`) reads the
counter to compare it with -1 (`IsIdStartUnset`, 60), reads it again to compare
it with the limit (`IsIdStartBelowLimit`, 63), reads and writes it in `++`
(`ReadIdStart`, `WriteIdStart`, 64) and reads it to return it (`ReturnIdStart`,
69).  The counter is a plain global without a lock, so each access is a step;
a build that keeps the value in a register does what accesses with nothing
between them do.  Another thread may bring the counter to `INT32_MAX` after the
comparison: then `++` overflows, and the model's addition wraps around like the
build's (`Incremented`), so `Id` has the negative numbers too.  One of them, -1,
is what a lookup answers for no entry (`InnerIdOf`), and the counter at -1 is
seeded again.

A request destroyed before its ids are set erases what any ids name
(`RefuseWant`), because the constructor leaves them uninitialized.
`Release` stands for the end of every reference to the request; when it comes
is the subject of `NativeMessaging`.

Properties: of calls served by one thread `RoutedById` (both maps name every
live request) and `FindsOwn` (a disconnect acts on a request of its own
caller); in every interleaving, refused wants and overflow included,
`FindsOthersOnlyById` (it acts on another caller's request only if the counter
gave both callers one id), `EmptiedWithRequests` (no entry outlives the
requests) and `AliveSizeBounded` (how far the limit can be passed).  That the
counter stays within its width is no property: it does not.

### SaClient

A process that wants the proxy of a system ability loaded on demand.  A `Call`
is one `GetWebNativeMessagingProxy`; every start of the service has a number,
and proxies are named by it.

| State | Code |
|---|---|
| `proxy`, `finished` | `webNativeMessagingProxy_`, `loadSaFinished_` |
| `pc`, `result` | a call, what it found |
| `load`, `remote` | the load callback of a call's load and its object |
| `watches`, `obituaries` | death recipients attached, `OnRemoteDied` calls due |
| `hpc`, `told` | `OnRemoteDied` at work; deaths the user's callback was called for |
| `running`, `starts` | outside: the service |

The wait is one step that either finds `finished` or times out; the timed-out
call holds `loadSaMutex_` until it has stored what it found, which delays
`FinishLoad` and `BeginLoad`.  `AppFwkUpdateClient` has the same code under
other names, with a 4 s timeout and no user callback.

Properties: `TypeOK`, which says beyond the types that `OnRemoteDied` is due or
at work only for a start that is over (a load that fails must not be handled
as a death); `NullOnlyWithoutService`, `CachedIsWatched`, `CallsReturn`
(liveness), `ImplementsProxySource` (refinement, which hides the cache).

### ProxySource

What the many steps of `SaClient` come to for whoever calls it: `GetProxy(c)`
is one step that returns null or some start of the service there has been, the
one that runs or one that is over, and `CallDeathCallback(i)` calls the user's
callback for a start that has ended.  It promises neither that a proxy works
nor that a death is told: a proxy found by `CheckSystemAbility` is not watched.
`SaClient!ImplementsProxySource` maps `returned` to the calls that are done and
`result` to what they found.

### CallerManager

`connectNative` and `disconnectNative` of one application.  It EXTENDS
`ProxySource`: the client library appears as its promise, and since `SaClient`
keeps that promise the two compose.  A `Conn` is one `connectNative` call and
the `WebExtensionConnection` it makes.

| State | Code |
|---|---|
| `connects`, `serialNumber`, `connectionId` | `g_connects`, `g_serialNumber`, a connection's `connectionId_` |
| `work` | the async work of a call, from its queueing to its completion on the JavaScript thread |
| `session` | outside: the service's request, the start of the service it belongs to |
| `tasks` | callbacks that binder threads posted and the JavaScript thread has yet to run |
| `heard` | connections whose `OnDisconnect` or `OnFailed` JavaScript has heard |
| `mute` | connections of which a callback could not be posted |

| Actions | Code |
|---|---|
| `ConnectNative`, `ConnectNativeExcute`, `ConnectNativeComplete` | the call, its work on a thread of the pool, its completion |
| `DisconnectNative`, `DisconnectNativeExcute` | the same of the other call, whose completion changes nothing here |
| `SessionConnects`, `SessionEnds` | the service's callbacks `OnConnect`, `OnDisconnect`, `OnFailed` on a binder thread |
| `UvInvokeConnectNativeCallback` | a posted callback runs |
| `ServiceDied` | the death callback, which fails every entry |

Of the service only the promise of `CallerProtocol` is here: an accepted
request may connect and ends at most once.  A posted callback runs at any
later time in any order, so the way from the service to the binder thread is
part of that wait.  That JavaScript hears `onConnect` changes nothing and is
not recorded.  A callback that runs without a handle scope returns before it
tells JavaScript or removes the entry
(`napi_web_native_messaging_extension_manager.cpp:156-160`); its connection is
`mute` then, like one whose callback could not be posted.

Properties: `RegisteredUntilEnd`, `RemovedByOwnEnd`, `DeathIsHeard`
(liveness) and its safety half `ToldDeathIsPosted`.  Those about one entry hold while its serial number is its own
(`SerialUnique`), which the wrap after `INT32_MAX` may take away.

### JsObjectRegistry

The objects that one web view lends to its pages.  The application's calls,
the tasks and the methods they call run on the JavaScript thread; a `Frame`
stands for a routing id with the engine's thread that serves it, which may be
the JavaScript thread itself (`InJsThread`).

| State | Code |
|---|---|
| `objects`, `retained` | `objects_`, `retainedObjectSet_`, by object id |
| `js`, `names`, `holders` | the object of a `JavaScriptOb`, its `namesCount_`, its `holders_` |
| `named`, `nextId` | `namedObjects_`, `nextObjectId_` |
| `call` | a call of the engine for one frame: not there, its task waiting, its method running, its wait lost |
| `running` | the task that occupies the JavaScript thread |
| `proxies` | outside: the ids the engine was given for a frame and has not released |

| Actions | Code |
|---|---|
| `RegisterAgain`, `RegisterKnown`, `RegisterNew` | the cases of `RegisterJavaScriptProxy` |
| `DeleteJavaScriptRegister` | `DeleteJavaScriptRegister` |
| `CallH5Function` | an object passed to a function of a page |
| `Miss`, `Enter`, `Post` | the engine's call: nothing found, done in place, posted |
| `CallMethod`, `ReturnValue`, `ReturnObject`, `RemoveJavaScriptObjectHolder`, `RemoveTransientJavaScriptObject`, `Answer` | the tasks; `Answer` is every task that changes nothing |

`Miss` may fail to find an id that is there when the engine's thread reads
`objects_` while the JavaScript thread changes it.  Values are objects or
nothing, methods and permissions are left out.  The engine is external: it
uses an id that it was given until it releases it or its document goes.

Properties: `RetainedWhileUsed`, `NamesCounted`, `HeldIdIsLive`,
`OneIdPerObject`, `DroppedUnused`, `EveryCallReturns` (liveness) and its safety
half `NoWaitIsStuck`: no call waits for a thread that waits for it.

### ExtensionSide

A `Conn` is a connection of the service; `IdOf` is the id it was given, which
another may have too (see `RequestRegistry`).  The service tells the extension
of each connection once and of its end once (`ExtensionProtocol`), the end
only after the extension has answered.  A `Call` is one of these two.

| State | Code |
|---|---|
| `file` | outside: the descriptor table of the process; whose pipe a number is |
| `pc` | a call in the stub, then its task, with the ways it may end |
| `fds` | `fdRead` and `fdWrite` of the `WNMEConnectionInfo` a connection came with |
| `tasks` | what `handler_` has to run |
| `connections` | `connections_` of the `ConnectionManager` |
| `told` | outside: what JavaScript was told of a connection |
| `life` | the extension object: running, stopped, destroyed |

| Actions | Code |
|---|---|
| `ReadConnect`, `ReadDisconnect` | the stub unpacks the parcel; it goes on when that fails |
| `LockExtension` | the stub takes its weak reference |
| `InvokeCallbackInMainThread` | `ConnectNative`, `DisconnectNative` of the extension: post the task |
| `InvokeCallback` | a task: `NotTold` (`NoMethod`, `NoId`), or `CallMethod` with `AddConnection` or `RemoveConnection` |
| `OnStop`, `Destroy` | both clear `connections_` |

The copies that the code makes of a `WNMEConnectionInfo` (call, task, map) all
name the same two numbers; who holds the one that counts is `InCall`, `InTask`
or `InEntry`.  The JavaScript code is taken not to close the descriptors
itself.

`Unmarshalling` may fail at the id or behind it, and the stub goes on with what
has been read.  `fd_err` is a failure behind the id: the connection comes
without descriptors.  `id_err` is a failure at the id, which fails all reads
behind it too: the call is handled under the default id -1, which is taken to
be no connection's, so JavaScript hears nothing of the connection it was for
(`NoId`).  The service's counter can hand out -1 after an overflow; that
combination is left out.

Properties: `HeldAreOpen` (nobody closes a number that by then is another
connection's), `NothingLeaks`, `OpenWhileTold`, and the refinement
`ScriptProtocol`: what the service promises its extension in
`ExtensionProtocol` arrives at JavaScript as a life of `RequestLifecycle` too.
A connection whose `onConnectNative` was lost or is missing is heard to end
only, which counts as a failure to open.

### AppFwkUpdate

The framework update service.  A package is named by its path.

| State | Code |
|---|---|
| `installPath`, `packageName`, `completed` | the parameters `persist.arkwebcore.*` and `web.engine.install.completed`; they outlive the process |
| `mounts`, `lib` | what AppSpawn was last told to mount; what it last did with the library |
| `up`, `unloadTasks` | the process and how many tasks "unload" wait |
| `turn` | where each thread that runs `DoBootCompletedPolling` is in it |
| `poll`, `pollRun` | the retry count of the polling task that each such thread has posted, and of the one that runs |
| `vpc`, `npc` | calls of `VerifyPackageInstall`, `NotifyFWKAfterBmsStart` |
| `booted` | `bootevent.boot.completed` |

`DoBootCompletedPolling` runs on the IPC thread of each notification and then
on the handler's (`Poller`), and its turns mix: it reads whether the boot has
completed (`CheckBooted`, `app_fwk_update_service.cpp:128`), and then either
sends the load message (`SendLoad`, 132) or removes the task by its name, which
removes those of all pollers (`RemovePollTask`, 147), and posts its own
(`PostPollTask`, 148).  In between there may be no task at all, and two
notifications that both remove before either posts leave two tasks of one
name; both happen in the model.  `PostDelayUnloadTask` is two steps for the same
reason (`RemoveUnloadTask`, `PostUnloadTask`), and several tasks "unload" may
wait.  The notifications also share the string `bundleName_` (107-132) without a
lock; the decision that is taken on it, whether it is empty, is modelled on the
parameter it was read from, and the data race itself is not modelled.

`UnloadTask` fires at any time but while the polling runs: it is due 60 s
after the last notification and the polling lasts 10 s.  Whether a call may
run then is the fault `late_call`.  The unload ends the process and its calls.

`lib` is what AppSpawn last did: `refused` when it answered a load message
with an error, which the service only logs.

Properties: `SuccessMeansInstalled` (of one client's calls, as long as none has
failed: two clients mix, and a failed call leaves its steps done),
`NotifiedLoads` (liveness) and its safety half `LoadIsDue`, which counts a
thread between its removal and its posting as a task that will come.

## 3. Runs

Each `MC*` module extends its component and names the instances; the `.cfg`
files give the constants.  Deadlock is not checked: every instance is a finite
set of calls after which the system may rest.

| Run | Question | Instance |
|---|---|---|
| `nm_death` | A caller dies at any step while another process uses the connection: in what order are callers told, is anything left behind | 2 requests of 2 processes, 1 key, no faults |
| `nm_faults` | What is held and heard on every error path, and is a waiting request ever forgotten, with a disconnect that the ability manager may refuse early and a crash of the extension | 2 requests of one process, 1 key, 10 faults, one disconnect |
| `nm_answer` | Is every accepted request answered; the caller closes and the extension stops the same request while another shares the connection | 2 requests, fair |
| `rr_serial` | Do the maps route, when calls come one after the other | 3 calls, 1 thread, 2 keys |
| `rr_races` | What do races, overflow and wild ids lead a disconnect to and leave behind, how far is the limit passed | 4 calls, 2 threads, 2 keys, a counter of -2..1, limit 0, one want that may be refused |
| `sc_proxy` | Does every call return, and with null only without a service; is a proxy watched when it is cached; does the library implement `ProxySource` | 2 calls, 2 starts, both may die, every fault, fair |
| `es_fds` | Who closes which descriptor, once, and what is JavaScript told, in which order | 3 connections of which 2 share an id, 4 descriptors, every fault |
| `af_update` | What does an answer 0 mean, is the polling bounded, is the library loaded, or a task posted that will | 2 calls of 1 client, 2 paths, 2 notifications, every fault, fair |
| `jr_objects` | Is what a page holds alive, what nobody uses dropped, does every call return, and does nobody wait in a circle | 2 objects, 2 names, 2 frames of which one is served by the JavaScript thread, 2 ids, fair |
| `cm_ends` | What is in `g_connects`, what takes it out, and is a death of the service posted and heard | 2 connects, 1 disconnect, 2 starts of which the first may die, serial numbers that wrap after 2, one connection may lose callbacks on their way or when they run, fair |

**Why the bounds are enough.**  The hazards of the service are between two or
three handlers of one connection: two requests give every pair of connect,
disconnect, stop, death and ability callback, and each connect can make two
connections, so a stale connection and its replacement exist side by side.
One key suffices because connections of two keys share only the map, whose
entries are read and written by key, and the exit, which looks at emptiness
(the theorems hold for any number of keys).  Two requests meet one retry after
`CONNECT_STATUS_ERROR` at most; that calls which retry together lose and
duplicate nothing is shown by the theorems, for any number of requests.  In the
registry two calls with one key and others with another give both kinds of
collision; the counter runs from -2 to 1 instead of over 2^32 values, so that
four calls on two threads lose increments, restart the counter and overflow it.
A client needs two calls for one to spoil the
other's wait, and two starts for a stale proxy to meet a fresh one.  The
polling retries 2 times instead of 5; the theorems hold for any bound.  Two
notifications and the handler are three threads in the polling, of which two
suffice to lose or double its task.  Two verify calls of one client find the
path changed, unchanged, and back again.  Two
objects under two names meet every renaming, and two frames every release that
crosses another's holding.  Two connections and a second start of the service
are what an end needs to reach the wrong connection, and what the death of
the old start needs to reach a connection of the new one.  Four descriptors
for three connections of two each make numbers come back; two connections
under one id meet in every order, beside one with an id of its own.  Only
`es_fds` uses symmetry, of the descriptors, which nothing tells apart; the
other instances tell their elements apart by what is done to them.

**Fairness.**  `nm_answer` assumes that IPC threads finish the calls they
serve, that the event queue runs what was posted and that the ability manager
answers a connect it accepted; it does not assume that anyone disconnects or
that the extension starts well.  `sc_proxy` assumes that a call that began
and a callback that began go on; a wait ends because `wait_for` has a timeout,
which is why the load callback needs no fairness.  `af_update` assumes the IPC
thread of a notification and the event handler; not that the boot completes.
`jr_objects` assumes that the event loop of the JavaScript thread reaches
every queued task however many others run in between (strong fairness, for a
task is not enabled while another's method runs) and that a method returns.
`cm_ends` assumes that async works run and complete and that each posted
end runs, whether or not an `onConnect` before it does; of the service and the application it assumes nothing, which is
why `DeathIsHeard` is about deaths that the library tells.

### What does not hold

These runs check a statement of the repository and TLC finds a behaviour of
the code against it.  `PROJECT.json`, "findings", quotes each.

| Run | Statement | What happens |
|---|---|---|
| `nm_x_heard` | all ends are covered by callbacks | a request pending when another process of its token dies ends silently |
| `nm_x_unused` | an unused service exits | a failed start of the extension leaves its connection in the map |

The models reach further behaviours that a maintainer may want to know of.
They were met while the properties above were being found, and no run keeps
them:

* an accepted connect call stops the delayed exit after it let go of every
  lock (`web_native_messaging_manager.cpp:376`): when a disconnect of the same
  request has emptied the map and started the exit in between, the service
  stays loaded for ever;
* a disconnect deletes the map's entry by key (`:419`): when a connect call
  met the DISCONNECTED connection and retried in between, the entry it deletes
  is the new connection's, and `ExitSaProcess` may then find the map empty
  while that connection serves a request;
* a disconnect that runs before the posted `OnConnect` finds `IsConnected()`
  false and never tells the extension (`extension_ipc_connection.cpp:315`);
* the id counter is not kept within its width: a thread passes
  `< INT32_MAX` (`web_native_messaging_manager.cpp:63`), another increments to
  `INT32_MAX`, and the first one's `++` (`:64`) overflows, which is undefined
  behaviour and in a build that wraps gives negative ids;
* two threads in `CreateUniqueConnectionID` (`:58-70`) can draw one id, a
  late write sets the counter back to values already given, and ids are not
  checked for use after the restart at 0, so two live requests may share
  `innerConnectionId_`, and a disconnect may act on the other one's;
* a request that was given -1 is found by nobody, because -1 is what the lookup
  answers for no entry (`:276`, `:392`), and the caller's id may be used a second time;
* two connect calls with one caller's id may both pass the check for it
  (`:276`): the later one takes over the entry;
* a connection for which `ConnectNative` found no client of the ability manager
  stays CONNECTING (`extension_ipc_connection.cpp:229-239`): a request that
  joins it is accepted and waits for an answer that never comes;
* a request whose want is refused is destroyed before its ids are set
  (`connect_native_request.h:51, 204-207`), and its destructor erases the map
  entries that the uninitialized ids name, which may be a live request's;
* a proxy found after a load has timed out is cached without a death recipient
  (`web_native_messaging_client.cpp:222`): when its service dies it stays
  cached and every later call gets the dead proxy.  The other way round, the
  recipient of a load is attached before the proxy is stored (`:268`): a
  service that dies in between leaves its proxy in the cache;
* the death handler compares and clears the cache in two critical sections
  (`:286`) and may drop the proxy of the next start;
* a proxy that `CheckSystemAbility` finds is neither cached nor watched (`:74`):
  a process that only ever took that way is never told of a death, and its
  connections stay in `g_connects`;
* JavaScript may hear `onFailed` twice: the service's death fails a connection
  whose `ConnectNativeComplete` then fails it again
  (`napi_web_native_messaging_extension_manager.cpp:435`); and the death of one
  start fails the connections that the next start has accepted, which its
  service goes on serving (`:66`);
* after `INT32_MAX` connections a serial number may still be taken: `emplace`
  keeps the old entry (`:82`), the new connection has none, and its end removes
  the old one's;
* the engine's release of an id may cross `CallH5Function`, which gives the same
  frame the same object again (`webview_javascript_result_callback.cpp:182`): the
  release then takes back a holder that the page just got;
* a named object keeps the holders that release it (`:1984`), and the id of a
  function in a result is given to no proxy: both stay until the document goes;
* a page that knows an object only by its name is no holder of it: once the
  name is taken away, a release by another frame removes the object (`:1987`).
  The ids the engine learns through a name are not in `proxies`, and
  `RetainedWhileUsed`, `HeldIdIsLive` and `DroppedUnused` say nothing of them;
* without an event loop `CreateUvQueueWorkEnhanced` returns before `ready` can
  be set (`:342`), and the engine's thread waits for ever;
* a `VerifyPackageInstall` that failed at the package name or the mount points
  answers 0 when it is called again for the same path, because the path was
  set first and is compared first (`app_fwk_update_service.cpp:184`);
* two notifications of the framework update service that both remove the
  polling task before either posts its own leave two of one name (`:147-148`):
  the library is loaded twice;
* the unload task of the framework update service looks at nothing (`:405`)
  and cuts off a call that runs 60 s after the start;
* the extension's stub goes on when `Unmarshalling` fails
  (`web_native_messaging_extension_stub.cpp:35`): JavaScript is given -1 for
  both descriptors, and for the id too when that could not be read, and the
  service believes the connection to be up;
* descriptors stay open for ever when the extension object is gone before the
  stub locks it (`web_native_messaging_extension_stub_impl.cpp:29`) and when
  `PostTask` does not take the task, which nobody looks at
  (`js_web_native_messaging_extension.cpp:265`); `NothingLeaks` names the two;
* without an `onDisconnectNative` method the entry of a connection that has
  ended keeps its descriptors until `OnStop` (`:224`);
* a task that was posted before `OnStop` calls JavaScript after `onDestroy`;
  its connection then stays until the extension object is destroyed;
* `NotifyFWKAfterBmsStart` sets `web.engine.install.completed` while the
  message that loads the library still waits for the end of the boot (`:119`).

## 4. Proofs

The theorems hold for every value of the constants that the named assumptions
allow (`NMAssumption`, `RRAssumption`, `SCAssumption`, `PSAssumption`,
`CMAssumption`, `ESAssumption`, `AppFwkAssumption`, and `ObjectsAssumption` to
`MaxIdAssumption` of the object registry: types of the constants and sets of
faults, nothing about the protocol).

* **`NativeMessagingProofs`**: `TypeCorrect`; `ServedIsLive` and
  `DisconnectedStays` from the inductive invariant `ConnInv`.
  `ServedOverLiveAbility` alone is not inductive: a handler that calls
  `DisconnectAbility` after it let go of the lock must know that its
  connection still is DISCONNECTED (`AbilityGivenUp`), that nothing points to
  a connection not made yet (`NotMadeYet`, `PointersMade`), that whoever works
  on a connection has one (`WorksOnConn`), and that requests are connected
  only while CONNECTED (`ConnectedStatus`).  `GivenUpEnds` from `AskInv`,
  which follows a connection through what the service asks of the ability
  manager.  Whoever gives a connection up got to it through a request
  (`RecipientBegun`, `CloseBegun`, `StopTold`), a request is accepted only on
  a connection that is connecting or connected (`PendingWaits`), what is connecting has
  been asked for and is owed an answer (`ConnectingAsks`, `BegunAsked`,
  `AskedBegun`), and pointers keep to their key (`KeysFit`).  A given-up
  connection keeps a pending request only when a caller has died
  (`OrphansOnly`).  When nothing is refused, `NothingIsLeft`: what the ability
  manager still holds of a given-up connection a handler is about to
  disconnect, and what it let go of is about to leave the map.
* **`NativeMessagingRequestProofs`**: `RequestHeldOnce` and
  `RefusedLeavesNoTrace` from `RequestInv`, which is `ConnInv` with
  `ResultFits`, `OnlyAcceptedTouched` and `HeldOnce`.  A request enters a list
  only in the call that accepts it, and until then no list, task or handler
  has it; so it enters one list, and what is refused was never in any.
  `CallerSeesALife` and `ExtensionSeesALife`, that every step is a step of
  `RequestLifecycle` or a stutter for the caller and for the extension, from
  `LifeInv`, which adds to it two facts.  `InOneHand`: an accepted request is
  with a list, with the death handler that popped it or with the closing call
  that took it out, and with one of them only, so its end is told once.
  `LifeFits`: the request goes through stages (waiting, its OnConnect posted,
  served, ending, failed, over) given by its posted callbacks, `isConnected_`
  and what both observers heard, and its holder knows the stage.  This is what
  the guard on `isConnected_` in the posted callbacks is for: an OnDisconnect
  that reaches a request which never opened is not delivered.
  `WaitingIsNotForgotten` from `NoneForgotten` (a waiting request is in a
  pending list or its answer is next in the queue) over `AskInv` and
  `LifeInv`: the first says that the list is of a connection which will be
  answered, the second that nothing stands before the answer in the queue.
* **`RequestRegistryProofs`**: `MapsAreEmptied` from
  `EntriesOwned`, which gives every entry of a map an owner: a request that
  lives, or is being destroyed and has yet to erase that very id;
  `AliveSizeIsBounded` from `AdmittedBounded`, which adds the calls that have
  passed the size check to the entries, and `OnePerThread`;
  `MisfindsShareAnId` from `LookUpsFit`, which says where an id came from: a
  key has only been given ids that a request of that key was given, and a
  disconnect call carries such an id from its first lookup to its second
  (`GivenForKey` stays true when the request is gone).  What the second lookup
  finds under the id is a request that was given it too.  Nothing is assumed of
  the order of calls, the counter or the wants.
* **`SaClientProofs`**: `TypeCorrect`, of which the part about deaths is
  `OnlyRealStarts` below; `CachedProxyIsWatched` from
  `WatchedFirst` (a callback that has yet to store its object has attached the
  recipient); `WaitsEndWithService` from `LoadedIsCached` (as long as the one
  start lives and no load failed, a finished load has left a proxy in the
  cache); `Implements`, that every step
  is a step of `ProxySource` or a stutter, with timeouts and every other fault,
  from `OnlyRealStarts`: every variable that holds a proxy holds one of a start
  there has been, and an obituary is due only of one that has ended.
* **`CallerManagerProofs`**: `TypeCorrect`, `Registered` and `Removed` from
  `IInv`, `DeathIsPosted` from `DInv` over it.  `RegisteredUntilEnd` needs to know that nothing is posted to or
  heard by a connection that has no serial number yet (`InsertedFirst`), or a
  fresh connection would count as ended; and that an entry stands under the
  serial number of its own connection (`EntriesFit`), or an end would remove
  another's.  `DInv` says that the service ends or accepts only what has been
  inserted before (`AcceptedInserted`) and that a start whose death is told is
  over (`ToldIsOver`), so that nothing is accepted behind the death's back;
  then the entry that `RegisteredUntilEnd` promises is there to be failed.
* **`JsObjectRegistryProofs`**: `TypeCorrect`, `Retained`, `Counted`,
  `HeldIsLive`, `OneId` and `Dropped` from one `IInv`.  It adds to the
  properties that ids are handed out in order (`IdsInOrder`: a fresh id has no
  trace in the registry) and that an id whose release is under way is no
  longer with the engine (`ReleasedIsGone`: else the release would take the
  holder from an id in use).  `NamesCounted` is about cardinalities: its step
  is the lemma on what one renaming does to the names of each object.
  `NobodyIsStuck` from `TurnInv`, which adds that the JavaScript thread is
  never left with a task that has ended (`ThreadGoesBack`).
* **`ExtensionSideProofs`**: `TypeCorrect`; `HeldStayOpen` and `NoneForgotten`
  from `Owned`, `ToldTrue` from `Owned` and `ToldFits`.  `HeldAreOpen` is
  inductive only with the fact that call, task and entry exclude one another
  (`HeldPc`, from `Queued` and `EntriesFit`): then what a step closes it also
  lets go of, which the lemma `OwnedWhen` states once for all steps.
  `GoneIsQuiet` says that no task is left to refill `connections_` after the
  destructor.  `ToldFits` needs the order of the queue: the end of a
  connection never overtakes its beginning.
  `ScriptHearsALife` from `ToldFits` and `HeardFits`: a connect call is
  handled if and only if JavaScript was told of the connection, so what is heard
  of an end tells whether it opened.
* **`AppFwkUpdateProofs`**: `TypeCorrect`, with the bound of the polling, from
  `TurnFits`: the count was compared some steps before the task is posted, and
  nobody changes it for a thread that is in its turn.  `PolledIsDue`: a turn
  that removes the tasks of all will post one, and a turn that posts none loads
  (`TurnLeadsOn`); a notification comes to its end by its own turn
  (`PolledByTurn`), and no other step takes away what is due (`DueStays`).

Model-checked only: `RoutedById` and `FindsOwn`, which hold of calls served by
one thread, and `SuccessMeansInstalled`, which holds of one client's calls.  No
code enforces either, so what they say for every value of the constants would
be of runs the code does not keep to; in general they are false (see above).
And the liveness properties (no prover here does fairness or ENABLED).  Of four of them the safety half is proved, that the step they wait
for is never lost, which leaves the scheduler to TLC: `AnswerIsOwed` of
`AcceptedIsAnswered`, `ToldDeathIsPosted` of `DeathIsHeard`, `NoWaitIsStuck` of
`EveryCallReturns` and `LoadIsDue` of `NotifiedLoads`.  Of `CallsReturn` there
is none to prove: a call's wait ends by its own timeout.

The type invariants of `JsObjectRegistry` and `ExtensionSide` say no more than
types, so they are proved and no run repeats them.  `ServedOverLiveAbility` and
`ExtensionProtocol` are each checked where most handlers meet, in `nm_death` and
`nm_answer`; the theorems carry them over every set of faults and of closing
calls.

## 5. Not modelled, and the plan

Left out because they decide nothing over time: argument and want parsing,
permission checks (one fault, `reject`), dumps, generated
stubs and bridges, and the engine itself.  In the framework update service,
the common event subscription and the restart of nwebspawn.

Next modules, in order:

1. The result callbacks of the extension's context, and the service's
   `extensionPid` check that its calls meet.
2. `EngineLoad`: choice, preload and initialization of the engine in
   `nweb_helper` and `arkweb_utils`.
3. Stateful adapters and interfaces: scheme handler requests, downloads.
4. The ArkTS editions (`interfaces/kits/ani`) of the manager and of the object
   registry, which repeat the NAPI ones on another runtime.
