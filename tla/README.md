# mmmcp in TLA+

mmmcp composes several MCP servers ("components") into one: it discovers their
tools, prompts and resources, compiles them into one catalog per configuration,
routes each call to the component that owns it, and keeps one downstream
session per frontend session and component. This directory models the parts
that hold state and run concurrently, checks them with TLC and proves part of
them with TLAPS. `src/` below is the root of the repository.

## 1. The system

### Parts

| part | source | state | operations | who calls it |
|---|---|---|---|---|
| catalog registry | `catalog/registry.go` | per fingerprint: catalog, error, `ready`, `stale`, `refreshing`, `pending`, `refreshDone`, debounce timer, callbacks; `closed` | `Get`, `Refresh`, `RequestRefresh`, `InvalidateComponent`, `Close` | every request, notifications of components, readiness |
| stdio manager | `component/stdio/manager.go` | current process, start in progress, operation count, frontend activity, idle timer and its generation, `closed` | `acquire`/release, `SetFrontendActivity`, `retire`, `Close` | the pool's users |
| runtime pool | `component/pool.go` | entry per (session, fingerprint, component) with `ready`, `refs`, `err`; watched sessions; cleanup group | `Acquire`, release, `closeSession`, `SetFrontendActivity`, `Close` | `invoke`, `subscribe`, `Composite.Close` |
| frontend bindings | `notifications.go:32-203` | servers of sessions, bound keys, watchers | `bindServer`, `bind`, `unbind`, `matching`, `close` | middleware, pool callbacks |
| frontend activity | `http_activity.go` | request count and session per id, watchers | `begin`, `end`, `bind`, `session` | HTTP handler, `invoke` |
| event store | `storage/eventstore*.go` | tables of streams and events | `Open`, `Append`, `After`, `SessionClosed`, `Prune` | event adapter |
| event adapter | `storage/event_adapter.go` | store of each session | the same | the SDK's streamable handler |
| storage registry | `storage/registry.go`, `open.go` | store per DSN key | `Get`, `Close` | adapter, `New` |
| tool subscriptions | `notifications.go:15-91`, `handler.go:16-75` | last catalog per configuration or session, listeners | `observe`, `featureMiddleware` | stateless and stateful requests |
| composite | `composite.go`, `http.go`, `stdio.go`, `health.go` | `closed`, wait groups, cancels, `catalogDegraded` | `New`, `Refresh`, `Close`, admission, readiness | the process |
| stdio factory | `component/stdio/factory.go` | `closing`, cleanup group | one-off calls, `Discover`, `OpenRuntime`, `Close` | compiler, pool |
| search index | `toolsearch/search.go` | bleve index, `ready`, `stopped`, cancel | `Start`, `run`, `Stop`, `await`, `Search` | registry, tool calls |
| compiler | `catalog/compiler.go` | none that outlives a compile | `compile`, `discoverComponents` | registry |
| routing, pages, rewriting | `catalog/*.go`, `namespace/` | none | cursors, routes, prefixes | handler |
| configuration bridge | `http_config_bridge.go` | token to selection | `put`, `get`, `setPending`, `delete` | HTTP handler, middleware |
| HTTP components, OAuth | `component/http/` | none between operations | one-off sessions | handler |
| configuration, DSNs, CLI | `config/`, `storage/dsn.go`, `cmd/` | none | parsing | `main` |

### Interaction

A frontend request enters through the HTTP handler, which counts it for its
session (`http_activity.go`), records its configuration under a token
(`http_config_bridge.go`) and hands it to the SDK. The middleware fetches the
catalog (`Registry.Get`), which may compile it by discovering all components.
A stateful request acquires a runtime from the pool; the runtime of a command
component is a manager that starts and retires the process. Notifications of a
component come back through its callbacks: a list change asks the registry for
a refresh and, when that succeeds, tells every bound frontend. The SDK stores
the events of resumable streams through the adapter in the database that the
session's first request selected. `Composite.Close` stops admission, cancels
and awaits requests, and closes bindings, registry, pool, factory and stores in
that order.

### What is hard, and what makes each part correct

* **Manager.** A timer goroutine that has left the timer cannot be recalled; a
  process starts outside the mutex while `Close` may run. Correct: a call never
  loses its process to the idle timer, no process leaks, an idle one goes.
* **Registry.** Discovery runs outside the mutex: invalidations, notifications,
  explicit refreshes and timers interleave with it, and entries are replaced
  under those who wait for them. Correct: a change that was announced is
  served, no waiter is forgotten, one request's authorization never becomes
  another's, only ready catalogs are cached.
* **Pool.** Sessions end and the pool closes while runtimes open; failures
  delete by key. Correct: one runtime per key, none lost, bindings follow
  runtimes, `Close` leaves nothing open.
* **Activity.** A count read under one mutex is delivered under others.
* **Event storage.** Clocks are read before transactions, streams expire and
  come back, pruning runs between the statements of a replay. Correct: the
  watermark never lies, no replay is partial, a session stays in its database.
* **Subscriptions.** Snapshots of unordered `Get`s are compared, and a POST may
  end before its handler. Correct: no client keeps a list that the last snapshot
  contradicts without being told, and none is told without a change.
* **Composite.** Admission races with `Close`. Correct: nothing is used after
  it was closed, and everything is closed in the end.
* **Search index.** A build is cancelled by a refresh while requests wait, and
  tools change between a search and the call it leads to. Correct: who waits gets
  an index or is told to retry, and served then; a call runs what was shown.
* **Compiler.** Workers share a cursor, and one failure cancels the others; a
  call compiles only the components its name may belong to; pages outlive the
  catalog they come from. Correct: all components or an error, a narrowed call
  reaches the tool the whole catalog names, a link leads back to its resource,
  the pages of one walk list one catalog.

`PROJECT.json` lists every hazard at its line.

## 2. Modules

| module | models | extends |
|---|---|---|
| `StdioManager` | stdio manager | |
| `StdioManagerProofs` | its theorems | `StdioManager` |
| `CatalogRegistry` | catalog registry | |
| `CatalogRegistryProofs` | its theorems | `CatalogRegistry` |
| `CatalogContents` | what a compile makes of features; routes, pages, links, narrowing: operators | |
| `CatalogCompiler` | discovery by workers, requests that list pages and call tools | `CatalogContents` |
| `CatalogCompilerProofs` | its theorems | `CatalogCompiler` |
| `RuntimePool` | pool and frontend bindings around it | |
| `RuntimePoolProofs` | its theorems | `RuntimePool` |
| `EventStorage` | event store and adapter | |
| `EventStorageProofs` | its theorems | `EventStorage` |
| `SearchIndex` | search indexes, the registry steps that start and stop them, searches and calls | |
| `SearchIndexProofs` | its theorems | `SearchIndex` |
| `FrontendRequests` | requests from POST to handler, their configuration, change notices | |
| `FrontendRequestsProofs` | its theorems | `FrontendRequests` |
| `FrontendActivity` | HTTP requests of one session around its manager | `StdioManager` |
| `Drain` | what the composite promises: nothing goes before its users | |
| `CompositeLifecycle` | New, admission and Close of the composite, exit of `cmd/mmmcp` | |
| `CompositeLifecycleProofs` | its theorems, among them that it implements `Drain` | `CompositeLifecycle` |
| `MC...` | the instance TLC checks | the module of that name |

Common conventions: a critical section of a mutex is one action; what the code
does outside every mutex (opening, discovery, closing, waiting on a channel) is
an action of its own. Variables carry the names of the code's fields. A `pc`,
`op` or `at` says where a goroutine is between two critical sections. An object
that an actor makes at most once is named by that actor. Each mutant is an
operator marked "Faulty variant" beside the definition it replaces.

### StdioManager

`runtime`, `starting`, `activeOperations`, `frontendActivity`, `idleTimer`,
`generation` and `closed` are the manager's fields; `fired` holds the timer
goroutines that wait for the mutex, `live` the processes that run, `closing`
those that some goroutine has detached and will close. `Acquire*` are the
branches of `acquire`'s loop, `OpenSucceeds`/`OpenFails` the section after
`m.open`, `DiscardProcess` the late opener of a closed manager, `Retire` and
`RetireSkips` the two ends of `retire`.

### CatalogRegistry

One fingerprint. `entries` is what each actor's entry holds, `installed` the one
in the map; `at` is the entry an actor has a pointer to, which may be another.
`timersFired` counts debounce goroutines, which name only the fingerprint.
`worker` holds the goroutines in `runRefresh` for each entry: one as a rule, and
one more for each explicit refresh that ended beside another, since its end
makes the entry look free (`Runs`). `notices` follows each notification from
`RequestRefresh` to its callback. A catalog is the upstream version it was
compiled from, and whether authorization is pending. `Discoveries` gives the
outcomes of a compile: the version at that moment, an error, an authorization
error or a pending catalog.

### CatalogContents, CatalogCompiler

Names, URIs and templates are sequences of tokens, `_` being one, since a joined
name may be split in more than one place: prefix `a` and tool `b__run` meet
prefix `a__b` and tool `run`. A server record has the fields of `config.Server`
(`label` is its sanitized name), a configuration is a sequence of servers with
`scoped` (`RequestScopedDiscovery`), `defer` (`DeferAuthorization`) and `search`
(`ToolSearch`). A catalog is its set of routes and whether it has tool search;
what it lists and its id follow from them. A call has a name and what its
arguments name, Nil if they do not parse; `Sought` is the component's tool that it
is for, directly or by way of `call_tool`, and `Narrow` is `requestCatalogConfig`:
`Candidates` by prefix, of which `Owning` keeps the owner if a cached catalog
knows it.
`Identity`, `Hidden`, `Local`, `Invalid` and `Routes` say for all four families
what `compileTools` and its three siblings do. Sorting is `InOrder`, the elements
of a set in the order of a relation, and what a loop picks out of a sequence is
`Select`, its elements at some positions. In `CatalogCompiler`, `at`,
`next`, `results` and `cause` are the variables of `discoverComponents`;
`upstream` is what each component would answer at the moment it is asked, and
`asked` (a ghost) what it did answer. One request is served at a time; the
registry is a map from configurations to catalogs that loses entries at will,
since how it keeps them is the matter of `CatalogRegistry`. `walk` is a client
with a cursor; it begins again when the cursor is refused.

### RuntimePool

`entries`, `refs`, `ready`, `failed` and `live` are the pool; `servers`, `bound`
and `bindWatched` the bindings. A caller is one request: `BindServer` is the
middleware, `Acquire*`, `Open*`, `Wait*` and `Release` the pool's functions,
`OnOpen` and `OnClose` the callbacks that run outside the mutex. A watcher is
the goroutine that runs `closeSession`; it and `Pool.Close` share the loop over
detached entries. Sessions in `Draining` end (`Wait` returns) only when their
requests have returned, others while they run.

### EventStorage

`streams` and `log` are the two tables of each database; `sessions` is the
adapter's map; `op` the call of each client, with the time it read. A writing
transaction with its pruning is one action. Pruning is given by what it leaves:
expired streams go with their events, then the oldest events (by time, then key)
until the payloads fit or one is left, and the watermark of each stream rises
above its deleted events. A replay is two statements, in one snapshot or two.
`disturbed` (a ghost) holds the sessions whose binding was once released.

### FrontendActivity

`active` and `bound` are the activity registry of one session, `entry` the pool
entry of its one component, `report` the count a request has read and not yet
delivered. It extends `StdioManager`: a call of the manager is issued by the
request of that name.

### SearchIndex

One configuration with tool search. `builder` is the goroutine of each
catalog's index: its place in `run`, its context (`cancelled`), the channels
`ready` and `stopped`, and the failures so far. `installed` and `holding` are
the registry's entry and its catalog; the registry's other state, and who waits
for a refresh, are left to `CatalogRegistry`, so a refresh is one step.
`superseded` are catalogs that an explicit `Refresh` has replaced and stops
only after it left the mutex. A client walks through the pages of a search,
retries when it is told to, and calls what it found. `await` reports a stopped
index and its timer with one error; the answers `not_ready` and `timed_out`
(both `Retried`) keep them apart for the properties, the client treats them
alike. `Contents` says which tools each compile finds and how the engine ranks
the matches: ranking is data, what `Search` does with it (fetching a prefix,
promoting the exact name, cutting the page) is modelled.

### FrontendRequests

`selections` is `requestConfigs.entries`; `request` follows each POST through
`configBridge` (`Post`), `selectFrontendImplementation` (`Identifies`),
`configMiddleware` (`Selects`), `catalogForRequest` (`Resolves`), the critical
section that compares snapshots (`Observes*`) and the notices and answer that
follow it (`Responds`). `DiscoveryFails` refuses a request that gets no catalog,
before its handler or in it. `Departs` ends the POST and with it the selection.
`last` is `previous` of a
session's middleware, or the catalog of a configuration ID's subscription;
`listeners` are its servers. `stateful` chooses, once, between one session and
stateless requests with listeners. `client` is what a client has listed, what it
must list again (`stale`) and the notices on their way to it. `late` is what a
handler finds in its context when its selection is gone: which context the SDK
gives it is not in this repository, so it is either that of the session's first
POST or one without a configuration. A catalog is the configuration, the feature
family that `requestCatalogConfig` left to discover, and whether authorization is
pending.

### CompositeLifecycle, Drain

`stage` is how far `New` and `Close` have got; the stages after which the
registry, pool, factory and stores refuse are sets of stages, since `Close` is
one goroutine. `http`, `run` and `lookup` follow HTTP requests, `RunStdio` and
the callers that are not admitted (`ResolveToolCall`, `Refresh`, readiness
probes); `handler` is the method handler of a request, which runs in its session
and may outlive the request; `job` is what an actor has open, `lingering` the
one-off sessions that goroutines close. `host` is `serveHTTP`. The mapping of
`ImplementsDrain` calls users the admitted requests, the runs, and sessions until
their watchers end; it calls resources the pooled runtimes, the databases and the
one-off sessions. Two facts about the SDK are assumed: the `Close` and `Wait` of
a session return after its handlers, and a POST that returns before its handler
started closes the session it created (the SDK closes sessions that were not
initialized). Without the second, a session could appear after
`frontendBindings.close` has copied those it knows.

## 3. Runs

| run | instance | question | result |
|---|---|---|---|
| `stdio_manager` | 3 calls, activity 0/1 reported twice, Close | shared process, leaks, idle retirement, waiters, Close; with liveness | holds |
| `catalog_registry` | 2 Gets, 1 explicit refresh, 2 changes, 3 events, search+deferred and direct | staleness, lost notices, waiters, evictions, credentials | holds |
| `catalog_compiler` | 2 workers, 3 components with 3, 3 and 2 possible answers, 1 change, pages of 2; 5 configurations (scoped, deferring, a single component, one without a prefix, one with tool search) | outcome of a compile, routes of narrowed calls, links, pages | holds |
| `runtime_pool` | 3 callers, a draining and an abrupt session, 2 components (3 keys), 1 failing close; with liveness | uniqueness, loss, bindings, waiters, Close, release after a session's end | holds |
| `event_storage` | 2 clients, 2 databases, 2 streams of a session, payloads below and above the bound, 2 positions, 2 times | watermark, orphans, size bound, replays, affinity, indexes | holds |
| `composite_lifecycle` | any 2 of 2 requests, 1 run, 1 lookup; 1 refresh, 1 session, 2 databases | drain before release, nothing left, Close returns, implements `Drain` | holds |
| `search_index` | 2 clients (one walks, retries and calls; the arguments of the other are refused), 3 compiles, 1 event, 1 failed build, an exact name the engine did not match; with liveness | complete walks, calls of what was shown, waiting, retries | holds |
| `frontend_requests` | 2 requests of a session; 2 listeners and 1 other request of a configuration ID; 2 configurations (direct; scoped, deferring, with search), 1 change | notices, selections | holds |
| `get_nil_catalog` | 2 Gets, 1 refresh | does `Get` return a catalog or an error? | violated |
| `replay_two_snapshots` | statement snapshots | is a replay complete? | violated |
| `failed_open_unbinds` | 2 clients, 2 databases | does a session keep its store? | violated |
| `stream_loses_process` | 1 stream, 1 subscription, 1 invocation | does an open stream keep the process? | violated |

What the violated ones show:

* `get_nil_catalog`: after its wait on `ready`, `Get` looks the entry up again
  and may find one that replaced it and still compiles; the fields of that one
  are nil, and `Get` returns neither a catalog nor an error.
* `replay_two_snapshots`: where a transaction's statements see two snapshots, a
  pruning between them leaves a replay without its first events.
* `failed_open_unbinds`: the `Open` that made a binding fails after another one
  used it, and removes it.
* `stream_loses_process`: `subscribe` opens the runtime with no activity and
  does not make the session known to the activity registry, so the idle timer
  retires the process, and the subscription, under an open stream. Without the
  subscription the property fails too: the report of an ending request
  overtakes that of the stream.

`CatalogRegistry` also states two properties that no run checks, because they
fail: `GetAnswers`, for a waiter on an entry that was invalidated between its two
looks at it, because nothing closes that entry's `refreshDone`; and
`ExplicitRefreshRunsAlone`, because a second debounce goroutine may start
`runRefresh` while an explicit search refresh that waited for the first one is
discovering.

`AwaitedRefreshIsComing` and `NoNoticeLost` are claimed where at most one explicit
refresh is made (`OneExplicitRefresh`); with two they fail. The goroutine of a
timer that was armed for an invalidated entry starts refreshing its replacement;
an explicit refresh marks the same entry. The first of them to finish marks it
free; a notification arms a timer; the second to finish closes `refreshDone` and
clears `stale` although the timer is armed; so another explicit refresh marks the
entry again, the timer's goroutine finds it refreshing and gives up, and the
accepted notification is left with nobody to serve it.

`CompositeLifecycle` states one more that fails, `ExitTerminatesCommands`:
`Registry.Close` cancels the context of a refresh and does not await it; the
process that its discovery started is closed by a deferred call that nothing
waits for, and mmmcp may exit before (one request and one refresh are enough).
`TypeOK` of each module holds in its run too and is proved wherever there is a
module of proofs; the configurations leave it out, and adding it to one checks it.

`QuietClientIsCurrent` and `NoticesMeanChanges` do not hold when `Outlived`, the
methods whose handlers may outlive their POST in a session, includes `list`. A
client gives up a `tools/list` and makes it again; the handler of the first, whose
selection is gone, takes the configuration in its context and, because a list
suppresses the notice, silently becomes the snapshot that later requests are
compared with; should the user return to the tools it shows, the client is not
told. A handler that finds the narrowed configuration of the session's first POST
(`initialize`) takes a catalog without tools for the full list. `ServedBySelection`
makes no claim for such handlers either: once its POST has ended, a request
runs under the configuration in its context, not the one it selected.

What the properties of `FrontendRequests` do not say: `observe` and the
middleware compare tools only when the fingerprint or the pending state differs,
so a change upstream under one configuration is announced by the registry's
callbacks, which reach sessions bound to the component, and not by the next
request of a stateless listener.

`LinksReturnHome` has three preconditions, each of which is needed. Where two
components share a prefix (their names may sanitize to the same one),
`toCompositeURI` may take the other's route. Where an override names a template
that the component does not list, the catalog of a call maps links through it
and the catalog of resources has no such route. Where a resource and a template
are exposed under overlapping URIs, which only an override can bring about, the
resource wins. `NarrowingAgrees` leaves out calls whose name a cached catalog
still gives to a component that no longer has the tool: those go to that
component, which refuses them, until the catalog is replaced.

### Bounds

Three calls are the fewest for one call that starts a process, one that waits
and one that arrives after a retirement. Two Gets give one compile and one
waiter; the third actor replaces the entry between them; two changes let one
arrive while a refresh discovers the other; `MaxEvents` bounds changes,
invalidations, explicit refreshes and Close together. One explicit refresh
suffices: two of them step outside what two of the properties claim, and the
theorems of section 4 hold for any number. Three callers give an
opener, a waiter and the opener of a replacement. Two positions in two streams
are enough for events whose order of time differs from that of indexes, for a
stream that expires beside one that does not, and for a replay from the middle;
the payload of 3 exceeds the bound of 2, so that pruning must stop at one event.
Two workers for three components
let one fail while another discovers and a third waits; six tokens are enough for
two prefixes of which one continues the other, a tool that fits both, and a
collision; four tools on pages of two leave a cursor between two catalogs.
Two databases let a session lose its store.
In `SearchIndex`, three catalogs (the tools before a change, after it, and back
again) and pages of one or two hits are enough for a walk that spans two
catalogs, and one event for a build that is stopped while a client waits;
`DefaultLimit` is scaled from 5 to 1. In `FrontendRequests` two requests overtake
each other between their catalogs and the comparison, in a session or beside a
listener that joins or leaves; with two changes (`MaxEvents` 2) the session part
holds as well, in 4.4 million states. `Others` is one because a listener's own
request is a second one. Only clients that listen make stateless requests: what
one of the others does, one of a listener does too. `MaxClock` 1 with `EventTTL` 1 makes
a stream opened at 0 expire at 1. `MaxComers` lets
any two of the requests, runs and lookups take part, beside a refresh and the
handler that a request leaves behind: what matters is one that is let in while
Close waits for another. The numbers of processes, timer goroutines
and generations are bounded by the calls. Symmetry is used only in runs without
liveness properties. Deadlock is not checked where all actors finish (manager,
registry, pool, activity); the event store never stops, and is checked.

### Fairness

Weak fairness of what the Go runtime must do: goroutines that can run do, armed
timers fire, discovery, opening and closing return (component timeouts bound
them) and operations end. Requests, cancellations, activity reports, changes
upstream, ends of sessions and Close are never assumed. An action that returns
on cancellation is fair only where the code's own context ends. In
`CompositeLifecycle` requests and runs unwind only once Close has canceled them,
which needs strong fairness because a handler may make several calls (finitely
many) before it ends, and a stalled body ends only with the server. In
`SearchIndex` builders, compiles and clients that were told to retry proceed;
timers, refreshes, invalidations and cancellations need not come, so that
`SearchNeedsNoTimer` really does without them. A timer may fire at any time of a
wait, also when the index is published: a goroutine that stalls before the select
of `await` finds both channels ready. That a client whose timer always wins is
served in the end needs strong fairness of `Finds`, which Go's random choice among
ready cases gives. A builder that no entry and no
request refers to is not stepped, which nothing could observe.

## 4. Proofs

`StdioManagerProofs`, for any finite set of calls, any counts of activity and
any number of reports:

* `TypeCorrect`, `UsersShareLiveRuntimeCorrect`, `NoProcessLeaksCorrect`,
  `RetiredAfterFullIdlePeriodCorrect`: the safety properties of `stdio_manager`.
* `IdleRuntimeHasTimerCorrect`: an idle process always has a timer, which is the
  safety part of "it retires".
* `CurrentTimerFindsIdleCorrect`: a timer goroutine with the current generation
  finds an idle process, so the other tests of `retire` never decide.

None of the properties is inductive. `IndInv` adds that the operation count is
the number of calls let in (a fact about cardinality), that a timer is installed
only for an idle process with the newest generation, that at most one call
starts a process and only while there is none, and that each running process
has one owner (manager, closer or late opener).

`EventStorageProofs`, for any number of clients, databases, sessions, streams,
payload sizes, bounds and times:

* `WatermarkIsTrue`, `PositionsAreUnique`: `RetainedEventsPresent` and
  `NoOrphanEvents`.
* `IndexesNeverMoveBack`: the action property `IndexesOnlyGrow`.
* `ReplayIsComplete`: `NoPartialReplay`, assuming `SnapshotReads`; the run
  `replay_two_snapshots` shows that the assumption is needed.
* `SessionsStayInTheirStore`: `StoreAffinity`.
* `BytesStayBounded`: `LogWithinBound`.
* `TypeInvariant`.

The argument is about the tables of one database: `TablesOK` says that rows and
events have their types, watermarks do not exceed `next_index`, retained events
are present and positions are unique. Lemmas show that the statements of Open,
Append and SessionClosed keep it, and that pruning keeps it whichever set of
events it removes, since the watermark that `RaisedFirst` chooses exists
(a least element of a set of naturals, by well-foundedness of `<`), stays within
its row and covers every removed event. For replays the invariant says that the
rows found so far reach from the start to the `next_index` that was read. For
affinity it says that an Open in progress works on the store its session is
bound to, and uses that only Open makes a row where there was none.

`LogWithinBound` is about a sum. `Bytes` adds the sizes of a set of events in an
order it chooses, so the first fact is that it satisfies its equation for finite
sets (`BytesIsSum`), which holds because functions that do so exist on the sets
of at most n events for every n (`SumsExist`) and agree where they overlap
(`SumsAgree`); then any event may be the one taken first (`SumTakesAny`), and
fewer events have no more bytes (`BytesGrow`). If pruning leaves more than one
event, the oldest of them stayed because it and what follows it fit the bound,
and that is all that is left (`PruneBounds`); what a later transaction deletes
only lowers the sum (`FewerEventsFit`). Each transaction that adds events prunes
before it commits (`BoundedStep`).

`RuntimePoolProofs`, for any finite set of callers, any sessions (of which any
may be draining), components and wants, and any number of failing closes: all
six safety properties of `runtime_pool` and its type invariant.

The argument begins with who names an entry. An entry is its opener's name, and
whoever has a `ref` shares the key of that opener (`RequestsRefer`), so that the
map's entries have their own keys (`MapHasOwnEntries`). An opening that fails
deletes its key without looking whose it is (`pool.go:92`); that is harmless as
long as an entry that has not failed stays in the map until its session ends or
the pool closes (`CurrentUntilEnd`). From there on one closer has it
(`DetachedOnce`), and what neither the map nor a closer has is the exception
`NoRuntimeLost` names, which needs a session that ended under its requests
(`DrainedSessionsQuiet`). For the reported failures the invariant counts them:
those that Close has and those of the cleanups add up to all, and Close takes the
latter only when no cleanup is left (`CloseWaits`).

`CatalogRegistryProofs`, for any finite sets of requests and explicit refreshes,
any number of changes and events, and all configurations: the five invariants of
`catalog_registry`, its action property `CacheKeepsReadyEntries`, and the type
invariant.

The difficulty is who may end a refresh. An entry's `refreshing` is a promise by
one goroutine, but a timer's goroutine names only the fingerprint, and an
explicit refresh waits outside the mutex, so that two may work on one entry. The
invariant says how that is confined. `RunsAlone`: until an explicit refresh takes
the installed entry over, at most one goroutine refreshes it, and only while
`refreshing` is set. `DueIsAwaited`: whatever is then due for the entry (a timer, a
callback, `pending`) keeps `refreshDone` open, so that an explicit refresh, which
waits for that channel, takes over an entry with nothing due. `TimersServe`: with
at most one explicit refresh, a refresh that runs has no timer beside it, a timer
that was spent has its goroutine, and what arrives during a refresh is noted in
`pending`. `NoticesKept` places every notification: queued on the entry that
accepted it, with one goroutine, or answered. `StaleMarksLack` and `VersionsGrow`
relate the versions: where `stale` is not set the catalog includes each notified
change, and a goroutine that carries a callback finds the change, because it took
the callbacks before it discovered and versions only grow. That credential
outcomes stay with their request needs nothing but itself and the types: an
outcome that waiters share is never one of those.

`CompositeLifecycleProofs`, for any sets of requests, runs, lookups, sessions and
stores: `ImplementsDrainCorrect`, `NothingLeftOpenCorrect` and the type invariant.
`ImplementsDrain` is the refinement: the initial states map to those of `Drain`,
and each action, by a lemma of its own, to one of its actions or to a stutter. The
invariant it needs says who stands behind what is in progress: a session has a
request or run that is still admitted or a watcher (`SessionsHaveOwners`), a
handler a session (`HandlersHaveOwners`); before `New` returns there are none
(`NewIsQuiet`); and each stage of `Close` leaves what the later stages rely on, no
admitted user after the wait, no session after the bindings closed, and so on
(`StagesInOrder`). With it, the conditions under which `Drain` allows a release
follow from the place of `Close` in its sequence.

`FrontendRequestsProofs`, for any requests, listeners, configurations and number
of changes: `ServedBySelectionCorrect` and the type invariant; and, where no list's
handler outlives its POST (section 3 says why), `QuietClientIsCurrentCorrect` and
`NoticesMeanChangesCorrect`.

A client may be in any of several states when a snapshot replaces another, and
the invariant names them for each of its two flags, tools and sign-in (`ToolsKnown`,
`SetupKnown`): it has been told or a notice travels to it, or a list of its own is
still to compare, or has compared and carries the last snapshot, or it holds what
that snapshot shows. `FamiliesFull` says that only catalogs with all tools are
compared, whichever part of the configuration a request discovers, and
`DifferencesAreSeen` that two full snapshots which show different tools differ in
fingerprint or sign-in, which is what the code compares. `ServedBySelection` needs
`OneList` and that a token is its POST's own.

`SearchIndexProofs`, for any contents, rankings, limits, clients, and numbers of
events and of failed builds: `WalkFindsAllCorrect`, `CallRunsWhatWasFoundCorrect`,
`PublishedIndexAnswersCorrect` and the type invariant.

The first is about data. Each page fetches a prefix of the ranking that is one
longer than the page's end, moves the exact match to its front and cuts
the page out of it. `PrefixAgrees`: whether the match is inside the prefix, beyond
it, or not ranked at all, the promoted prefix agrees with the promoted ranking up
to the page's end and is longer than it just when the ranking is; so pages
continue each other (`SearchContinues`). `RevisionsTell` is what a call rests on: a
revision determines component, tool and definition. Because the model has finitely
many contents, the type invariant must count compiles: each is paid for by the
first `Get` or by an event, which may cost one of each client (`CompilesPaid`).

`CatalogCompilerProofs`, for any configurations and answers of their components,
any tokens in names, and any numbers of workers, names to a page and changes:
`OutcomeMatchesAnswersCorrect`, `PagesListOneCatalogCorrect`,
`NarrowingAgreesCorrect`, `LinksReturnHomeCorrect` and the type invariant.

A compile is one pass over the servers by workers that may stop at any point.
`Taken` says that each server below `next` was taken by one worker, which has it
still or left an answer, and `Concluded` that results and cause are what the
answers come to. When the workers are gone and no one canceled, every server was
asked (`AllAnswered`), and then the merged routes show each offered thing once
(`MergedShows`), because a repeated name is a collision. For the pages, token order
is a strict order (`PrecedesOrders`), so that a listing has every name once
(`ListingFits`), the place of a cursor's name in it is unique, and pages cut there
join (`PagesJoin`); a cursor that carries another catalog's id is refused. For
narrowing, the part a call runs with consists of servers of the configuration
(`PartIsWithin`, `OwnedIsWithin`), and the owner of an exposed name is among its
candidates: either nothing is prefixed, or the name begins with the owner's prefix
(`OwnerIsCandidate`), whatever other prefixes it begins with. A part that has the
components that own a name leads where the whole does (`PartLeads`). That holds for
the name of the call and, with tool search, for the one its arguments give
(`NarrowLeads`).

For links, the two catalogs come from configurations that differ in discovery
methods only (`ReadAndCalled`). What the catalog of a call has of a server is
either read as well or stands for an enabled override, and what is read and has
an enabled override the call has too (`CalledIsRead`). So `toCompositeURI` has
three outcomes. A resource route gives the name under which the resource is read
(`ReadExactly`). A template route gives that of a template which, being listed, is
read; if a resource is exposed there too, it means the same (`ReadByTemplate`). And
where no route fits, no enabled override names what covers the URI, which is then
read under its own name (`NotCalled`); that wrapping a URI and wrapping its template
agree is `WrapsFront`. Each precondition of the property is used: the unique prefix
in `CalledRoutes`, the listed templates in `LinkReturns`, the absence of
overlapping URIs in `ReadByTemplate`.

Assumptions are those named in the modules: `ManagerAssumption`, `PoolAssumption`,
`RegistryAssumption`, `FrontendAssumption`, `SearchAssumption` (finitely many
actors where they are counted, types of the parameters, and that the names of
different sorts of actors differ), `StorageAssumption` (types, positive bounds),
`LifecycleAssumption` (the default database is a database), `TokenAssumption`
(types), `CompilerAssumption` (types of configurations, answers and URIs; no
configuration has two components of one name, which loading refuses,
`config/load.go:97`), `CatalogAssumption`
(no component's tool has the name of the authorization tool, which `compile`
refuses, `catalog/compiler.go:60`), `ContentsAssumption` (a ranking lists each
document once), and that the absent value `None` is no value of the kind it stands
in for (`NilAssumption` and parts of the others). Each is what Go or the code
gives: pointers are distinct from nil and from each other, and programs have
finitely many goroutines.

A note on form. In the modules with proofs a function is updated at one index at a
time, a record in it by an `EXCEPT` of its own, as in `[f EXCEPT ![i] = [@ EXCEPT
!.a = x, !.b = y]]`. The prover's encoding of an `EXCEPT` with two updates at one
index is not reliable: from `[f EXCEPT ![i] = x, ![i] = y]` it derives FALSE.

Only model-checked: all liveness, since the prover has neither fairness nor
ENABLED. Every safety property of a passing run is a theorem.

## 5. Not modelled

* Payloads, schemas, headers, results, and which characters a name may have
  (`config.Server` names are sanitized before the model begins): data.
* HTTP component sessions, OAuth, DSN and configuration parsing: I/O or input.
* Concurrent writing transactions on MySQL and PostgreSQL, with deadlocks and
  retries: writing transactions are atomic, as in SQLite with one connection.
* The replacement of an HTTP session by another with the same id.
* The ranking of the search engine, the text of tool schemas it indexes, and the
  wording of its answers.
* Stateless requests without a configuration ID, which share no snapshot.
* `frontendBindings.matching` and resource updates: a lookup and a forwarded call.
* One server that listens twice to one configuration ID: the cleanup of the first
  would remove it for both. `newHTTPHandler` makes a server for each stateless
  request.
* The parts planned below.

## 6. Plan

`catalogDegraded` and the answers of readiness probes, in `CompositeLifecycle`.
