-------------------------- MODULE CompositeLifecycle --------------------------
(***************************************************************************)
(* The life of a Composite (composite.go): New, the admission of HTTP      *)
(* requests (http.go) and persistent runs (stdio.go), and Close against    *)
(* everything that may be under way, up to the exit of cmd/mmmcp.          *)
(*                                                                         *)
(* A request that is admitted reads its body, discovers a catalog if none  *)
(* is cached, and is dispatched. A stateless one runs its method handler   *)
(* itself and calls components through one-off sessions of the factory. A  *)
(* stateful one creates or joins a session, whose handler runs beside it,  *)
(* may outlive it and uses pooled runtimes. Callers of ResolveToolCall and *)
(* Refresh and readiness probes are not admitted: they look at closed once *)
(* and then use the registry. Refreshes run in goroutines of the registry. *)
(*                                                                         *)
(* Of the SDK, two facts are assumed: a session's Close and Wait return    *)
(* when its handlers have, and a POST that returns before its handler      *)
(* started closes the session it created.                                  *)
(***************************************************************************)
EXTENDS Integers, FiniteSets

CONSTANTS
    Requests,     \* HTTP requests to the MCP handler
    Runs,         \* calls of RunStdio
    Lookups,      \* calls of ResolveToolCall and Refresh, readiness probes
    Refreshes,    \* refreshes that notifications of components cause
    Sessions,     \* stateful frontend sessions
    Stores,       \* the databases that DSNs name
    Default,      \* the database that New opens
    MaxComers,    \* bound on requests, runs and lookups together
    MaxLingering, \* bound on one-off sessions that close in the background
    None

ASSUME LifecycleAssumption ==
    /\ Default \in Stores
    /\ MaxLingering \in Nat
    /\ None \notin Sessions
    /\ Requests \cap {"none", "open", "closed"} = {}

Actors == Requests \cup Runs \cup Lookups \cup Refreshes

VARIABLES
    stage,        \* how far New and Close have got
    host,         \* serveHTTP of cmd/mmmcp
    shutdown,     \* whether shutdownCtx is done
    http,         \* where each request is
    frontend,     \* the session of each request, None if it is stateless
    handler,      \* the method handler of each request
    run,          \* where each RunStdio is
    canceled,     \* the runs whose context Close canceled
    lookup,       \* where each lookup is
    armed,        \* refreshes that wait for their debounce timer
    job,          \* what each actor has open: a discovery, a one-off, a runtime
    session,      \* the SDK's sessions
    watched,      \* frontendBindings.watched
    toClose,      \* the sessions that frontendBindings.close has yet to close
    pooled,       \* the sessions that have runtimes in the pool
    releasing,    \* the sessions whose runtimes some goroutine closes
    lingering,    \* one-off sessions that close in the background
    store         \* state of each database; the request that is opening it

vars == <<stage, host, shutdown, http, frontend, handler, run, canceled, lookup,
          armed, job, session, watched, toClose, pooled, releasing, lingering, store>>

\* Groups of variables that the actions of one actor leave alone.
closeVars == <<stage, host, shutdown, canceled, toClose>>
requestVars == <<http, frontend, handler>>
sessionVars == <<session, watched>>
resourceVars == <<pooled, releasing, lingering, store>>
otherVars == <<run, lookup, armed>>

(***************************************************************************)
(* What each stage of Close implies.                                       *)
(***************************************************************************)
StoresClosed == {"waitStores", "returned"}
FactoryClosed == {"waitFactory", "stores"} \cup StoresClosed
PoolClosed == {"waitPool", "factory"} \cup FactoryClosed
RegistryClosed == {"pool"} \cup PoolClosed
Draining == {"http", "stdio", "waitStdio", "waitHTTP", "sessions", "waitSessions", "registry"}
Stages == {"opening", "discovering", "running", "failed"} \cup Draining \cup RegistryClosed

closed == stage \in Draining \cup RegistryClosed

Admitted(q) == http[q] \in {"reading", "serving"}
HandlersOf(s) == {q \in Requests : frontend[q] = s /\ handler[q] = "running"}

TypeOK ==
    /\ stage \in Stages
    /\ host \in {"serving", "draining", "drained", "exited"}
    /\ shutdown \in BOOLEAN
    /\ http \in [Requests -> {"out", "reading", "serving", "done"}]
    /\ frontend \in [Requests -> Sessions \cup {None}]
    /\ handler \in [Requests -> {"none", "running", "done"}]
    /\ run \in [Runs -> {"out", "running", "done"}]
    /\ canceled \subseteq Runs
    /\ lookup \in [Lookups -> {"out", "checked", "done"}]
    /\ armed \subseteq Refreshes
    /\ job \in [Actors -> {"none", "discovery", "oneOff", "runtime"}]
    /\ session \in [Sessions -> {"none", "created", "live", "closing", "ended"}]
    /\ watched \subseteq Sessions
    /\ toClose \subseteq Sessions
    /\ pooled \subseteq Sessions
    /\ releasing \subseteq Sessions
    /\ lingering \in 0..MaxLingering
    /\ store \in [Stores -> {"none", "open", "closed"} \cup Requests]

Init ==
    /\ stage = "opening"
    /\ host = "serving"
    /\ shutdown = FALSE
    /\ http = [q \in Requests |-> "out"]
    /\ frontend = [q \in Requests |-> None]
    /\ handler = [q \in Requests |-> "none"]
    /\ run = [p \in Runs |-> "out"]
    /\ canceled = {}
    /\ lookup = [l \in Lookups |-> "out"]
    /\ armed = {}
    /\ job = [a \in Actors |-> "none"]
    /\ session = [s \in Sessions |-> "none"]
    /\ watched = {}
    /\ toClose = {}
    /\ pooled = {}
    /\ releasing = {}
    /\ lingering = 0
    /\ store = [d \in Stores |-> "none"]

\* Whether MaxComers lets another request, run or lookup come.
OneMoreComes ==
    Cardinality({q \in Requests : http[q] # "out"} \cup {p \in Runs : run[p] # "out"}
                \cup {l \in Lookups : lookup[l] # "out"}) < MaxComers

SetJob(a, kind) == job' = [job EXCEPT ![a] = kind]
SetHTTP(q, label) == http' = [http EXCEPT ![q] = label]
SetSession(s, label) == session' = [session EXCEPT ![s] = label]

Steps(from, to) ==
    /\ stage = from
    /\ stage' = to

(***************************************************************************)
(* New. A failed first discovery closes the factory and the stores.        *)
(***************************************************************************)
OpenDefaultStore ==
    /\ Steps("opening", "discovering")
    /\ store' = [store EXCEPT ![Default] = "open"]
    /\ UNCHANGED <<host, shutdown, canceled, toClose, pooled, releasing, lingering,
                   job, requestVars, sessionVars, otherVars>>

DefaultStoreFails ==
    /\ Steps("opening", "failed")
    /\ UNCHANGED <<host, shutdown, canceled, toClose, resourceVars,
                   job, requestVars, sessionVars, otherVars>>

FirstCatalogCompiled ==
    /\ Steps("discovering", "running")
    /\ UNCHANGED <<host, shutdown, canceled, toClose, resourceVars,
                   job, requestVars, sessionVars, otherVars>>

FirstCatalogFails ==
    /\ Steps("discovering", "failed")
    /\ store' = [store EXCEPT ![Default] = "closed"]
    /\ UNCHANGED <<host, shutdown, canceled, toClose, pooled, releasing, lingering,
                   job, requestVars, sessionVars, otherVars>>

(***************************************************************************)
(* HTTP requests.                                                          *)
(***************************************************************************)
\* Faulty variant: the request is counted although Close has begun.
AdmitUnchecked(q) ==
    /\ stage = "running" \/ closed
    /\ OneMoreComes
    /\ http[q] = "out"
    /\ SetHTTP(q, "reading")
    /\ UNCHANGED <<frontend, handler, job, closeVars, sessionVars, resourceVars, otherVars>>

\* One critical section of httpMu tests closed and counts the request.
Admit(q) ==
    /\ stage = "running" \/ closed
    /\ OneMoreComes
    /\ http[q] = "out"
    /\ SetHTTP(q, IF closed THEN "done" ELSE "reading")
    /\ UNCHANGED <<frontend, handler, job, closeVars, sessionVars, resourceVars, otherVars>>

\* The body is read to its end without regard to any context.
BodyRead(q) ==
    /\ http[q] = "reading"
    /\ SetHTTP(q, "serving")
    /\ UNCHANGED <<frontend, handler, job, closeVars, sessionVars, resourceVars, otherVars>>

\* The client or the server closes the connection.
BodyFails(q) ==
    /\ http[q] = "reading"
    /\ SetHTTP(q, "done")
    /\ UNCHANGED <<frontend, handler, job, closeVars, sessionVars, resourceVars, otherVars>>

\* The dispatcher: a method handler of its own, ...
ServeStateless(q) ==
    /\ http[q] = "serving"
    /\ handler[q] = "none"
    /\ frontend[q] = None
    /\ job[q] = "none"
    /\ handler' = [handler EXCEPT ![q] = "running"]
    /\ UNCHANGED <<http, frontend, job, closeVars, sessionVars, resourceVars, otherVars>>

\* ... a new session, ...
CreateSession(q, s) ==
    /\ http[q] = "serving"
    /\ handler[q] = "none"
    /\ frontend[q] = None
    /\ job[q] = "none"
    /\ session[s] = "none"
    /\ frontend' = [frontend EXCEPT ![q] = s]
    /\ SetSession(s, "created")
    /\ UNCHANGED <<http, handler, job, watched, closeVars, resourceVars, otherVars>>

\* ... or a session that exists.
JoinSession(q, s) ==
    /\ http[q] = "serving"
    /\ handler[q] = "none"
    /\ frontend[q] = None
    /\ job[q] = "none"
    /\ session[s] = "live"
    /\ frontend' = [frontend EXCEPT ![q] = s]
    /\ UNCHANGED <<http, handler, job, closeVars, sessionVars, resourceVars, otherVars>>

\* The SDK calls the middleware; bindServer watches the session.
HandlerStarts(q) ==
    LET s == frontend[q] IN
    /\ http[q] = "serving"
    /\ handler[q] = "none"
    /\ s # None
    /\ session[s] \in {"created", "live"}
    /\ handler' = [handler EXCEPT ![q] = "running"]
    /\ SetSession(s, "live")
    /\ watched' = watched \cup {s}
    /\ UNCHANGED <<http, frontend, job, closeVars, resourceVars, otherVars>>

HandlerEnds(q) ==
    /\ handler[q] = "running"
    /\ job[q] = "none"
    /\ handler' = [handler EXCEPT ![q] = "done"]
    /\ UNCHANGED <<http, frontend, job, closeVars, sessionVars, resourceVars, otherVars>>

\* The response is written or its context is canceled. A stateless request
\* returns after its handler, a stateful one whenever the client goes.
Return(q) ==
    LET s == frontend[q] IN
    /\ http[q] = "serving"
    /\ \A d \in Stores : store[d] # q
    /\ handler[q] # "running" => job[q] = "none"
    /\ s = None => handler[q] # "running"
    /\ SetHTTP(q, "done")
    /\ session' = [r \in Sessions |->
                     IF r = s /\ session[r] = "created" THEN "ended" ELSE session[r]]
    /\ UNCHANGED <<frontend, handler, job, watched, closeVars, resourceVars, otherVars>>

\* The event store of a stateful request: storage.Registry.Get runs Open for
\* the first request that names a database, others wait for it.
OpenStore(q, d) ==
    /\ http[q] = "serving"
    /\ frontend[q] # None
    /\ stage \notin StoresClosed
    /\ store[d] = "none"
    /\ store' = [store EXCEPT ![d] = q]
    /\ UNCHANGED <<pooled, releasing, lingering, job, closeVars, requestVars, sessionVars, otherVars>>

StoreOpens(q, d) ==
    /\ store[d] = q
    /\ \E outcome \in {"open", "none"} : store' = [store EXCEPT ![d] = outcome]
    /\ UNCHANGED <<pooled, releasing, lingering, job, closeVars, requestVars, sessionVars, otherVars>>

(***************************************************************************)
(* Sessions.                                                               *)
(***************************************************************************)
\* DELETE, or the end of the session's connection.
SessionCloses(s) ==
    /\ session[s] = "live"
    /\ SetSession(s, "closing")
    /\ UNCHANGED <<watched, job, closeVars, requestVars, resourceVars, otherVars>>

SessionEnds(s) ==
    /\ session[s] = "closing"
    /\ HandlersOf(s) = {}
    /\ SetSession(s, "ended")
    /\ UNCHANGED <<watched, job, closeVars, requestVars, resourceVars, otherVars>>

\* The goroutine of bindServer, after Wait.
WatcherEnds(s) ==
    /\ session[s] = "ended"
    /\ s \in watched
    /\ watched' = watched \ {s}
    /\ UNCHANGED <<session, job, closeVars, requestVars, resourceVars, otherVars>>

(***************************************************************************)
(* RunStdio: one critical section of stdioMu tests closed, registers the   *)
(* context's cancellation and counts the run. Its handlers are part of it. *)
(***************************************************************************)
RunStdio(p) ==
    /\ stage = "running" \/ closed
    /\ OneMoreComes
    /\ run[p] = "out"
    /\ run' = [run EXCEPT ![p] = IF closed THEN "done" ELSE "running"]
    /\ UNCHANGED <<lookup, armed, job, closeVars, requestVars, sessionVars, resourceVars>>

RunEnds(p) ==
    /\ run[p] = "running"
    /\ job[p] = "none"
    /\ run' = [run EXCEPT ![p] = "done"]
    /\ UNCHANGED <<lookup, armed, job, closeVars, requestVars, sessionVars, resourceVars>>

(***************************************************************************)
(* Users that are not admitted.                                            *)
(***************************************************************************)
\* ResolveToolCall, Refresh and serveReady test closed, ...
LookupStarts(l) ==
    /\ stage = "running"
    /\ OneMoreComes
    /\ lookup[l] = "out"
    /\ lookup' = [lookup EXCEPT ![l] = "checked"]
    /\ UNCHANGED <<run, armed, job, closeVars, requestVars, sessionVars, resourceVars>>

\* ... use the registry whatever has become of it, and return.
LookupEnds(l) ==
    /\ lookup[l] = "checked"
    /\ job[l] = "none"
    /\ lookup' = [lookup EXCEPT ![l] = "done"]
    /\ UNCHANGED <<run, armed, job, closeVars, requestVars, sessionVars, resourceVars>>

\* RequestRefresh, on a notification that reaches a pooled runtime.
RequestRefresh(b) ==
    /\ pooled \cup releasing # {}
    /\ stage \notin RegistryClosed
    /\ armed' = armed \cup {b}
    /\ UNCHANGED <<run, lookup, job, closeVars, requestVars, sessionVars, resourceVars>>

\* The debounce timer fires; Close has stopped it, or runRefresh sees closed.
RunRefresh(b) ==
    /\ b \in armed
    /\ stage \notin RegistryClosed
    /\ job[b] = "none"
    /\ armed' = armed \ {b}
    /\ SetJob(b, "discovery")
    /\ UNCHANGED <<run, lookup, closeVars, requestVars, sessionVars, resourceVars>>

(***************************************************************************)
(* What an actor does with components, one thing at a time.                *)
(***************************************************************************)
\* registry.Get compiles a catalog: discovery starts processes of its own.
MayDiscover(a) ==
    \/ a \in Requests /\ http[a] = "serving" /\ frontend[a] = None /\ handler[a] = "none"
    \/ a \in Requests /\ handler[a] = "running"
    \/ a \in Runs /\ run[a] = "running"
    \/ a \in Lookups /\ lookup[a] = "checked"

Discover(a) ==
    /\ MayDiscover(a)
    /\ job[a] = "none"
    /\ SetJob(a, "discovery")
    /\ UNCHANGED <<closeVars, requestVars, sessionVars, resourceVars, otherVars>>

DiscoveryEnds(a) ==
    /\ job[a] = "discovery"
    /\ SetJob(a, "none")
    /\ UNCHANGED <<closeVars, requestVars, sessionVars, resourceVars, otherVars>>

\* withSession: beginOneOff counts the call unless the factory closes.
BeginOneOff(a) ==
    /\ \/ a \in Requests /\ handler[a] = "running" /\ frontend[a] = None
       \/ a \in Runs /\ run[a] = "running"
    /\ job[a] = "none"
    /\ stage \notin FactoryClosed
    /\ SetJob(a, "oneOff")
    /\ UNCHANGED <<closeVars, requestVars, sessionVars, resourceVars, otherVars>>

\* A call that failed closes its session itself, one that succeeded leaves
\* that to a goroutine, which remains counted.
OneOffEnds(a) ==
    /\ job[a] = "oneOff"
    /\ SetJob(a, "none")
    /\ \/ lingering < MaxLingering /\ lingering' = lingering + 1
       \/ lingering' = lingering
    /\ UNCHANGED <<pooled, releasing, store, closeVars, requestVars, sessionVars, otherVars>>

OneOffClosed ==
    /\ lingering > 0
    /\ lingering' = lingering - 1
    /\ UNCHANGED <<pooled, releasing, store, job, closeVars, requestVars, sessionVars, otherVars>>

\* Pool.Acquire in the handler of a session, and release after the call.
AcquireRuntime(q) ==
    /\ handler[q] = "running"
    /\ frontend[q] # None
    /\ job[q] = "none"
    /\ stage \notin PoolClosed
    /\ SetJob(q, "runtime")
    /\ pooled' = pooled \cup {frontend[q]}
    /\ UNCHANGED <<releasing, lingering, store, closeVars, requestVars, sessionVars, otherVars>>

ReleaseRuntime(q) ==
    /\ job[q] = "runtime"
    /\ SetJob(q, "none")
    /\ UNCHANGED <<closeVars, requestVars, sessionVars, resourceVars, otherVars>>

\* Pool.closeSession detaches the runtimes of a session that has ended.
PoolSessionEnds(s) ==
    /\ session[s] = "ended"
    /\ s \in pooled
    /\ stage \notin PoolClosed
    /\ pooled' = pooled \ {s}
    /\ releasing' = releasing \cup {s}
    /\ UNCHANGED <<lingering, store, job, closeVars, requestVars, sessionVars, otherVars>>

RuntimesClosed(s) ==
    /\ s \in releasing
    /\ releasing' = releasing \ {s}
    /\ UNCHANGED <<pooled, lingering, store, job, closeVars, requestVars, sessionVars, otherVars>>

(***************************************************************************)
(* cmd/mmmcp: a signal starts Close beside http.Server.Shutdown, which     *)
(* waits for connections until its deadline; the server is closed in any   *)
(* case. A server that fails is closed at once, and then the composite.    *)
(***************************************************************************)
Signal ==
    /\ host = "serving"
    /\ stage = "running"
    /\ host' = "draining"
    /\ UNCHANGED <<stage, shutdown, canceled, toClose, job,
                   requestVars, sessionVars, resourceVars, otherVars>>

CloseServer ==
    /\ \/ host = "draining"
       \/ host = "serving" /\ stage = "running"
    /\ host' = "drained"
    /\ UNCHANGED <<stage, shutdown, canceled, toClose, job,
                   requestVars, sessionVars, resourceVars, otherVars>>

Exit ==
    /\ host = "drained"
    /\ stage = "returned"
    /\ host' = "exited"
    /\ UNCHANGED <<stage, shutdown, canceled, toClose, job,
                   requestVars, sessionVars, resourceVars, otherVars>>

(***************************************************************************)
(* Close.                                                                  *)
(***************************************************************************)
BeginClose ==
    /\ host # "serving"
    /\ Steps("running", "http")
    /\ UNCHANGED <<host, shutdown, canceled, toClose, job,
                   requestVars, sessionVars, resourceVars, otherVars>>

CancelRequests ==
    /\ Steps("http", "stdio")
    /\ shutdown' = TRUE
    /\ UNCHANGED <<host, canceled, toClose, job,
                   requestVars, sessionVars, resourceVars, otherVars>>

CancelRuns ==
    /\ Steps("stdio", "waitStdio")
    /\ canceled' = {p \in Runs : run[p] = "running"}
    /\ UNCHANGED <<host, shutdown, toClose, job,
                   requestVars, sessionVars, resourceVars, otherVars>>

AwaitRuns ==
    /\ \A p \in Runs : run[p] # "running"
    /\ Steps("waitStdio", "waitHTTP")
    /\ UNCHANGED <<host, shutdown, canceled, toClose, job,
                   requestVars, sessionVars, resourceVars, otherVars>>

AwaitRequests ==
    /\ \A q \in Requests : ~Admitted(q)
    /\ Steps("waitHTTP", "sessions")
    /\ UNCHANGED <<host, shutdown, canceled, toClose, job,
                   requestVars, sessionVars, resourceVars, otherVars>>

\* Faulty variant: close only awaits the watchers.
CopyNoSessions ==
    /\ Steps("sessions", "waitSessions")
    /\ UNCHANGED <<host, shutdown, canceled, toClose, job,
                   requestVars, sessionVars, resourceVars, otherVars>>

\* frontendBindings.close copies the watched sessions, ...
CopySessions ==
    /\ Steps("sessions", "waitSessions")
    /\ toClose' = watched
    /\ UNCHANGED <<host, shutdown, canceled, job,
                   requestVars, sessionVars, resourceVars, otherVars>>

\* ... closes one after the other, waiting for its handlers, ...
CloseSession(s) ==
    /\ stage = "waitSessions"
    /\ s \in toClose
    /\ IF session[s] = "ended"
       THEN toClose' = toClose \ {s} /\ UNCHANGED session
       ELSE session[s] = "live" /\ SetSession(s, "closing") /\ UNCHANGED toClose
    /\ UNCHANGED <<stage, host, shutdown, canceled, watched, job,
                   requestVars, resourceVars, otherVars>>

\* ... and awaits the watchers.
AwaitWatchers ==
    /\ toClose = {}
    /\ watched = {}
    /\ Steps("waitSessions", "registry")
    /\ UNCHANGED <<host, shutdown, canceled, toClose, job,
                   requestVars, sessionVars, resourceVars, otherVars>>

\* Registry.Close cancels refreshes and stops timers; it awaits nothing.
CloseRegistry ==
    /\ Steps("registry", "pool")
    /\ armed' = {}
    /\ UNCHANGED <<host, shutdown, canceled, toClose, run, lookup, job,
                   requestVars, sessionVars, resourceVars>>

ClosePool ==
    /\ Steps("pool", "waitPool")
    /\ pooled' = {}
    /\ releasing' = releasing \cup pooled
    /\ UNCHANGED <<host, shutdown, canceled, toClose, lingering, store, job,
                   requestVars, sessionVars, otherVars>>

AwaitRuntimes ==
    /\ releasing = {}
    /\ Steps("waitPool", "factory")
    /\ UNCHANGED <<host, shutdown, canceled, toClose, job,
                   requestVars, sessionVars, resourceVars, otherVars>>

CloseFactory ==
    /\ Steps("factory", "waitFactory")
    /\ UNCHANGED <<host, shutdown, canceled, toClose, job,
                   requestVars, sessionVars, resourceVars, otherVars>>

\* Faulty variant: sessions that close in the background are not counted.
AwaitCallsOnly ==
    /\ \A a \in Actors : job[a] # "oneOff"
    /\ Steps("waitFactory", "stores")
    /\ UNCHANGED <<host, shutdown, canceled, toClose, job,
                   requestVars, sessionVars, resourceVars, otherVars>>

\* Factory.Close awaits the one-off calls and the sessions they left behind.
AwaitOneOffs ==
    /\ \A a \in Actors : job[a] # "oneOff"
    /\ lingering = 0
    /\ Steps("waitFactory", "stores")
    /\ UNCHANGED <<host, shutdown, canceled, toClose, job,
                   requestVars, sessionVars, resourceVars, otherVars>>

CloseStores ==
    /\ Steps("stores", "waitStores")
    /\ UNCHANGED <<host, shutdown, canceled, toClose, job,
                   requestVars, sessionVars, resourceVars, otherVars>>

CloseStore(d) ==
    /\ stage = "waitStores"
    /\ store[d] = "open"
    /\ store' = [store EXCEPT ![d] = "closed"]
    /\ UNCHANGED <<pooled, releasing, lingering, job, closeVars,
                   requestVars, sessionVars, otherVars>>

\* Those that are being opened are awaited too.
CloseReturns ==
    /\ \A d \in Stores : store[d] \in {"none", "closed"}
    /\ Steps("waitStores", "returned")
    /\ UNCHANGED <<host, shutdown, canceled, toClose, job,
                   requestVars, sessionVars, resourceVars, otherVars>>

(***************************************************************************)
(* The specification.                                                      *)
(***************************************************************************)
RequestSteps(q) ==
    \/ Admit(q) \/ BodyRead(q) \/ BodyFails(q)
    \/ ServeStateless(q) \/ HandlerStarts(q) \/ HandlerEnds(q) \/ Return(q)
    \/ AcquireRuntime(q) \/ ReleaseRuntime(q)
    \/ \E s \in Sessions : CreateSession(q, s) \/ JoinSession(q, s)
    \/ \E d \in Stores : OpenStore(q, d) \/ StoreOpens(q, d)

SessionSteps(s) ==
    \/ SessionCloses(s) \/ SessionEnds(s) \/ WatcherEnds(s)
    \/ PoolSessionEnds(s) \/ RuntimesClosed(s)

ActorSteps(a) == Discover(a) \/ DiscoveryEnds(a) \/ BeginOneOff(a) \/ OneOffEnds(a)

NewSteps ==
    OpenDefaultStore \/ DefaultStoreFails \/ FirstCatalogCompiled \/ FirstCatalogFails

HostSteps == Signal \/ CloseServer \/ Exit

\* What Close does itself.
CloseSteps ==
    \/ BeginClose \/ CancelRequests \/ CancelRuns \/ AwaitRuns \/ AwaitRequests
    \/ CopySessions \/ AwaitWatchers \/ CloseRegistry \/ ClosePool
    \/ AwaitRuntimes \/ CloseFactory \/ AwaitOneOffs \/ CloseStores \/ CloseReturns
    \/ \E s \in Sessions : CloseSession(s)
    \/ \E d \in Stores : CloseStore(d)

Next ==
    \/ NewSteps \/ HostSteps \/ CloseSteps \/ OneOffClosed
    \/ \E q \in Requests : RequestSteps(q)
    \/ \E s \in Sessions : SessionSteps(s)
    \/ \E p \in Runs : RunStdio(p) \/ RunEnds(p)
    \/ \E l \in Lookups : LookupStarts(l) \/ LookupEnds(l)
    \/ \E b \in Refreshes : RequestRefresh(b) \/ RunRefresh(b)
    \/ \E a \in Actors : ActorSteps(a)

Spec == Init /\ [][Next]_vars

\* Whoever Close has canceled comes to an end: calls of components observe
\* their context, and a handler makes finitely many of them. A body that is
\* being read observes none, but a closed server closes its connection.
\* Waiters and cleanups run when they can; the deadline of Shutdown passes.
\* Nothing else is assumed.
Fairness ==
    /\ WF_vars(CloseSteps)
    /\ WF_vars(OneOffClosed \/ (host = "draining" /\ CloseServer))
    /\ \A q \in Requests :
         /\ WF_vars(host = "drained" /\ BodyFails(q))
         /\ WF_vars(shutdown /\ (DiscoveryEnds(q) \/ OneOffEnds(q) \/ ReleaseRuntime(q)))
         /\ SF_vars(shutdown /\ (HandlerEnds(q) \/ Return(q)))
         /\ WF_vars(\E d \in Stores : StoreOpens(q, d))
    /\ \A p \in Runs :
         /\ WF_vars(p \in canceled /\ (DiscoveryEnds(p) \/ OneOffEnds(p)))
         /\ SF_vars(p \in canceled /\ RunEnds(p))
    /\ \A s \in Sessions :
         WF_vars(SessionEnds(s) \/ WatcherEnds(s) \/ RuntimesClosed(s))

FairSpec == Spec /\ Fairness

(***************************************************************************)
(* Properties.                                                             *)
(***************************************************************************)
\* Admitted requests, persistent runs, and sessions until their watchers end.
Users ==
    {q \in Requests : Admitted(q)} \cup {p \in Runs : run[p] = "running"}
    \cup {s \in Sessions : session[s] \in {"created", "live", "closing"} \/ s \in watched}

OneOffsOpen == lingering > 0 \/ \E a \in Actors : job[a] = "oneOff"

\* Runtimes, databases, and one-off sessions together as None.
Held ==
    pooled \cup releasing \cup {d \in Stores : store[d] \notin {"none", "closed"}}
    \cup (IF OneOffsOpen THEN {None} ELSE {})

Phase ==
    CASE stage \in {"opening", "discovering"} -> "new"
      [] stage = "running" -> "open"
      [] stage \in Draining \ {"registry"} -> "draining"
      [] OTHER -> "released"

Abstract == INSTANCE Drain WITH phase <- Phase, users <- Users, held <- Held

\* Admission, and the order in which Close waits and closes: no request, run
\* or session is let in once Close waits for none, none is left when the
\* first resource goes, and no resource is acquired afterwards.
ImplementsDrain == Abstract!Spec

\* When Close has returned, or New has failed, no session is left, no runtime
\* of the pool, no one-off session, no watcher and no open database.
NothingLeftOpen ==
    stage \in {"returned", "failed"} => Users = {} /\ Held = {}

\* Close returns, whatever requests, runs, sessions, one-off calls and
\* databases were under way, and a stalled body too.
CloseEnds == stage = "http" ~> stage = "returned"

\* README.md: on a signal mmmcp terminates the command components it owns.
ExitTerminatesCommands ==
    host = "exited" => \A a \in Actors : job[a] # "discovery"
================================================================================
