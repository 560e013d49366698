------------------------ MODULE CompositeLifecycleProofs ------------------------
(***************************************************************************)
(* Proofs about CompositeLifecycle, for any numbers of requests, runs,     *)
(* lookups, refreshes, sessions and databases: it implements Drain, and    *)
(* nothing is left open when Close has returned.                           *)
(*                                                                         *)
(* The order of Close is safe because each kind of user is brought in only *)
(* by users that Close still waits for: a session by a request that is     *)
(* served, a handler by a request or a session, a one-off call or a pooled *)
(* runtime by a handler or a run.  The invariant says who answers for what.*)
(***************************************************************************)
EXTENDS CompositeLifecycle, TLAPS

\* A session that no goroutine watches yet belongs to a request that is being
\* served; the others are watched until after they have ended.
SessionsHaveOwners ==
    \A s \in Sessions :
        /\ session[s] = "created" =>
              \E q \in Requests : http[q] = "serving" /\ frontend[q] = s
        /\ session[s] \in {"live", "closing"} => s \in watched

\* A handler runs for a request that is being served or in an open session.
HandlersHaveOwners ==
    \A q \in Requests : handler[q] = "running" =>
        IF frontend[q] = None
        THEN http[q] = "serving"
        ELSE session[frontend[q]] \in {"live", "closing"}

RunsOver == \A p \in Runs : run[p] # "running"
RequestsOver == \A q \in Requests : ~Admitted(q)
SessionsOver ==
    \A s \in Sessions :
        session[s] \notin {"created", "live", "closing"} /\ s \notin watched

\* Nobody uses the composite before New has returned, or after it has failed.
NewIsQuiet ==
    stage \in {"opening", "discovering", "failed"} =>
        /\ RunsOver /\ RequestsOver /\ SessionsOver
        /\ pooled = {} /\ releasing = {} /\ ~OneOffsOpen
        /\ \A d \in Stores :
              \/ store[d] \in {"none", "closed"}
              \/ stage = "discovering" /\ d = Default

AfterRegistry == {"registry"} \cup RegistryClosed
AfterRequests == {"sessions", "waitSessions"} \cup AfterRegistry

\* What each stage of Close has seen the end of stays over.
StagesInOrder ==
    /\ stage \in {"waitHTTP"} \cup AfterRequests => RunsOver
    /\ stage \in AfterRequests => RequestsOver
    /\ stage \in AfterRegistry => SessionsOver
    /\ stage \in PoolClosed => pooled = {}
    /\ stage \in {"factory"} \cup FactoryClosed => releasing = {}
    /\ stage \in {"stores"} \cup StoresClosed => ~OneOffsOpen
    /\ stage = "returned" => \A d \in Stores : store[d] \in {"none", "closed"}

IndInv ==
    /\ TypeOK
    /\ SessionsHaveOwners
    /\ HandlersHaveOwners
    /\ NewIsQuiet
    /\ StagesInOrder

----------------------------------------------------------------------------
\* The type invariant (composite.go, http.go, stdio.go).
LEMMA TypeInit == Init => TypeOK
<1> SUFFICES ASSUME Init PROVE TypeOK
  OBVIOUS
<1>1. shutdown \in BOOLEAN
  BY DEF Init
<1> QED BY <1>1, LifecycleAssumption DEF Init, TypeOK, Stages

LEMMA TypeStep == TypeOK /\ [Next]_vars => TypeOK'
<1> SUFFICES ASSUME TypeOK, [Next]_vars PROVE TypeOK'
  OBVIOUS
<1> USE LifecycleAssumption
    DEF TypeOK, Stages, Draining, RegistryClosed, PoolClosed, FactoryClosed,
        StoresClosed,
        Steps, SetJob, SetHTTP, SetSession, closeVars, requestVars,
        sessionVars, resourceVars, otherVars, Actors
<1>1. CASE NewSteps
  <2>1. CASE OpenDefaultStore
    BY <2>1 DEF OpenDefaultStore
  <2>2. CASE DefaultStoreFails
    BY <2>2 DEF DefaultStoreFails
  <2>3. CASE FirstCatalogCompiled
    BY <2>3 DEF FirstCatalogCompiled
  <2>4. CASE FirstCatalogFails
    BY <2>4 DEF FirstCatalogFails
  <2> QED BY <1>1, <2>1, <2>2, <2>3, <2>4 DEF NewSteps
<1>2. CASE HostSteps
  <2>1. CASE Signal
    BY <2>1 DEF Signal
  <2>2. CASE CloseServer
    BY <2>2 DEF CloseServer
  <2>3. CASE Exit
    BY <2>3 DEF Exit
  <2> QED BY <1>2, <2>1, <2>2, <2>3 DEF HostSteps
<1>3. CASE CloseSteps
  <2>1. CASE BeginClose
    BY <2>1 DEF BeginClose
  <2>2. CASE CancelRequests
    BY <2>2 DEF CancelRequests
  <2>3. CASE CancelRuns
    BY <2>3 DEF CancelRuns
  <2>4. CASE AwaitRuns
    BY <2>4 DEF AwaitRuns
  <2>5. CASE AwaitRequests
    BY <2>5 DEF AwaitRequests
  <2>6. CASE CopySessions
    BY <2>6 DEF CopySessions
  <2>7. CASE AwaitWatchers
    BY <2>7 DEF AwaitWatchers
  <2>8. CASE CloseRegistry
    BY <2>8 DEF CloseRegistry
  <2>9. CASE ClosePool
    BY <2>9 DEF ClosePool
  <2>10. CASE AwaitRuntimes
    BY <2>10 DEF AwaitRuntimes
  <2>11. CASE CloseFactory
    BY <2>11 DEF CloseFactory
  <2>12. CASE AwaitOneOffs
    BY <2>12 DEF AwaitOneOffs
  <2>13. CASE CloseStores
    BY <2>13 DEF CloseStores
  <2>14. CASE CloseReturns
    BY <2>14 DEF CloseReturns
  <2>15. ASSUME NEW s \in Sessions, CloseSession(s) PROVE TypeOK'
    BY <2>15 DEF CloseSession
  <2>16. ASSUME NEW d \in Stores, CloseStore(d) PROVE TypeOK'
    BY <2>16 DEF CloseStore
  <2> QED BY <1>3, <2>1, <2>2, <2>3, <2>4, <2>5, <2>6, <2>7, <2>8, <2>9, <2>10,
  <2>11, <2>12, <2>13, <2>14, <2>15, <2>16 DEF CloseSteps
<1>4. ASSUME NEW q \in Requests, RequestSteps(q) PROVE TypeOK'
  <2>1. CASE Admit(q)
    BY <2>1 DEF Admit
  <2>2. CASE BodyRead(q)
    BY <2>2 DEF BodyRead
  <2>3. CASE BodyFails(q)
    BY <2>3 DEF BodyFails
  <2>4. CASE ServeStateless(q)
    BY <2>4 DEF ServeStateless
  <2>5. CASE HandlerStarts(q)
    BY <2>5 DEF HandlerStarts
  <2>6. CASE HandlerEnds(q)
    BY <2>6 DEF HandlerEnds
  <2>7. CASE Return(q)
    BY <2>7 DEF Return
  <2>8. CASE AcquireRuntime(q)
    BY <2>8 DEF AcquireRuntime
  <2>9. CASE ReleaseRuntime(q)
    BY <2>9 DEF ReleaseRuntime
  <2>10. ASSUME NEW s \in Sessions, CreateSession(q, s) PROVE TypeOK'
    BY <2>10 DEF CreateSession
  <2>11. ASSUME NEW s \in Sessions, JoinSession(q, s) PROVE TypeOK'
    BY <2>11 DEF JoinSession
  <2>12. ASSUME NEW d \in Stores, OpenStore(q, d) PROVE TypeOK'
    BY <2>12 DEF OpenStore
  <2>13. ASSUME NEW d \in Stores, StoreOpens(q, d) PROVE TypeOK'
    BY <2>13 DEF StoreOpens
  <2> QED BY <1>4, <2>1, <2>2, <2>3, <2>4, <2>5, <2>6, <2>7, <2>8, <2>9, <2>10,
  <2>11, <2>12, <2>13 DEF RequestSteps
<1>5. ASSUME NEW s \in Sessions, SessionSteps(s) PROVE TypeOK'
  <2>1. CASE SessionCloses(s)
    BY <2>1 DEF SessionCloses
  <2>2. CASE SessionEnds(s)
    BY <2>2 DEF SessionEnds
  <2>3. CASE WatcherEnds(s)
    BY <2>3 DEF WatcherEnds
  <2>4. CASE PoolSessionEnds(s)
    BY <2>4 DEF PoolSessionEnds
  <2>5. CASE RuntimesClosed(s)
    BY <2>5 DEF RuntimesClosed
  <2> QED BY <1>5, <2>1, <2>2, <2>3, <2>4, <2>5 DEF SessionSteps
<1>6. ASSUME NEW a \in Actors, ActorSteps(a) PROVE TypeOK'
  <2>1. CASE Discover(a)
    BY <2>1 DEF Discover
  <2>2. CASE DiscoveryEnds(a)
    BY <2>2 DEF DiscoveryEnds
  <2>3. CASE BeginOneOff(a)
    BY <2>3 DEF BeginOneOff
  <2>4. CASE OneOffEnds(a)
    BY <2>4 DEF OneOffEnds
  <2> QED BY <1>6, <2>1, <2>2, <2>3, <2>4 DEF ActorSteps
<1>7. CASE OneOffClosed
  BY <1>7 DEF OneOffClosed
<1>8. ASSUME NEW p \in Runs, RunStdio(p) PROVE TypeOK'
  BY <1>8 DEF RunStdio
<1>9. ASSUME NEW p \in Runs, RunEnds(p) PROVE TypeOK'
  BY <1>9 DEF RunEnds
<1>10. ASSUME NEW l \in Lookups, LookupStarts(l) PROVE TypeOK'
  BY <1>10 DEF LookupStarts
<1>11. ASSUME NEW l \in Lookups, LookupEnds(l) PROVE TypeOK'
  BY <1>11 DEF LookupEnds
<1>12. ASSUME NEW b \in Refreshes, RequestRefresh(b) PROVE TypeOK'
  BY <1>12 DEF RequestRefresh
<1>13. ASSUME NEW b \in Refreshes, RunRefresh(b) PROVE TypeOK'
  BY <1>13 DEF RunRefresh
<1>14. CASE UNCHANGED vars
  BY <1>14 DEF vars
<1> QED BY <1>1, <1>2, <1>3, <1>4, <1>5, <1>6, <1>7, <1>8, <1>9, <1>10, <1>11,
<1>12, <1>13, <1>14 DEF Next

----------------------------------------------------------------------------
LEMMA IndInit == Init => IndInv
  BY TypeInit DEF Init, IndInv, SessionsHaveOwners, HandlersHaveOwners,
     NewIsQuiet, StagesInOrder, RunsOver, RequestsOver, SessionsOver, Admitted,
     OneOffsOpen, AfterRequests, AfterRegistry, PoolClosed, FactoryClosed,
     StoresClosed, RegistryClosed

LEMMA OwnersStep ==
  IndInv /\ [Next]_vars => SessionsHaveOwners' /\ HandlersHaveOwners'
<1> DEFINE Owned == SessionsHaveOwners /\ HandlersHaveOwners
<1> SUFFICES ASSUME IndInv, [Next]_vars PROVE Owned'
  OBVIOUS
<1> USE LifecycleAssumption
    DEF IndInv, TypeOK, SessionsHaveOwners, HandlersHaveOwners,
        Steps, SetJob, SetHTTP, SetSession, closeVars, requestVars,
        sessionVars, resourceVars, otherVars
<1>1. CASE NewSteps
  <2>1. CASE OpenDefaultStore
    BY <2>1 DEF OpenDefaultStore
  <2>2. CASE DefaultStoreFails
    BY <2>2 DEF DefaultStoreFails
  <2>3. CASE FirstCatalogCompiled
    BY <2>3 DEF FirstCatalogCompiled
  <2>4. CASE FirstCatalogFails
    BY <2>4 DEF FirstCatalogFails
  <2> QED BY <1>1, <2>1, <2>2, <2>3, <2>4 DEF NewSteps
<1>2. CASE HostSteps
  <2>1. CASE Signal
    BY <2>1 DEF Signal
  <2>2. CASE CloseServer
    BY <2>2 DEF CloseServer
  <2>3. CASE Exit
    BY <2>3 DEF Exit
  <2> QED BY <1>2, <2>1, <2>2, <2>3 DEF HostSteps
<1>3. CASE CloseSteps
  <2>1. CASE BeginClose
    BY <2>1 DEF BeginClose
  <2>2. CASE CancelRequests
    BY <2>2 DEF CancelRequests
  <2>3. CASE CancelRuns
    BY <2>3 DEF CancelRuns
  <2>4. CASE AwaitRuns
    BY <2>4 DEF AwaitRuns
  <2>5. CASE AwaitRequests
    BY <2>5 DEF AwaitRequests
  <2>6. CASE CopySessions
    BY <2>6 DEF CopySessions
  <2>7. CASE AwaitWatchers
    BY <2>7 DEF AwaitWatchers
  <2>8. CASE CloseRegistry
    BY <2>8 DEF CloseRegistry
  <2>9. CASE ClosePool
    BY <2>9 DEF ClosePool
  <2>10. CASE AwaitRuntimes
    BY <2>10 DEF AwaitRuntimes
  <2>11. CASE CloseFactory
    BY <2>11 DEF CloseFactory
  <2>12. CASE AwaitOneOffs
    BY <2>12 DEF AwaitOneOffs
  <2>13. CASE CloseStores
    BY <2>13 DEF CloseStores
  <2>14. CASE CloseReturns
    BY <2>14 DEF CloseReturns
  <2>15. ASSUME NEW s \in Sessions, CloseSession(s) PROVE Owned'
    BY <2>15 DEF CloseSession
  <2>16. ASSUME NEW d \in Stores, CloseStore(d) PROVE Owned'
    BY <2>16 DEF CloseStore
  <2> QED BY <1>3, <2>1, <2>2, <2>3, <2>4, <2>5, <2>6, <2>7, <2>8, <2>9, <2>10,
  <2>11, <2>12, <2>13, <2>14, <2>15, <2>16 DEF CloseSteps
<1>4. ASSUME NEW q \in Requests, RequestSteps(q) PROVE Owned'
  <2>1. CASE Admit(q)
    BY <2>1 DEF Admit
  <2>2. CASE BodyRead(q)
    BY <2>2 DEF BodyRead
  <2>3. CASE BodyFails(q)
    BY <2>3 DEF BodyFails
  <2>4. CASE ServeStateless(q)
    BY <2>4 DEF ServeStateless
  <2>5. CASE HandlerStarts(q)
    BY <2>5 DEF HandlerStarts
  <2>6. CASE HandlerEnds(q)
    BY <2>6 DEF HandlerEnds
  <2>7. CASE Return(q)
    BY <2>7 DEF Return
  <2>8. CASE AcquireRuntime(q)
    BY <2>8 DEF AcquireRuntime
  <2>9. CASE ReleaseRuntime(q)
    BY <2>9 DEF ReleaseRuntime
  <2>10. ASSUME NEW s \in Sessions, CreateSession(q, s) PROVE Owned'
    BY <2>10 DEF CreateSession
  <2>11. ASSUME NEW s \in Sessions, JoinSession(q, s) PROVE Owned'
    BY <2>11 DEF JoinSession
  <2>12. ASSUME NEW d \in Stores, OpenStore(q, d) PROVE Owned'
    BY <2>12 DEF OpenStore
  <2>13. ASSUME NEW d \in Stores, StoreOpens(q, d) PROVE Owned'
    BY <2>13 DEF StoreOpens
  <2> QED BY <1>4, <2>1, <2>2, <2>3, <2>4, <2>5, <2>6, <2>7, <2>8, <2>9, <2>10,
  <2>11, <2>12, <2>13 DEF RequestSteps
<1>5. ASSUME NEW s \in Sessions, SessionSteps(s) PROVE Owned'
  <2>1. CASE SessionCloses(s)
    BY <2>1 DEF SessionCloses
  <2>2. CASE SessionEnds(s)
    BY <2>2 DEF SessionEnds, HandlersOf
  <2>3. CASE WatcherEnds(s)
    BY <2>3 DEF WatcherEnds
  <2>4. CASE PoolSessionEnds(s)
    BY <2>4 DEF PoolSessionEnds
  <2>5. CASE RuntimesClosed(s)
    BY <2>5 DEF RuntimesClosed
  <2> QED BY <1>5, <2>1, <2>2, <2>3, <2>4, <2>5 DEF SessionSteps
<1>6. ASSUME NEW a \in Actors, ActorSteps(a) PROVE Owned'
  <2>1. CASE Discover(a)
    BY <2>1 DEF Discover
  <2>2. CASE DiscoveryEnds(a)
    BY <2>2 DEF DiscoveryEnds
  <2>3. CASE BeginOneOff(a)
    BY <2>3 DEF BeginOneOff
  <2>4. CASE OneOffEnds(a)
    BY <2>4 DEF OneOffEnds
  <2> QED BY <1>6, <2>1, <2>2, <2>3, <2>4 DEF ActorSteps
<1>7. CASE OneOffClosed
  BY <1>7 DEF OneOffClosed
<1>8. ASSUME NEW p \in Runs, RunStdio(p) PROVE Owned'
  BY <1>8 DEF RunStdio
<1>9. ASSUME NEW p \in Runs, RunEnds(p) PROVE Owned'
  BY <1>9 DEF RunEnds
<1>10. ASSUME NEW l \in Lookups, LookupStarts(l) PROVE Owned'
  BY <1>10 DEF LookupStarts
<1>11. ASSUME NEW l \in Lookups, LookupEnds(l) PROVE Owned'
  BY <1>11 DEF LookupEnds
<1>12. ASSUME NEW b \in Refreshes, RequestRefresh(b) PROVE Owned'
  BY <1>12 DEF RequestRefresh
<1>13. ASSUME NEW b \in Refreshes, RunRefresh(b) PROVE Owned'
  BY <1>13 DEF RunRefresh
<1>14. CASE UNCHANGED vars
  BY <1>14 DEF vars
<1> QED BY <1>1, <1>2, <1>3, <1>4, <1>5, <1>6, <1>7, <1>8, <1>9, <1>10, <1>11,
<1>12, <1>13, <1>14 DEF Next

LEMMA StagesStep == IndInv /\ [Next]_vars => NewIsQuiet' /\ StagesInOrder'
<1> DEFINE Ordered == NewIsQuiet /\ StagesInOrder
<1> SUFFICES ASSUME IndInv, [Next]_vars PROVE Ordered'
  OBVIOUS
<1> USE LifecycleAssumption
    DEF IndInv, TypeOK, SessionsHaveOwners, HandlersHaveOwners, NewIsQuiet,
        StagesInOrder, RunsOver, RequestsOver, SessionsOver, Admitted,
        OneOffsOpen, AfterRequests, AfterRegistry, PoolClosed, FactoryClosed,
        StoresClosed, RegistryClosed, Draining, closed,
        Steps, SetJob, SetHTTP, SetSession, closeVars, requestVars,
        sessionVars, resourceVars, otherVars
<1>1. CASE NewSteps
  <2>1. CASE OpenDefaultStore
    BY <2>1 DEF OpenDefaultStore
  <2>2. CASE DefaultStoreFails
    BY <2>2 DEF DefaultStoreFails
  <2>3. CASE FirstCatalogCompiled
    BY <2>3 DEF FirstCatalogCompiled
  <2>4. CASE FirstCatalogFails
    BY <2>4 DEF FirstCatalogFails
  <2> QED BY <1>1, <2>1, <2>2, <2>3, <2>4 DEF NewSteps
<1>2. CASE HostSteps
  <2>1. CASE Signal
    BY <2>1 DEF Signal
  <2>2. CASE CloseServer
    BY <2>2 DEF CloseServer
  <2>3. CASE Exit
    BY <2>3 DEF Exit
  <2> QED BY <1>2, <2>1, <2>2, <2>3 DEF HostSteps
<1>3. CASE CloseSteps
  <2>1. CASE BeginClose
    BY <2>1 DEF BeginClose
  <2>2. CASE CancelRequests
    BY <2>2 DEF CancelRequests
  <2>3. CASE CancelRuns
    BY <2>3 DEF CancelRuns
  <2>4. CASE AwaitRuns
    BY <2>4 DEF AwaitRuns
  <2>5. CASE AwaitRequests
    BY <2>5 DEF AwaitRequests
  <2>6. CASE CopySessions
    BY <2>6 DEF CopySessions
  <2>7. CASE AwaitWatchers
    BY <2>7 DEF AwaitWatchers
  <2>8. CASE CloseRegistry
    BY <2>8 DEF CloseRegistry
  <2>9. CASE ClosePool
    BY <2>9 DEF ClosePool
  <2>10. CASE AwaitRuntimes
    BY <2>10 DEF AwaitRuntimes
  <2>11. CASE CloseFactory
    BY <2>11 DEF CloseFactory
  <2>12. CASE AwaitOneOffs
    BY <2>12 DEF AwaitOneOffs
  <2>13. CASE CloseStores
    BY <2>13 DEF CloseStores
  <2>14. CASE CloseReturns
    BY <2>14 DEF CloseReturns
  <2>15. ASSUME NEW s \in Sessions, CloseSession(s) PROVE Ordered'
    BY <2>15 DEF CloseSession
  <2>16. ASSUME NEW d \in Stores, CloseStore(d) PROVE Ordered'
    BY <2>16 DEF CloseStore
  <2> QED BY <1>3, <2>1, <2>2, <2>3, <2>4, <2>5, <2>6, <2>7, <2>8, <2>9, <2>10,
  <2>11, <2>12, <2>13, <2>14, <2>15, <2>16 DEF CloseSteps
<1>4. ASSUME NEW q \in Requests, RequestSteps(q) PROVE Ordered'
  <2>1. CASE Admit(q)
    BY <2>1 DEF Admit
  <2>2. CASE BodyRead(q)
    BY <2>2 DEF BodyRead
  <2>3. CASE BodyFails(q)
    BY <2>3 DEF BodyFails
  <2>4. CASE ServeStateless(q)
    BY <2>4 DEF ServeStateless
  <2>5. CASE HandlerStarts(q)
    BY <2>5 DEF HandlerStarts
  <2>6. CASE HandlerEnds(q)
    BY <2>6 DEF HandlerEnds
  <2>7. CASE Return(q)
    BY <2>7 DEF Return
  <2>8. CASE AcquireRuntime(q)
    BY <2>8 DEF AcquireRuntime
  <2>9. CASE ReleaseRuntime(q)
    BY <2>9 DEF ReleaseRuntime
  <2>10. ASSUME NEW s \in Sessions, CreateSession(q, s) PROVE Ordered'
    BY <2>10 DEF CreateSession
  <2>11. ASSUME NEW s \in Sessions, JoinSession(q, s) PROVE Ordered'
    BY <2>11 DEF JoinSession
  <2>12. ASSUME NEW d \in Stores, OpenStore(q, d) PROVE Ordered'
    BY <2>12 DEF OpenStore
  <2>13. ASSUME NEW d \in Stores, StoreOpens(q, d) PROVE Ordered'
    BY <2>13 DEF StoreOpens
  <2> QED BY <1>4, <2>1, <2>2, <2>3, <2>4, <2>5, <2>6, <2>7, <2>8, <2>9, <2>10,
  <2>11, <2>12, <2>13 DEF RequestSteps
<1>5. ASSUME NEW s \in Sessions, SessionSteps(s) PROVE Ordered'
  <2>1. CASE SessionCloses(s)
    BY <2>1 DEF SessionCloses
  <2>2. CASE SessionEnds(s)
    BY <2>2 DEF SessionEnds
  <2>3. CASE WatcherEnds(s)
    BY <2>3 DEF WatcherEnds
  <2>4. CASE PoolSessionEnds(s)
    BY <2>4 DEF PoolSessionEnds
  <2>5. CASE RuntimesClosed(s)
    BY <2>5 DEF RuntimesClosed
  <2> QED BY <1>5, <2>1, <2>2, <2>3, <2>4, <2>5 DEF SessionSteps
<1>6. ASSUME NEW a \in Actors, ActorSteps(a) PROVE Ordered'
  <2>1. CASE Discover(a)
    BY <2>1 DEF Discover
  <2>2. CASE DiscoveryEnds(a)
    BY <2>2 DEF DiscoveryEnds
  <2>3. CASE BeginOneOff(a)
    BY <2>3 DEF BeginOneOff
  <2>4. CASE OneOffEnds(a)
    BY <2>4 DEF OneOffEnds
  <2> QED BY <1>6, <2>1, <2>2, <2>3, <2>4 DEF ActorSteps
<1>7. CASE OneOffClosed
  BY <1>7 DEF OneOffClosed
<1>8. ASSUME NEW p \in Runs, RunStdio(p) PROVE Ordered'
  BY <1>8 DEF RunStdio
<1>9. ASSUME NEW p \in Runs, RunEnds(p) PROVE Ordered'
  BY <1>9 DEF RunEnds
<1>10. ASSUME NEW l \in Lookups, LookupStarts(l) PROVE Ordered'
  BY <1>10 DEF LookupStarts
<1>11. ASSUME NEW l \in Lookups, LookupEnds(l) PROVE Ordered'
  BY <1>11 DEF LookupEnds
<1>12. ASSUME NEW b \in Refreshes, RequestRefresh(b) PROVE Ordered'
  BY <1>12 DEF RequestRefresh
<1>13. ASSUME NEW b \in Refreshes, RunRefresh(b) PROVE Ordered'
  BY <1>13 DEF RunRefresh
<1>14. CASE UNCHANGED vars
  BY <1>14 DEF vars
<1> QED BY <1>1, <1>2, <1>3, <1>4, <1>5, <1>6, <1>7, <1>8, <1>9, <1>10, <1>11,
<1>12, <1>13, <1>14 DEF Next
LEMMA IndStep == IndInv /\ [Next]_vars => IndInv'
  BY TypeStep, OwnersStep, StagesStep DEF IndInv

LEMMA IndCorrect == Spec => []IndInv
  BY IndInit, IndStep, PTL DEF Spec

----------------------------------------------------------------------------
\* The phases by stage.
LEMMA PhaseNew == stage \in {"opening", "discovering"} => Phase = "new"
<1> SUFFICES ASSUME stage \in {"opening", "discovering"} PROVE Phase = "new"
  OBVIOUS
<1>1. stage # "running" /\ stage \notin Draining \ {"registry"}
  BY DEF Draining
<1> QED BY <1>1 DEF Phase

LEMMA PhaseOpen == stage = "running" => Phase = "open"
<1> SUFFICES ASSUME stage = "running" PROVE Phase = "open"
  OBVIOUS
<1>1. stage \notin {"opening", "discovering"}
  OBVIOUS
<1>2. stage \notin Draining \ {"registry"}
  BY DEF Draining
<1> QED BY <1>1, <1>2 DEF Phase

LEMMA PhaseDraining == stage \in Draining \ {"registry"} => Phase = "draining"
<1> SUFFICES ASSUME stage \in Draining \ {"registry"} PROVE Phase = "draining"
  OBVIOUS
<1>1. stage \notin {"opening", "discovering"} /\ stage # "running"
  BY DEF Draining
<1> QED BY <1>1 DEF Phase

LEMMA PhaseReleased ==
  stage \in {"failed", "registry"} \cup RegistryClosed => Phase = "released"
<1> SUFFICES ASSUME stage \in {"failed", "registry"} \cup RegistryClosed
             PROVE  Phase = "released"
  OBVIOUS
<1>1. /\ stage \notin {"opening", "discovering"} /\ stage # "running"
      /\ stage \notin Draining \ {"registry"}
  BY DEF Draining, RegistryClosed, PoolClosed, FactoryClosed, StoresClosed
<1> QED BY <1>1 DEF Phase

\* Drain starts with no user and no resource, as the composite does.
LEMMA DrainInit == Init => Abstract!Init
<1> SUFFICES ASSUME Init PROVE Abstract!Init
  OBVIOUS
<1>1. Users = {}
  BY DEF Init, Users, Admitted
<1>2. Held = {}
  BY DEF Init, Held, OneOffsOpen
<1>3. Phase = "new"
  <2>1. stage = "opening"
    BY DEF Init
  <2> QED BY <2>1, PhaseNew
<1> QED BY <1>1, <1>2, <1>3 DEF Abstract!Init

\* Whoever is let in finds the composite open, or Close waiting.
LEMMA UsersMeanOpen ==
  ASSUME IndInv, Users # {} PROVE Phase \in {"open", "draining"}
<1>1. ~(RunsOver /\ RequestsOver /\ SessionsOver)
  BY DEF Users, RunsOver, RequestsOver, SessionsOver
<1>2. stage \in {"running"} \cup (Draining \ {"registry"})
  BY <1>1 DEF IndInv, TypeOK, NewIsQuiet, StagesInOrder, AfterRequests,
     AfterRegistry, RegistryClosed, PoolClosed, FactoryClosed, StoresClosed,
     Draining, Stages
<1> QED BY <1>2, PhaseOpen, PhaseDraining

\* Every step of the composite is a step of Drain or leaves Drain's view alone.
LEMMA DrainStep == IndInv /\ [Next]_vars => [Abstract!Next]_(Abstract!vars)
<1> DEFINE Step == [Abstract!Next]_(Abstract!vars)
<1> SUFFICES ASSUME IndInv, [Next]_vars PROVE Step
  OBVIOUS
<1> USE LifecycleAssumption
    DEF IndInv, TypeOK, SessionsHaveOwners, HandlersHaveOwners, NewIsQuiet,
        StagesInOrder, RunsOver, RequestsOver, SessionsOver, Admitted,
        OneOffsOpen, AfterRequests, AfterRegistry, PoolClosed, FactoryClosed,
        StoresClosed, RegistryClosed, Draining, closed,
        Steps, SetJob, SetHTTP, SetSession, closeVars, requestVars,
        sessionVars, resourceVars, otherVars, Users, Held, Phase,
        Abstract!Next, Abstract!vars, Abstract!Open, Abstract!Fail,
        Abstract!Enter, Abstract!Leave, Abstract!Hold, Abstract!LetGo,
        Abstract!BeginDrain, Abstract!Release
<1>1. CASE NewSteps
  <2>1. CASE OpenDefaultStore
    BY <2>1 DEF OpenDefaultStore
  <2>2. CASE DefaultStoreFails
    BY <2>2 DEF DefaultStoreFails
  <2>3. CASE FirstCatalogCompiled
    BY <2>3 DEF FirstCatalogCompiled
  <2>4. CASE FirstCatalogFails
    BY <2>4 DEF FirstCatalogFails
  <2> QED BY <1>1, <2>1, <2>2, <2>3, <2>4 DEF NewSteps
<1>2. CASE HostSteps
  <2>1. CASE Signal
    BY <2>1 DEF Signal
  <2>2. CASE CloseServer
    BY <2>2 DEF CloseServer
  <2>3. CASE Exit
    BY <2>3 DEF Exit
  <2> QED BY <1>2, <2>1, <2>2, <2>3 DEF HostSteps
<1>3. CASE CloseSteps
  <2>1. CASE BeginClose
    BY <2>1 DEF BeginClose
  <2>2. CASE CancelRequests
    BY <2>2 DEF CancelRequests
  <2>3. CASE CancelRuns
    BY <2>3 DEF CancelRuns
  <2>4. CASE AwaitRuns
    BY <2>4 DEF AwaitRuns
  <2>5. CASE AwaitRequests
    BY <2>5 DEF AwaitRequests
  <2>6. CASE CopySessions
    BY <2>6 DEF CopySessions
  <2>7. CASE AwaitWatchers
    BY <2>7 DEF AwaitWatchers
  <2>8. CASE CloseRegistry
    BY <2>8 DEF CloseRegistry
  <2>9. CASE ClosePool
    BY <2>9 DEF ClosePool
  <2>10. CASE AwaitRuntimes
    BY <2>10 DEF AwaitRuntimes
  <2>11. CASE CloseFactory
    BY <2>11 DEF CloseFactory
  <2>12. CASE AwaitOneOffs
    BY <2>12 DEF AwaitOneOffs
  <2>13. CASE CloseStores
    BY <2>13 DEF CloseStores
  <2>14. CASE CloseReturns
    BY <2>14 DEF CloseReturns
  <2>15. ASSUME NEW s \in Sessions, CloseSession(s) PROVE Step
    BY <2>15 DEF CloseSession
  <2>16. ASSUME NEW d \in Stores, CloseStore(d) PROVE Step
    BY <2>16 DEF CloseStore
  <2> QED BY <1>3, <2>1, <2>2, <2>3, <2>4, <2>5, <2>6, <2>7, <2>8, <2>9, <2>10,
  <2>11, <2>12, <2>13, <2>14, <2>15, <2>16 DEF CloseSteps
<1>4. ASSUME NEW q \in Requests, RequestSteps(q) PROVE Step
  <2>1. CASE Admit(q)
    BY <2>1 DEF Admit
  <2>2. CASE BodyRead(q)
    BY <2>2 DEF BodyRead
  <2>3. CASE BodyFails(q)
    BY <2>3 DEF BodyFails
  <2>4. CASE ServeStateless(q)
    BY <2>4 DEF ServeStateless
  <2>5. CASE HandlerStarts(q)
    BY <2>5 DEF HandlerStarts
  <2>6. CASE HandlerEnds(q)
    BY <2>6 DEF HandlerEnds
  <2>7. CASE Return(q)
    BY <2>7 DEF Return
  <2>8. CASE AcquireRuntime(q)
    <3>1. frontend[q] \in Users
      BY <2>8 DEF AcquireRuntime
    <3>2. Phase' = Phase /\ Users' = Users /\ Held \subseteq Held'
      BY <2>8 DEF AcquireRuntime
    <3>3. Phase # "released"
      <4> HIDE DEF Users, Phase
      <4> QED BY <3>1, UsersMeanOpen
    <3> HIDE DEF Users, Phase, Held
    <3> QED BY <3>1, <3>2, <3>3
  <2>9. CASE ReleaseRuntime(q)
    BY <2>9 DEF ReleaseRuntime
  <2>10. ASSUME NEW s \in Sessions, CreateSession(q, s) PROVE Step
    <3>1. q \in Users
      BY <2>10 DEF CreateSession
    <3>2. Phase' = Phase /\ Users \subseteq Users' /\ Held' = Held
      BY <2>10 DEF CreateSession
    <3>3. Phase \in {"open", "draining"}
      <4> HIDE DEF Users, Phase
      <4> QED BY <3>1, UsersMeanOpen
    <3> HIDE DEF Users, Phase, Held
    <3> QED BY <3>1, <3>2, <3>3
  <2>11. ASSUME NEW s \in Sessions, JoinSession(q, s) PROVE Step
    BY <2>11 DEF JoinSession
  <2>12. ASSUME NEW d \in Stores, OpenStore(q, d) PROVE Step
    <3>1. q \in Users
      BY <2>12 DEF OpenStore
    <3>2. Phase' = Phase /\ Users' = Users /\ Held \subseteq Held'
      BY <2>12 DEF OpenStore
    <3>3. Phase # "released"
      <4> HIDE DEF Users, Phase
      <4> QED BY <3>1, UsersMeanOpen
    <3> HIDE DEF Users, Phase, Held
    <3> QED BY <3>1, <3>2, <3>3
  <2>13. ASSUME NEW d \in Stores, StoreOpens(q, d) PROVE Step
    BY <2>13 DEF StoreOpens
  <2> QED BY <1>4, <2>1, <2>2, <2>3, <2>4, <2>5, <2>6, <2>7, <2>8, <2>9, <2>10,
  <2>11, <2>12, <2>13 DEF RequestSteps
<1>5. ASSUME NEW s \in Sessions, SessionSteps(s) PROVE Step
  <2>1. CASE SessionCloses(s)
    BY <2>1 DEF SessionCloses
  <2>2. CASE SessionEnds(s)
    BY <2>2 DEF SessionEnds
  <2>3. CASE WatcherEnds(s)
    BY <2>3 DEF WatcherEnds
  <2>4. CASE PoolSessionEnds(s)
    BY <2>4 DEF PoolSessionEnds
  <2>5. CASE RuntimesClosed(s)
    BY <2>5 DEF RuntimesClosed
  <2> QED BY <1>5, <2>1, <2>2, <2>3, <2>4, <2>5 DEF SessionSteps
<1>6. ASSUME NEW a \in Actors, ActorSteps(a) PROVE Step
  <2>1. CASE Discover(a)
    BY <2>1 DEF Discover
  <2>2. CASE DiscoveryEnds(a)
    BY <2>2 DEF DiscoveryEnds
  <2>3. CASE BeginOneOff(a)
    <3>1. a \in Users
      BY <2>3 DEF BeginOneOff
    <3>2. Phase' = Phase /\ Users' = Users /\ Held \subseteq Held'
      BY <2>3 DEF BeginOneOff
    <3>3. Phase # "released"
      <4> HIDE DEF Users, Phase
      <4> QED BY <3>1, UsersMeanOpen
    <3> HIDE DEF Users, Phase, Held
    <3> QED BY <3>1, <3>2, <3>3
  <2>4. CASE OneOffEnds(a)
    BY <2>4 DEF OneOffEnds
  <2> QED BY <1>6, <2>1, <2>2, <2>3, <2>4 DEF ActorSteps
<1>7. CASE OneOffClosed
  BY <1>7 DEF OneOffClosed
<1>8. ASSUME NEW p \in Runs, RunStdio(p) PROVE Step
  BY <1>8 DEF RunStdio
<1>9. ASSUME NEW p \in Runs, RunEnds(p) PROVE Step
  BY <1>9 DEF RunEnds
<1>10. ASSUME NEW l \in Lookups, LookupStarts(l) PROVE Step
  BY <1>10 DEF LookupStarts
<1>11. ASSUME NEW l \in Lookups, LookupEnds(l) PROVE Step
  BY <1>11 DEF LookupEnds
<1>12. ASSUME NEW b \in Refreshes, RequestRefresh(b) PROVE Step
  BY <1>12 DEF RequestRefresh
<1>13. ASSUME NEW b \in Refreshes, RunRefresh(b) PROVE Step
  BY <1>13 DEF RunRefresh
<1>14. CASE UNCHANGED vars
  BY <1>14 DEF vars
<1> QED BY <1>1, <1>2, <1>3, <1>4, <1>5, <1>6, <1>7, <1>8, <1>9, <1>10, <1>11,
<1>12, <1>13, <1>14 DEF Next
----------------------------------------------------------------------------
\* Every field of the composite and of its parts has its type.
THEOREM TypeCorrect == Spec => []TypeOK
  BY TypeInit, TypeStep, PTL DEF Spec

\* Close waits for every request, run and session before it lets the first
\* resource go, none comes or is acquired afterwards, and a New that fails
\* keeps nothing (composite.go: New, Close; http.go, stdio.go: admission).
THEOREM ImplementsDrainCorrect == Spec => ImplementsDrain
  BY DrainInit, DrainStep, IndCorrect, PTL
     DEF Spec, ImplementsDrain, Abstract!Spec

\* Nothing is open when Close has returned or New has failed.
THEOREM NothingLeftOpenCorrect == Spec => []NothingLeftOpen
<1>1. ASSUME IndInv PROVE NothingLeftOpen
  <2> SUFFICES ASSUME stage \in {"returned", "failed"}
               PROVE  Users = {} /\ Held = {}
    BY DEF NothingLeftOpen
  <2>1. RunsOver /\ RequestsOver /\ SessionsOver
    BY <1>1 DEF IndInv, NewIsQuiet, StagesInOrder, AfterRequests,
       AfterRegistry, RegistryClosed, PoolClosed, FactoryClosed, StoresClosed
  <2>2. /\ pooled = {} /\ releasing = {} /\ ~OneOffsOpen
        /\ \A d \in Stores : store[d] \in {"none", "closed"}
    BY <1>1 DEF IndInv, NewIsQuiet, StagesInOrder, PoolClosed, FactoryClosed,
       StoresClosed
  <2>3. Users = {}
    BY <2>1 DEF Users, RunsOver, RequestsOver, SessionsOver
  <2>4. Held = {}
    BY <2>2 DEF Held
  <2> QED BY <2>3, <2>4
<1> QED BY <1>1, IndCorrect, PTL
=============================================================================
