--------------------------- MODULE CatalogRegistry ---------------------------
(***************************************************************************)
(* The catalog registry (catalog/registry.go), for one configuration: what *)
(* r.entries holds under that configuration's fingerprint, the requests    *)
(* that Get the catalog, explicit Refreshes, refreshes that component      *)
(* notifications ask for, invalidation and Close.                          *)
(*                                                                         *)
(* A catalog is abstracted to the version of the upstream feature lists it *)
(* was compiled from, and to whether components still await authorization. *)
(* Discovery reads upstream at some moment between the two critical        *)
(* sections around it.  A critical section of r.mu is one action.          *)
(*                                                                         *)
(* Every actor installs at most one entry, so the actor names the entry it *)
(* made.  A closed refreshDone channel wakes all that wait on it, so the   *)
(* channel is a flag of its entry and closing it moves those who wait.     *)
(***************************************************************************)
EXTENDS Naturals, FiniteSets

CONSTANTS
    Getters,          \* requests that call Get once
    Refreshers,       \* callers of an explicit Refresh
    MaxChanges,       \* bound on upstream changes, each notified once
    MaxEvents,        \* bound on upstream changes, invalidations, explicit
                      \* refreshes and Close together
    Configs,          \* the configurations considered
    None              \* Go's nil

Actors == Getters \cup Refreshers
Changes == 1 .. MaxChanges

\* The goroutines of runRefresh that can work on one entry at a time: a second
\* one starts only after an explicit refresh of the entry has ended.
Runs == 0 .. Cardinality(Refreshers)

ASSUME RegistryAssumption ==
    /\ IsFiniteSet(Actors)
    /\ Getters \cap Refreshers = {}
    /\ None \notin Actors
    /\ MaxChanges \in Nat
    /\ MaxEvents \in Nat
    /\ Configs \subseteq [toolSearch : BOOLEAN, deferAuthorization : BOOLEAN]

VARIABLES
    config,      \* the configuration's toolSearch and deferAuthorization
    installed,   \* r.entries[fingerprint]: the actor that made the entry
    entries,     \* the entry made by each actor
    closed,      \* r.closed
    upstream,    \* the version of the upstream feature lists
    timersFired, \* goroutines about to enter runRefresh
    pc,          \* where each actor is
    at,          \* the entry an actor works on
    found,       \* what an actor's compile returned
    result,      \* what Get returned
    worker,      \* the goroutines of runRefresh that work on each entry
    notices,     \* RequestRefresh for each upstream change
    invalidations \* calls of InvalidateComponent that dropped the entry

vars == <<config, installed, entries, closed, upstream, timersFired, pc, at,
          found, result, worker, notices, invalidations>>
actorVars == <<pc, at, found, result>>
envVars == <<config, upstream, invalidations>>

----------------------------------------------------------------------------
(* Data.                                                                   *)

Versions == 0 .. MaxChanges
Catalogs == [version : Versions, pending : BOOLEAN]
Outcomes == [version : Versions, kind : {"ready", "pending", "auth", "error"}]

\* entry.timer is nil, a timer that runs, or one that fired or was stopped.
TimerStates == {"nil", "armed", "spent"}

EntryRecords ==
    [ready       : BOOLEAN,
     catalog     : Catalogs \cup {None},
     err         : {"auth", "error", None},
     refreshing  : BOOLEAN,
     pending     : BOOLEAN,
     timer       : TimerStates,
     callbacks   : SUBSET Changes,
     stale       : BOOLEAN,
     refreshDone : BOOLEAN]

NewEntry ==
    [ready |-> FALSE, catalog |-> None, err |-> None, refreshing |-> FALSE,
     pending |-> FALSE, timer |-> "nil", callbacks |-> {}, stale |-> FALSE,
     refreshDone |-> FALSE]

CatalogOf(o) == [version |-> o.version, pending |-> o.kind = "pending"]
Succeeded(o) == o.kind \in {"ready", "pending"}
ErrorOf(o) == IF Succeeded(o) THEN None ELSE o.kind
ReadyEntry(o) == [NewEntry EXCEPT !.ready = TRUE, !.catalog = CatalogOf(o)]

\* compile defers a 401 to a pending catalog, or reports it with the other
\* errors of a discovery.
Discoveries(defer) ==
    [version : {upstream}, kind : {"ready"} \cup IF defer THEN {"pending"} ELSE {}]
      \cup [version : {0}, kind : {"error"} \cup IF defer THEN {} ELSE {"auth"}]

IdleWorker == [state |-> "idle", found |-> None, callbacks |-> {}]

\* What Get returns, and whether the caller discovered it itself.
Results ==
    [kind : {"catalog", "auth", "error", "nil"}, pending : BOOLEAN, own : BOOLEAN]
Answer(o) ==
    [kind |-> IF o.kind = "auth" THEN "auth"
              ELSE IF o.kind = "error" THEN "error" ELSE "catalog",
     pending |-> o.kind = "pending", own |-> TRUE]
SharedCatalog(c) ==
    [kind |-> IF c = None THEN "nil" ELSE "catalog",
     pending |-> c # None /\ c.pending, own |-> FALSE]
Refused == [kind |-> "error", pending |-> FALSE, own |-> FALSE]

\* nil is none of the values it stands in for.
ASSUME NilAssumption ==
    /\ None \notin Catalogs \cup Outcomes
    /\ None \notin {"auth", "error"}

Init ==
    /\ config \in Configs
    /\ installed = None
    /\ entries = [a \in Actors |-> NewEntry]
    /\ closed = FALSE
    /\ upstream = 0
    /\ timersFired = 0
    /\ pc = [a \in Actors |-> "start"]
    /\ at = [a \in Actors |-> None]
    /\ found = [a \in Actors |-> None]
    /\ result = [a \in Actors |-> None]
    /\ worker = [a \in Actors |-> [r \in Runs |-> IdleWorker]]
    /\ notices = [n \in Changes |-> [state |-> "new", entry |-> None,
                                     whenReady |-> FALSE]]
    /\ invalidations = 0

\* The bound on what happens to the registry from outside.
Refreshing == {f \in Refreshers : pc[f] # "start" \/ at[f] # None}
Events == upstream + invalidations + Cardinality(Refreshing)
            + IF closed THEN 1 ELSE 0
EventAllowed == Events < MaxEvents

Goto(a, label) == pc' = [pc EXCEPT ![a] = label]

\* The actor returns and its locals are gone.
Leave(a) ==
    /\ at' = [at EXCEPT ![a] = None]
    /\ found' = [found EXCEPT ![a] = None]

Return(g, r) ==
    /\ result' = [result EXCEPT ![g] = r]
    /\ Goto(g, "done")
    /\ Leave(g)

\* The actors that close(e.refreshDone) wakes go to where their wait returns.
Woken(e) ==
    [a \in Actors |->
        IF pc[a] = "waitRefresh" /\ at[a] = e
        THEN IF a \in Getters THEN "refreshed" ELSE "start"
        ELSE pc[a]]

----------------------------------------------------------------------------
(* Get.                                                                    *)

\* entryForConfig finds an entry.
GetFindsEntry(g) ==
    /\ pc[g] = "start"
    /\ installed # None
    /\ at' = [at EXCEPT ![g] = installed]
    /\ Goto(g, "waitReady")
    /\ UNCHANGED <<envVars, installed, entries, closed, timersFired, found,
                   result, worker, notices>>

\* entryForConfig makes one for the caller to compile.
GetCreatesEntry(g) ==
    /\ pc[g] = "start"
    /\ installed = None
    /\ installed' = g
    /\ at' = [at EXCEPT ![g] = g]
    /\ Goto(g, "compile")
    /\ UNCHANGED <<envVars, entries, closed, timersFired, found, result,
                   worker, notices>>

\* compile of Get, of a request that discovers for itself, or of Refresh.
Compile(a) ==
    /\ pc[a] \in {"compile", "compileOwn", "compileRefresh"}
    /\ \E o \in Discoveries(pc[a] # "compileRefresh"
                              /\ config.deferAuthorization) :
          found' = [found EXCEPT ![a] = o]
    /\ Goto(a, CASE pc[a] = "compile" -> "install"
                 [] pc[a] = "compileOwn" -> "publish"
                 [] OTHER -> "finish")
    /\ UNCHANGED <<envVars, installed, entries, closed, timersFired, at,
                   result, worker, notices>>

\* Faulty variant: whatever entry is installed is dropped.
DropsAnyEntry(g, o) == o.kind # "ready"
\* The creator's entry is not kept, and has not been replaced.
DropsEntry(g, o) == installed = g /\ o.kind # "ready"

\* The creator publishes the outcome to those who wait and drops its entry
\* unless the catalog is ready, or the entry was replaced meanwhile.
GetInstalls(g) ==
    /\ pc[g] = "install"
    /\ LET o == found[g] IN
       /\ entries' = [entries EXCEPT ![g] = [@ EXCEPT
             !.ready = TRUE,
             !.catalog = IF Succeeded(o) THEN CatalogOf(o) ELSE None,
             !.err = ErrorOf(o)]]
       /\ installed' = IF DropsEntry(g, o) THEN None ELSE installed
       /\ Return(g, Answer(o))
    /\ UNCHANGED <<envVars, closed, timersFired, worker, notices>>

\* Faulty variant: the waiter takes over the other request's outcome.
TakeOutcome(g, catalog, err) ==
    Return(g, IF err = None THEN SharedCatalog(catalog)
                            ELSE [Refused EXCEPT !.kind = err])

\* What Get does with the outcome of waitForCatalog: it discovers once more
\* when the outcome depended on another request's credentials.  Without an
\* error Get dereferences the catalog, which the answer "nil" stands for.
AfterWait(g, catalog, err) ==
    IF err = "auth" \/ (err = None /\ catalog # None /\ catalog.pending)
    THEN /\ Goto(g, "compileOwn")
         /\ Leave(g)
         /\ UNCHANGED result
    ELSE Return(g, IF err = None THEN SharedCatalog(catalog)
                                 ELSE Refused)

\* waitForCatalog, the entry is ready: it returns the entry's outcome, ...
GetReadsEntry(g) ==
    /\ pc[g] = "waitReady"
    /\ LET e == entries[at[g]] IN
       /\ e.ready
       /\ e.err # None \/ ~e.stale \/ ~config.toolSearch
       /\ AfterWait(g, e.catalog, e.err)
    /\ UNCHANGED <<envVars, installed, entries, closed, timersFired, worker,
                   notices>>

\* ... gives up on a closed registry, ...
GetCancelledByClose(g) ==
    /\ pc[g] = "waitReady"
    /\ LET e == entries[at[g]] IN
       e.ready /\ e.err = None /\ e.stale /\ config.toolSearch
    /\ closed
    /\ Return(g, Refused)
    /\ UNCHANGED <<envVars, installed, entries, closed, timersFired, worker,
                   notices>>

\* Faulty variant: the waiter relies on a refresh that is due.
TimerAsIs(e) == e.timer
TimerDue(e) == IF ~e.refreshing /\ e.timer = "nil" THEN "armed" ELSE e.timer

\* ... or waits for the refresh of a stale search catalog, which it asks for
\* when none is due.
GetAwaitsRefresh(g) ==
    /\ pc[g] = "waitReady"
    /\ LET e == entries[at[g]] IN
       /\ e.ready /\ e.err = None /\ e.stale /\ config.toolSearch
       /\ entries' = [entries EXCEPT
             ![at[g]] = [e EXCEPT !.refreshDone = TRUE, !.timer = TimerDue(e)]]
    /\ ~closed
    /\ Goto(g, "waitRefresh")
    /\ UNCHANGED <<envVars, installed, closed, timersFired, at, found, result,
                   worker, notices>>

\* The wait for the refresh is over and the installed entry is looked up.
GetReadsRefreshed(g) ==
    /\ pc[g] = "refreshed"
    /\ IF installed = None \/ entries[installed].stale
       THEN Return(g, Refused)
       ELSE AfterWait(g, entries[installed].catalog, entries[installed].err)
    /\ UNCHANGED <<envVars, installed, entries, closed, timersFired, worker,
                   notices>>

\* Either wait ends with the request's context.
GetCancelled(g) ==
    /\ g \in Getters
    /\ pc[g] \in {"waitReady", "waitRefresh", "refreshed"}
    /\ Return(g, Refused)
    /\ UNCHANGED <<envVars, installed, entries, closed, timersFired, worker,
                   notices>>

\* publish caches what a waiter discovered for itself, in a free place only.
GetPublishes(g) ==
    /\ pc[g] = "publish"
    /\ LET o == found[g] IN
       /\ IF o.kind = "ready" /\ ~closed /\ installed = None
          THEN /\ installed' = g
               /\ entries' = [entries EXCEPT ![g] = ReadyEntry(o)]
          ELSE UNCHANGED <<installed, entries>>
       /\ Return(g, Answer(o))
    /\ UNCHANGED <<envVars, closed, timersFired, worker, notices>>

----------------------------------------------------------------------------
(* finishRefresh, as the entry it leaves behind.                           *)

\* Faulty variant: a notification that came during the refresh is forgotten.
FinishedForgetsPending(e, o) ==
    [e EXCEPT !.catalog = IF Succeeded(o) THEN CatalogOf(o) ELSE @,
              !.refreshing = FALSE,
              !.pending = FALSE,
              !.timer = IF e.pending /\ ~closed THEN "armed" ELSE @,
              !.stale = config.toolSearch /\ ~Succeeded(o),
              !.refreshDone = @ /\ e.pending]

\* Faulty variant: a snapshot is installed only when no refresh is to follow.
FinishedUnlessPending(e, o) ==
    [e EXCEPT !.catalog = IF Succeeded(o) /\ ~e.pending THEN CatalogOf(o) ELSE @,
              !.refreshing = FALSE,
              !.pending = FALSE,
              !.timer = IF e.pending /\ ~closed THEN "armed" ELSE @,
              !.stale = config.toolSearch /\ (e.pending \/ ~Succeeded(o)),
              !.refreshDone = @ /\ e.pending]

FinishedEntry(e, o) ==
    LET done == [e EXCEPT
          !.catalog = IF Succeeded(o) THEN CatalogOf(o) ELSE @,
          !.err = IF Succeeded(o) THEN None ELSE @,
          !.refreshing = FALSE,
          !.pending = FALSE,
          !.timer = IF e.pending /\ ~closed THEN "armed" ELSE @]
    IN IF ~config.toolSearch
       THEN done
       ELSE [done EXCEPT !.stale = e.pending \/ ~Succeeded(o),
                         !.refreshDone = @ /\ e.pending]

\* Those it wakes: a search refresh ends when nothing further is pending.
FinishWakes(e) ==
    IF config.toolSearch /\ ~entries[e].pending /\ entries[e].refreshDone
    THEN Woken(e) ELSE pc

----------------------------------------------------------------------------
(* Refresh.                                                                *)

MayRefresh(f) == f \in Refreshing \/ EventAllowed

\* In direct mode Refresh discovers at once.  A search refresh looks the entry
\* up first: there may be none, ...
RefreshWithoutEntry(f) ==
    /\ pc[f] = "start" /\ MayRefresh(f)
    /\ config.toolSearch => ~closed /\ installed = None
    /\ at' = [at EXCEPT ![f] = None]
    /\ Goto(f, "compileRefresh")
    /\ UNCHANGED <<envVars, installed, entries, closed, timersFired, found,
                   result, worker, notices>>

\* ... it may still compile, or be refreshed by someone else, ...
RefreshWaits(f) ==
    /\ pc[f] = "start" /\ MayRefresh(f)
    /\ config.toolSearch /\ ~closed /\ installed # None
    /\ at' = [at EXCEPT ![f] = installed]
    /\ \/ ~entries[installed].ready /\ Goto(f, "waitReady")
       \/ /\ entries[installed].ready /\ entries[installed].refreshDone
          /\ Goto(f, "waitRefresh")
    /\ UNCHANGED <<envVars, installed, entries, closed, timersFired, found,
                   result, worker, notices>>

RefreshEntryReady(f) ==
    /\ f \in Refreshers
    /\ pc[f] = "waitReady"
    /\ entries[at[f]].ready
    /\ Goto(f, "start")
    /\ UNCHANGED <<envVars, installed, entries, closed, timersFired, at, found,
                   result, worker, notices>>

\* ... or it is marked stale so that Get waits for this refresh.
RefreshMarksStale(f) ==
    /\ pc[f] = "start" /\ MayRefresh(f)
    /\ config.toolSearch /\ ~closed /\ installed # None
    /\ entries[installed].ready /\ ~entries[installed].refreshDone
    /\ entries' = [entries EXCEPT ![installed] =
          [@ EXCEPT !.stale = TRUE, !.refreshing = TRUE, !.refreshDone = TRUE]]
    /\ at' = [at EXCEPT ![f] = installed]
    /\ Goto(f, "compileRefresh")
    /\ UNCHANGED <<envVars, installed, closed, timersFired, found, result,
                   worker, notices>>

RefreshCancelled(f) ==
    /\ f \in Refreshers
    /\ \/ pc[f] = "start" /\ MayRefresh(f) /\ config.toolSearch /\ closed
       \/ pc[f] \in {"waitReady", "waitRefresh"}
       \/ pc[f] = "finish" /\ at[f] # None /\ closed
    /\ Goto(f, "done")
    /\ Leave(f)
    /\ UNCHANGED <<envVars, installed, entries, closed, timersFired, result,
                   worker, notices>>

\* The search refresh completes on the entry that it marked.
RefreshFinishes(f) ==
    /\ pc[f] = "finish"
    /\ at[f] # None
    /\ ~closed
    /\ entries' = [entries EXCEPT ![at[f]] = FinishedEntry(@, found[f])]
    /\ pc' = [FinishWakes(at[f]) EXCEPT ![f] = "done"]
    /\ Leave(f)
    /\ UNCHANGED <<envVars, installed, closed, timersFired, result, worker,
                   notices>>

\* A refresh that marked no entry leaves the present one stale if it failed ...
RefreshFails(f) ==
    /\ pc[f] = "finish"
    /\ at[f] = None
    /\ ~Succeeded(found[f])
    /\ entries' = IF config.toolSearch /\ installed # None
                  THEN [entries EXCEPT ![installed].stale = TRUE]
                  ELSE entries
    /\ Goto(f, "done")
    /\ Leave(f)
    /\ UNCHANGED <<envVars, installed, closed, timersFired, result, worker,
                   notices>>

\* ... and otherwise replaces it by a new one.
RefreshReplaces(f) ==
    /\ pc[f] = "finish"
    /\ at[f] = None
    /\ Succeeded(found[f])
    /\ installed' = f
    /\ entries' = [a \in Actors |->
          IF a = f THEN ReadyEntry(found[f])
          ELSE IF a = installed THEN [entries[a] EXCEPT !.refreshDone = FALSE]
          ELSE entries[a]]
    /\ pc' = [(IF installed # None /\ entries[installed].refreshDone
               THEN Woken(installed) ELSE pc) EXCEPT ![f] = "done"]
    /\ Leave(f)
    /\ UNCHANGED <<envVars, closed, timersFired, result, worker, notices>>

----------------------------------------------------------------------------
(* Notifications, the debounce timer and the refresh they start.           *)

UpstreamChanges ==
    /\ upstream < MaxChanges /\ EventAllowed
    /\ upstream' = upstream + 1
    /\ UNCHANGED <<config, installed, entries, closed, timersFired, actorVars,
                   worker, notices, invalidations>>

NoticeDue(n) == n <= upstream /\ notices[n].state = "new"

\* RequestRefresh without an entry, or on a closed registry: nobody is called.
NoticeIgnored(n) ==
    /\ NoticeDue(n)
    /\ closed \/ installed = None
    /\ notices' = [notices EXCEPT ![n].state = "ignored"]
    /\ UNCHANGED <<envVars, installed, entries, closed, timersFired, actorVars,
                   worker>>

\* Faulty variant: a notification during a refresh asks for no other one.
NotedOnce(e, n) ==
    [e EXCEPT !.callbacks = @ \cup {n},
              !.stale = @ \/ config.toolSearch,
              !.refreshDone = @ \/ config.toolSearch,
              !.timer = IF e.refreshing THEN @ ELSE "armed"]

NotedEntry(e, n) ==
    [e EXCEPT !.callbacks = @ \cup {n},
              !.stale = @ \/ config.toolSearch,
              !.refreshDone = @ \/ config.toolSearch,
              !.pending = @ \/ e.refreshing,
              !.timer = IF e.refreshing THEN @ ELSE "armed"]

RequestRefresh(n) ==
    /\ NoticeDue(n)
    /\ ~closed
    /\ installed # None
    /\ entries' = [entries EXCEPT ![installed] = NotedEntry(@, n)]
    /\ notices' = [notices EXCEPT
          ![n] = [state |-> "queued", entry |-> installed,
                  whenReady |-> entries[installed].ready]]
    /\ UNCHANGED <<envVars, installed, closed, timersFired, actorVars, worker>>

TimerFires(e) ==
    /\ entries[e].timer = "armed"
    /\ entries' = [entries EXCEPT ![e].timer = "spent"]
    /\ timersFired' = timersFired + 1
    /\ UNCHANGED <<envVars, installed, closed, actorVars, worker, notices>>

\* runRefresh looks the entry up again: it need not be the one whose timer
\* fired.  A refresh in progress, or no entry, ends it.
CanRefresh == ~closed /\ installed # None /\ ~entries[installed].refreshing

RunRefreshReturns ==
    /\ timersFired > 0
    /\ ~CanRefresh
    /\ timersFired' = timersFired - 1
    /\ UNCHANGED <<envVars, installed, entries, closed, actorVars, worker,
                   notices>>

\* The lowest place without a goroutine.
NextRun(e, r) ==
    /\ worker[e][r].state = "idle"
    /\ \A q \in Runs : worker[e][q].state = "idle" => r <= q

\* Setting entry.timer to nil does not stop a timer that runs: it will fire.
RunRefresh ==
    /\ timersFired > 0
    /\ CanRefresh
    /\ LET e == entries[installed] IN
       /\ timersFired' = IF e.timer = "armed" THEN timersFired
                                              ELSE timersFired - 1
       /\ entries' = [entries EXCEPT ![installed] =
             [e EXCEPT !.timer = "nil", !.refreshing = TRUE, !.pending = FALSE,
                       !.callbacks = {}]]
       /\ \E r \in Runs :
             /\ NextRun(installed, r)
             /\ worker' = [worker EXCEPT ![installed][r] =
                   [state |-> "compile", found |-> None,
                    callbacks |-> e.callbacks]]
    /\ UNCHANGED <<envVars, installed, closed, actorVars, notices>>

WorkerCompiles(e, r) ==
    /\ worker[e][r].state = "compile"
    /\ \E o \in Discoveries(FALSE) :
          worker' = [worker EXCEPT ![e][r] = [@ EXCEPT !.state = "finish", !.found = o]]
    /\ UNCHANGED <<envVars, installed, entries, closed, timersFired, actorVars,
                   notices>>

\* The callbacks of a finished refresh, to run when the mutex is released.
WorkerEnds(e, r) ==
    /\ worker' = [worker EXCEPT ![e][r] = IdleWorker]
    /\ notices' = [n \in Changes |->
          IF n \notin worker[e][r].callbacks THEN notices[n]
          ELSE [notices[n] EXCEPT !.state =
                  IF Succeeded(worker[e][r].found) THEN "succeeded" ELSE "failed"]]

\* The entry was replaced or dropped meanwhile: only the callbacks run.
WorkerFindsReplacement(e, r) ==
    /\ worker[e][r].state = "finish"
    /\ installed # e
    /\ WorkerEnds(e, r)
    /\ UNCHANGED <<envVars, installed, entries, closed, timersFired, actorVars>>

WorkerFinishes(e, r) ==
    /\ worker[e][r].state = "finish"
    /\ installed = e
    /\ entries' = [entries EXCEPT ![e] = FinishedEntry(@, worker[e][r].found)]
    /\ pc' = FinishWakes(e)
    /\ WorkerEnds(e, r)
    /\ UNCHANGED <<envVars, installed, closed, timersFired, at, found, result>>

\* callback(true), which tells the frontends that their lists changed.
CallBack(n) ==
    /\ notices[n].state = "succeeded"
    /\ notices' = [notices EXCEPT ![n].state = "announced"]
    /\ UNCHANGED <<envVars, installed, entries, closed, timersFired, actorVars,
                   worker>>

----------------------------------------------------------------------------
(* InvalidateComponent and Close.                                          *)

\* timer.Stop leaves entry.timer set.
StoppedTimer(t) == IF t = "armed" THEN "spent" ELSE t

InvalidateComponent ==
    /\ EventAllowed
    /\ installed # None
    /\ invalidations' = invalidations + 1
    /\ installed' = None
    /\ entries' = [entries EXCEPT ![installed] =
          [@ EXCEPT !.timer = StoppedTimer(entries[installed].timer),
                    !.refreshDone = FALSE]]
    /\ pc' = IF entries[installed].refreshDone THEN Woken(installed) ELSE pc
    /\ UNCHANGED <<config, upstream, closed, timersFired, at, found, result,
                   worker, notices>>

Close ==
    /\ ~closed /\ EventAllowed
    /\ closed' = TRUE
    /\ IF installed = None
       THEN UNCHANGED <<entries, pc>>
       ELSE /\ entries' = [entries EXCEPT ![installed] =
                   [@ EXCEPT !.timer = "nil", !.refreshDone = FALSE]]
            /\ pc' = IF entries[installed].refreshDone THEN Woken(installed)
                                                       ELSE pc
    /\ UNCHANGED <<envVars, installed, timersFired, at, found, result, worker,
                   notices>>

----------------------------------------------------------------------------

GetStep(g) ==
    \/ GetFindsEntry(g)
    \/ GetCreatesEntry(g)
    \/ GetInstalls(g)
    \/ GetReadsEntry(g)
    \/ GetCancelledByClose(g)
    \/ GetAwaitsRefresh(g)
    \/ GetReadsRefreshed(g)
    \/ GetPublishes(g)

RefreshStep(f) ==
    \/ RefreshWithoutEntry(f)
    \/ RefreshWaits(f)
    \/ RefreshEntryReady(f)
    \/ RefreshMarksStale(f)
    \/ RefreshFinishes(f)
    \/ RefreshFails(f)
    \/ RefreshReplaces(f)

WorkerStep(e, r) ==
    \/ WorkerCompiles(e, r)
    \/ WorkerFindsReplacement(e, r)
    \/ WorkerFinishes(e, r)

Next ==
    \/ \E g \in Getters : GetStep(g) \/ GetCancelled(g)
    \/ \E f \in Refreshers : RefreshStep(f) \/ RefreshCancelled(f)
    \/ \E a \in Actors :
          Compile(a) \/ TimerFires(a) \/ \E r \in Runs : WorkerStep(a, r)
    \/ RunRefresh
    \/ RunRefreshReturns
    \/ UpstreamChanges
    \/ \E n \in Changes : NoticeIgnored(n) \/ RequestRefresh(n) \/ CallBack(n)
    \/ InvalidateComponent
    \/ Close

Spec == Init /\ [][Next]_vars

\* Goroutines that can run do, timers fire and discovery returns (component
\* timeouts bound it).  Requests need not be cancelled, and nothing makes
\* upstream change, a component notify or the owner invalidate or close.
Fairness ==
    /\ \A g \in Getters : WF_vars(GetStep(g))
    /\ \A f \in Refreshers : WF_vars(RefreshStep(f)) /\ WF_vars(RefreshCancelled(f))
    /\ \A a \in Actors : /\ WF_vars(Compile(a))
                        /\ WF_vars(TimerFires(a))
                        /\ \A r \in Runs : WF_vars(WorkerStep(a, r))
    /\ WF_vars(RunRefresh \/ RunRefreshReturns)
    /\ \A n \in Changes : WF_vars(CallBack(n))

FairSpec == Spec /\ Fairness

----------------------------------------------------------------------------
(* Properties.                                                             *)

\* The types of Registry, registryEntry and the ghost state.
TypeOK ==
    /\ config \in Configs
    /\ installed \in Actors \cup {None}
    /\ entries \in [Actors -> EntryRecords]
    /\ closed \in BOOLEAN
    /\ upstream \in Versions
    /\ timersFired \in Nat
    /\ pc \in [Actors -> {"start", "compile", "install", "waitReady",
                         "waitRefresh", "refreshed", "compileOwn", "publish",
                         "compileRefresh", "finish", "done"}]
    /\ at \in [Actors -> Actors \cup {None}]
    /\ found \in [Actors -> Outcomes \cup {None}]
    /\ result \in [Actors -> Results \cup {None}]
    /\ worker \in [Actors -> [Runs -> [state : {"idle", "compile", "finish"},
                                      found : Outcomes \cup {None},
                                      callbacks : SUBSET Changes]]]
    /\ notices \in [Changes -> [state : {"new", "ignored", "queued",
                                        "succeeded", "failed", "announced"},
                                entry : Actors \cup {None},
                                whenReady : BOOLEAN]]
    /\ invalidations \in 0 .. MaxEvents

\* Cached, and what Get returns of the installed entry without a wait.
Cached ==
    IF closed \/ installed = None
    THEN None
    ELSE LET e == entries[installed] IN
         IF e.stale \/ e.err # None \/ ~e.ready THEN None ELSE e.catalog

\* The notifications RequestRefresh took for the installed entry.
Accepted == {n \in Changes : installed # None /\ notices[n].entry = installed}

\* No explicit Refresh has worked on the installed entry, but for one that
\* installed it.
NoExplicitRefresh ==
    \A f \in Refreshers :
        pc[f] \in {"start", "waitReady", "waitRefresh"} \/ installed = f

\* Once frontends were told of an upstream change, the installed catalog
\* includes it, whatever refreshes, failures and timers came since; the entry
\* must have been compiled when the notification came (runRefresh,
\* finishRefresh, Refresh).
AnnouncedChangeIsServed ==
    NoExplicitRefresh => \A n \in Accepted :
        notices[n].state = "announced" /\ notices[n].whenReady
           => entries[installed].catalog.version >= n

\* In search mode a catalog is served without a wait only if it includes every
\* change that was notified: stale covers all of them, those too that arrive
\* while a refresh already discovers.
SearchServesNoStaleCatalog ==
    config.toolSearch /\ NoExplicitRefresh /\ Cached # None =>
        \A n \in Accepted : notices[n].whenReady => Cached.version >= n

\* A request is told to authorize, by a pending catalog or an authorization
\* error, only on the strength of a discovery with its own credentials.
CredentialOutcomesStayRequestLocal ==
    \A g \in Getters :
        result[g] # None /\ (result[g].pending \/ result[g].kind = "auth")
           => result[g].own

\* A refresh is under way or due.
RefreshComing ==
    \/ \E r \in Runs : worker[installed][r].state # "idle"
    \/ \E f \in Refreshers : /\ at[f] = installed
                              /\ pc[f] \in {"compileRefresh", "finish"}
    \/ entries[installed].timer = "armed"
    \/ timersFired > 0

\* At most one explicit Refresh has got past its waits.  A second one may mark
\* an entry whose timer runs, because the first has ended beside a requested
\* refresh of the same entry and closed the refreshDone of a later
\* notification; the timer's goroutine then finds a refresh and gives up, and
\* nobody starts another.
OneExplicitRefresh ==
    \A f, h \in Refreshers :
        {pc[f], pc[h]} \cap {"start", "waitReady", "waitRefresh"} = {} => f = h

\* Whoever waits for the refresh of the installed entry waits for something
\* that happens: no order of timers, foreign timer goroutines, an explicit and
\* requested refreshes leaves refreshDone open with nobody to close it.
AwaitedRefreshIsComing ==
    /\ OneExplicitRefresh
    /\ ~closed /\ installed # None /\ entries[installed].refreshDone
    => RefreshComing

\* No notification is lost while its entry is installed: its callback is with a
\* running refresh, or queued for one that will start.
NoNoticeLost ==
    OneExplicitRefresh /\ ~closed => \A n \in Accepted :
        notices[n].state = "queued" =>
            \/ \E r \in Runs : n \in worker[installed][r].callbacks
            \/ /\ n \in entries[installed].callbacks
               /\ \/ entries[installed].timer = "armed"
                  \/ timersFired > 0
                  \/ entries[installed].pending /\ RefreshComing

\* The cache holds entries whose compile runs or found a ready catalog, never a
\* failure or a catalog that awaits authorization; and an entry leaves it only
\* when its own compile ends, by an explicit Refresh or by invalidation: a
\* compile that was invalidated in flight neither evicts nor overwrites its
\* replacement (registry.go:129).
CacheKeepsReadyEntries ==
    [][installed # None =>
          \/ /\ installed' = installed
             /\ entries'[installed].ready =>
                   /\ entries'[installed].err = None
                   /\ entries'[installed].catalog # None
                   /\ ~entries'[installed].catalog.pending
          \/ pc[installed] = "install" /\ installed' = None
          \/ \E f \in Refreshers : RefreshReplaces(f)
          \/ InvalidateComponent]_vars

\* Get returns a catalog or an error.
GetReturnsCatalogOrError ==
    \A g \in Getters : result[g] # None => result[g].kind # "nil"

\* An explicit search refresh waits for an earlier refresh of the entry to end:
\* it never discovers side by side with a requested one (Refresh's comment).
ExplicitRefreshRunsAlone ==
    config.toolSearch => \A f \in Refreshers :
        at[f] # None /\ pc[f] \in {"compileRefresh", "finish"}
           => \A r \in Runs : worker[at[f]][r].state = "idle"

\* Every request that Get keeps waiting is answered in the end.
GetAnswers ==
    \A g \in Getters : (pc[g] # "start") ~> (pc[g] = "done")
=============================================================================
