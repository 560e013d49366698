------------------------------ MODULE RuntimePool ------------------------------
(***************************************************************************)
(* component.Pool (component/pool.go) with the frontend bindings that the  *)
(* requests around it maintain (notifications.go): one component runtime   *)
(* per frontend session and component, opened by the first request, shared *)
(* by the others, and closed when the session ends or the pool closes.     *)
(*                                                                         *)
(* The actors are the requests (Callers, each one Acquire), the goroutine  *)
(* that waits for the end of a session and then runs closeSession, the     *)
(* goroutine of bindServer that waits for the same end, and Pool.Close.    *)
(* A critical section of p.mu or b.mu is one action; OpenRuntime, OnOpen,  *)
(* OnClose and Runtime.Close run outside both mutexes and are actions of   *)
(* their own.                                                              *)
(*                                                                         *)
(* A request makes at most one pool entry and starts at most one watcher,  *)
(* so both are named by that request. All requests have one configuration  *)
(* fingerprint; a key is a session and a component.                        *)
(***************************************************************************)
EXTENDS Naturals, FiniteSets

CONSTANTS
    Callers,           \* requests that acquire a runtime
    Sessions,          \* frontend sessions
    Components,        \* configured servers
    Wants,             \* the sessions and servers each request may name
    Draining,          \* sessions whose Wait returns after their requests have
    MaxCloseFailures,  \* bound on the runtimes whose Close fails
    Pool,              \* the goroutine that calls Pool.Close
    None               \* Go's nil

ASSUME PoolAssumption ==
    /\ IsFiniteSet(Callers)
    /\ Wants \in [Callers -> SUBSET (Sessions \X Components)]
    /\ Draining \subseteq Sessions
    /\ MaxCloseFailures \in Nat
    /\ Pool \notin Callers
    /\ None \notin Callers \cup {Pool} \cup (Sessions \X Components)

Keys == Sessions \X Components
Closers == Callers \cup {Pool}

VARIABLES
    \* Pool
    entries,          \* p.entries: the entry of each key, or None
    poolWatched,      \* p.watched
    closed,           \* p.closed
    cleanupFailures,  \* p.cleanupFailures
    ready,            \* entries whose ready channel is closed
    refs,             \* entry.refs
    failed,           \* entries with entry.err
    live,             \* entries whose runtime is open
    \* frontendBindings
    servers,          \* b.servers
    bound,            \* b.sessions: the keys bound to a server
    bindWatched,      \* b.watched: sessions with a waiting goroutine
    \* actors
    pc,               \* where each request is
    key,              \* the key a request asks for
    ref,              \* the entry a request waits for or uses
    ended,            \* sessions that have ended
    watcher,          \* goroutines of Acquire that wait for a session's end
    todo,             \* entries a closer has detached and must close
    item,             \* the entry whose OnClose a closer runs next
    closing,          \* "no", "running" or "returned": Pool.Close
    closeFailed,      \* runtimes whose Close failed
    reported          \* failures that the result of Pool.Close mentions

poolVars == <<entries, poolWatched, closed, cleanupFailures, ready, refs,
              failed, live>>
bindingVars == <<servers, bound, bindWatched>>
callVars == <<pc, key, ref>>
closerVars == <<watcher, todo, item, closing, closeFailed, reported>>
vars == <<poolVars, bindingVars, callVars, ended, closerVars>>

Init ==
    /\ entries = [k \in Keys |-> None]
    /\ poolWatched = {}
    /\ closed = FALSE
    /\ cleanupFailures = 0
    /\ ready = {}
    /\ refs = [c \in Callers |-> 0]
    /\ failed = {}
    /\ live = {}
    /\ servers = {}
    /\ bound = {}
    /\ bindWatched = {}
    /\ pc = [c \in Callers |-> "request"]
    /\ key = [c \in Callers |-> None]
    /\ ref = [c \in Callers |-> None]
    /\ ended = {}
    /\ watcher = [c \in Callers |-> "none"]
    /\ todo = [w \in Closers |-> {}]
    /\ item = [w \in Closers |-> None]
    /\ closing = "no"
    /\ closeFailed = {}
    /\ reported = 0

SessionOf(c) == key[c][1]
Goto(c, label) == pc' = [pc EXCEPT ![c] = label]

----------------------------------------------------------------------------
(* A request: the middleware binds its server, then Acquire.               *)

\* bindServer; a session first seen gets a goroutine that waits for its end.
BindServer(c, k) ==
    /\ pc[c] = "request"
    /\ k \in Wants[c]
    /\ k[1] \notin ended
    /\ servers' = servers \cup {k[1]}
    /\ bindWatched' = bindWatched \cup {k[1]}
    /\ key' = [key EXCEPT ![c] = k]
    /\ Goto(c, "acquire")
    /\ UNCHANGED <<poolVars, bound, ref, ended, closerVars>>

AcquireClosed(c) ==
    /\ pc[c] = "acquire"
    /\ closed
    /\ Goto(c, "done")
    /\ UNCHANGED <<poolVars, bindingVars, key, ref, ended, closerVars>>

AcquireJoins(c) ==
    LET e == entries[key[c]] IN
    /\ pc[c] = "acquire"
    /\ ~closed
    /\ e # None
    /\ refs' = [refs EXCEPT ![e] = @ + 1]
    /\ ref' = [ref EXCEPT ![c] = e]
    /\ Goto(c, "wait")
    /\ UNCHANGED <<entries, poolWatched, closed, cleanupFailures, ready,
                   failed, live, bindingVars, key, ended, closerVars>>

\* Faulty variant: a waiting request may replace an entry that is not ready.
AcquireOpensUnlessReady(c) ==
    /\ pc[c] = "acquire"
    /\ ~closed
    /\ entries[key[c]] \notin ready
    /\ entries' = [entries EXCEPT ![key[c]] = c]
    /\ refs' = [refs EXCEPT ![c] = 1]
    /\ ref' = [ref EXCEPT ![c] = c]
    /\ poolWatched' = poolWatched \cup {SessionOf(c)}
    /\ watcher' = IF SessionOf(c) \in poolWatched
                  THEN watcher ELSE [watcher EXCEPT ![c] = "waiting"]
    /\ Goto(c, "open")
    /\ UNCHANGED <<closed, cleanupFailures, ready, failed, live, bindingVars,
                   key, ended, todo, item, closing, closeFailed, reported>>

AcquireOpens(c) ==
    /\ pc[c] = "acquire"
    /\ ~closed
    /\ entries[key[c]] = None
    /\ entries' = [entries EXCEPT ![key[c]] = c]
    /\ refs' = [refs EXCEPT ![c] = 1]
    /\ ref' = [ref EXCEPT ![c] = c]
    /\ poolWatched' = poolWatched \cup {SessionOf(c)}
    /\ watcher' = IF SessionOf(c) \in poolWatched
                  THEN watcher ELSE [watcher EXCEPT ![c] = "waiting"]
    /\ Goto(c, "open")
    /\ UNCHANGED <<closed, cleanupFailures, ready, failed, live, bindingVars,
                   key, ended, todo, item, closing, closeFailed, reported>>

\* Faulty variant: the ready channel is closed on success only.
OpenFailsSilently(c) ==
    /\ pc[c] = "open"
    /\ failed' = failed \cup {c}
    /\ entries' = [entries EXCEPT ![key[c]] = None]
    /\ Goto(c, "done")
    /\ UNCHANGED <<poolWatched, closed, cleanupFailures, ready, refs, live,
                   bindingVars, key, ref, ended, closerVars>>

\* OpenRuntime failed. The entry is deleted by its key, whichever entry the
\* key has by now; releaseEntry then finds another entry or none.
OpenFails(c) ==
    /\ pc[c] = "open"
    /\ ready' = ready \cup {c}
    /\ failed' = failed \cup {c}
    /\ entries' = [entries EXCEPT ![key[c]] = None]
    /\ Goto(c, "done")
    /\ UNCHANGED <<poolWatched, closed, cleanupFailures, refs, live,
                   bindingVars, key, ref, ended, closerVars>>

\* Faulty variant: OnOpen is not called.
OpenSucceedsUnbound(c) ==
    /\ pc[c] = "open"
    /\ ready' = ready \cup {c}
    /\ live' = live \cup {c}
    /\ Goto(c, "use")
    /\ UNCHANGED <<entries, poolWatched, closed, cleanupFailures, refs, failed,
                   bindingVars, key, ref, ended, closerVars>>

OpenSucceeds(c) ==
    /\ pc[c] = "open"
    /\ ready' = ready \cup {c}
    /\ live' = live \cup {c}
    /\ Goto(c, "bind")
    /\ UNCHANGED <<entries, poolWatched, closed, cleanupFailures, refs, failed,
                   bindingVars, key, ref, ended, closerVars>>

\* opts.OnOpen: frontendBindings.bind, after p.mu was unlocked.
OnOpen(c) ==
    /\ pc[c] = "bind"
    /\ bound' = bound \cup {key[c]}
    /\ Goto(c, "use")
    /\ UNCHANGED <<poolVars, servers, bindWatched, key, ref, ended, closerVars>>

\* releaseEntry: only the entry the key still has is counted down.
ReleaseEntry(c) ==
    refs' = IF entries[key[c]] = ref[c] /\ refs[ref[c]] > 0
            THEN [refs EXCEPT ![ref[c]] = @ - 1] ELSE refs

\* Faulty variant: the entry's error is not looked at.
WaitUsesUnchecked(c) ==
    /\ pc[c] = "wait"
    /\ ref[c] \in ready
    /\ Goto(c, "use")
    /\ UNCHANGED <<poolVars, bindingVars, key, ref, ended, closerVars>>

\* The entry a request waited for is ready.
WaitUses(c) ==
    /\ pc[c] = "wait"
    /\ ref[c] \in ready \ failed
    /\ Goto(c, "use")
    /\ UNCHANGED <<poolVars, bindingVars, key, ref, ended, closerVars>>

\* It failed, or the request's context is cancelled: no use of the entry.
WaitFails(c) ==
    /\ pc[c] = "wait"
    /\ ref[c] \in ready \cap failed
    /\ ReleaseEntry(c)
    /\ Goto(c, "done")
    /\ UNCHANGED <<entries, poolWatched, closed, cleanupFailures, ready,
                   failed, live, bindingVars, key, ref, ended, closerVars>>

WaitCancelled(c) ==
    /\ pc[c] = "wait"
    /\ ReleaseEntry(c)
    /\ Goto(c, "done")
    /\ UNCHANGED <<entries, poolWatched, closed, cleanupFailures, ready,
                   failed, live, bindingVars, key, ref, ended, closerVars>>

\* The operation is over and its deferred release runs.
Release(c) ==
    /\ pc[c] = "use"
    /\ ReleaseEntry(c)
    /\ Goto(c, "done")
    /\ UNCHANGED <<entries, poolWatched, closed, cleanupFailures, ready,
                   failed, live, bindingVars, key, ref, ended, closerVars>>

----------------------------------------------------------------------------
(* The end of a session, as the two goroutines that wait for it see it.    *)

InProgress(s) ==
    \E c \in Callers : pc[c] \notin {"request", "done"} /\ SessionOf(c) = s

SessionEnds(s) ==
    /\ s \notin ended
    /\ s \in Draining => ~InProgress(s)
    /\ ended' = ended \cup {s}
    /\ UNCHANGED <<poolVars, bindingVars, callVars, closerVars>>

\* Faulty variant: the goroutine leaves the server to the last unbind.
ForgetBindingsOnly(s) ==
    /\ s \in bindWatched \cap ended
    /\ bound' = {k \in bound : k[1] # s}
    /\ bindWatched' = bindWatched \ {s}
    /\ UNCHANGED <<poolVars, servers, callVars, ended, closerVars>>

\* The goroutine of bindServer drops everything the session has bound.
ForgetSession(s) ==
    /\ s \in bindWatched \cap ended
    /\ servers' = servers \ {s}
    /\ bound' = {k \in bound : k[1] # s}
    /\ bindWatched' = bindWatched \ {s}
    /\ UNCHANGED <<poolVars, callVars, ended, closerVars>>

EntriesOf(K) == {entries[k] : k \in K} \ {None}

\* closeSession on a pool that is closed: Close has taken the entries.
CloseSessionSkips(w) ==
    /\ watcher[w] = "waiting"
    /\ SessionOf(w) \in ended
    /\ closed
    /\ poolWatched' = poolWatched \ {SessionOf(w)}
    /\ watcher' = [watcher EXCEPT ![w] = "done"]
    /\ UNCHANGED <<entries, closed, cleanupFailures, ready, refs, failed, live,
                   bindingVars, callVars, ended, todo, item, closing,
                   closeFailed, reported>>

\* Faulty variant: entries that are still being opened are not closed.
CloseSessionIgnoresUnready(w) ==
    LET K == {k \in Keys : k[1] = SessionOf(w)} IN
    /\ watcher[w] = "waiting"
    /\ SessionOf(w) \in ended
    /\ ~closed
    /\ poolWatched' = poolWatched \ {SessionOf(w)}
    /\ watcher' = [watcher EXCEPT ![w] = "cleaning"]
    /\ todo' = [todo EXCEPT ![w] = EntriesOf(K) \cap ready]
    /\ entries' = [k \in Keys |-> IF k \in K THEN None ELSE entries[k]]
    /\ UNCHANGED <<closed, cleanupFailures, ready, refs, failed, live,
                   bindingVars, callVars, ended, item, closing, closeFailed,
                   reported>>

CloseSessionDetaches(w) ==
    LET K == {k \in Keys : k[1] = SessionOf(w)} IN
    /\ watcher[w] = "waiting"
    /\ SessionOf(w) \in ended
    /\ ~closed
    /\ poolWatched' = poolWatched \ {SessionOf(w)}
    /\ watcher' = [watcher EXCEPT ![w] = "cleaning"]
    /\ todo' = [todo EXCEPT ![w] = EntriesOf(K)]
    /\ entries' = [k \in Keys |-> IF k \in K THEN None ELSE entries[k]]
    /\ UNCHANGED <<closed, cleanupFailures, ready, refs, failed, live,
                   bindingVars, callVars, ended, item, closing, closeFailed,
                   reported>>

\* cleanup.Done
CloseSessionDone(w) ==
    /\ watcher[w] = "cleaning"
    /\ todo[w] = {}
    /\ item[w] = None
    /\ watcher' = [watcher EXCEPT ![w] = "done"]
    /\ UNCHANGED <<poolVars, bindingVars, callVars, ended, todo, item, closing,
                   closeFailed, reported>>

----------------------------------------------------------------------------
(* Closing detached entries, in closeSession (w a request) and in Close    *)
(* (w = Pool). The entries are closed one at a time in the order of a map; *)
(* a closer that waits for an entry to become ready does nothing else, so  *)
(* it takes an entry when that is ready.                                   *)

TakeEntry(w, e) ==
    /\ item[w] = None
    /\ e \in todo[w] \cap ready
    /\ todo' = [todo EXCEPT ![w] = @ \ {e}]
    /\ item' = [item EXCEPT ![w] = e]

\* entry.runtime is nil: its OpenRuntime failed.
SkipFailedEntry(w, e) ==
    /\ TakeEntry(w, e)
    /\ e \in failed
    /\ UNCHANGED <<poolVars, bindingVars, callVars, ended, watcher, closing,
                   closeFailed, reported>>

CloseRuntime(w, e) ==
    /\ TakeEntry(w, e)
    /\ e \notin failed
    /\ live' = live \ {e}
    /\ UNCHANGED <<entries, poolWatched, closed, cleanupFailures, ready, refs,
                   failed, bindingVars, callVars, ended, watcher, closing,
                   closeFailed, reported>>

\* Runtime.Close returned an error: the process is gone all the same.
CloseRuntimeFails(w, e) ==
    /\ Cardinality(closeFailed) < MaxCloseFailures
    /\ TakeEntry(w, e)
    /\ e \notin failed
    /\ live' = live \ {e}
    /\ closeFailed' = closeFailed \cup {e}
    /\ IF w = Pool
       THEN reported' = reported + 1 /\ UNCHANGED cleanupFailures
       ELSE cleanupFailures' = cleanupFailures + 1 /\ UNCHANGED reported
    /\ UNCHANGED <<entries, poolWatched, closed, ready, refs, failed,
                   bindingVars, callVars, ended, watcher, closing>>

\* entry.onClose: frontendBindings.unbind. The last one drops the server.
OnClose(w) ==
    LET k == key[item[w]] IN
    /\ item[w] # None
    /\ bound' = bound \ {k}
    /\ servers' = IF \E b \in bound \ {k} : b[1] = k[1]
                  THEN servers ELSE servers \ {k[1]}
    /\ item' = [item EXCEPT ![w] = None]
    /\ UNCHANGED <<poolVars, bindWatched, callVars, ended, watcher, todo,
                   closing, closeFailed, reported>>

----------------------------------------------------------------------------
(* Pool.Close.                                                             *)

Close ==
    /\ closing = "no"
    /\ closing' = "running"
    /\ closed' = TRUE
    /\ todo' = [todo EXCEPT ![Pool] = EntriesOf(Keys)]
    /\ entries' = [k \in Keys |-> None]
    /\ UNCHANGED <<poolWatched, cleanupFailures, ready, refs, failed, live,
                   bindingVars, callVars, ended, watcher, item, closeFailed,
                   reported>>

\* Faulty variant: Close does not wait for the cleanup of ended sessions.
CloseReturnsEarly ==
    /\ closing = "running"
    /\ todo[Pool] = {}
    /\ item[Pool] = None
    /\ closing' = "returned"
    /\ reported' = reported + cleanupFailures
    /\ UNCHANGED <<poolVars, bindingVars, callVars, ended, watcher, todo, item,
                   closeFailed>>

\* cleanup.Wait returns, and the failures of the session cleanups are added.
CloseReturns ==
    /\ closing = "running"
    /\ todo[Pool] = {}
    /\ item[Pool] = None
    /\ \A w \in Callers : watcher[w] # "cleaning"
    /\ closing' = "returned"
    /\ reported' = reported + cleanupFailures
    /\ UNCHANGED <<poolVars, bindingVars, callVars, ended, watcher, todo, item,
                   closeFailed>>

----------------------------------------------------------------------------
OpenEnds(c) == OpenFails(c) \/ OpenSucceeds(c)

Acquire(c) ==
    \/ AcquireClosed(c)
    \/ AcquireJoins(c)
    \/ AcquireOpens(c)

CloserStep(w) ==
    \/ \E e \in Callers : \/ SkipFailedEntry(w, e)
                          \/ CloseRuntime(w, e)
                          \/ CloseRuntimeFails(w, e)
    \/ OnClose(w)

CallerStep(c) ==
    \/ Acquire(c)
    \/ OpenEnds(c)
    \/ OnOpen(c)
    \/ WaitUses(c)
    \/ WaitFails(c)
    \/ Release(c)

WatcherStep(w) ==
    \/ CloseSessionSkips(w)
    \/ CloseSessionDetaches(w)
    \/ CloseSessionDone(w)

Next ==
    \/ \E c \in Callers :
          \/ \E k \in Keys : BindServer(c, k)
          \/ CallerStep(c)
          \/ WaitCancelled(c)
          \/ WatcherStep(c)
    \/ \E s \in Sessions : SessionEnds(s) \/ ForgetSession(s)
    \/ \E w \in Closers : CloserStep(w)
    \/ Close
    \/ CloseReturns

\* Opening ends (its context is bounded by the connection timeout), as do the
\* operations and Runtime.Close; requests, cancellations, the end of a session
\* and Close may never come.
Spec ==
    /\ Init /\ [][Next]_vars
    /\ \A c \in Callers : WF_vars(CallerStep(c)) /\ WF_vars(WatcherStep(c))
    /\ \A s \in Sessions : WF_vars(ForgetSession(s))
    /\ \A w \in Closers : WF_vars(CloserStep(w))
    /\ WF_vars(CloseReturns)

----------------------------------------------------------------------------
\* Every variable has its type (pool.go:14-38, notifications.go:32-38).
TypeOK ==
    /\ entries \in [Keys -> Callers \cup {None}]
    /\ poolWatched \subseteq Sessions
    /\ closed \in BOOLEAN
    /\ cleanupFailures \in 0..MaxCloseFailures
    /\ ready \subseteq Callers
    /\ refs \in [Callers -> 0..Cardinality(Callers)]
    /\ failed \subseteq ready
    /\ live \subseteq ready \ failed
    /\ servers \subseteq Sessions
    /\ bound \subseteq Keys
    /\ bindWatched \subseteq Sessions
    /\ pc \in [Callers -> {"request", "acquire", "open", "bind", "wait", "use",
                           "done"}]
    /\ key \in [Callers -> Keys \cup {None}]
    /\ ref \in [Callers -> Callers \cup {None}]
    /\ ended \subseteq Sessions
    /\ watcher \in [Callers -> {"none", "waiting", "cleaning", "done"}]
    /\ todo \in [Closers -> SUBSET Callers]
    /\ item \in [Closers -> Callers \cup {None}]
    /\ closing \in {"no", "running", "returned"}
    /\ closeFailed \subseteq Callers \ live
    /\ reported \in 0..MaxCloseFailures

Detached(e) == \E w \in Closers : e \in todo[w]
Current(e) == entries[key[e]] = e

\* A request of a session that has not ended works on the open runtime of its
\* own session and component, until the pool closes: no failure, cancellation
\* or end of another session takes it away (pool.go:62-102).
UsersHoldOpenRuntime ==
    \A c \in Callers :
        /\ pc[c] = "use"
        /\ SessionOf(c) \notin ended
        /\ ~closed
        => /\ ref[c] \in live
           /\ key[ref[c]] = key[c]
           /\ Current(ref[c])

\* While a session lives it never has two runtimes of one component, open or
\* being opened (pool.go:62-78).
OneRuntimePerKey ==
    \A c, d \in Callers :
        /\ c # d
        /\ {c, d} \subseteq live \cup {e \in Callers : pc[e] = "open"}
        /\ key[c] = key[d]
        => SessionOf(c) \in ended \/ closed

\* The pool never loses an open runtime: it is in the map or some closer has
\* it. The exception: the opening of a detached entry fails after a new entry
\* took its key, and deletes that one (pool.go:92); it takes a session that
\* ends while its requests run.
NoRuntimeLost ==
    \A e \in live :
        \/ Current(e)
        \/ Detached(e)
        \/ /\ SessionOf(e) \notin Draining
           /\ \E d \in failed : d # e /\ key[d] = key[e]

\* Nobody waits for what nobody brings: the entry that a request waits for, or
\* that a cleanup or Close has detached, is ready or still being opened, also
\* when its opening fails or its key has gone to another (pool.go:65-102,
\* 166-168).
UnreadyEntriesOpen ==
    \A e \in Callers :
        \/ \E c \in Callers : pc[c] = "wait" /\ ref[c] = e
        \/ Detached(e)
        => e \in ready \/ pc[e] = "open"

\* An open runtime of a live session can notify the frontend: its key is bound
\* and the session's server known, though an unbind drops both in one step
\* (notifications.go:169-191).
OpenRuntimeIsBound ==
    \A k \in Keys :
        LET e == entries[k] IN
        /\ e \in live
        /\ pc[e] # "bind"
        /\ k[1] \notin ended
        /\ ~closed
        => k \in bound /\ k[1] \in servers

\* "Close closes every pooled runtime": when it has returned none is open, also
\* none that the cleanup of an ended session had detached, and its result
\* mentions every failure. Not the runtime of NoRuntimeLost's exception.
CloseEndsRuntimes ==
    closing = "returned" =>
        /\ \A e \in live : ~Current(e) /\ ~Detached(e)
        /\ \A e \in live : SessionOf(e) \notin Draining
        /\ reported = Cardinality(closeFailed)

\* After the end of a session whose requests have returned, its runtimes and
\* bindings go for good (notifications.go:120-133, pool.go:144-181).
EndedSessionReleased ==
    \A s \in Draining :
        s \in ended ~>
            [](/\ s \notin servers \cup bindWatched \cup poolWatched
               /\ \A k \in bound : k[1] # s
               /\ \A e \in live : SessionOf(e) # s)
=============================================================================
