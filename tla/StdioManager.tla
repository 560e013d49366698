---------------------------- MODULE StdioManager ----------------------------
(***************************************************************************)
(* The lifecycle manager of one stdio component (component/stdio/          *)
(* manager.go): it starts the component's process on the first call,       *)
(* shares it between calls, retires it after an idle period and closes it  *)
(* with the pool entry that owns it.                                       *)
(*                                                                         *)
(* The mutex m.mu makes each critical section of the code one action.      *)
(* Everything the code does outside the mutex is an action of its own: the *)
(* call of m.open, the wait on the channel of another call's start, the    *)
(* use of the runtime, the Close of a retired process and the goroutine    *)
(* that time.AfterFunc runs, which may have left the timer before Stop is  *)
(* called and then waits for the mutex.                                    *)
(*                                                                         *)
(* A call opens at most one process, so the call names the process it      *)
(* opened and the start channel it made.                                   *)
(***************************************************************************)
EXTENDS Naturals, FiniteSets

CONSTANTS
    Calls,              \* the operations issued on the component, each once
    ActivityCounts,     \* the numbers of frontend requests that may be reported
    MaxActivityUpdates, \* bound on the calls of SetFrontendActivity
    None                \* Go's nil

ASSUME ManagerAssumption ==
    /\ IsFiniteSet(Calls)
    /\ None \notin Calls
    /\ ActivityCounts \subseteq Nat
    /\ MaxActivityUpdates \in Nat

VARIABLES
    runtime,           \* m.runtime: the process calls are given, or None
    starting,          \* m.starting: the call whose start is in progress
    activeOperations,  \* m.activeOperations
    frontendActivity,  \* m.frontendActivity
    idleTimer,         \* m.idleTimer: the generation it was armed with
    generation,        \* m.generation
    closed,            \* m.closed
    pc,                \* where each call is
    ref,               \* the process a call uses, or the start it waits for
    fired,             \* timer goroutines that wait for m.mu, by generation
    live,              \* processes that run
    closing,           \* processes some goroutine has left to Close
    updates            \* calls of SetFrontendActivity so far

managerVars == <<runtime, starting, activeOperations, frontendActivity,
                 idleTimer, generation, closed>>
vars == <<managerVars, pc, ref, fired, live, closing, updates>>

NoTimer == 0

Init ==
    /\ runtime = None
    /\ starting = None
    /\ activeOperations = 0
    /\ frontendActivity = 0
    /\ idleTimer = NoTimer
    /\ generation = 0
    /\ closed = FALSE
    /\ pc = [c \in Calls |-> "acquire"]
    /\ ref = [c \in Calls |-> None]
    /\ fired = {}
    /\ live = {}
    /\ closing = {}
    /\ updates = 0

Goto(c, label) == pc' = [pc EXCEPT ![c] = label]

----------------------------------------------------------------------------
(* The timer. Stop does not recall a goroutine that already fired; the     *)
(* generation makes that goroutine stale instead.                          *)

StopTimer ==
    /\ idleTimer' = NoTimer
    /\ generation' = generation + 1

ArmTimer(operations, activity) ==
    IF \/ closed
       \/ runtime = None
       \/ operations # 0
       \/ activity # 0
       \/ idleTimer # NoTimer
    THEN UNCHANGED <<idleTimer, generation>>
    ELSE /\ generation' = generation + 1
         /\ idleTimer' = generation + 1

TimerFires ==
    /\ idleTimer # NoTimer
    /\ idleTimer \notin fired
    /\ fired' = fired \cup {idleTimer}
    /\ UNCHANGED <<managerVars, pc, ref, live, closing, updates>>

\* Faulty variant: the goroutine does not compare generations.
RetireGuardAnyGeneration(g) ==
    /\ ~closed
    /\ activeOperations = 0
    /\ frontendActivity = 0

RetireGuard(g) ==
    /\ ~closed
    /\ g = generation
    /\ activeOperations = 0
    /\ frontendActivity = 0

\* retire returns early: closed, superseded or busy.
RetireSkips(g) ==
    /\ g \in fired
    /\ ~RetireGuard(g)
    /\ fired' = fired \ {g}
    /\ UNCHANGED <<managerVars, pc, ref, live, closing, updates>>

\* retire detaches the process; its Close follows outside the mutex.
Retire(g) ==
    /\ g \in fired
    /\ RetireGuard(g)
    /\ fired' = fired \ {g}
    /\ idleTimer' = NoTimer
    /\ IF runtime = None
       THEN UNCHANGED <<runtime, generation, closing>>
       ELSE /\ runtime' = None
            /\ generation' = generation + 1
            /\ closing' = closing \cup {runtime}
    /\ UNCHANGED <<starting, activeOperations, frontendActivity, closed, pc,
                   ref, live, updates>>

\* runtime.Close() of a process that retire or Close detached.
CloseProcess(r) ==
    /\ r \in closing
    /\ closing' = closing \ {r}
    /\ live' = live \ {r}
    /\ UNCHANGED <<managerVars, pc, ref, fired, updates>>

----------------------------------------------------------------------------
(* acquire: one critical section per turn of its loop, then the wait for   *)
(* another call's start or the start itself.                               *)

AcquireClosed(c) ==
    /\ pc[c] = "acquire"
    /\ closed
    /\ Goto(c, "failed")
    /\ UNCHANGED <<managerVars, ref, fired, live, closing, updates>>

\* Faulty variant: a call that joins a running process is not counted.
AcquireUncounted(c) ==
    /\ pc[c] = "acquire"
    /\ ~closed
    /\ runtime # None
    /\ StopTimer
    /\ ref' = [ref EXCEPT ![c] = runtime]
    /\ Goto(c, "using")
    /\ UNCHANGED <<runtime, starting, activeOperations, frontendActivity,
                   closed, fired, live, closing, updates>>

AcquireRunning(c) ==
    /\ pc[c] = "acquire"
    /\ ~closed
    /\ runtime # None
    /\ StopTimer
    /\ activeOperations' = activeOperations + 1
    /\ ref' = [ref EXCEPT ![c] = runtime]
    /\ Goto(c, "using")
    /\ UNCHANGED <<runtime, starting, frontendActivity, closed, fired, live,
                   closing, updates>>

AcquireWaits(c) ==
    /\ pc[c] = "acquire"
    /\ ~closed
    /\ runtime = None
    /\ starting # None
    /\ StopTimer
    /\ ref' = [ref EXCEPT ![c] = starting]
    /\ Goto(c, "waiting")
    /\ UNCHANGED <<runtime, starting, activeOperations, frontendActivity,
                   closed, fired, live, closing, updates>>

AcquireStarts(c) ==
    /\ pc[c] = "acquire"
    /\ ~closed
    /\ runtime = None
    /\ starting = None
    /\ StopTimer
    /\ starting' = c
    /\ Goto(c, "opening")
    /\ UNCHANGED <<runtime, activeOperations, frontendActivity, closed, ref,
                   fired, live, closing, updates>>

\* close(starting) happens where m.starting is cleared.
StartEnded(c) ==
    /\ pc[c] = "waiting"
    /\ starting # ref[c]
    /\ ref' = [ref EXCEPT ![c] = None]
    /\ Goto(c, "acquire")
    /\ UNCHANGED <<managerVars, fired, live, closing, updates>>

\* The select may take ctx.Done() even when the channel is closed as well.
WaitCancelled(c) ==
    /\ pc[c] = "waiting"
    /\ ref' = [ref EXCEPT ![c] = None]
    /\ Goto(c, "failed")
    /\ UNCHANGED <<managerVars, fired, live, closing, updates>>

\* Faulty variant: a failed start leaves its channel in m.starting.
OpenFailsKeepsStart(c) ==
    /\ pc[c] = "opening"
    /\ Goto(c, "failed")
    /\ UNCHANGED <<managerVars, ref, fired, live, closing, updates>>

OpenFails(c) ==
    /\ pc[c] = "opening"
    /\ starting' = None
    /\ Goto(c, "failed")
    /\ UNCHANGED <<runtime, activeOperations, frontendActivity, idleTimer,
                   generation, closed, ref, fired, live, closing, updates>>

\* Faulty variant: Close during the start goes unnoticed.
OpenIgnoresClose(c) ==
    /\ pc[c] = "opening"
    /\ starting' = None
    /\ live' = live \cup {c}
    /\ runtime' = c
    /\ activeOperations' = activeOperations + 1
    /\ ref' = [ref EXCEPT ![c] = c]
    /\ Goto(c, "using")
    /\ UNCHANGED <<frontendActivity, idleTimer, generation, closed, fired,
                   closing, updates>>

\* Faulty variant: a late opener returns its error without closing.
OpenLeaks(c) ==
    /\ pc[c] = "opening"
    /\ starting' = None
    /\ live' = live \cup {c}
    /\ runtime' = IF closed THEN None ELSE c
    /\ activeOperations' = activeOperations + IF closed THEN 0 ELSE 1
    /\ ref' = [ref EXCEPT ![c] = IF closed THEN None ELSE c]
    /\ Goto(c, IF closed THEN "failed" ELSE "using")
    /\ UNCHANGED <<frontendActivity, idleTimer, generation, closed, fired,
                   closing, updates>>

OpenSucceeds(c) ==
    /\ pc[c] = "opening"
    /\ starting' = None
    /\ live' = live \cup {c}
    /\ IF closed
       THEN /\ Goto(c, "discarding")
            /\ UNCHANGED <<runtime, activeOperations, ref>>
       ELSE /\ runtime' = c
            /\ activeOperations' = activeOperations + 1
            /\ ref' = [ref EXCEPT ![c] = c]
            /\ Goto(c, "using")
    /\ UNCHANGED <<frontendActivity, idleTimer, generation, closed, fired,
                   closing, updates>>

\* The opener closes the process it started for a manager closed meanwhile.
DiscardProcess(c) ==
    /\ pc[c] = "discarding"
    /\ live' = live \ {c}
    /\ Goto(c, "failed")
    /\ UNCHANGED <<managerVars, ref, fired, closing, updates>>

\* Faulty variant: the last call to leave does not arm the timer.
ReleaseWithoutTimer(c) ==
    /\ pc[c] = "using"
    /\ activeOperations' = activeOperations - 1
    /\ ref' = [ref EXCEPT ![c] = None]
    /\ Goto(c, "done")
    /\ UNCHANGED <<runtime, starting, frontendActivity, idleTimer, generation,
                   closed, fired, live, closing, updates>>

\* withRuntime: fn has returned and the deferred release runs.
Release(c) ==
    /\ pc[c] = "using"
    /\ LET operations == IF activeOperations > 0 THEN activeOperations - 1
                                                 ELSE activeOperations
       IN /\ activeOperations' = operations
          /\ ArmTimer(operations, frontendActivity)
    /\ ref' = [ref EXCEPT ![c] = None]
    /\ Goto(c, "done")
    /\ UNCHANGED <<runtime, starting, frontendActivity, closed, fired, live,
                   closing, updates>>

----------------------------------------------------------------------------
(* The owner of the manager.                                               *)

\* The critical section of SetFrontendActivity.
ReportActivity(active) ==
    /\ frontendActivity' = active
    /\ IF active > 0 THEN StopTimer ELSE ArmTimer(activeOperations, active)
    /\ UNCHANGED <<runtime, starting, activeOperations, closed, pc, ref, fired,
                   live, closing>>

SetFrontendActivity(active) ==
    /\ updates < MaxActivityUpdates
    /\ updates' = updates + 1
    /\ ReportActivity(active)

Close ==
    /\ ~closed
    /\ closed' = TRUE
    /\ StopTimer
    /\ runtime' = None
    /\ closing' = IF runtime = None THEN closing ELSE closing \cup {runtime}
    /\ UNCHANGED <<starting, activeOperations, frontendActivity, pc, ref,
                   fired, live, updates>>

----------------------------------------------------------------------------

CallStep(c) ==
    \/ AcquireClosed(c)
    \/ AcquireRunning(c)
    \/ AcquireWaits(c)
    \/ AcquireStarts(c)
    \/ StartEnded(c)
    \/ WaitCancelled(c)
    \/ OpenFails(c)
    \/ OpenSucceeds(c)
    \/ DiscardProcess(c)
    \/ Release(c)

TimerStep ==
    \/ TimerFires
    \/ \E g \in fired : RetireSkips(g) \/ Retire(g)

Next ==
    \/ \E c \in Calls : CallStep(c)
    \/ TimerStep
    \/ \E r \in closing : CloseProcess(r)
    \/ \E active \in ActivityCounts : SetFrontendActivity(active)
    \/ Close

Spec == Init /\ [][Next]_vars

\* The Go runtime runs every goroutine that can run, timers fire, Close of a
\* process returns and opening one ends (with the component's timeout or with
\* the request). Nothing makes a component answer a call, an owner report
\* activity or close the manager.
Fairness ==
    /\ \A c \in Calls :
          /\ WF_vars(AcquireClosed(c) \/ AcquireRunning(c) \/ AcquireWaits(c)
                       \/ AcquireStarts(c))
          /\ WF_vars(StartEnded(c))
          /\ WF_vars(OpenFails(c) \/ OpenSucceeds(c))
          /\ WF_vars(DiscardProcess(c))
          /\ WF_vars(CloseProcess(c))
    /\ WF_vars(TimerStep)

FairSpec == Spec /\ Fairness

----------------------------------------------------------------------------
(* Properties.                                                             *)

Users == {c \in Calls : pc[c] = "using"}

\* The types of the manager's fields and of the ghost state around it
\* (type manager struct).
TypeOK ==
    /\ runtime \in Calls \cup {None}
    /\ starting \in Calls \cup {None}
    /\ activeOperations \in Nat
    /\ frontendActivity \in ActivityCounts \cup {0}
    /\ idleTimer \in Nat
    /\ generation \in Nat
    /\ closed \in BOOLEAN
    /\ pc \in [Calls -> {"acquire", "waiting", "opening", "discarding",
                         "using", "failed", "done"}]
    /\ ref \in [Calls -> Calls \cup {None}]
    /\ fired \subseteq Nat
    /\ live \subseteq Calls
    /\ closing \subseteq Calls
    /\ updates \in 0 .. MaxActivityUpdates

\* Until the manager is closed, every call that acquire has let in works on
\* the manager's current process and nobody is about to close it: no timer
\* goroutine, however late, takes a process away from a call (acquire,
\* release and retire together).
UsersShareLiveRuntime ==
    ~closed => \A c \in Users : /\ ref[c] = runtime
                                /\ runtime \in live \ closing

\* Every process that runs is the current one, is about to be closed by the
\* goroutine that detached it, or is discarded by the call that opened it too
\* late: no interleaving of a start with Close or with retirement leaks one.
NoProcessLeaks ==
    live = ((closing \cup {runtime}) \ {None})
             \cup {c \in Calls : pc[c] = "discarding"}

\* A process is retired only when the idle period that is running has itself
\* elapsed; a goroutine left over from an earlier period never cuts it short
\* (the generation check of retire).
RetiredAfterFullIdlePeriod ==
    [][(runtime # None /\ runtime' = None /\ ~closed')
          => idleTimer \in fired]_vars

\* An idle process is retired, unless it is needed again or closed first
\* (armTimerLocked and retire).
IdleRuntimeRetires ==
    (runtime # None /\ activeOperations = 0 /\ frontendActivity = 0)
       ~> (runtime = None \/ activeOperations > 0 \/ frontendActivity > 0)

\* After Close no process is left, those included that were being opened when
\* Close ran (the closed branch of acquire).
CloseEndsEveryProcess == closed ~> (closed /\ live = {})

\* A call that waits for another call's start is always woken: it is given a
\* process, fails, or starts one itself.
WaitersWake ==
    \A c \in Calls : (pc[c] \in {"acquire", "waiting"})
                        ~> (pc[c] \in {"using", "failed", "opening", "done"})

=============================================================================
