--------------------------- MODULE FrontendActivity ---------------------------
(***************************************************************************)
(* The HTTP requests of one stateful session (http_activity.go) and the    *)
(* manager of the one process they may use (StdioManager). A request is    *)
(* counted from its arrival to its end, and at both ends the new count is  *)
(* reported to the session's managers, if the registry knows the session   *)
(* and the pool has its runtime. The count is read under one mutex and     *)
(* delivered under others, so reports may overtake each other.             *)
(*                                                                         *)
(* A request issues an operation, with the identity of a call of the       *)
(* manager, or is a stream that stays open (the GET stream of the SDK).    *)
(* invoke binds the session in the registry and opens the runtime with the *)
(* count it was given; subscribe and unsubscribe do not bind and open it   *)
(* with zero. The session stays open: its end is in RuntimePool.           *)
(***************************************************************************)
EXTENDS StdioManager

CONSTANTS
    Streams,     \* requests that stay open until the client goes
    Subscribing  \* the calls issued by subscribe or unsubscribe

Requests == Calls \cup Streams

VARIABLES
    active,  \* httpActivityRegistry.active of the session
    bound,   \* whether httpActivityRegistry.sessions has it
    entry,   \* the pool's entry: "none", "opening" or "ready"
    at,      \* where each request is
    report   \* the count that a request has read and will deliver

frontendVars == <<active, bound, entry, at, report>>

FrontendInit ==
    /\ Init
    /\ active = 0
    /\ bound = FALSE
    /\ entry = "none"
    /\ at = [q \in Requests |-> "new"]
    /\ report = [q \in Requests |-> 0]

Proceed(q, label) == at' = [at EXCEPT ![q] = label]

\* begin and end: the count moves and its new value is taken along.
Count(q, n) ==
    /\ active' = n
    /\ report' = [report EXCEPT ![q] = n]

RequestBegins(q) ==
    /\ at[q] = "new"
    /\ Count(q, active + 1)
    /\ Proceed(q, "began")
    /\ UNCHANGED <<vars, bound, entry>>

RequestEnds(q) ==
    /\ at[q] = "serving"
    /\ q \in Calls => pc[q] \in {"done", "failed"}
    /\ Count(q, IF active > 1 THEN active - 1 ELSE 0)
    /\ Proceed(q, "ended")
    /\ UNCHANGED <<vars, bound, entry>>

\* Pool.SetFrontendActivity with the count that q has read.
Deliver(q) ==
    /\ IF bound /\ entry = "ready"
       THEN ReportActivity(report[q]) /\ UNCHANGED updates
       ELSE UNCHANGED vars
    /\ UNCHANGED <<active, bound, entry, report>>

BeginDelivered(q) == at[q] = "began" /\ Deliver(q) /\ Proceed(q, "admitted")
EndDelivered(q) == at[q] = "ended" /\ Deliver(q) /\ Proceed(q, "gone")

\* The dispatcher holds the stream open.
StreamServed(q) ==
    /\ q \in Streams
    /\ at[q] = "admitted"
    /\ Proceed(q, "serving")
    /\ UNCHANGED <<vars, active, bound, entry, report>>

\* bindFrontendActivity of invoke: the session is known from now on.
InvokeBinds(q) ==
    /\ q \in Calls \ Subscribing
    /\ at[q] = "admitted"
    /\ bound' = TRUE
    /\ report' = [report EXCEPT ![q] = active]
    /\ Proceed(q, "bound")
    /\ UNCHANGED <<vars, active, entry>>

InvokeDelivered(q) == at[q] = "bound" /\ Deliver(q) /\ Proceed(q, "acquiring")

\* subscribe acquires with a count of zero.
SubscribeAcquires(q) ==
    /\ q \in Subscribing
    /\ at[q] = "admitted"
    /\ report' = [report EXCEPT ![q] = 0]
    /\ Proceed(q, "acquiring")
    /\ UNCHANGED <<vars, active, bound, entry>>

\* Pool.Acquire: the first request makes the entry.
EntryMade(q) ==
    /\ at[q] = "acquiring"
    /\ entry = "none"
    /\ entry' = "opening"
    /\ Proceed(q, "opening")
    /\ UNCHANGED <<vars, active, bound, report>>

\* Factory.OpenRuntime makes the manager and gives it the count of the options.
RuntimeOpened(q) ==
    /\ at[q] = "opening"
    /\ ReportActivity(report[q])
    /\ entry' = "ready"
    /\ Proceed(q, "serving")
    /\ UNCHANGED <<updates, active, bound, report>>

RuntimeFound(q) ==
    /\ at[q] = "acquiring"
    /\ entry = "ready"
    /\ Proceed(q, "serving")
    /\ UNCHANGED <<vars, active, bound, entry, report>>

\* What the manager does, with the calls of requests that have reached it.
ManagerSteps ==
    /\ \/ \E c \in Calls : at[c] = "serving" /\ CallStep(c)
       \/ TimerStep
       \/ \E r \in closing : CloseProcess(r)
    /\ UNCHANGED frontendVars

FrontendNext ==
    \/ \E q \in Requests :
          \/ RequestBegins(q)
          \/ BeginDelivered(q)
          \/ StreamServed(q)
          \/ InvokeBinds(q)
          \/ InvokeDelivered(q)
          \/ SubscribeAcquires(q)
          \/ EntryMade(q)
          \/ RuntimeOpened(q)
          \/ RuntimeFound(q)
          \/ RequestEnds(q)
          \/ EndDelivered(q)
    \/ ManagerSteps

FrontendSpec == FrontendInit /\ [][FrontendNext]_<<vars, frontendVars>>

----------------------------------------------------------------------------
\* Command processes "remain active while calls or frontend streams are
\* active" (README.md:163-164): no idle timer takes the process of a session
\* while a stream of it is being served.
StreamsKeepProcess ==
    [][(runtime # None /\ runtime' = None)
          => \A q \in Streams : at[q] # "serving"]_<<vars, frontendVars>>
=============================================================================
