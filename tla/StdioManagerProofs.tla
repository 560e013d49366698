-------------------------- MODULE StdioManagerProofs --------------------------
(***************************************************************************)
(* Proofs about StdioManager, for any finite set of calls and any number   *)
(* of reports of frontend activity.                                        *)
(*                                                                         *)
(* The invariants the runs check are not inductive: that the process a     *)
(* call uses survives depends on the operation counter being the number of *)
(* such calls, on the timer being armed only for an idle process and on a  *)
(* process being owned in exactly one way.  IndInv joins these facts.      *)
(***************************************************************************)
EXTENDS StdioManager, FiniteSetTheorems, TLAPS

\* m.activeOperations is the number of calls acquire has let in.
OperationsCounted == activeOperations = Cardinality(Users)

\* A timer is installed only for an idle process of an open manager, with the
\* newest generation, and a goroutine of that generation belongs to it.
TimerConsistent ==
    /\ idleTimer # NoTimer =>
          /\ idleTimer = generation
          /\ ~closed
          /\ runtime # None
          /\ activeOperations = 0
          /\ frontendActivity = 0
    /\ fired \subseteq 1 .. generation
    /\ generation \in fired => idleTimer = generation

\* At most one call starts a process, and only while there is none.
OneStart ==
    /\ \A c \in Calls : pc[c] = "opening" <=> starting = c
    /\ starting # None => runtime = None

NotOpened == {c \in Calls : pc[c] \in {"acquire", "waiting", "opening"}}
Discarding == {c \in Calls : pc[c] = "discarding"}

\* A running process has one owner: the manager, a closer or its opener.
OneOwner ==
    /\ NotOpened \cap live = {}
    /\ closing \subseteq live
    /\ closing \cap Discarding = {}
    /\ runtime # None => runtime \in live \ (closing \cup Discarding)
    /\ closed => runtime = None

\* Calls in progress work on the current process.
UsersShareRuntime ==
    ~closed => \A c \in Users : runtime # None /\ ref[c] = runtime

\* A process that neither a call nor a frontend request needs always has a
\* timer armed, or one that has fired and waits for the mutex: whichever of
\* release and SetFrontendActivity comes last arms it.
IdleRuntimeHasTimer ==
    (~closed /\ runtime # None /\ activeOperations = 0 /\ frontendActivity = 0)
       => idleTimer # NoTimer

\* The generation alone separates current from stale timer goroutines: one that
\* carries the current generation finds the process idle and the timer still
\* installed, so that the other tests of retire never decide.
CurrentTimerFindsIdle ==
    generation \in fired =>
        /\ idleTimer = generation
        /\ ~closed
        /\ runtime # None
        /\ activeOperations = 0
        /\ frontendActivity = 0

IndInv ==
    /\ TypeOK
    /\ OperationsCounted
    /\ TimerConsistent
    /\ OneStart
    /\ OneOwner
    /\ UsersShareRuntime
    /\ NoProcessLeaks
    /\ IdleRuntimeHasTimer

----------------------------------------------------------------------------
\* The type invariant holds of type manager struct and the ghost state.
LEMMA TypeInit == Init => TypeOK
<1> SUFFICES ASSUME Init PROVE TypeOK
  OBVIOUS
<1>1. closed \in BOOLEAN
  BY DEF Init
<1> QED BY <1>1, ManagerAssumption DEF Init, TypeOK, NoTimer

LEMMA TypeStep == TypeOK /\ [Next]_vars => TypeOK'
<1> SUFFICES ASSUME TypeOK, [Next]_vars PROVE TypeOK'
  OBVIOUS
<1> USE ManagerAssumption DEF TypeOK, managerVars, Goto, StopTimer, NoTimer
<1>1. ASSUME NEW c \in Calls, CallStep(c) PROVE TypeOK'
  <2>1. CASE AcquireClosed(c) BY <2>1 DEF AcquireClosed
  <2>2. CASE AcquireRunning(c) BY <2>2 DEF AcquireRunning
  <2>3. CASE AcquireWaits(c) BY <2>3 DEF AcquireWaits
  <2>4. CASE AcquireStarts(c) BY <2>4 DEF AcquireStarts
  <2>5. CASE StartEnded(c) BY <2>5 DEF StartEnded
  <2>6. CASE WaitCancelled(c) BY <2>6 DEF WaitCancelled
  <2>7. CASE OpenFails(c) BY <2>7 DEF OpenFails
  <2>8. CASE OpenSucceeds(c) BY <2>8 DEF OpenSucceeds
  <2>9. CASE DiscardProcess(c) BY <2>9 DEF DiscardProcess
  <2>10. CASE Release(c) BY <2>10 DEF Release, ArmTimer
  <2> QED BY <1>1, <2>1, <2>2, <2>3, <2>4, <2>5, <2>6, <2>7, <2>8, <2>9,
             <2>10 DEF CallStep
<1>2. CASE TimerStep
  <2>1. CASE TimerFires BY <2>1 DEF TimerFires
  <2>2. ASSUME NEW g \in fired, RetireSkips(g) PROVE TypeOK'
    BY <2>2 DEF RetireSkips
  <2>3. ASSUME NEW g \in fired, Retire(g) PROVE TypeOK'
    BY <2>3 DEF Retire
  <2> QED BY <1>2, <2>1, <2>2, <2>3 DEF TimerStep
<1>3. ASSUME NEW r \in closing, CloseProcess(r) PROVE TypeOK'
  BY <1>3 DEF CloseProcess
<1>4. ASSUME NEW active \in ActivityCounts, SetFrontendActivity(active)
      PROVE TypeOK'
  BY <1>4 DEF SetFrontendActivity, ReportActivity, ArmTimer
<1>5. CASE Close BY <1>5 DEF Close
<1>6. CASE UNCHANGED vars BY <1>6 DEF vars
<1> QED BY <1>1, <1>2, <1>3, <1>4, <1>5, <1>6 DEF Next

\* Every field of the manager keeps its type (component/stdio/manager.go).
THEOREM TypeCorrect == Spec => []TypeOK
  BY TypeInit, TypeStep, PTL DEF Spec

----------------------------------------------------------------------------
\* The calls acquire has let in are finitely many, and joining or leaving them
\* changes their number by one (m.activeOperations++ and --).
LEMMA UsersFinite == IsFiniteSet(Users) /\ Cardinality(Users) \in Nat
  BY ManagerAssumption, FS_Subset, FS_CardinalityType DEF Users

LEMMA UserJoins ==
  ASSUME NEW c \in Calls, c \notin Users, Users' = Users \cup {c}
  PROVE  Cardinality(Users') = Cardinality(Users) + 1
  BY UsersFinite, FS_AddElement

LEMMA UserLeaves ==
  ASSUME NEW c \in Calls, c \in Users, Users' = Users \ {c}
  PROVE  /\ Cardinality(Users') = Cardinality(Users) - 1
         /\ Cardinality(Users) > 0
<1>1. Cardinality(Users') = Cardinality(Users) - 1
  BY UsersFinite, FS_RemoveElement
<1>2. Cardinality(Users) # 0
  BY UsersFinite, FS_EmptySet
<1> QED BY <1>1, <1>2, UsersFinite

LEMMA NoUsers == Cardinality(Users) = 0 => Users = {}
  BY UsersFinite, FS_EmptySet

\* A call that moves between labels other than "using" leaves the users alone.
LEMMA SameUsers ==
  ASSUME TypeOK, NEW c \in Calls, NEW label, Goto(c, label),
         pc[c] # "using", label # "using"
  PROVE  Users' = Users
  BY DEF TypeOK, Goto, Users

\* The initial state of newManager satisfies the inductive invariant.
LEMMA IndInit == Init => IndInv
<1> SUFFICES ASSUME Init PROVE IndInv
  OBVIOUS
<1>1. TypeOK
  BY TypeInit
<1>2. OperationsCounted
  <2>1. Users = {}
    BY DEF Init, Users
  <2> QED BY <2>1, FS_EmptySet DEF Init, OperationsCounted
<1>3. TimerConsistent
  BY DEF Init, TimerConsistent, NoTimer
<1>4. OneStart
  BY ManagerAssumption DEF Init, OneStart
<1>5. OneOwner
  BY DEF Init, OneOwner, NotOpened, Discarding
<1>6. UsersShareRuntime
  BY DEF Init, UsersShareRuntime, Users
<1>7. NoProcessLeaks
  BY DEF Init, NoProcessLeaks
<1>8. IdleRuntimeHasTimer
  BY DEF Init, IdleRuntimeHasTimer
<1> QED BY <1>1, <1>2, <1>3, <1>4, <1>5, <1>6, <1>7, <1>8 DEF IndInv
\* Every step of the manager preserves the inductive invariant.
LEMMA IndStep == IndInv /\ [Next]_vars => IndInv'
<1> SUFFICES ASSUME IndInv, [Next]_vars PROVE IndInv'
  OBVIOUS
<1>t. TypeOK /\ TypeOK'
  BY TypeStep DEF IndInv
<1> USE <1>t, ManagerAssumption DEF IndInv, TypeOK, managerVars, NoTimer
<1>1. ASSUME NEW c \in Calls, CallStep(c) PROVE IndInv'
  <2>1. CASE AcquireClosed(c)
    <3>1. OperationsCounted' /\ UsersShareRuntime'
      <4>1. Users' = Users
        BY <2>1, SameUsers DEF AcquireClosed
      <4> QED BY <4>1, <2>1 DEF AcquireClosed, OperationsCounted, UsersShareRuntime, Users
    <3>2. TimerConsistent' /\ IdleRuntimeHasTimer'
      BY <2>1 DEF AcquireClosed, Goto, TimerConsistent, IdleRuntimeHasTimer
    <3>3. OneStart'
      BY <2>1 DEF AcquireClosed, Goto, OneStart
    <3>4. OneOwner' /\ NoProcessLeaks'
      BY <2>1 DEF AcquireClosed, Goto, OneOwner, OneStart, NotOpened,
           Discarding, NoProcessLeaks
    <3> QED BY <3>1, <3>2, <3>3, <3>4
  <2>2. CASE AcquireRunning(c)
    <3>1. OperationsCounted' /\ UsersShareRuntime'
      <4>1. c \notin Users /\ Users' = Users \cup {c}
        BY <2>2 DEF AcquireRunning, Goto, StopTimer, Users
      <4>2. OperationsCounted'
        BY <4>1, <2>2, UserJoins DEF AcquireRunning, OperationsCounted
      <4> QED BY <4>1, <4>2, <2>2 DEF AcquireRunning, UsersShareRuntime, Users
    <3>2. TimerConsistent' /\ IdleRuntimeHasTimer'
      BY <2>2 DEF AcquireRunning, Goto, StopTimer, TimerConsistent, IdleRuntimeHasTimer
    <3>3. OneStart'
      BY <2>2 DEF AcquireRunning, Goto, StopTimer, OneStart
    <3>4. OneOwner' /\ NoProcessLeaks'
      BY <2>2 DEF AcquireRunning, Goto, StopTimer, OneOwner, OneStart, NotOpened,
           Discarding, NoProcessLeaks
    <3> QED BY <3>1, <3>2, <3>3, <3>4
  <2>3. CASE AcquireWaits(c)
    <3>1. OperationsCounted' /\ UsersShareRuntime'
      <4>1. Users' = Users
        BY <2>3, SameUsers DEF AcquireWaits
      <4> QED BY <4>1, <2>3 DEF AcquireWaits, OperationsCounted, UsersShareRuntime, Users
    <3>2. TimerConsistent' /\ IdleRuntimeHasTimer'
      BY <2>3 DEF AcquireWaits, Goto, StopTimer, TimerConsistent, IdleRuntimeHasTimer
    <3>3. OneStart'
      BY <2>3 DEF AcquireWaits, Goto, StopTimer, OneStart
    <3>4. OneOwner' /\ NoProcessLeaks'
      BY <2>3 DEF AcquireWaits, Goto, StopTimer, OneOwner, OneStart, NotOpened,
           Discarding, NoProcessLeaks
    <3> QED BY <3>1, <3>2, <3>3, <3>4
  <2>4. CASE AcquireStarts(c)
    <3>1. OperationsCounted' /\ UsersShareRuntime'
      <4>1. Users' = Users
        BY <2>4, SameUsers DEF AcquireStarts
      <4> QED BY <4>1, <2>4 DEF AcquireStarts, OperationsCounted, UsersShareRuntime, Users
    <3>2. TimerConsistent' /\ IdleRuntimeHasTimer'
      BY <2>4 DEF AcquireStarts, Goto, StopTimer, TimerConsistent, IdleRuntimeHasTimer
    <3>3. OneStart'
      BY <2>4 DEF AcquireStarts, Goto, StopTimer, OneStart
    <3>4. OneOwner' /\ NoProcessLeaks'
      BY <2>4 DEF AcquireStarts, Goto, StopTimer, OneOwner, OneStart, NotOpened,
           Discarding, NoProcessLeaks
    <3> QED BY <3>1, <3>2, <3>3, <3>4
  <2>5. CASE StartEnded(c)
    <3>1. OperationsCounted' /\ UsersShareRuntime'
      <4>1. Users' = Users
        BY <2>5, SameUsers DEF StartEnded
      <4> QED BY <4>1, <2>5 DEF StartEnded, OperationsCounted, UsersShareRuntime, Users
    <3>2. TimerConsistent' /\ IdleRuntimeHasTimer'
      BY <2>5 DEF StartEnded, Goto, TimerConsistent, IdleRuntimeHasTimer
    <3>3. OneStart'
      BY <2>5 DEF StartEnded, Goto, OneStart
    <3>4. OneOwner' /\ NoProcessLeaks'
      BY <2>5 DEF StartEnded, Goto, OneOwner, OneStart, NotOpened,
           Discarding, NoProcessLeaks
    <3> QED BY <3>1, <3>2, <3>3, <3>4
  <2>6. CASE WaitCancelled(c)
    <3>1. OperationsCounted' /\ UsersShareRuntime'
      <4>1. Users' = Users
        BY <2>6, SameUsers DEF WaitCancelled
      <4> QED BY <4>1, <2>6 DEF WaitCancelled, OperationsCounted, UsersShareRuntime, Users
    <3>2. TimerConsistent' /\ IdleRuntimeHasTimer'
      BY <2>6 DEF WaitCancelled, Goto, TimerConsistent, IdleRuntimeHasTimer
    <3>3. OneStart'
      BY <2>6 DEF WaitCancelled, Goto, OneStart
    <3>4. OneOwner' /\ NoProcessLeaks'
      BY <2>6 DEF WaitCancelled, Goto, OneOwner, OneStart, NotOpened,
           Discarding, NoProcessLeaks
    <3> QED BY <3>1, <3>2, <3>3, <3>4
  <2>7. CASE OpenFails(c)
    <3>1. OperationsCounted' /\ UsersShareRuntime'
      <4>1. Users' = Users
        BY <2>7, SameUsers DEF OpenFails
      <4> QED BY <4>1, <2>7 DEF OpenFails, OperationsCounted, UsersShareRuntime, Users
    <3>2. TimerConsistent' /\ IdleRuntimeHasTimer'
      BY <2>7 DEF OpenFails, Goto, TimerConsistent, IdleRuntimeHasTimer
    <3>3. OneStart'
      BY <2>7 DEF OpenFails, Goto, OneStart
    <3>4. OneOwner' /\ NoProcessLeaks'
      BY <2>7 DEF OpenFails, Goto, OneOwner, OneStart, NotOpened,
           Discarding, NoProcessLeaks
    <3> QED BY <3>1, <3>2, <3>3, <3>4
  <2>8. CASE OpenSucceeds(c)
    <3>1. OperationsCounted' /\ UsersShareRuntime'
      <4>1. CASE closed
        <5>1. Users' = Users
          BY <4>1, <2>8, SameUsers DEF OpenSucceeds
        <5> QED BY <4>1, <5>1, <2>8 DEF OpenSucceeds, OperationsCounted, UsersShareRuntime
      <4>2. CASE ~closed
        <5>1. c \notin Users /\ Users' = Users \cup {c}
          BY <4>2, <2>8 DEF OpenSucceeds, Goto, Users
        <5>2. Users = {}
          BY <4>2, <2>8 DEF OpenSucceeds, OneStart, UsersShareRuntime
        <5>3. OperationsCounted'
          BY <4>2, <5>1, <2>8, UserJoins DEF OpenSucceeds, OperationsCounted
        <5> QED BY <4>2, <5>1, <5>2, <5>3, <2>8 DEF OpenSucceeds, UsersShareRuntime
      <4> QED BY <4>1, <4>2
    <3>2. TimerConsistent' /\ IdleRuntimeHasTimer'
      BY <2>8 DEF OpenSucceeds, Goto, OneStart, TimerConsistent,
           IdleRuntimeHasTimer
    <3>3. OneStart'
      BY <2>8 DEF OpenSucceeds, Goto, OneStart
    <3>4. OneOwner' /\ NoProcessLeaks'
      BY <2>8 DEF OpenSucceeds, Goto, OneOwner, OneStart, NotOpened,
           Discarding, NoProcessLeaks
    <3> QED BY <3>1, <3>2, <3>3, <3>4
  <2>9. CASE DiscardProcess(c)
    <3>1. OperationsCounted' /\ UsersShareRuntime'
      <4>1. Users' = Users
        BY <2>9, SameUsers DEF DiscardProcess
      <4> QED BY <4>1, <2>9 DEF DiscardProcess, OperationsCounted, UsersShareRuntime, Users
    <3>2. TimerConsistent' /\ IdleRuntimeHasTimer'
      BY <2>9 DEF DiscardProcess, Goto, TimerConsistent, IdleRuntimeHasTimer
    <3>3. OneStart'
      BY <2>9 DEF DiscardProcess, Goto, OneStart
    <3>4. OneOwner' /\ NoProcessLeaks'
      BY <2>9 DEF DiscardProcess, Goto, OneOwner, OneStart, NotOpened,
           Discarding, NoProcessLeaks
    <3> QED BY <3>1, <3>2, <3>3, <3>4
  <2>10. CASE Release(c)
    <3>1. OperationsCounted' /\ UsersShareRuntime'
      <4>1. c \in Users /\ Users' = Users \ {c}
        BY <2>10 DEF Release, Goto, ArmTimer, Users
      <4>2. OperationsCounted'
        BY <4>1, <2>10, UserLeaves DEF Release, OperationsCounted
      <4> QED BY <4>1, <4>2, <2>10 DEF Release, UsersShareRuntime, Users
    <3>2. TimerConsistent' /\ IdleRuntimeHasTimer'
      BY <2>10 DEF Release, Goto, ArmTimer, TimerConsistent, IdleRuntimeHasTimer
    <3>3. OneStart'
      BY <2>10 DEF Release, Goto, ArmTimer, OneStart
    <3>4. OneOwner' /\ NoProcessLeaks'
      BY <2>10 DEF Release, Goto, ArmTimer, OneOwner, OneStart, NotOpened,
           Discarding, NoProcessLeaks
    <3> QED BY <3>1, <3>2, <3>3, <3>4
  <2> QED BY <1>1, <2>1, <2>2, <2>3, <2>4, <2>5, <2>6, <2>7, <2>8, <2>9, <2>10 DEF CallStep
<1>2. CASE TimerStep
  <2>1. CASE TimerFires
    <3>1. OperationsCounted' /\ UsersShareRuntime'
      <4>1. Users' = Users
        BY <2>1 DEF TimerFires, Users
      <4> QED BY <4>1, <2>1, NoUsers DEF TimerFires, OperationsCounted, UsersShareRuntime
    <3>2. TimerConsistent' /\ IdleRuntimeHasTimer'
      BY <2>1 DEF TimerFires, TimerConsistent, IdleRuntimeHasTimer
    <3>3. OneStart'
      BY <2>1 DEF TimerFires, OneStart
    <3>4. OneOwner' /\ NoProcessLeaks'
      BY <2>1 DEF TimerFires, OneOwner, OneStart, NotOpened,
           Discarding, NoProcessLeaks
    <3> QED BY <3>1, <3>2, <3>3, <3>4
  <2>2. ASSUME NEW g \in fired, RetireSkips(g) PROVE IndInv'
    <3>1. OperationsCounted' /\ UsersShareRuntime'
      <4>1. Users' = Users
        BY <2>2 DEF RetireSkips, Users
      <4> QED BY <4>1, <2>2, NoUsers DEF RetireSkips, OperationsCounted, UsersShareRuntime
    <3>2. TimerConsistent' /\ IdleRuntimeHasTimer'
      BY <2>2 DEF RetireSkips, TimerConsistent, IdleRuntimeHasTimer
    <3>3. OneStart'
      BY <2>2 DEF RetireSkips, OneStart
    <3>4. OneOwner' /\ NoProcessLeaks'
      BY <2>2 DEF RetireSkips, OneOwner, OneStart, NotOpened,
           Discarding, NoProcessLeaks
    <3> QED BY <3>1, <3>2, <3>3, <3>4
  <2>3. ASSUME NEW g \in fired, Retire(g) PROVE IndInv'
    <3>1. OperationsCounted' /\ UsersShareRuntime'
      <4>1. Users' = Users
        BY <2>3 DEF Retire, RetireGuard, Users
      <4> QED BY <4>1, <2>3, NoUsers DEF Retire, RetireGuard, OperationsCounted, UsersShareRuntime
    <3>2. TimerConsistent' /\ IdleRuntimeHasTimer'
      BY <2>3 DEF Retire, RetireGuard, TimerConsistent, IdleRuntimeHasTimer
    <3>3. OneStart'
      BY <2>3 DEF Retire, RetireGuard, OneStart
    <3>4. OneOwner' /\ NoProcessLeaks'
      BY <2>3 DEF Retire, RetireGuard, OneOwner, OneStart, NotOpened,
           Discarding, NoProcessLeaks
    <3> QED BY <3>1, <3>2, <3>3, <3>4
  <2> QED BY <1>2, <2>1, <2>2, <2>3 DEF TimerStep
<1>3. ASSUME NEW r \in closing, CloseProcess(r) PROVE IndInv'
  <2>1. OperationsCounted' /\ UsersShareRuntime'
    <3>1. Users' = Users
      BY <1>3 DEF CloseProcess, Users
    <3> QED BY <3>1, <1>3, NoUsers DEF CloseProcess, OperationsCounted, UsersShareRuntime
  <2>2. TimerConsistent' /\ IdleRuntimeHasTimer'
    BY <1>3 DEF CloseProcess, TimerConsistent, IdleRuntimeHasTimer
  <2>3. OneStart'
    BY <1>3 DEF CloseProcess, OneStart
  <2>4. OneOwner' /\ NoProcessLeaks'
    BY <1>3 DEF CloseProcess, OneOwner, OneStart, NotOpened,
           Discarding, NoProcessLeaks
  <2> QED BY <2>1, <2>2, <2>3, <2>4
<1>4. ASSUME NEW active \in ActivityCounts, SetFrontendActivity(active)
      PROVE IndInv'
  <2>1. OperationsCounted' /\ UsersShareRuntime'
    <3>1. Users' = Users
      BY <1>4 DEF SetFrontendActivity, ReportActivity, Users
    <3> QED BY <3>1, <1>4, NoUsers DEF SetFrontendActivity, ReportActivity, OperationsCounted, UsersShareRuntime
  <2>2. TimerConsistent' /\ IdleRuntimeHasTimer'
    BY <1>4 DEF SetFrontendActivity, ReportActivity, StopTimer, ArmTimer, TimerConsistent, IdleRuntimeHasTimer
  <2>3. OneStart'
    BY <1>4 DEF SetFrontendActivity, ReportActivity, StopTimer, ArmTimer, OneStart
  <2>4. OneOwner' /\ NoProcessLeaks'
    BY <1>4 DEF SetFrontendActivity, ReportActivity, StopTimer, ArmTimer, OneOwner, OneStart, NotOpened,
           Discarding, NoProcessLeaks
  <2> QED BY <2>1, <2>2, <2>3, <2>4
<1>5. CASE Close
  <2>1. OperationsCounted' /\ UsersShareRuntime'
    <3>1. Users' = Users
      BY <1>5 DEF Close, Users
    <3> QED BY <3>1, <1>5, NoUsers DEF Close, OperationsCounted, UsersShareRuntime
  <2>2. TimerConsistent' /\ IdleRuntimeHasTimer'
    BY <1>5 DEF Close, StopTimer, TimerConsistent, IdleRuntimeHasTimer
  <2>3. OneStart'
    BY <1>5 DEF Close, StopTimer, OneStart
  <2>4. OneOwner' /\ NoProcessLeaks'
    BY <1>5 DEF Close, StopTimer, OneOwner, OneStart, NotOpened,
           Discarding, NoProcessLeaks
  <2> QED BY <2>1, <2>2, <2>3, <2>4
<1>6. CASE UNCHANGED vars
  <2>1. OperationsCounted' /\ UsersShareRuntime'
    <3>1. Users' = Users
      BY <1>6 DEF vars, Users
    <3> QED BY <3>1, <1>6, NoUsers DEF vars, OperationsCounted, UsersShareRuntime
  <2>2. TimerConsistent' /\ IdleRuntimeHasTimer'
    BY <1>6 DEF vars, TimerConsistent, IdleRuntimeHasTimer
  <2>3. OneStart'
    BY <1>6 DEF vars, OneStart
  <2>4. OneOwner' /\ NoProcessLeaks'
    BY <1>6 DEF vars, OneOwner, OneStart, NotOpened,
           Discarding, NoProcessLeaks
  <2> QED BY <2>1, <2>2, <2>3, <2>4
<1> QED BY <1>1, <1>2, <1>3, <1>4, <1>5, <1>6 DEF Next

----------------------------------------------------------------------------
LEMMA IndCorrect == Spec => []IndInv
  BY IndInit, IndStep, PTL DEF Spec

\* No timer goroutine takes the process away from a call that acquire has let
\* in: until Close, every such call works on the one current live process.
THEOREM UsersShareLiveRuntimeCorrect == Spec => []UsersShareLiveRuntime
<1>1. IndInv => UsersShareLiveRuntime
  BY DEF IndInv, UsersShareRuntime, OneOwner, UsersShareLiveRuntime
<1> QED BY <1>1, IndCorrect, PTL

\* A process that runs is always owned by the manager, a goroutine that closes
\* it or the call that discards it.
THEOREM NoProcessLeaksCorrect == Spec => []NoProcessLeaks
<1>1. IndInv => NoProcessLeaks
  BY DEF IndInv
<1> QED BY <1>1, IndCorrect, PTL

\* An idle process always has its idle timer (release, SetFrontendActivity).
THEOREM IdleRuntimeHasTimerCorrect == Spec => []IdleRuntimeHasTimer
<1>1. IndInv => IdleRuntimeHasTimer
  BY DEF IndInv
<1> QED BY <1>1, IndCorrect, PTL

\* A timer goroutine with the current generation finds the process idle.
THEOREM CurrentTimerFindsIdleCorrect == Spec => []CurrentTimerFindsIdle
<1>1. IndInv => CurrentTimerFindsIdle
  BY DEF IndInv, TypeOK, TimerConsistent, CurrentTimerFindsIdle, NoTimer
<1> QED BY <1>1, IndCorrect, PTL

\* Only the idle period that is running retires a process (retire).
THEOREM RetiredAfterFullIdlePeriodCorrect == Spec => RetiredAfterFullIdlePeriod
<1> DEFINE Retires == (runtime # None /\ runtime' = None /\ ~closed')
                         => idleTimer \in fired
<1>1. IndInv /\ [Next]_vars => Retires
  <2> SUFFICES ASSUME IndInv, [Next]_vars,
                      runtime # None, runtime' = None, ~closed'
               PROVE  idleTimer \in fired
    OBVIOUS
  <2>1. ASSUME NEW c \in Calls, CallStep(c) PROVE FALSE
    BY <2>1, ManagerAssumption
       DEF CallStep, AcquireClosed, AcquireRunning, AcquireWaits,
           AcquireStarts, StartEnded, WaitCancelled, OpenFails, OpenSucceeds,
           DiscardProcess, Release, managerVars
  <2>2. ASSUME TimerStep PROVE \E g \in fired : Retire(g)
    BY <2>2 DEF TimerStep, TimerFires, RetireSkips, managerVars
  <2>3. ASSUME NEW r \in closing, CloseProcess(r) PROVE FALSE
    BY <2>3 DEF CloseProcess, managerVars
  <2>4. ASSUME NEW active \in ActivityCounts, SetFrontendActivity(active)
        PROVE  FALSE
    BY <2>4 DEF SetFrontendActivity, ReportActivity
  <2>5. ASSUME Close PROVE FALSE
    BY <2>5 DEF Close
  <2>6. ASSUME UNCHANGED vars PROVE FALSE
    BY <2>6 DEF vars, managerVars
  <2>7. \E g \in fired : Retire(g)
    BY <2>1, <2>2, <2>3, <2>4, <2>5, <2>6 DEF Next
  <2> QED BY <2>7 DEF Retire, RetireGuard, IndInv, TimerConsistent
<1> QED BY <1>1, IndCorrect, PTL DEF Spec, RetiredAfterFullIdlePeriod
=============================================================================
