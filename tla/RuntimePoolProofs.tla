--------------------------- MODULE RuntimePoolProofs ---------------------------
(***************************************************************************)
(* Proofs about RuntimePool, for any finite set of requests and any sets   *)
(* of sessions and components.                                             *)
(*                                                                         *)
(* That a request keeps its runtime rests on one fact the invariants of    *)
(* the run do not say: an entry that did not fail stays in the map under   *)
(* its key until its session ends or the pool closes (CurrentUntilEnd).    *)
(* An opening that fails deletes its key without looking (pool.go:92), so  *)
(* this needs in turn that the failing entry is itself still in the map.   *)
(***************************************************************************)
EXTENDS RuntimePool, FiniteSetTheorems, TLAPS

\* TypeOK with the counters bounded from below only.
Typed ==
    /\ entries \in [Keys -> Callers \cup {None}]
    /\ poolWatched \subseteq Sessions
    /\ closed \in BOOLEAN
    /\ cleanupFailures \in Nat
    /\ ready \subseteq Callers
    /\ refs \in [Callers -> Nat]
    /\ failed \subseteq ready
    /\ live \subseteq ready \ failed
    /\ servers \subseteq Sessions
    /\ bound \subseteq Keys
    /\ bindWatched \subseteq Sessions
    /\ pc \in [Callers -> {"request", "acquire", "open", "bind", "wait", "use",
                           "done"}]
    /\ key \in [Callers -> Keys \cup {None}]
    /\ ref \in [Callers -> Callers \cup {None}]
    /\ ended \subseteq Sessions
    /\ watcher \in [Callers -> {"none", "waiting", "cleaning", "done"}]
    /\ todo \in [Closers -> SUBSET Callers]
    /\ item \in [Closers -> Callers \cup {None}]
    /\ closing \in {"no", "running", "returned"}
    /\ closeFailed \subseteq ready \ live
    /\ reported \in Nat

\* What a request knows at each point of Acquire: its key, and the entry it has
\* made (its own name) or joined, which is one of its key.
RequestsRefer ==
    \A c \in Callers :
        /\ pc[c] = "request" <=> key[c] = None
        /\ pc[c] \in {"request", "acquire"} => ref[c] = None
        /\ pc[c] \in {"open", "bind"} => ref[c] = c
        /\ pc[c] \in {"wait", "use"} => ref[c] # None
        /\ pc[c] = "wait" => ref[c] # c
        /\ ref[c] # None => ref[ref[c]] = ref[c] /\ key[ref[c]] = key[c]
        /\ watcher[c] # "none" => ref[c] = c

Made == {c \in Callers : ref[c] = c}

\* An entry is ready once its opening is over, and used only if that succeeded.
ReadyWhenOpened ==
    /\ \A e \in Callers : e \in ready <=> e \in Made /\ pc[e] # "open"
    /\ \A e \in failed : pc[e] = "done"
    /\ \A c \in Callers : pc[c] = "use" => ref[c] \in ready \ failed

\* The map has entries of their own keys, open or being opened, that no closer
\* has; Close leaves it empty for good.
MapHasOwnEntries ==
    \A k \in Keys : entries[k] # None =>
        /\ ~closed
        /\ entries[k] \in Made
        /\ key[entries[k]] = k
        /\ pc[entries[k]] # "open" => entries[k] \in live
        /\ ~Detached(entries[k])

\* Only the end of its session, or Close, takes an opened entry out of the map.
CurrentUntilEnd ==
    \A e \in Made \ failed :
        SessionOf(e) \notin ended /\ ~closed => Current(e)

\* The cleanup of a session closes entries of that session, which has ended,
\* and Close those that it found.
Closes(w, e) ==
    IF w = Pool
    THEN closing = "running"
    ELSE /\ watcher[w] = "cleaning"
         /\ SessionOf(w) \in ended
         /\ SessionOf(e) = SessionOf(w)

\* A detached entry has one closer, which finds it open or failed.
DetachedOnce ==
    \A w \in Closers, e \in Callers :
        /\ e \in todo[w] \/ item[w] = e => e \in Made /\ Closes(w, e)
        /\ e \in todo[w] =>
              /\ e \in ready => e \in live \cup failed
              /\ \A x \in Closers \ {w} : e \notin todo[x]

\* Close marks the pool closed, and returns after every cleanup.
CloseWaits ==
    /\ closed <=> closing # "no"
    /\ closing = "returned" => \A w \in Callers : watcher[w] # "cleaning"

\* Wait returns after the requests of a draining session.
DrainedSessionsQuiet == \A s \in Draining \cap ended : ~InProgress(s)

\* NoRuntimeLost, extended to the entries that are being opened.
NoEntryLost ==
    \A e \in Callers :
        e \in live \/ pc[e] = "open" =>
            \/ Current(e)
            \/ Detached(e)
            \/ /\ SessionOf(e) \notin Draining
               /\ \E d \in failed : d # e /\ key[d] = key[e]

\* The server of a live session stays known, its opened runtimes stay bound.
LiveSessionsBound ==
    \A c \in Callers :
        key[c] # None /\ SessionOf(c) \notin ended /\ ~closed =>
            /\ SessionOf(c) \in servers
            /\ c \in Made \ failed /\ pc[c] \notin {"open", "bind"}
                  => key[c] \in bound

\* Every failed Close is counted once, by Close or by a session's cleanup.
FailuresCounted ==
    /\ Cardinality(closeFailed) <= MaxCloseFailures
    /\ cleanupFailures <= Cardinality(closeFailed)
    /\ closing # "returned"
          => reported + cleanupFailures = Cardinality(closeFailed)
    /\ closing = "returned" => reported = Cardinality(closeFailed)

Holders(e) == {c \in Callers : ref[c] = e}

\* entry.refs never exceeds the requests that have made or joined the entry.
RefsCounted == \A e \in Callers : refs[e] <= Cardinality(Holders(e))

IndInv ==
    /\ Typed
    /\ RequestsRefer
    /\ ReadyWhenOpened
    /\ MapHasOwnEntries
    /\ CurrentUntilEnd
    /\ DetachedOnce
    /\ CloseWaits
    /\ DrainedSessionsQuiet
    /\ LiveSessionsBound
    /\ NoEntryLost
    /\ FailuresCounted
    /\ RefsCounted

----------------------------------------------------------------------------
\* None is no key, and a key's first part is a session.
LEMMA KeyFacts == None \notin Keys /\ \A k \in Keys : k[1] \in Sessions
  BY PoolAssumption DEF Keys

LEMMA CallerFacts == None \notin Callers /\ Callers \subseteq Closers
                     /\ Pool \in Closers /\ Pool \notin Callers
                     /\ \A w \in Closers : w = Pool \/ w \in Callers
  BY PoolAssumption DEF Closers

\* A request that has begun has a key, and so a session.
LEMMA KeyKnown == 
  ASSUME Typed, RequestsRefer, NEW c \in Callers, pc[c] # "request"
  PROVE  key[c] \in Keys /\ SessionOf(c) \in Sessions
  BY KeyFacts DEF Typed, RequestsRefer, SessionOf

LEMMA EntriesTyped ==
  ASSUME Typed, NEW K \in SUBSET Keys PROVE EntriesOf(K) \subseteq Callers
  BY DEF Typed, EntriesOf

\* The entries of some keys are those that the map has under these keys.
LEMMA EntriesOfKeys ==
  ASSUME Typed, MapHasOwnEntries, NEW K \in SUBSET Keys, NEW e \in Callers
  PROVE  e \in EntriesOf(K) <=> key[e] \in K /\ Current(e)
  BY CallerFacts, KeyFacts DEF Typed, MapHasOwnEntries, EntriesOf, Current

\* releaseEntry counts down at most the entry of the request.
LEMMA ReleaseTyped ==
  ASSUME Typed, NEW c \in Callers, ref[c] # None, ReleaseEntry(c)
  PROVE  /\ refs' \in [Callers -> Nat]
         /\ \A e \in Callers : refs'[e] <= refs[e]
  BY DEF Typed, ReleaseEntry

\* The types of pool.go:14-38 and notifications.go:32-38, and of the ghosts.

LEMMA TypedStep == IndInv /\ [Next]_vars => Typed'
<1> SUFFICES ASSUME IndInv, [Next]_vars PROVE Typed'
  OBVIOUS
<1> USE PoolAssumption, KeyFacts, CallerFacts DEF IndInv, Typed, poolVars,
     bindingVars, callVars, closerVars, Goto, Closers
<1>1. ASSUME NEW c \in Callers, NEW k \in Keys, BindServer(c, k) PROVE Typed'
  BY <1>1 DEF BindServer
<1>2. ASSUME NEW c \in Callers, AcquireClosed(c) PROVE Typed'
  BY <1>2 DEF AcquireClosed
<1>3. ASSUME NEW c \in Callers, AcquireJoins(c) PROVE Typed'
  BY <1>3, KeyKnown DEF AcquireJoins
<1>4. ASSUME NEW c \in Callers, AcquireOpens(c) PROVE Typed'
  BY <1>4, KeyKnown DEF AcquireOpens
<1>5. ASSUME NEW c \in Callers, OpenFails(c) PROVE Typed'
  BY <1>5, KeyKnown DEF OpenFails, ReadyWhenOpened
<1>6. ASSUME NEW c \in Callers, OpenSucceeds(c) PROVE Typed'
  BY <1>6 DEF OpenSucceeds, ReadyWhenOpened
<1>7. ASSUME NEW c \in Callers, OnOpen(c) PROVE Typed'
  BY <1>7, KeyKnown DEF OnOpen
<1>8. ASSUME NEW c \in Callers, WaitUses(c) PROVE Typed'
  BY <1>8 DEF WaitUses
<1>9. ASSUME NEW c \in Callers, WaitFails(c) PROVE Typed'
  BY <1>9, ReleaseTyped DEF WaitFails, RequestsRefer
<1>10. ASSUME NEW c \in Callers, Release(c) PROVE Typed'
  BY <1>10, ReleaseTyped DEF Release, RequestsRefer
<1>11. ASSUME NEW c \in Callers, WaitCancelled(c) PROVE Typed'
  BY <1>11, ReleaseTyped DEF WaitCancelled, RequestsRefer
<1>12. ASSUME NEW c \in Callers, CloseSessionSkips(c) PROVE Typed'
  BY <1>12 DEF CloseSessionSkips
<1>13. ASSUME NEW c \in Callers, CloseSessionDetaches(c) PROVE Typed'
  BY <1>13, EntriesTyped DEF CloseSessionDetaches
<1>14. ASSUME NEW c \in Callers, CloseSessionDone(c) PROVE Typed'
  BY <1>14 DEF CloseSessionDone
<1>15. ASSUME NEW s \in Sessions, SessionEnds(s) PROVE Typed'
  BY <1>15 DEF SessionEnds
<1>16. ASSUME NEW s \in Sessions, ForgetSession(s) PROVE Typed'
  BY <1>16 DEF ForgetSession
<1>17. ASSUME NEW w \in Closers, NEW e \in Callers, SkipFailedEntry(w, e)
      PROVE  Typed'
  BY <1>17 DEF SkipFailedEntry, TakeEntry
<1>18. ASSUME NEW w \in Closers, NEW e \in Callers, CloseRuntime(w, e)
      PROVE  Typed'
  BY <1>18 DEF CloseRuntime, TakeEntry
<1>19. ASSUME NEW w \in Closers, NEW e \in Callers, CloseRuntimeFails(w, e)
      PROVE  Typed'
  BY <1>19 DEF CloseRuntimeFails, TakeEntry
<1>20. ASSUME NEW w \in Closers, OnClose(w) PROVE Typed'
  BY <1>20 DEF OnClose
<1>21. CASE Close
  BY <1>21, EntriesTyped DEF Close
<1>22. CASE CloseReturns
  BY <1>22 DEF CloseReturns
<1>23. CASE UNCHANGED vars
  BY <1>23 DEF vars, poolVars, bindingVars, callVars, closerVars
<1> QED
  BY <1>1, <1>2, <1>3, <1>4, <1>5, <1>6, <1>7, <1>8, <1>9, <1>10, <1>11, <1>12,
     <1>13, <1>14, <1>15, <1>16, <1>17, <1>18, <1>19, <1>20, <1>21, <1>22, <1>23
     DEF Next, CallerStep, Acquire, OpenEnds, WatcherStep, CloserStep

----------------------------------------------------------------------------
\* A request refers to an entry of its own key that its maker has made.
LEMMA RequestsReferStep == IndInv /\ [Next]_vars => RequestsRefer'
<1> SUFFICES ASSUME IndInv, [Next]_vars PROVE RequestsRefer'
  OBVIOUS
<1> USE PoolAssumption, KeyFacts, CallerFacts, KeyKnown DEF IndInv, Typed,
     Goto, poolVars, bindingVars, callVars, closerVars, RequestsRefer,
     MapHasOwnEntries, Made
<1>1. ASSUME NEW c \in Callers, NEW k \in Keys, BindServer(c, k)
      PROVE  RequestsRefer'
  BY <1>1 DEF BindServer
<1>2. ASSUME NEW c \in Callers, AcquireClosed(c) PROVE RequestsRefer'
  BY <1>2 DEF AcquireClosed
<1>3. ASSUME NEW c \in Callers, AcquireJoins(c) PROVE RequestsRefer'
  BY <1>3 DEF AcquireJoins
<1>4. ASSUME NEW c \in Callers, AcquireOpens(c) PROVE RequestsRefer'
  BY <1>4 DEF AcquireOpens
<1>5. ASSUME NEW c \in Callers, OpenFails(c) PROVE RequestsRefer'
  BY <1>5 DEF OpenFails
<1>6. ASSUME NEW c \in Callers, OpenSucceeds(c) PROVE RequestsRefer'
  BY <1>6 DEF OpenSucceeds
<1>7. ASSUME NEW c \in Callers, OnOpen(c) PROVE RequestsRefer'
  BY <1>7 DEF OnOpen
<1>8. ASSUME NEW c \in Callers, WaitUses(c) PROVE RequestsRefer'
  BY <1>8 DEF WaitUses
<1>9. ASSUME NEW c \in Callers, WaitFails(c) PROVE RequestsRefer'
  BY <1>9 DEF WaitFails, ReleaseEntry
<1>10. ASSUME NEW c \in Callers, Release(c) PROVE RequestsRefer'
  BY <1>10 DEF Release, ReleaseEntry
<1>11. ASSUME NEW c \in Callers, WaitCancelled(c) PROVE RequestsRefer'
  BY <1>11 DEF WaitCancelled, ReleaseEntry
<1>12. ASSUME NEW c \in Callers, CloseSessionSkips(c) PROVE RequestsRefer'
  BY <1>12 DEF CloseSessionSkips
<1>13. ASSUME NEW c \in Callers, CloseSessionDetaches(c) PROVE RequestsRefer'
  BY <1>13 DEF CloseSessionDetaches
<1>14. ASSUME NEW c \in Callers, CloseSessionDone(c) PROVE RequestsRefer'
  BY <1>14 DEF CloseSessionDone
<1>15. CASE UNCHANGED <<pc, key, ref, watcher>>
  BY <1>15
<1>16. ASSUME NEW s, SessionEnds(s) \/ ForgetSession(s)
       PROVE  UNCHANGED <<pc, key, ref, watcher>>
  BY <1>16 DEF SessionEnds, ForgetSession
<1>17. ASSUME NEW w, NEW e, SkipFailedEntry(w, e) \/ CloseRuntime(w, e) \/ CloseRuntimeFails(w, e)
       PROVE  UNCHANGED <<pc, key, ref, watcher>>
  BY <1>17 DEF SkipFailedEntry, CloseRuntime, CloseRuntimeFails, TakeEntry
<1>18. ASSUME NEW w, OnClose(w) PROVE UNCHANGED <<pc, key, ref, watcher>>
  BY <1>18 DEF OnClose
<1>19. ASSUME Close \/ CloseReturns PROVE UNCHANGED <<pc, key, ref, watcher>>
  BY <1>19 DEF Close, CloseReturns
<1>20. CASE UNCHANGED vars
  BY <1>15, <1>20 DEF vars
<1> HIDE DEF IndInv, Typed, RequestsRefer, MapHasOwnEntries, Made
<1> QED
  BY <1>1, <1>2, <1>3, <1>4, <1>5, <1>6, <1>7, <1>8, <1>9, <1>10, <1>11, <1>12,
     <1>13, <1>14, <1>15, <1>16, <1>17, <1>18, <1>19, <1>20
     DEF Next, CallerStep, Acquire, OpenEnds, WatcherStep, CloserStep

\* The ready channel is closed when the opening ends, either way
\* (pool.go:82-102).
LEMMA ReadyWhenOpenedStep == IndInv /\ [Next]_vars => ReadyWhenOpened'
<1> SUFFICES ASSUME IndInv, [Next]_vars PROVE ReadyWhenOpened'
  OBVIOUS
<1> USE PoolAssumption, KeyFacts, CallerFacts, KeyKnown DEF IndInv, Typed,
     Goto, poolVars, bindingVars, callVars, closerVars, RequestsRefer,
     MapHasOwnEntries, ReadyWhenOpened, Made
<1>1. ASSUME NEW c \in Callers, NEW k \in Keys, BindServer(c, k)
      PROVE  ReadyWhenOpened'
  BY <1>1 DEF BindServer
<1>2. ASSUME NEW c \in Callers, AcquireClosed(c) PROVE ReadyWhenOpened'
  BY <1>2 DEF AcquireClosed
<1>3. ASSUME NEW c \in Callers, AcquireJoins(c) PROVE ReadyWhenOpened'
  BY <1>3 DEF AcquireJoins
<1>4. ASSUME NEW c \in Callers, AcquireOpens(c) PROVE ReadyWhenOpened'
  BY <1>4 DEF AcquireOpens
<1>5. ASSUME NEW c \in Callers, OpenFails(c) PROVE ReadyWhenOpened'
  BY <1>5 DEF OpenFails
<1>6. ASSUME NEW c \in Callers, OpenSucceeds(c) PROVE ReadyWhenOpened'
  BY <1>6 DEF OpenSucceeds
<1>7. ASSUME NEW c \in Callers, OnOpen(c) PROVE ReadyWhenOpened'
  BY <1>7 DEF OnOpen
<1>8. ASSUME NEW c \in Callers, WaitUses(c) PROVE ReadyWhenOpened'
  BY <1>8 DEF WaitUses
<1>9. ASSUME NEW c \in Callers, WaitFails(c) PROVE ReadyWhenOpened'
  BY <1>9 DEF WaitFails, ReleaseEntry
<1>10. ASSUME NEW c \in Callers, Release(c) PROVE ReadyWhenOpened'
  BY <1>10 DEF Release, ReleaseEntry
<1>11. ASSUME NEW c \in Callers, WaitCancelled(c) PROVE ReadyWhenOpened'
  BY <1>11 DEF WaitCancelled, ReleaseEntry
<1>12. CASE UNCHANGED <<ready, pc, ref, failed>>
  BY <1>12
<1> QED
  BY ZenonT(40), <1>1, <1>2, <1>3, <1>4, <1>5, <1>6, <1>7, <1>8, <1>9, <1>10, <1>11, <1>12
     DEF Next, CallerStep, Acquire, OpenEnds, WatcherStep, CloserStep, vars,
         poolVars, bindingVars, callVars, closerVars,
         CloseSessionSkips, CloseSessionDetaches, CloseSessionDone,
         SessionEnds, ForgetSession, SkipFailedEntry, CloseRuntime,
         CloseRuntimeFails, OnClose, Close, CloseReturns, TakeEntry

\* The map keeps open entries of their own keys.
LEMMA MapHasOwnEntriesStep == IndInv /\ [Next]_vars => MapHasOwnEntries'
<1> SUFFICES ASSUME IndInv, [Next]_vars PROVE MapHasOwnEntries'
  OBVIOUS
<1> USE PoolAssumption, KeyFacts, CallerFacts, KeyKnown DEF IndInv, Typed,
     Goto, poolVars, bindingVars, callVars, closerVars, RequestsRefer,
     MapHasOwnEntries, ReadyWhenOpened, DetachedOnce, Made, Detached
<1>1. ASSUME NEW c \in Callers, NEW k \in Keys, BindServer(c, k)
      PROVE  MapHasOwnEntries'
  BY <1>1 DEF BindServer
<1>2. ASSUME NEW c \in Callers, AcquireClosed(c) PROVE MapHasOwnEntries'
  BY <1>2 DEF AcquireClosed
<1>3. ASSUME NEW c \in Callers, AcquireJoins(c) PROVE MapHasOwnEntries'
  BY <1>3 DEF AcquireJoins
<1>4. ASSUME NEW c \in Callers, AcquireOpens(c) PROVE MapHasOwnEntries'
  BY <1>4 DEF AcquireOpens
<1>5. ASSUME NEW c \in Callers, OpenFails(c) PROVE MapHasOwnEntries'
  BY <1>5 DEF OpenFails
<1>6. ASSUME NEW c \in Callers, OpenSucceeds(c) PROVE MapHasOwnEntries'
  BY <1>6 DEF OpenSucceeds
<1>7. ASSUME NEW c \in Callers, OnOpen(c) PROVE MapHasOwnEntries'
  BY <1>7 DEF OnOpen
<1>8. ASSUME NEW c \in Callers, WaitUses(c) PROVE MapHasOwnEntries'
  BY <1>8 DEF WaitUses
<1>9. ASSUME NEW c \in Callers, WaitFails(c) PROVE MapHasOwnEntries'
  BY <1>9 DEF WaitFails, ReleaseEntry
<1>10. ASSUME NEW c \in Callers, Release(c) PROVE MapHasOwnEntries'
  BY <1>10 DEF Release, ReleaseEntry
<1>11. ASSUME NEW c \in Callers, WaitCancelled(c) PROVE MapHasOwnEntries'
  BY <1>11 DEF WaitCancelled, ReleaseEntry
<1>12. ASSUME NEW c \in Callers, CloseSessionDetaches(c) PROVE MapHasOwnEntries'
  <2> DEFINE K == {k \in Keys : k[1] = SessionOf(c)}
  <2>1. ASSUME NEW k \in Keys, entries'[k] # None
        PROVE  entries'[k] = entries[k] /\ k \notin K
    BY <1>12, <2>1 DEF CloseSessionDetaches
  <2>2. ASSUME NEW e \in Callers, key[e] \notin K, Detached(e)'
        PROVE  Detached(e)
    <3>1. todo' = [todo EXCEPT ![c] = EntriesOf(K)]
      BY <1>12 DEF CloseSessionDetaches
    <3>2. e \notin EntriesOf(K)
      BY <2>2, EntriesOfKeys
    <3> QED BY <2>2, <3>1, <3>2
  <2>3. UNCHANGED <<closed, key, ref, pc, live>>
    BY <1>12 DEF CloseSessionDetaches
  <2> HIDE DEF Detached
  <2> QED BY <2>1, <2>2, <2>3
<1>13. ASSUME NEW w \in Closers, NEW e \in Callers, SkipFailedEntry(w, e)
      PROVE  MapHasOwnEntries'
  BY <1>13 DEF SkipFailedEntry, TakeEntry
<1>14. ASSUME NEW w \in Closers, NEW e \in Callers, CloseRuntime(w, e)
      PROVE  MapHasOwnEntries'
  BY <1>14 DEF CloseRuntime, TakeEntry
<1>15. ASSUME NEW w \in Closers, NEW e \in Callers, CloseRuntimeFails(w, e)
      PROVE  MapHasOwnEntries'
  BY <1>15 DEF CloseRuntimeFails, TakeEntry
<1>16. CASE Close
  BY <1>16 DEF Close
<1>17. CASE UNCHANGED <<entries, closed, key, ref, pc, live, todo>>
  BY <1>17
<1> QED
  BY <1>1, <1>2, <1>3, <1>4, <1>5, <1>6, <1>7, <1>8, <1>9, <1>10, <1>11, <1>12,
     <1>13, <1>14, <1>15, <1>16, <1>17
     DEF Next, CallerStep, Acquire, OpenEnds, WatcherStep, CloserStep, vars,
         poolVars, bindingVars, callVars, closerVars,
         CloseSessionSkips, CloseSessionDone, SessionEnds, ForgetSession,
         OnClose, CloseReturns

\* A failing open deletes by key; its own entry is still there while the session
\* lives (pool.go:87-95).
LEMMA CurrentUntilEndStep == IndInv /\ [Next]_vars => CurrentUntilEnd'
<1> SUFFICES ASSUME IndInv, [Next]_vars PROVE CurrentUntilEnd'
  OBVIOUS
<1> USE PoolAssumption, KeyFacts, CallerFacts, KeyKnown DEF IndInv, Typed,
     Goto, poolVars, bindingVars, callVars, closerVars, RequestsRefer,
     CurrentUntilEnd, ReadyWhenOpened, Made, Current, SessionOf
<1>1. ASSUME NEW c \in Callers, NEW k \in Keys, BindServer(c, k)
      PROVE  CurrentUntilEnd'
  BY <1>1 DEF BindServer
<1>2. ASSUME NEW c \in Callers, AcquireJoins(c) PROVE CurrentUntilEnd'
  BY <1>2 DEF AcquireJoins
<1>3. ASSUME NEW c \in Callers, AcquireOpens(c) PROVE CurrentUntilEnd'
  BY <1>3 DEF AcquireOpens
<1>4. ASSUME NEW c \in Callers, OpenFails(c) PROVE CurrentUntilEnd'
  BY <1>4 DEF OpenFails
<1>5. ASSUME NEW c \in Callers, CloseSessionDetaches(c) PROVE CurrentUntilEnd'
  BY <1>5 DEF CloseSessionDetaches
<1>6. ASSUME NEW s \in Sessions, SessionEnds(s) PROVE CurrentUntilEnd'
  BY <1>6 DEF SessionEnds
<1>7. CASE Close
  BY <1>7 DEF Close
<1>8. CASE UNCHANGED <<ref, failed, key, ended, closed, entries>>
  BY <1>8
<1> QED
  BY <1>1, <1>2, <1>3, <1>4, <1>5, <1>6, <1>7, <1>8
     DEF Next, CallerStep, Acquire, OpenEnds, WatcherStep, CloserStep, vars,
         poolVars, bindingVars, callVars, closerVars,
         AcquireClosed, OpenSucceeds, OnOpen, WaitUses, WaitFails, Release,
         WaitCancelled, CloseSessionSkips, CloseSessionDone, ForgetSession,
         SkipFailedEntry, CloseRuntime, CloseRuntimeFails, OnClose,
         CloseReturns, TakeEntry

\* Each detached entry has one closer (pool.go:104-181).
LEMMA DetachedOnceStep == IndInv /\ [Next]_vars => DetachedOnce'
<1> SUFFICES ASSUME IndInv, [Next]_vars PROVE DetachedOnce'
  OBVIOUS
<1> USE PoolAssumption, KeyFacts, CallerFacts, KeyKnown DEF IndInv, Typed,
     Goto, poolVars, bindingVars, callVars, closerVars, RequestsRefer,
     DetachedOnce, ReadyWhenOpened, MapHasOwnEntries, CloseWaits, Made, Closes,
     SessionOf
<1>1. ASSUME NEW c \in Callers, NEW k \in Keys, BindServer(c, k)
      PROVE  DetachedOnce'
  BY <1>1 DEF BindServer
<1>2. ASSUME NEW c \in Callers, AcquireJoins(c) PROVE DetachedOnce'
  BY <1>2 DEF AcquireJoins
<1>3. ASSUME NEW c \in Callers, AcquireOpens(c) PROVE DetachedOnce'
  BY <1>3 DEF AcquireOpens
<1>4. ASSUME NEW c \in Callers, OpenFails(c) PROVE DetachedOnce'
  BY <1>4 DEF OpenFails
<1>5. ASSUME NEW c \in Callers, OpenSucceeds(c) PROVE DetachedOnce'
  BY <1>5 DEF OpenSucceeds
<1>6. ASSUME NEW c \in Callers, CloseSessionSkips(c) PROVE DetachedOnce'
  BY <1>6 DEF CloseSessionSkips
<1>7. ASSUME NEW c \in Callers, CloseSessionDetaches(c) PROVE DetachedOnce'
  <2> DEFINE K == {k \in Keys : k[1] = SessionOf(c)}
  <2>1. todo[c] = {} /\ item[c] = None
    BY <1>7 DEF CloseSessionDetaches
  <2>2. ASSUME NEW e \in Callers, e \in todo'[c]
        PROVE  /\ e \in Made /\ Closes(c, e)'
               /\ e \in ready => e \in live
               /\ \A x \in Closers : e \notin todo[x]
    <3>1. key[e] \in K /\ Current(e)
      BY <1>7, <2>2, EntriesOfKeys DEF CloseSessionDetaches
    <3> QED BY <1>7, <3>1 DEF CloseSessionDetaches, Current, Detached
  <2>3. ASSUME NEW w \in Closers \ {c} PROVE todo'[w] = todo[w]
    BY <1>7 DEF CloseSessionDetaches
  <2>4. ASSUME NEW w \in Closers \ {c}, NEW e \in Callers, Closes(w, e)
        PROVE  Closes(w, e)'
    BY <1>7, <2>4 DEF CloseSessionDetaches
  <2> HIDE DEF K, Closes
  <2> QED
    BY <1>7, <2>1, <2>2, <2>3, <2>4 DEF CloseSessionDetaches
<1>8. ASSUME NEW c \in Callers, CloseSessionDone(c) PROVE DetachedOnce'
  BY <1>8 DEF CloseSessionDone
<1>9. ASSUME NEW s \in Sessions, SessionEnds(s) PROVE DetachedOnce'
  BY <1>9 DEF SessionEnds
<1>10. ASSUME NEW w \in Closers, NEW e \in Callers, SkipFailedEntry(w, e)
      PROVE  DetachedOnce'
  BY <1>10 DEF SkipFailedEntry, TakeEntry
<1>11. ASSUME NEW w \in Closers, NEW e \in Callers, CloseRuntime(w, e)
      PROVE  DetachedOnce'
  BY <1>11 DEF CloseRuntime, TakeEntry
<1>12. ASSUME NEW w \in Closers, NEW e \in Callers, CloseRuntimeFails(w, e)
      PROVE  DetachedOnce'
  BY <1>12 DEF CloseRuntimeFails, TakeEntry
<1>13. ASSUME NEW w \in Closers, OnClose(w) PROVE DetachedOnce'
  BY <1>13 DEF OnClose
<1>14. CASE Close
  <2>1. todo[Pool] = {} /\ item[Pool] = None
    BY <1>14 DEF Close
  <2>2. ASSUME NEW e \in Callers, e \in todo'[Pool]
        PROVE  /\ e \in Made /\ Closes(Pool, e)'
               /\ e \in ready => e \in live
               /\ \A x \in Closers : e \notin todo[x]
    <3>1. key[e] \in Keys /\ Current(e)
      BY <1>14, <2>2, EntriesOfKeys DEF Close
    <3> QED BY <1>14, <3>1 DEF Close, Current, Detached
  <2>3. ASSUME NEW w \in Closers \ {Pool} PROVE todo'[w] = todo[w]
    BY <1>14 DEF Close
  <2>4. ASSUME NEW w \in Closers \ {Pool}, NEW e \in Callers, Closes(w, e)
        PROVE  Closes(w, e)'
    BY <1>14, <2>4 DEF Close
  <2> HIDE DEF Closes
  <2> QED BY <1>14, <2>1, <2>2, <2>3, <2>4 DEF Close
<1>15. CASE CloseReturns
  BY <1>15 DEF CloseReturns
<1>16. CASE UNCHANGED <<todo, item, ref, watcher, ended, key, ready, live,
    failed, closing>>
  BY <1>16
<1> QED
  BY <1>1, <1>2, <1>3, <1>4, <1>5, <1>6, <1>7, <1>8, <1>9, <1>10, <1>11, <1>12,
     <1>13, <1>14, <1>15, <1>16
     DEF Next, CallerStep, Acquire, OpenEnds, WatcherStep, CloserStep, vars,
         poolVars, bindingVars, callVars, closerVars,
         AcquireClosed, OnOpen, WaitUses, WaitFails, Release, WaitCancelled,
         ForgetSession

\* Close returns after the cleanups.
LEMMA CloseWaitsStep == IndInv /\ [Next]_vars => CloseWaits'
<1> SUFFICES ASSUME IndInv, [Next]_vars PROVE CloseWaits'
  OBVIOUS
<1> USE PoolAssumption, KeyFacts, CallerFacts DEF IndInv, Typed, Goto,
     poolVars, bindingVars, callVars, closerVars, CloseWaits
<1>1. ASSUME NEW c \in Callers, AcquireOpens(c) PROVE CloseWaits'
  BY <1>1 DEF AcquireOpens
<1>2. ASSUME NEW c \in Callers, CloseSessionSkips(c) PROVE CloseWaits'
  BY <1>2 DEF CloseSessionSkips
<1>3. ASSUME NEW c \in Callers, CloseSessionDetaches(c) PROVE CloseWaits'
  BY <1>3 DEF CloseSessionDetaches
<1>4. ASSUME NEW c \in Callers, CloseSessionDone(c) PROVE CloseWaits'
  BY <1>4 DEF CloseSessionDone
<1>5. CASE Close
  BY <1>5 DEF Close
<1>6. CASE CloseReturns
  BY <1>6 DEF CloseReturns
<1>7. CASE UNCHANGED <<closed, closing, watcher>>
  BY <1>7
<1> QED
  BY SMTT(30), <1>1, <1>2, <1>3, <1>4, <1>5, <1>6, <1>7
     DEF Next, CallerStep, Acquire, OpenEnds, WatcherStep, CloserStep, vars,
         poolVars, bindingVars, callVars, closerVars,
         BindServer, AcquireClosed, AcquireJoins, OpenFails, OpenSucceeds,
         OnOpen, WaitUses, WaitFails, Release, WaitCancelled, SessionEnds,
         ForgetSession, SkipFailedEntry, CloseRuntime, CloseRuntimeFails,
         OnClose, TakeEntry

\* The requests of a draining session end before it.
LEMMA DrainedSessionsQuietStep == IndInv /\ [Next]_vars => DrainedSessionsQuiet'
<1> SUFFICES ASSUME IndInv, [Next]_vars PROVE DrainedSessionsQuiet'
  OBVIOUS
<1> USE PoolAssumption, KeyFacts, CallerFacts, KeyKnown DEF IndInv, Typed,
     Goto, poolVars, bindingVars, callVars, closerVars, RequestsRefer,
     DrainedSessionsQuiet, InProgress, SessionOf
<1>1. ASSUME NEW c \in Callers, NEW k \in Keys, BindServer(c, k)
      PROVE  DrainedSessionsQuiet'
  BY <1>1 DEF BindServer
<1>2. ASSUME NEW c \in Callers, AcquireClosed(c) PROVE DrainedSessionsQuiet'
  BY <1>2 DEF AcquireClosed
<1>3. ASSUME NEW c \in Callers, AcquireJoins(c) PROVE DrainedSessionsQuiet'
  BY <1>3 DEF AcquireJoins
<1>4. ASSUME NEW c \in Callers, AcquireOpens(c) PROVE DrainedSessionsQuiet'
  BY <1>4 DEF AcquireOpens
<1>5. ASSUME NEW c \in Callers, OpenFails(c) PROVE DrainedSessionsQuiet'
  BY <1>5 DEF OpenFails
<1>6. ASSUME NEW c \in Callers, OpenSucceeds(c) PROVE DrainedSessionsQuiet'
  BY <1>6 DEF OpenSucceeds
<1>7. ASSUME NEW c \in Callers, OnOpen(c) PROVE DrainedSessionsQuiet'
  BY <1>7 DEF OnOpen
<1>8. ASSUME NEW c \in Callers, WaitUses(c) PROVE DrainedSessionsQuiet'
  BY <1>8 DEF WaitUses
<1>9. ASSUME NEW c \in Callers, WaitFails(c) PROVE DrainedSessionsQuiet'
  BY <1>9 DEF WaitFails, ReleaseEntry
<1>10. ASSUME NEW c \in Callers, Release(c) PROVE DrainedSessionsQuiet'
  BY <1>10 DEF Release, ReleaseEntry
<1>11. ASSUME NEW c \in Callers, WaitCancelled(c) PROVE DrainedSessionsQuiet'
  BY <1>11 DEF WaitCancelled, ReleaseEntry
<1>12. ASSUME NEW s \in Sessions, SessionEnds(s) PROVE DrainedSessionsQuiet'
  BY <1>12 DEF SessionEnds
<1>13. CASE UNCHANGED <<ended, pc, key>>
  BY <1>13
<1> QED
  BY <1>1, <1>2, <1>3, <1>4, <1>5, <1>6, <1>7, <1>8, <1>9, <1>10, <1>11, <1>12,
     <1>13
     DEF Next, CallerStep, Acquire, OpenEnds, WatcherStep, CloserStep, vars,
         poolVars, bindingVars, callVars, closerVars,
         CloseSessionSkips, CloseSessionDetaches, CloseSessionDone,
         ForgetSession, SkipFailedEntry, CloseRuntime, CloseRuntimeFails,
         OnClose, Close, CloseReturns, TakeEntry

\* Only goroutines of ended sessions, and Close, unbind
\* (notifications.go:169-191).
LEMMA LiveSessionsBoundStep == IndInv /\ [Next]_vars => LiveSessionsBound'
<1> SUFFICES ASSUME IndInv, [Next]_vars PROVE LiveSessionsBound'
  OBVIOUS
<1> USE PoolAssumption, KeyFacts, CallerFacts, KeyKnown DEF IndInv, Typed,
     Goto, poolVars, bindingVars, callVars, closerVars, RequestsRefer,
     ReadyWhenOpened, LiveSessionsBound, DetachedOnce, CloseWaits, Closes,
     Made, SessionOf
<1>1. ASSUME NEW c \in Callers, NEW k \in Keys, BindServer(c, k)
      PROVE  LiveSessionsBound'
  BY <1>1 DEF BindServer
<1>2. ASSUME NEW c \in Callers, AcquireClosed(c) PROVE LiveSessionsBound'
  BY <1>2 DEF AcquireClosed
<1>3. ASSUME NEW c \in Callers, AcquireJoins(c) PROVE LiveSessionsBound'
  <2>1. /\ key'[c] \in Keys /\ entries[key[c]] # c
        /\ pc' = [pc EXCEPT ![c] = "wait"]
    BY <1>3 DEF AcquireJoins, MapHasOwnEntries
  <2>2. \A d \in Callers : d \in Made' => d \in Made
    BY <1>3, <2>1 DEF AcquireJoins
  <2> QED BY <1>3, <2>1, <2>2 DEF AcquireJoins
<1>4. ASSUME NEW c \in Callers, AcquireOpens(c) PROVE LiveSessionsBound'
  BY <1>4 DEF AcquireOpens
<1>5. ASSUME NEW c \in Callers, OpenFails(c) PROVE LiveSessionsBound'
  BY <1>5 DEF OpenFails
<1>6. ASSUME NEW c \in Callers, OpenSucceeds(c) PROVE LiveSessionsBound'
  BY <1>6 DEF OpenSucceeds
<1>7. ASSUME NEW c \in Callers, OnOpen(c) PROVE LiveSessionsBound'
  BY <1>7 DEF OnOpen
<1>8. ASSUME NEW c \in Callers, WaitUses(c) PROVE LiveSessionsBound'
  BY <1>8 DEF WaitUses
<1>9. ASSUME NEW c \in Callers, WaitFails(c) PROVE LiveSessionsBound'
  BY <1>9 DEF WaitFails, ReleaseEntry
<1>10. ASSUME NEW c \in Callers, Release(c) PROVE LiveSessionsBound'
  BY <1>10 DEF Release, ReleaseEntry
<1>11. ASSUME NEW c \in Callers, WaitCancelled(c) PROVE LiveSessionsBound'
  BY <1>11 DEF WaitCancelled, ReleaseEntry
<1>12. ASSUME NEW s \in Sessions, SessionEnds(s) PROVE LiveSessionsBound'
  BY <1>12 DEF SessionEnds
<1>13. ASSUME NEW s \in Sessions, ForgetSession(s) PROVE LiveSessionsBound'
  BY <1>13 DEF ForgetSession
<1>14. ASSUME NEW w \in Closers, OnClose(w) PROVE LiveSessionsBound'
  BY <1>14 DEF OnClose
<1>15. CASE Close
  BY <1>15 DEF Close
<1>16. CASE UNCHANGED <<key, ended, closed, servers, ref, failed, pc, bound>>
  BY <1>16
<1> QED
  BY ZenonT(40), <1>1, <1>2, <1>3, <1>4, <1>5, <1>6, <1>7, <1>8, <1>9, <1>10, <1>11, <1>12,
     <1>13, <1>14, <1>15, <1>16
     DEF Next, CallerStep, Acquire, OpenEnds, WatcherStep, CloserStep, vars,
         poolVars, bindingVars, callVars, closerVars,
         CloseSessionSkips, CloseSessionDetaches, CloseSessionDone,
         SkipFailedEntry, CloseRuntime, CloseRuntimeFails, CloseReturns,
         TakeEntry

\* An entry is in the map, with a closer, or in the stated exception.
LEMMA NoEntryLostStep == IndInv /\ [Next]_vars => NoEntryLost'
<1> SUFFICES ASSUME IndInv, [Next]_vars PROVE NoEntryLost'
  OBVIOUS
<1> USE PoolAssumption, KeyFacts, CallerFacts, KeyKnown DEF IndInv, Typed,
     Goto, poolVars, bindingVars, callVars, closerVars, RequestsRefer,
     ReadyWhenOpened, MapHasOwnEntries, DrainedSessionsQuiet, CurrentUntilEnd,
     DetachedOnce, NoEntryLost, InProgress, Made, Current, Detached, SessionOf
<1>1. ASSUME NEW c \in Callers, NEW k \in Keys, BindServer(c, k)
      PROVE  NoEntryLost'
  BY <1>1 DEF BindServer
<1>2. ASSUME NEW c \in Callers, AcquireClosed(c) PROVE NoEntryLost'
  BY <1>2 DEF AcquireClosed
<1>3. ASSUME NEW c \in Callers, AcquireJoins(c) PROVE NoEntryLost'
  BY <1>3 DEF AcquireJoins
<1>4. ASSUME NEW c \in Callers, AcquireOpens(c) PROVE NoEntryLost'
  BY <1>4 DEF AcquireOpens
<1>5. ASSUME NEW c \in Callers, OpenFails(c) PROVE NoEntryLost'
  BY <1>5 DEF OpenFails
<1>6. ASSUME NEW c \in Callers, OpenSucceeds(c) PROVE NoEntryLost'
  BY <1>6 DEF OpenSucceeds
<1>7. ASSUME NEW c \in Callers, OnOpen(c) PROVE NoEntryLost'
  BY <1>7 DEF OnOpen
<1>8. ASSUME NEW c \in Callers, WaitUses(c) PROVE NoEntryLost'
  BY <1>8 DEF WaitUses
<1>9. ASSUME NEW c \in Callers, WaitFails(c) PROVE NoEntryLost'
  BY <1>9 DEF WaitFails, ReleaseEntry
<1>10. ASSUME NEW c \in Callers, Release(c) PROVE NoEntryLost'
  BY <1>10 DEF Release, ReleaseEntry
<1>11. ASSUME NEW c \in Callers, WaitCancelled(c) PROVE NoEntryLost'
  BY <1>11 DEF WaitCancelled, ReleaseEntry
<1>12. ASSUME NEW c \in Callers, CloseSessionDetaches(c) PROVE NoEntryLost'
  <2> DEFINE K == {k \in Keys : k[1] = SessionOf(c)}
  <2>1. todo[c] = {}
    BY <1>12 DEF CloseSessionDetaches, Closes
  <2>5. todo' = [todo EXCEPT ![c] = EntriesOf(K)]
    BY <1>12 DEF CloseSessionDetaches
  <2>2. ASSUME NEW e \in Callers, Detached(e) PROVE Detached(e)'
    BY <1>12, <2>1, <2>2 DEF CloseSessionDetaches
  <2>3. ASSUME NEW e \in Callers, Current(e), key[e] \in Keys
        PROVE  Current(e)' \/ Detached(e)'
    <3>1. e \in EntriesOf(K) => Detached(e)'
      <4> HIDE DEF K
      <4> QED BY <2>5
    <3>2. CASE key[e] \in K
      BY <2>3, <3>1, <3>2, EntriesOfKeys
    <3>3. CASE key[e] \notin K
      BY <1>12, <2>3, <3>3 DEF CloseSessionDetaches
    <3> QED BY <3>2, <3>3
  <2>4. ASSUME NEW e \in Callers, e \in live \/ pc[e] = "open"
        PROVE  key[e] \in Keys
    BY <2>4
  <2> HIDE DEF Current, Detached
  <2> QED
    BY <1>12, <2>2, <2>3, <2>4 DEF CloseSessionDetaches
<1>13. ASSUME NEW w \in Closers, NEW e \in Callers, SkipFailedEntry(w, e)
      PROVE  NoEntryLost'
  BY <1>13 DEF SkipFailedEntry, TakeEntry
<1>14. ASSUME NEW w \in Closers, NEW e \in Callers, CloseRuntime(w, e)
      PROVE  NoEntryLost'
  BY <1>14 DEF CloseRuntime, TakeEntry
<1>15. ASSUME NEW w \in Closers, NEW e \in Callers, CloseRuntimeFails(w, e)
      PROVE  NoEntryLost'
  BY <1>15 DEF CloseRuntimeFails, TakeEntry
<1>16. CASE Close
  <2>1. todo[Pool] = {}
    BY <1>16 DEF Close, Closes, CloseWaits
  <2>2. ASSUME NEW e \in Callers, Detached(e) PROVE Detached(e)'
    BY <1>16, <2>1, <2>2 DEF Close
  <2>3. ASSUME NEW e \in Callers, Current(e), key[e] \in Keys
        PROVE  Detached(e)'
    <3>1. e \in EntriesOf(Keys)
      BY <2>3, EntriesOfKeys
    <3> QED BY <1>16, <3>1 DEF Close
  <2>4. ASSUME NEW e \in Callers, e \in live \/ pc[e] = "open"
        PROVE  key[e] \in Keys
    BY <2>4
  <2> HIDE DEF Current, Detached
  <2> QED BY <1>16, <2>2, <2>3, <2>4 DEF Close
<1>17. CASE UNCHANGED <<entries, live, todo, failed, key, pc>>
  BY <1>17
<1> QED
  BY SMTT(30), <1>1, <1>2, <1>3, <1>4, <1>5, <1>6, <1>7, <1>8, <1>9, <1>10, <1>11, <1>12,
     <1>13, <1>14, <1>15, <1>16, <1>17
     DEF Next, CallerStep, Acquire, OpenEnds, WatcherStep, CloserStep, vars,
         poolVars, bindingVars, callVars, closerVars,
         CloseSessionSkips, CloseSessionDone, SessionEnds, ForgetSession,
         OnClose, CloseReturns

\* Every failed Close is counted once (pool.go:112-137).
LEMMA FailuresCountedStep == IndInv /\ [Next]_vars => FailuresCounted'
<1> SUFFICES ASSUME IndInv, [Next]_vars PROVE FailuresCounted'
  OBVIOUS
<1> USE PoolAssumption, KeyFacts, CallerFacts DEF IndInv, Typed, Goto,
     poolVars, bindingVars, callVars, closerVars, FailuresCounted,
     DetachedOnce, CloseWaits, Closes
<1>1. ASSUME NEW w \in Closers, NEW e \in Callers, CloseRuntimeFails(w, e)
      PROVE  FailuresCounted'
  <2>1. e \in live /\ e \notin closeFailed /\ closing # "returned"
    BY <1>1 DEF CloseRuntimeFails, TakeEntry
  <2>2. IsFiniteSet(closeFailed)
    BY FS_Subset
  <2>3. /\ Cardinality(closeFailed') = Cardinality(closeFailed) + 1
        /\ Cardinality(closeFailed) \in Nat
    BY <1>1, <2>1, <2>2, FS_AddElement, FS_CardinalityType
       DEF CloseRuntimeFails
  <2> QED BY <1>1, <2>1, <2>3 DEF CloseRuntimeFails
<1>2. CASE Close
  BY <1>2 DEF Close
<1>3. CASE CloseReturns
  BY <1>3 DEF CloseReturns
<1>4. CASE UNCHANGED <<closeFailed, cleanupFailures, closing, reported>>
  BY <1>4
<1> QED
  BY ZenonT(40), <1>1, <1>2, <1>3, <1>4
     DEF Next, CallerStep, Acquire, OpenEnds, WatcherStep, CloserStep, vars,
         poolVars, bindingVars, callVars, closerVars,
         BindServer, AcquireClosed, AcquireJoins, AcquireOpens, OpenFails,
         OpenSucceeds, OnOpen, WaitUses, WaitFails, Release, WaitCancelled,
         CloseSessionSkips, CloseSessionDetaches, CloseSessionDone,
         SessionEnds, ForgetSession, SkipFailedEntry, CloseRuntime, OnClose,
         TakeEntry

\* Every count of entry.refs is some request's.
\* entry.refs counts at most the requests that made or joined the entry.
LEMMA RefsCountedStep == IndInv /\ [Next]_vars => RefsCounted'
<1> SUFFICES ASSUME IndInv, [Next]_vars, NEW e \in Callers
             PROVE  refs'[e] <= Cardinality(Holders(e)')
  BY DEF RefsCounted
<1> USE PoolAssumption, KeyFacts, CallerFacts
    DEF IndInv, Typed, Goto, poolVars, bindingVars, callVars, closerVars,
        RequestsRefer
<1>1. /\ IsFiniteSet(Holders(e)) /\ IsFiniteSet(Holders(e)')
      /\ Cardinality(Holders(e)) \in Nat /\ Cardinality(Holders(e)') \in Nat
      /\ refs[e] <= Cardinality(Holders(e)) /\ refs[e] \in Nat
  BY FS_Subset, FS_CardinalityType DEF Holders, RefsCounted
<1>2. ASSUME Holders(e) \subseteq Holders(e)', refs'[e] <= refs[e],
             refs'[e] \in Nat
      PROVE  refs'[e] <= Cardinality(Holders(e)')
  <2>1. Cardinality(Holders(e)) <= Cardinality(Holders(e)')
    BY <1>1, <1>2, FS_Subset
  <2> QED BY <1>1, <1>2, <2>1
<1>3. ASSUME NEW c \in Callers, AcquireJoins(c)
      PROVE  refs'[e] <= Cardinality(Holders(e)')
  <2>1. CASE e = entries[key[c]]
    <3>1. Holders(e)' = Holders(e) \cup {c} /\ c \notin Holders(e)
      BY <1>3, <2>1 DEF AcquireJoins, Holders
    <3>2. Cardinality(Holders(e)') = Cardinality(Holders(e)) + 1
      BY <1>1, <3>1, FS_AddElement
    <3>3. refs'[e] = refs[e] + 1
      BY <1>3, <2>1 DEF AcquireJoins
    <3> QED BY <1>1, <3>2, <3>3
  <2>2. CASE e # entries[key[c]]
    <3>1. Holders(e) \subseteq Holders(e)' /\ refs'[e] = refs[e]
      BY <1>3, <2>2 DEF AcquireJoins, Holders
    <3> QED BY <1>1, <1>2, <3>1
  <2> QED BY <2>1, <2>2
<1>4. ASSUME NEW c \in Callers, AcquireOpens(c)
      PROVE  refs'[e] <= Cardinality(Holders(e)')
  <2>1. CASE e = c
    <3>1. c \in Holders(e)' /\ refs'[e] = 1
      BY <1>4, <2>1 DEF AcquireOpens, Holders
    <3>2. Cardinality(Holders(e)') # 0
      BY <1>1, <3>1, FS_EmptySet
    <3> QED BY <1>1, <3>1, <3>2
  <2>2. CASE e # c
    <3>1. Holders(e) \subseteq Holders(e)' /\ refs'[e] = refs[e]
      BY <1>4, <2>2 DEF AcquireOpens, Holders
    <3> QED BY <1>1, <1>2, <3>1
  <2> QED BY <2>1, <2>2
<1>5. ASSUME NEW c \in Callers, ReleaseEntry(c), ref[c] # None, ref' = ref
      PROVE  refs'[e] <= Cardinality(Holders(e)')
  <2>1. Holders(e)' = Holders(e)
    BY <1>5 DEF Holders
  <2>2. refs'[e] \in Nat /\ refs'[e] <= refs[e]
    BY <1>5, ReleaseTyped
  <2> QED BY <1>2, <2>1, <2>2
<1>6. CASE UNCHANGED <<refs, ref>>
  <2>1. Holders(e)' = Holders(e) /\ refs'[e] = refs[e]
    BY <1>6 DEF Holders
  <2> QED BY <1>1, <1>2, <2>1
<1> QED
  BY ZenonT(40), <1>3, <1>4, <1>5, <1>6
     DEF Next, CallerStep, Acquire, OpenEnds, WatcherStep, CloserStep, vars,
         BindServer, AcquireClosed, OpenFails, OpenSucceeds, OnOpen, WaitUses,
         WaitFails, Release, WaitCancelled, CloseSessionSkips,
         CloseSessionDetaches, CloseSessionDone, SessionEnds, ForgetSession,
         SkipFailedEntry, CloseRuntime, CloseRuntimeFails, OnClose, Close,
         CloseReturns, TakeEntry
----------------------------------------------------------------------------
\* A new pool and new bindings are empty.
LEMMA IndInit == Init => IndInv
<1> SUFFICES ASSUME Init PROVE IndInv
  OBVIOUS
<1> USE PoolAssumption, KeyFacts, CallerFacts DEF Init
<1>1. Typed
  BY DEF Typed
<1>2. RequestsRefer /\ ReadyWhenOpened /\ CloseWaits
  BY DEF RequestsRefer, ReadyWhenOpened, CloseWaits, Made
<1>3. MapHasOwnEntries /\ CurrentUntilEnd /\ DetachedOnce
  BY DEF MapHasOwnEntries, CurrentUntilEnd, DetachedOnce, Made
<1>4. DrainedSessionsQuiet /\ LiveSessionsBound /\ NoEntryLost
  BY DEF DrainedSessionsQuiet, LiveSessionsBound, NoEntryLost
<1>5. FailuresCounted
  BY FS_EmptySet DEF FailuresCounted
<1>6. RefsCounted
  BY FS_Subset, FS_CardinalityType DEF RefsCounted, Holders
<1> QED BY <1>1, <1>2, <1>3, <1>4, <1>5, <1>6 DEF IndInv

LEMMA IndStep == IndInv /\ [Next]_vars => IndInv'
  BY TypedStep, RequestsReferStep, ReadyWhenOpenedStep, MapHasOwnEntriesStep,
     CurrentUntilEndStep, DetachedOnceStep, CloseWaitsStep,
     DrainedSessionsQuietStep, LiveSessionsBoundStep, NoEntryLostStep,
     FailuresCountedStep, RefsCountedStep
     DEF IndInv

LEMMA IndCorrect == Spec => []IndInv
  BY IndInit, IndStep, PTL DEF Spec

----------------------------------------------------------------------------
\* Every field has its type; in particular no count of refs exceeds the number
\* of requests, and no failed Close is counted twice (pool.go:14-38).
THEOREM TypeCorrect == Spec => []TypeOK
<1>1. ASSUME IndInv PROVE TypeOK
  <2>1. ASSUME NEW e \in Callers PROVE refs[e] <= Cardinality(Callers)
    <3>1. Cardinality(Holders(e)) <= Cardinality(Callers)
      BY PoolAssumption, FS_Subset DEF Holders
    <3>2. Cardinality(Holders(e)) \in Nat /\ Cardinality(Callers) \in Nat
      BY PoolAssumption, FS_Subset, FS_CardinalityType DEF Holders
    <3> QED BY <1>1, <3>1, <3>2 DEF IndInv, Typed, RefsCounted
  <2>2. Cardinality(Callers) \in Nat
    BY PoolAssumption, FS_CardinalityType
  <2>3. refs \in [Callers -> 0 .. Cardinality(Callers)]
    BY <1>1, <2>1, <2>2 DEF IndInv, Typed
  <2>4. Cardinality(closeFailed) \in Nat
    BY <1>1, PoolAssumption, FS_Subset, FS_CardinalityType DEF IndInv, Typed
  <2>5. /\ cleanupFailures \in 0 .. MaxCloseFailures
        /\ reported \in 0 .. MaxCloseFailures
    BY <1>1, <2>4, PoolAssumption DEF IndInv, Typed, FailuresCounted
  <2> QED BY <1>1, <2>3, <2>5 DEF IndInv, Typed, TypeOK
<1> QED BY <1>1, IndCorrect, PTL

\* A request that uses a runtime keeps it open and current until its session
\* ends or the pool closes (pool.go:62-102).
THEOREM UsersHoldOpenRuntimeCorrect == Spec => []UsersHoldOpenRuntime
<1>1. ASSUME IndInv PROVE UsersHoldOpenRuntime
  <2> SUFFICES ASSUME NEW c \in Callers, pc[c] = "use",
                      SessionOf(c) \notin ended, ~closed
               PROVE  /\ ref[c] \in live
                      /\ key[ref[c]] = key[c]
                      /\ Current(ref[c])
    BY DEF UsersHoldOpenRuntime
  <2> USE <1>1 DEF IndInv
  <2>1. /\ ref[c] \in Made \ failed /\ ref[c] \in ready
        /\ key[ref[c]] = key[c] /\ key[c] \in Keys
    BY KeyKnown, CallerFacts DEF ReadyWhenOpened, RequestsRefer, Made, Typed
  <2>2. Current(ref[c])
    BY <2>1 DEF CurrentUntilEnd, SessionOf
  <2>3. pc[ref[c]] # "open" /\ ref[c] # None
    BY <2>1, CallerFacts DEF ReadyWhenOpened, Made
  <2> QED BY <2>1, <2>2, <2>3 DEF MapHasOwnEntries, Current
<1> QED BY <1>1, IndCorrect, PTL

\* While its session lives, a server has at most one runtime (pool.go:62-78).
THEOREM OneRuntimePerKeyCorrect == Spec => []OneRuntimePerKey
<1>1. ASSUME IndInv PROVE OneRuntimePerKey
  <2> SUFFICES ASSUME NEW c \in Callers, NEW d \in Callers, c # d,
                      {c,
                      d} \subseteq live \cup {e \in Callers : pc[e] = "open"},
                      key[c] = key[d], SessionOf(c) \notin ended, ~closed
               PROVE  FALSE
    BY DEF OneRuntimePerKey
  <2>1. {c, d} \subseteq Made \ failed
    BY <1>1, CallerFacts
       DEF IndInv, Typed, RequestsRefer, ReadyWhenOpened, Made
  <2>2. Current(c) /\ Current(d)
    BY <1>1, <2>1 DEF IndInv, CurrentUntilEnd, SessionOf
  <2> QED BY <2>2 DEF Current
<1> QED BY <1>1, IndCorrect, PTL

\* No open runtime is lost but by the stated exception (pool.go:92).
THEOREM NoRuntimeLostCorrect == Spec => []NoRuntimeLost
<1>1. IndInv => NoRuntimeLost
  BY DEF IndInv, Typed, NoEntryLost, NoRuntimeLost
<1> QED BY <1>1, IndCorrect, PTL

\* A request or a closer waits only for an entry that somebody is opening
\* (pool.go:65-102, 166-168).
THEOREM UnreadyEntriesOpenCorrect == Spec => []UnreadyEntriesOpen
<1>1. ASSUME IndInv PROVE UnreadyEntriesOpen
  BY <1>1, CallerFacts DEF IndInv, Typed, RequestsRefer, ReadyWhenOpened,
       DetachedOnce, Detached, Made, UnreadyEntriesOpen
<1> QED BY <1>1, IndCorrect, PTL

\* An open runtime of a live session reaches its frontend session
\* (notifications.go:169-191).
THEOREM OpenRuntimeIsBoundCorrect == Spec => []OpenRuntimeIsBound
<1>1. ASSUME IndInv PROVE OpenRuntimeIsBound
  <2> SUFFICES ASSUME NEW k \in Keys, entries[k] \in live,
                      pc[entries[k]] # "bind", k[1] \notin ended, ~closed
               PROVE  k \in bound /\ k[1] \in servers
    BY DEF OpenRuntimeIsBound
  <2>1. /\ entries[k] \in Callers \cap Made /\ entries[k] \notin failed
        /\ key[entries[k]] = k /\ pc[entries[k]] # "open"
    BY <1>1, CallerFacts
       DEF IndInv, Typed, MapHasOwnEntries, ReadyWhenOpened, Made
  <2> QED BY <1>1, <2>1, KeyFacts DEF IndInv, LiveSessionsBound, SessionOf
<1> QED BY <1>1, IndCorrect, PTL

\* Close closes every runtime it or a session's cleanup has taken, and reports
\* every failure (pool.go:104-142).
THEOREM CloseEndsRuntimesCorrect == Spec => []CloseEndsRuntimes
<1>1. ASSUME IndInv PROVE CloseEndsRuntimes
  <2> SUFFICES ASSUME closing = "returned" PROVE CloseEndsRuntimes
    BY DEF CloseEndsRuntimes
  <2>1. ASSUME NEW e \in live PROVE ~Current(e) /\ ~Detached(e)
    <3>1. e \in Callers /\ key[e] \in Keys
      BY <1>1, KeyKnown, CallerFacts
         DEF IndInv, Typed, RequestsRefer, ReadyWhenOpened, Made
    <3>2. ~Current(e)
      BY <1>1, <3>1, CallerFacts DEF IndInv, CloseWaits, MapHasOwnEntries,
           Current
    <3>3. ~Detached(e)
      BY <1>1, <3>1, CallerFacts
         DEF IndInv, DetachedOnce, Closes, CloseWaits, Detached
    <3> QED BY <3>2, <3>3
  <2>2. ASSUME NEW e \in live PROVE SessionOf(e) \notin Draining
    BY <1>1, <2>1 DEF IndInv, Typed, NoEntryLost
  <2> QED BY <1>1, <2>1, <2>2 DEF IndInv, FailuresCounted, CloseEndsRuntimes
<1> QED BY <1>1, IndCorrect, PTL
=============================================================================
