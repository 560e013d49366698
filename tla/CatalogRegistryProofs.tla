------------------------ MODULE CatalogRegistryProofs ------------------------
(***************************************************************************)
(* Proofs about CatalogRegistry, for any numbers of requests, refreshes    *)
(* and upstream changes: what the cache holds, which changes its catalog   *)
(* includes, and that no notification and no waiting request is forgotten. *)
(*                                                                         *)
(* The safety of a refresh rests on who may end it.  As long as no         *)
(* explicit Refresh has touched the installed entry, one goroutine at a    *)
(* time refreshes it, and entry.refreshing says so; a notification that    *)
(* comes meanwhile leaves entry.pending behind.  An explicit Refresh takes *)
(* the entry over only when nothing is due for it.                         *)
(***************************************************************************)
EXTENDS CatalogRegistry, FiniteSetTheorems, TLAPS

Waits == {"start", "waitReady", "waitRefresh"}
GetLabels ==
    Waits \cup {"compile", "install", "refreshed", "compileOwn", "publish", "done"}
RefreshLabels == Waits \cup {"compileRefresh", "finish", "done"}

\* Where an actor has its locals from.
LocalsFit ==
    /\ \A g \in Getters : pc[g] \in GetLabels
    /\ \A f \in Refreshers : pc[f] \in RefreshLabels
    /\ \A a \in Actors :
          /\ pc[a] \in {"waitReady", "waitRefresh"} => at[a] # None
          /\ pc[a] \in {"install", "publish", "finish"} => found[a] # None
          /\ pc[a] = "finish" => found[a].kind # "pending"
    /\ ~config.toolSearch => \A f \in Refreshers : at[f] = None

\* An idle goroutine holds no callbacks, and one that is to finish has an
\* outcome of a discovery with the configured credentials.
WorkersFit ==
    \A e \in Actors : \A r \in Runs :
        /\ worker[e][r].state = "idle" => worker[e][r].callbacks = {}
        /\ worker[e][r].state = "finish" =>
              worker[e][r].found # None /\ worker[e][r].found.kind # "pending"

\* Nothing has happened to the entry of an actor that has not made one.
Unmade(a) ==
    IF a \in Getters
    THEN pc[a] \in Waits \cup {"refreshed", "compileOwn", "publish"}
    ELSE pc[a] # "done"

Untouched(a) ==
    /\ entries[a] = NewEntry
    /\ installed # a
    /\ \A r \in Runs : worker[a][r].state = "idle"
    /\ \A b \in Actors : at[b] # a
    /\ \A n \in Changes : notices[n].entry # a

UnmadeUntouched == \A a \in Actors : Unmade(a) => Untouched(a)

\* An entry is ready when its maker has returned, and the cache has only those
\* whose catalog is ready (Registry.Get).
InstalledFits ==
    /\ \A a \in Actors :
          /\ entries[a].ready => pc[a] = "done"
          /\ entries[a].pending => entries[a].refreshing
          /\ ~config.toolSearch => ~entries[a].refreshDone
    /\ installed # None /\ entries[installed].ready =>
          /\ entries[installed].err = None
          /\ entries[installed].catalog # None
          /\ ~entries[installed].catalog.pending

\* Each accepted notification is in one list of callbacks until that is run.
NoticeFits(n) ==
    LET e == notices[n].entry IN
    /\ e # None =>
          /\ n <= upstream
          /\ notices[n].state # "new"
          /\ notices[n].whenReady => entries[e].ready
    /\ notices[n].state = "queued" =>
          /\ e # None
          /\ \/ n \in entries[e].callbacks
             \/ \E r \in Runs : n \in worker[e][r].callbacks
CallbacksFit(e) ==
    \A n \in entries[e].callbacks :
        /\ notices[n].state = "queued" /\ notices[n].entry = e
        /\ \A r \in Runs : n \notin worker[e][r].callbacks
RunsFit(e) ==
    \A r \in Runs : \A n \in worker[e][r].callbacks :
        /\ notices[n].state = "queued" /\ notices[n].entry = e
        /\ \A q \in Runs : n \in worker[e][q].callbacks => q = r

NoticesKept ==
    /\ \A n \in Changes : NoticeFits(n)
    /\ \A e \in Actors : CallbacksFit(e) /\ RunsFit(e)

\* A refresh that is marked on the installed entry has somebody to end it, and
\* who waits for a refresh has one that runs or a timer.
RefreshersExist ==
    ~closed /\ installed # None =>
        /\ entries[installed].refreshing =>
              \/ \E r \in Runs : worker[installed][r].state # "idle"
              \/ \E f \in Refreshers : /\ at[f] = installed
                                        /\ pc[f] \in {"compileRefresh", "finish"}
        /\ entries[installed].refreshDone =>
              entries[installed].refreshing \/ entries[installed].timer # "nil"

\* No explicit Refresh has got past its waits.
NoneBegun == \A f \in Refreshers : pc[f] \in Waits

\* Nothing is due for an entry that an explicit Refresh marks ...
DueIsAwaited ==
    ~closed /\ installed # None /\ config.toolSearch /\ NoneBegun =>
        LET e == entries[installed] IN
        e.timer # "nil" \/ e.callbacks # {} \/ e.pending => e.refreshDone

\* ... hence a refresh that runs has no timer beside it, a timer that was spent
\* has its goroutine, and what came during a refresh is noted.
TimersServe ==
    ~closed /\ installed # None /\ OneExplicitRefresh =>
        LET e == entries[installed] IN
        /\ e.refreshing => e.timer = "nil"
        /\ e.timer = "spent" => timersFired > 0
        /\ e.callbacks # {} =>
              e.timer = "armed" \/ timersFired > 0 \/ e.pending
        /\ e.refreshing => e.callbacks = {} \/ e.pending

\* Requested refreshes of an entry do not overlap by themselves.
RunsAlone ==
    installed # None /\ NoExplicitRefresh =>
        \A r \in Runs : worker[installed][r].state # "idle" =>
            /\ entries[installed].refreshing
            /\ \A q \in Runs : worker[installed][q].state # "idle" => q = r

\* What a discovery that began after a notification found includes the change.
VersionsGrow ==
    installed # None /\ NoExplicitRefresh => \A n \in Accepted :
        /\ notices[n].whenReady /\ notices[n].state \in {"succeeded", "announced"}
              => entries[installed].catalog.version >= n
        /\ \A r \in Runs :
              /\ worker[installed][r].state = "finish"
              /\ Succeeded(worker[installed][r].found)
              /\ n \in worker[installed][r].callbacks \/ notices[n].state # "queued"
              => worker[installed][r].found.version >= n

\* A search catalog that lacks an accepted change is stale.
StaleMarksLack ==
    ~closed /\ installed # None /\ config.toolSearch /\ NoExplicitRefresh =>
        \A n \in Accepted :
            \/ entries[installed].stale
            \/ /\ notices[n].state # "queued"
               /\ notices[n].whenReady => entries[installed].catalog.version >= n

IndInv ==
    /\ TypeOK
    /\ LocalsFit
    /\ WorkersFit
    /\ UnmadeUntouched
    /\ InstalledFits
    /\ NoticesKept
    /\ RefreshersExist
    /\ DueIsAwaited
    /\ TimersServe
    /\ RunsAlone
    /\ VersionsGrow
    /\ StaleMarksLack
    /\ CredentialOutcomesStayRequestLocal

----------------------------------------------------------------------------
(* Lemmas about the operators.                                             *)

\* What a discovery finds is an outcome (compile).
LEMMA DiscoveriesAreOutcomes ==
    ASSUME TypeOK, NEW d \in BOOLEAN, NEW o \in Discoveries(d)
    PROVE  /\ o \in Outcomes
           /\ ~d => o.kind # "pending"
           /\ Succeeded(o) => o.version = upstream
BY RegistryAssumption DEF TypeOK, Discoveries, Outcomes, Versions, Succeeded

\* The entry that an outcome leaves (Registry.Get, publish, Refresh).
LEMMA CatalogsAndErrors ==
    ASSUME NEW o \in Outcomes
    PROVE  /\ CatalogOf(o) \in Catalogs
           /\ CatalogOf(o).version = o.version
           /\ CatalogOf(o).pending <=> o.kind = "pending"
           /\ ErrorOf(o) \in {"auth", "error", None}
           /\ ErrorOf(o) = None <=> Succeeded(o)
BY NilAssumption DEF Outcomes, Catalogs, CatalogOf, ErrorOf, Succeeded

\* What finishRefresh does to each field.
LEMMA FinishedFields ==
    ASSUME TypeOK, NEW e \in EntryRecords, NEW o \in Outcomes
    PROVE  LET d == FinishedEntry(e, o) IN
           /\ d \in EntryRecords
           /\ d.ready = e.ready
           /\ d.catalog = IF Succeeded(o) THEN CatalogOf(o) ELSE e.catalog
           /\ d.err = IF Succeeded(o) THEN None ELSE e.err
           /\ d.refreshing = FALSE
           /\ d.pending = FALSE
           /\ d.timer = IF e.pending /\ ~closed THEN "armed" ELSE e.timer
           /\ d.callbacks = e.callbacks
           /\ d.stale = IF config.toolSearch
                        THEN e.pending \/ ~Succeeded(o) ELSE e.stale
           /\ d.refreshDone = IF config.toolSearch
                        THEN e.refreshDone /\ e.pending ELSE e.refreshDone
<1>1. CatalogOf(o) \in Catalogs /\ Succeeded(o) \in BOOLEAN
  BY CatalogsAndErrors DEF Succeeded
<1>2. config.toolSearch \in BOOLEAN
  BY RegistryAssumption DEF TypeOK
<1>3. closed \in BOOLEAN
  BY DEF TypeOK
<1> DEFINE c == IF Succeeded(o) THEN CatalogOf(o) ELSE e.catalog
           r == IF Succeeded(o) THEN None ELSE e.err
           t == IF e.pending /\ ~closed THEN "armed" ELSE e.timer
           s == e.pending \/ ~Succeeded(o)
           w == e.refreshDone /\ e.pending
<1>6. /\ c \in Catalogs \cup {None} /\ r \in {"auth", "error", None}
      /\ t \in TimerStates /\ s \in BOOLEAN /\ w \in BOOLEAN
  BY <1>1 DEF EntryRecords, TimerStates
<1>7. FinishedEntry(e, o) =
         IF config.toolSearch
         THEN [e EXCEPT !.catalog = c, !.err = r, !.refreshing = FALSE,
                 !.pending = FALSE, !.timer = t, !.stale = s, !.refreshDone = w]
         ELSE [e EXCEPT !.catalog = c, !.err = r, !.refreshing = FALSE,
                 !.pending = FALSE, !.timer = t]
  BY DEF FinishedEntry, EntryRecords
<1> HIDE DEF c, r, t, s, w
<1>8. /\ FinishedEntry(e, o) \in EntryRecords
      /\ FinishedEntry(e, o).ready = e.ready
      /\ FinishedEntry(e, o).catalog = c
      /\ FinishedEntry(e, o).err = r
      /\ FinishedEntry(e, o).refreshing = FALSE
      /\ FinishedEntry(e, o).pending = FALSE
      /\ FinishedEntry(e, o).timer = t
      /\ FinishedEntry(e, o).callbacks = e.callbacks
      /\ FinishedEntry(e, o).stale = IF config.toolSearch THEN s ELSE e.stale
      /\ FinishedEntry(e, o).refreshDone =
            IF config.toolSearch THEN w ELSE e.refreshDone
  BY ZenonT(40), <1>6, <1>7 DEF EntryRecords
<1> QED BY <1>8 DEF c, r, t, s, w

\* What RequestRefresh does to each field.
LEMMA NotedFields ==
    ASSUME TypeOK, NEW e \in EntryRecords, NEW n \in Changes
    PROVE  LET d == NotedEntry(e, n) IN
           /\ d \in EntryRecords
           /\ d.ready = e.ready
           /\ d.catalog = e.catalog
           /\ d.err = e.err
           /\ d.refreshing = e.refreshing
           /\ d.pending = (e.pending \/ e.refreshing)
           /\ d.timer = IF e.refreshing THEN e.timer ELSE "armed"
           /\ d.callbacks = e.callbacks \cup {n}
           /\ d.stale = (e.stale \/ config.toolSearch)
           /\ d.refreshDone = (e.refreshDone \/ config.toolSearch)
<1>1. config.toolSearch \in BOOLEAN
  BY RegistryAssumption DEF TypeOK
<1> QED BY ZenonT(40), <1>1 DEF NotedEntry, EntryRecords, TimerStates

\* What Get returns is a result, which asks to authorize only if the request
\* discovered it itself.
LEMMA AnswersFit ==
    /\ \A o \in Outcomes : Answer(o) \in Results /\ Answer(o).own
    /\ \A c \in Catalogs \cup {None} :
          /\ SharedCatalog(c) \in Results
          /\ SharedCatalog(c).kind # "auth"
          /\ SharedCatalog(c).pending => c # None /\ c.pending
    /\ Refused \in Results /\ Refused.kind # "auth" /\ ~Refused.pending
<1>1. \A o \in Outcomes : Answer(o) \in Results /\ Answer(o).own
  BY DEF Outcomes, Answer, Results
<1>2. ASSUME NEW c \in Catalogs \cup {None}
      PROVE  /\ SharedCatalog(c) \in Results
             /\ SharedCatalog(c).kind # "auth"
             /\ SharedCatalog(c).pending => c # None /\ c.pending
  <2>1. c # None => c.pending \in BOOLEAN
    BY DEF Catalogs
  <2>2. (c # None /\ c.pending) \in BOOLEAN
    OBVIOUS
  <2> QED BY <2>1, <2>2 DEF SharedCatalog, Results
<1>3. Refused \in Results /\ Refused.kind # "auth" /\ ~Refused.pending
  BY DEF Refused, Results
<1> QED BY <1>1, <1>2, <1>3

\* After its wait a request returns, or discovers for itself.
LEMMA AfterWaitMoves ==
    ASSUME TypeOK, NEW g \in Getters, NEW c \in Catalogs \cup {None}, NEW err,
           AfterWait(g, c, err)
    PROVE  /\ at' = [at EXCEPT ![g] = None]
           /\ found' = [found EXCEPT ![g] = None]
           /\ \/ /\ pc' = [pc EXCEPT ![g] = "compileOwn"]
                 /\ result' = result
              \/ /\ pc' = [pc EXCEPT ![g] = "done"]
                 /\ \E x \in Results :
                       /\ result' = [result EXCEPT ![g] = x]
                       /\ ~x.pending /\ x.kind # "auth"
<1> DEFINE own == err = "auth" \/ (err = None /\ c # None /\ c.pending)
<1>1. CASE own
  BY <1>1 DEF AfterWait, Goto, Leave
<1>2. CASE ~own
  <2>1. err # "auth"
    BY <1>2
  <2>2. CASE err = None
    <3>1. SharedCatalog(c) \in Results /\ SharedCatalog(c).kind # "auth"
          /\ ~SharedCatalog(c).pending
      BY <1>2, <2>2, AnswersFit
    <3> QED BY <1>2, <2>2, <3>1 DEF AfterWait, Return, Goto, Leave
  <2>3. CASE err # None
    BY <1>2, <2>3, AnswersFit DEF AfterWait, Return, Goto, Leave
  <2> QED BY <2>2, <2>3
<1> QED BY <1>1, <1>2

\* The entries that are made (entryForConfig, publish, Refresh).
LEMMA NewAndReadyEntries ==
    /\ NewEntry \in EntryRecords
    /\ \A o \in Outcomes :
          LET e == ReadyEntry(o) IN
          /\ e \in EntryRecords
          /\ e.ready
          /\ e.catalog = CatalogOf(o)
          /\ e.err = None
          /\ ~e.refreshing /\ ~e.pending /\ ~e.stale /\ ~e.refreshDone
          /\ e.timer = "nil"
          /\ e.callbacks = {}
<1>1. NewEntry \in EntryRecords
  BY DEF NewEntry, EntryRecords, TimerStates
<1>2. ASSUME NEW o \in Outcomes PROVE CatalogOf(o) \in Catalogs
  BY CatalogsAndErrors
<1> QED BY <1>1, <1>2 DEF NewEntry, ReadyEntry, EntryRecords, TimerStates

\* Entries keep their type when a field is set.
LEMMA EntryUpdates ==
    ASSUME NEW e \in EntryRecords, NEW t \in TimerStates
    PROVE  /\ [e EXCEPT !.refreshDone = FALSE] \in EntryRecords
           /\ [e EXCEPT !.stale = TRUE] \in EntryRecords
           /\ [e EXCEPT !.stale = TRUE, !.refreshing = TRUE,
                        !.refreshDone = TRUE] \in EntryRecords
           /\ [e EXCEPT !.timer = t] \in EntryRecords
           /\ [e EXCEPT !.timer = t, !.refreshDone = FALSE] \in EntryRecords
           /\ [e EXCEPT !.timer = t, !.refreshing = TRUE, !.pending = FALSE,
                        !.callbacks = {}] \in EntryRecords
           /\ [e EXCEPT !.refreshDone = TRUE, !.timer = t] \in EntryRecords
BY DEF EntryRecords

\* What wakes actors changes nothing else of them.
Wakes(new) ==
    /\ new \in [Actors -> GetLabels \cup RefreshLabels]
    /\ \A a \in Actors :
          \/ new[a] = pc[a]
          \/ /\ pc[a] = "waitRefresh"
             /\ new[a] = IF a \in Getters THEN "refreshed" ELSE "start"

\* Close takes the timer and the refreshDone channel from the installed entry.
LEMMA CloseKeeps ==
    ASSUME TypeOK, Close
    PROVE  \A b \in Actors :
              /\ entries'[b].ready = entries[b].ready
              /\ entries'[b].catalog = entries[b].catalog
              /\ entries'[b].err = entries[b].err
              /\ entries'[b].refreshing = entries[b].refreshing
              /\ entries'[b].pending = entries[b].pending
              /\ entries'[b].callbacks = entries[b].callbacks
              /\ entries'[b].stale = entries[b].stale
              /\ entries'[b].refreshDone => entries[b].refreshDone
<1>1. CASE installed = None
  BY <1>1 DEF Close
<1>2. CASE installed # None
  <2> DEFINE n == [entries[installed] EXCEPT !.timer = "nil", !.refreshDone = FALSE]
  <2>1. /\ entries \in [Actors -> EntryRecords] /\ entries[installed] \in EntryRecords
        /\ entries' = [entries EXCEPT ![installed] = n]
    BY <1>2 DEF Close, TypeOK
  <2>2. /\ n.ready = entries[installed].ready /\ n.catalog = entries[installed].catalog
        /\ n.err = entries[installed].err
        /\ n.refreshing = entries[installed].refreshing
        /\ n.pending = entries[installed].pending
        /\ n.callbacks = entries[installed].callbacks
        /\ n.stale = entries[installed].stale /\ n.refreshDone = FALSE
    BY <2>1 DEF EntryRecords
  <2> HIDE DEF n
  <2> QED BY <2>1, <2>2
<1> QED BY <1>1, <1>2

LEMMA WokenWakes ==
    ASSUME TypeOK
    PROVE  /\ Wakes(pc)
           /\ \A e \in Actors : Wakes(Woken(e)) /\ Wakes(FinishWakes(e))
<1>1. Wakes(pc)
  BY DEF TypeOK, Wakes, GetLabels, RefreshLabels, Waits
<1>2. ASSUME NEW e \in Actors PROVE Wakes(Woken(e))
  BY DEF TypeOK, Wakes, Woken, GetLabels, RefreshLabels, Waits
<1> QED BY <1>1, <1>2 DEF FinishWakes


----------------------------------------------------------------------------
\* The type invariant (registry.go).
LEMMA TypeInit == Init => TypeOK
<1> SUFFICES ASSUME Init PROVE TypeOK
  OBVIOUS
<1>1. closed \in BOOLEAN
  BY DEF Init
<1>4. 0 \in Versions
  BY RegistryAssumption DEF Versions
<1>2. NewEntry \in EntryRecords
  BY NewAndReadyEntries
<1>3. MaxEvents \in Nat
  BY RegistryAssumption
<1> QED BY <1>1, <1>2, <1>3, <1>4 DEF Init, TypeOK, IdleWorker

LEMMA TypeStep == IndInv /\ [Next]_vars => TypeOK'
<1> SUFFICES ASSUME IndInv, [Next]_vars PROVE TypeOK'
  OBVIOUS
<1> USE RegistryAssumption
    DEF IndInv, TypeOK, actorVars, envVars, Goto, Leave, Return
<1>0. LocalsFit
  OBVIOUS
<1>1. ASSUME NEW g \in Getters, GetStep(g) \/ GetCancelled(g) PROVE TypeOK'
  <2> g \in Actors
    BY DEF Actors
  <2>1. CASE GetFindsEntry(g)
    BY <2>1 DEF GetFindsEntry
  <2>2. CASE GetCreatesEntry(g)
    BY <2>2 DEF GetCreatesEntry
  <2>3. CASE GetInstalls(g)
    <3>1. found[g] \in Outcomes
      BY <2>3, <1>0 DEF LocalsFit, GetInstalls
    <3>2. /\ Answer(found[g]) \in Results
          /\ Succeeded(found[g]) => CatalogOf(found[g]) \in Catalogs
          /\ ErrorOf(found[g]) \in {"auth", "error", None}
      BY <3>1, CatalogsAndErrors, AnswersFit
    <3>3. entries[g] \in EntryRecords
      OBVIOUS
    <3>4. entries' \in [Actors -> EntryRecords]
      BY <2>3, <3>2, <3>3 DEF GetInstalls, EntryRecords
    <3>5. installed' \in Actors \cup {None}
      BY <2>3 DEF GetInstalls
    <3> QED BY <2>3, <3>2, <3>4, <3>5 DEF GetInstalls
  <2>4. CASE GetReadsEntry(g)
    <3>1. at[g] \in Actors
      BY <2>4, <1>0 DEF LocalsFit, GetReadsEntry
    <3>2. entries[at[g]].catalog \in Catalogs \cup {None}
      BY <3>1 DEF EntryRecords
    <3>3. AfterWait(g, entries[at[g]].catalog, entries[at[g]].err)
      BY <2>4 DEF GetReadsEntry
    <3>4. /\ at' = [at EXCEPT ![g] = None]
          /\ found' = [found EXCEPT ![g] = None]
          /\ \E l \in {"compileOwn", "done"} : pc' = [pc EXCEPT ![g] = l]
          /\ \/ result' = result
             \/ \E x \in Results : result' = [result EXCEPT ![g] = x]
      BY <3>2, <3>3, AfterWaitMoves
    <3>5. result' \in [Actors -> Results \cup {None}]
      BY <3>4
    <3>6. pc' \in [Actors -> GetLabels \cup RefreshLabels]
      BY <3>4 DEF GetLabels, RefreshLabels, Waits
    <3> QED BY <2>4, <3>4, <3>5, <3>6
             DEF GetReadsEntry, GetLabels, RefreshLabels, Waits
  <2>5. CASE GetCancelledByClose(g)
    BY <2>5, AnswersFit DEF GetCancelledByClose
  <2>6. CASE GetAwaitsRefresh(g)
    <3>1. at[g] \in Actors
      BY <2>6, <1>0 DEF LocalsFit, GetAwaitsRefresh
    <3>2. entries[at[g]] \in EntryRecords
      BY <3>1
    <3>3. TimerDue(entries[at[g]]) \in TimerStates
      BY <3>2 DEF TimerDue, TimerStates, EntryRecords
    <3>4. entries' \in [Actors -> EntryRecords]
      BY <2>6, <3>1, <3>2, <3>3 DEF GetAwaitsRefresh, EntryRecords
    <3> QED BY <2>6, <3>4 DEF GetAwaitsRefresh
  <2>7. CASE GetReadsRefreshed(g)
    <3>1. CASE installed = None \/ entries[installed].stale
      <4>1. Return(g, Refused) /\ Refused \in Results
        BY <2>7, <3>1, AnswersFit DEF GetReadsRefreshed
      <4> QED BY <2>7, <4>1 DEF GetReadsRefreshed
    <3>2. CASE ~(installed = None \/ entries[installed].stale)
      <4>1. entries[installed].catalog \in Catalogs \cup {None}
        BY <3>2 DEF EntryRecords
      <4>2. AfterWait(g, entries[installed].catalog, entries[installed].err)
        BY <2>7, <3>2 DEF GetReadsRefreshed
      <4>3. /\ at' = [at EXCEPT ![g] = None]
            /\ found' = [found EXCEPT ![g] = None]
            /\ \E l \in {"compileOwn", "done"} : pc' = [pc EXCEPT ![g] = l]
            /\ \/ result' = result
               \/ \E x \in Results : result' = [result EXCEPT ![g] = x]
        BY <4>1, <4>2, AfterWaitMoves
      <4>5. result' \in [Actors -> Results \cup {None}]
        BY <4>3
      <4>6. pc' \in [Actors -> GetLabels \cup RefreshLabels]
        BY <4>3 DEF GetLabels, RefreshLabels, Waits
      <4> QED BY <2>7, <4>3, <4>5, <4>6
               DEF GetReadsRefreshed, GetLabels, RefreshLabels, Waits
    <3> QED BY <3>1, <3>2
  <2>8. CASE GetPublishes(g)
    <3>1. found[g] \in Outcomes
      BY <2>8, <1>0 DEF LocalsFit, GetPublishes
    <3>2. Answer(found[g]) \in Results /\ ReadyEntry(found[g]) \in EntryRecords
      BY <3>1, AnswersFit, NewAndReadyEntries
    <3>3. /\ entries' \in [Actors -> EntryRecords]
          /\ installed' \in Actors \cup {None}
      BY <2>8, <3>2 DEF GetPublishes
    <3> QED BY <2>8, <3>2, <3>3 DEF GetPublishes
  <2>9. CASE GetCancelled(g)
    BY <2>9, AnswersFit DEF GetCancelled
  <2> QED BY <1>1, <2>1, <2>2, <2>3, <2>4, <2>5, <2>6, <2>7, <2>8, <2>9 DEF GetStep
<1>2. ASSUME NEW f \in Refreshers, RefreshStep(f) \/ RefreshCancelled(f) PROVE TypeOK'
  <2> f \in Actors
    BY DEF Actors
  <2>1. CASE RefreshWithoutEntry(f)
    BY <2>1 DEF RefreshWithoutEntry
  <2>2. CASE RefreshWaits(f)
    BY <2>2 DEF RefreshWaits
  <2>3. CASE RefreshEntryReady(f)
    BY <2>3 DEF RefreshEntryReady
  <2>4. CASE RefreshMarksStale(f)
    <3>1. entries' \in [Actors -> EntryRecords]
      <4>1. /\ installed \in Actors
            /\ entries' = [entries EXCEPT ![installed] =
                  [entries[installed] EXCEPT !.stale = TRUE, !.refreshing = TRUE,
                                             !.refreshDone = TRUE]]
        BY <2>4 DEF RefreshMarksStale
      <4>2. "nil" \in TimerStates
        BY DEF TimerStates
      <4> QED BY <4>1, <4>2, EntryUpdates
    <3> QED BY <2>4, <3>1 DEF RefreshMarksStale
  <2>5. CASE RefreshFinishes(f)
    <3>1. found[f] \in Outcomes /\ at[f] \in Actors
      BY <2>5, <1>0 DEF LocalsFit, RefreshFinishes
    <3>2. FinishedEntry(entries[at[f]], found[f]) \in EntryRecords
      BY <3>1, FinishedFields
    <3>3. FinishWakes(at[f]) \in [Actors -> GetLabels \cup RefreshLabels]
      BY <3>1, WokenWakes DEF Wakes
    <3> QED BY <2>5, <3>1, <3>2, <3>3
             DEF RefreshFinishes, GetLabels, RefreshLabels, Waits
  <2>6. CASE RefreshFails(f)
    <3>1. entries' \in [Actors -> EntryRecords]
      <4>1. "nil" \in TimerStates
        BY DEF TimerStates
      <4>2. \A a \in Actors : [entries[a] EXCEPT !.stale = TRUE] \in EntryRecords
        BY <4>1, EntryUpdates
      <4> QED BY <2>6, <4>2 DEF RefreshFails
    <3> QED BY <2>6, <3>1 DEF RefreshFails
  <2>7. CASE RefreshReplaces(f)
    <3>1. found[f] \in Outcomes
      BY <2>7, <1>0 DEF LocalsFit, RefreshReplaces
    <3>2. ReadyEntry(found[f]) \in EntryRecords
      BY <3>1, NewAndReadyEntries
    <3>3. \A a \in Actors :
             [entries[a] EXCEPT !.refreshDone = FALSE] \in EntryRecords
      <4>1. "nil" \in TimerStates
        BY DEF TimerStates
      <4> QED BY <4>1, EntryUpdates
    <3>4. entries' \in [Actors -> EntryRecords]
      BY <2>7, <3>2, <3>3 DEF RefreshReplaces
    <3>5. /\ pc \in [Actors -> GetLabels \cup RefreshLabels]
          /\ installed # None =>
                Woken(installed) \in [Actors -> GetLabels \cup RefreshLabels]
      BY WokenWakes DEF Wakes
    <3> QED BY <2>7, <3>4, <3>5
             DEF RefreshReplaces, GetLabels, RefreshLabels, Waits
  <2>8. CASE RefreshCancelled(f)
    BY <2>8 DEF RefreshCancelled
  <2> QED BY <1>2, <2>1, <2>2, <2>3, <2>4, <2>5, <2>6, <2>7, <2>8 DEF RefreshStep
<1>3. ASSUME NEW a \in Actors, Compile(a) PROVE TypeOK'
  <2> DEFINE d == pc[a] # "compileRefresh" /\ config.deferAuthorization
  <2>1. PICK o \in Discoveries(d) : found' = [found EXCEPT ![a] = o]
    BY <1>3 DEF Compile
  <2>4. d \in BOOLEAN
    OBVIOUS
  <2>2. o \in Outcomes
    BY <2>1, <2>4, DiscoveriesAreOutcomes
  <2>3. pc' \in [Actors -> GetLabels \cup RefreshLabels]
    BY <1>3 DEF Compile, GetLabels, RefreshLabels, Waits
  <2> QED BY <1>3, <2>1, <2>2, <2>3 DEF Compile, GetLabels, RefreshLabels, Waits
<1>4. ASSUME NEW a \in Actors, TimerFires(a) PROVE TypeOK'
  <2>1. entries' \in [Actors -> EntryRecords]
    <3>1. "spent" \in TimerStates
      BY DEF TimerStates
    <3>2. [entries[a] EXCEPT !.timer = "spent"] \in EntryRecords
      BY <3>1, EntryUpdates
    <3> QED BY <1>4, <3>2 DEF TimerFires
  <2> QED BY <1>4, <2>1 DEF TimerFires
<1>5. ASSUME NEW a \in Actors, NEW r \in Runs, WorkerStep(a, r) PROVE TypeOK'
  <2>1. CASE WorkerCompiles(a, r)
    <3>1. PICK o \in Discoveries(FALSE) :
             worker' = [worker EXCEPT ![a][r] = [@ EXCEPT !.state = "finish", !.found = o]]
      BY <2>1 DEF WorkerCompiles
    <3>2. o \in Outcomes
      BY <3>1, DiscoveriesAreOutcomes
    <3>3. worker' = [worker EXCEPT ![a] = [worker[a] EXCEPT ![r] =
             [worker[a][r] EXCEPT !.state = "finish", !.found = o]]]
      BY <3>1
    <3>4. /\ worker[a][r] \in [state : {"idle", "compile", "finish"},
                                found : Outcomes \cup {None},
                                callbacks : SUBSET Changes]
          /\ o \in Outcomes \cup {None} /\ "finish" \in {"idle", "compile", "finish"}
      BY <3>2
    <3>5. [worker[a][r] EXCEPT !.state = "finish", !.found = o] \in
             [state : {"idle", "compile", "finish"}, found : Outcomes \cup {None},
              callbacks : SUBSET Changes]
      BY ONLY <3>4
    <3> QED BY <2>1, <3>3, <3>5 DEF WorkerCompiles
  <2>2. CASE WorkerFindsReplacement(a, r)
    BY ZenonT(40), <2>2 DEF WorkerFindsReplacement, WorkerEnds, IdleWorker
  <2>3. CASE WorkerFinishes(a, r)
    <3>1. worker[a][r].found \in Outcomes
      BY <2>3 DEF WorkersFit, WorkerFinishes
    <3>2. FinishedEntry(entries[a], worker[a][r].found) \in EntryRecords
      BY <3>1, FinishedFields
    <3>3. FinishWakes(a) \in [Actors -> GetLabels \cup RefreshLabels]
      BY WokenWakes DEF Wakes
    <3> QED BY ZenonT(40), <2>3, <3>2, <3>3
             DEF WorkerFinishes, WorkerEnds, IdleWorker, GetLabels, RefreshLabels,
                 Waits
  <2> QED BY <1>5, <2>1, <2>2, <2>3 DEF WorkerStep
<1>6. CASE RunRefresh
  <2>1. installed \in Actors
    BY <1>6 DEF RunRefresh, CanRefresh
  <2>2. entries' \in [Actors -> EntryRecords]
    <3>1. "nil" \in TimerStates
      BY DEF TimerStates
    <3>2. [entries[installed] EXCEPT !.timer = "nil", !.refreshing = TRUE,
              !.pending = FALSE, !.callbacks = {}] \in EntryRecords
      BY <2>1, <3>1, EntryUpdates
    <3> QED BY <1>6, <2>1, <3>2 DEF RunRefresh
  <2>3. entries[installed].callbacks \in SUBSET Changes
    BY <2>1 DEF EntryRecords
  <2> QED BY <1>6, <2>1, <2>2, <2>3 DEF RunRefresh
<1>7. CASE RunRefreshReturns
  BY <1>7 DEF RunRefreshReturns
<1>8. CASE UpstreamChanges
  BY <1>8 DEF UpstreamChanges, Versions
<1>9. ASSUME NEW n \in Changes, NoticeIgnored(n) \/ RequestRefresh(n) \/ CallBack(n) PROVE TypeOK'
  <2>1. CASE NoticeIgnored(n)
    BY ZenonT(40), <2>1 DEF NoticeIgnored
  <2>2. CASE RequestRefresh(n)
    <3>1. installed \in Actors /\ entries[installed] \in EntryRecords
      BY <2>2 DEF RequestRefresh
    <3>2. NotedEntry(entries[installed], n) \in EntryRecords
      BY <3>1, NotedFields
    <3>3. entries[installed].ready \in BOOLEAN
      BY <3>1 DEF EntryRecords
    <3> QED BY <2>2, <3>1, <3>2, <3>3 DEF RequestRefresh
  <2>3. CASE CallBack(n)
    <3>1. notices' \in [Changes -> [state : {"new", "ignored", "queued",
                                   "succeeded", "failed", "announced"},
                                   entry : Actors \cup {None},
                                   whenReady : BOOLEAN]]
      BY ZenonT(40), <2>3 DEF CallBack
    <3> QED BY <2>3, <3>1 DEF CallBack
  <2> QED BY <1>9, <2>1, <2>2, <2>3
<1>10. CASE InvalidateComponent
  <2>1. installed \in Actors
    BY <1>10 DEF InvalidateComponent
  <2>2. entries' \in [Actors -> EntryRecords]
    <3> DEFINE t == StoppedTimer(entries[installed].timer)
    <3>1. t \in TimerStates
      BY <2>1 DEF EntryRecords, TimerStates, StoppedTimer
    <3>2. [entries[installed] EXCEPT !.timer = t, !.refreshDone = FALSE]
             \in EntryRecords
      BY <2>1, <3>1, EntryUpdates
    <3>3. entries' = [entries EXCEPT ![installed] =
             [entries[installed] EXCEPT !.timer = t, !.refreshDone = FALSE]]
      BY <1>10, <2>1 DEF InvalidateComponent
    <3> QED BY <2>1, <3>2, <3>3
  <2>3. pc' \in [Actors -> GetLabels \cup RefreshLabels]
    BY <1>10, <2>1, WokenWakes DEF InvalidateComponent, Wakes
  <2>4. invalidations < MaxEvents
    <3>1. Cardinality(Refreshing) \in Nat
      <4>1. IsFiniteSet(Refreshing)
        BY FS_Subset DEF Refreshing, Actors
      <4> QED BY <4>1, FS_CardinalityType
    <3>2. upstream \in Nat
      BY DEF Versions
    <3>3. upstream + invalidations + Cardinality(Refreshing)
             + (IF closed THEN 1 ELSE 0) < MaxEvents
      BY <1>10 DEF InvalidateComponent, EventAllowed, Events
    <3> HIDE DEF Refreshing
    <3> QED BY <3>1, <3>2, <3>3
  <2> QED BY <1>10, <2>1, <2>2, <2>3, <2>4
           DEF InvalidateComponent, GetLabels, RefreshLabels, Waits
<1>11. CASE Close
  <2>1. closed' \in BOOLEAN
    BY <1>11 DEF Close
  <2>2. entries' \in [Actors -> EntryRecords]
    <3>1. "nil" \in TimerStates
      BY DEF TimerStates
    <3>2. \A a \in Actors :
             [entries[a] EXCEPT !.timer = "nil", !.refreshDone = FALSE]
                \in EntryRecords
      BY <3>1, EntryUpdates
    <3>3. CASE installed = None
      BY <1>11, <3>3 DEF Close
    <3>4. CASE installed # None
      <4>1. entries' = [entries EXCEPT ![installed] =
               [entries[installed] EXCEPT !.timer = "nil", !.refreshDone = FALSE]]
        BY <1>11, <3>4 DEF Close
      <4> QED BY <3>2, <3>4, <4>1
    <3> QED BY <3>3, <3>4
  <2>3. pc' \in [Actors -> GetLabels \cup RefreshLabels]
    BY <1>11, WokenWakes DEF Close, Wakes
  <2> QED BY <1>11, <2>1, <2>2, <2>3 DEF Close, GetLabels, RefreshLabels, Waits
<1>12. CASE UNCHANGED vars
  BY <1>12 DEF vars
<1> QED BY <1>1, <1>2, <1>3, <1>4, <1>5, <1>6, <1>7, <1>8, <1>9, <1>10, <1>11, <1>12 DEF Next

----------------------------------------------------------------------------
\* Where actors have their locals from (Registry.Get, Refresh, runRefresh).
\* After its wait a request returns, or discovers for itself.
LEMMA ReadsMove ==
    ASSUME IndInv, NEW g \in Getters, GetReadsEntry(g) \/ GetReadsRefreshed(g)
    PROVE  /\ pc[g] \in {"waitReady", "refreshed"}
           /\ \E l \in {"compileOwn", "done"} : pc' = [pc EXCEPT ![g] = l]
           /\ at' = [at EXCEPT ![g] = None]
           /\ found' = [found EXCEPT ![g] = None]
           /\ \/ result' = result
              \/ \E x \in Results :
                    /\ result' = [result EXCEPT ![g] = x]
                    /\ ~x.pending /\ x.kind # "auth"
           /\ UNCHANGED <<config, upstream, invalidations, installed, entries,
                          closed, timersFired, worker, notices>>
<1> USE DEF IndInv, TypeOK
<1>1. CASE GetReadsEntry(g)
  <2>1. at[g] \in Actors
    BY <1>1 DEF GetReadsEntry, LocalsFit, Actors
  <2>2. entries[at[g]].catalog \in Catalogs \cup {None}
    BY <2>1 DEF EntryRecords
  <2>3. AfterWait(g, entries[at[g]].catalog, entries[at[g]].err)
    BY <1>1 DEF GetReadsEntry
  <2>4. /\ at' = [at EXCEPT ![g] = None]
        /\ found' = [found EXCEPT ![g] = None]
        /\ \E l \in {"compileOwn", "done"} : pc' = [pc EXCEPT ![g] = l]
        /\ \/ result' = result
           \/ \E x \in Results : /\ result' = [result EXCEPT ![g] = x]
                                 /\ ~x.pending /\ x.kind # "auth"
    BY <2>2, <2>3, AfterWaitMoves
  <2> QED BY <1>1, <2>4 DEF GetReadsEntry, envVars
<1>2. CASE GetReadsRefreshed(g)
  <2>1. CASE installed = None \/ entries[installed].stale
    <3>1. /\ Return(g, Refused)
          /\ Refused \in Results /\ ~Refused.pending /\ Refused.kind # "auth"
      BY <1>2, <2>1, AnswersFit DEF GetReadsRefreshed
    <3> QED BY <1>2, <3>1 DEF GetReadsRefreshed, envVars, Return, Goto, Leave
  <2>2. CASE ~(installed = None \/ entries[installed].stale)
    <3>1. entries[installed].catalog \in Catalogs \cup {None}
      BY <2>2 DEF EntryRecords
    <3>2. AfterWait(g, entries[installed].catalog, entries[installed].err)
      BY <1>2, <2>2 DEF GetReadsRefreshed
    <3>3. /\ at' = [at EXCEPT ![g] = None]
          /\ found' = [found EXCEPT ![g] = None]
          /\ \E l \in {"compileOwn", "done"} : pc' = [pc EXCEPT ![g] = l]
          /\ \/ result' = result
             \/ \E x \in Results : /\ result' = [result EXCEPT ![g] = x]
                                   /\ ~x.pending /\ x.kind # "auth"
      BY <3>1, <3>2, AfterWaitMoves
    <3> QED BY <1>2, <3>3 DEF GetReadsRefreshed, envVars
  <2> QED BY <2>1, <2>2
<1> QED BY <1>1, <1>2

LEMMA LocalsStep == IndInv /\ [Next]_vars => LocalsFit'
<1> SUFFICES ASSUME IndInv, [Next]_vars PROVE LocalsFit'
  OBVIOUS
<1>0. Getters \cap Refreshers = {} /\ None \notin Actors
  BY RegistryAssumption
<1> USE <1>0
    DEF IndInv, TypeOK, LocalsFit, GetLabels, RefreshLabels, Waits, actorVars,
        envVars, Goto, Leave, Return
<1>1. ASSUME NEW g \in Getters, GetStep(g) \/ GetCancelled(g) PROVE LocalsFit'
  <2> g \in Actors
    BY DEF Actors
  <2>1. CASE GetFindsEntry(g)
    BY <2>1 DEF GetFindsEntry, Actors
  <2>2. CASE GetCreatesEntry(g)
    BY <2>2 DEF GetCreatesEntry, Actors
  <2>3. CASE GetInstalls(g)
    BY <2>3 DEF GetInstalls, Actors
  <2>4. CASE GetReadsEntry(g)
    <3>1. /\ pc[g] \in {"waitReady", "refreshed"}
          /\ \E l \in {"compileOwn", "done"} : pc' = [pc EXCEPT ![g] = l]
          /\ at' = [at EXCEPT ![g] = None] /\ found' = [found EXCEPT ![g] = None]
          /\ config' = config
      BY <2>4, ReadsMove
    <3> QED BY <3>1 DEF Actors
  <2>5. CASE GetCancelledByClose(g)
    BY <2>5 DEF GetCancelledByClose, Actors
  <2>6. CASE GetAwaitsRefresh(g)
    BY <2>6 DEF GetAwaitsRefresh, Actors
  <2>7. CASE GetReadsRefreshed(g)
    <3>1. /\ pc[g] \in {"waitReady", "refreshed"}
          /\ \E l \in {"compileOwn", "done"} : pc' = [pc EXCEPT ![g] = l]
          /\ at' = [at EXCEPT ![g] = None] /\ found' = [found EXCEPT ![g] = None]
          /\ config' = config
      BY <2>7, ReadsMove
    <3> QED BY <3>1 DEF Actors
  <2>8. CASE GetPublishes(g)
    BY <2>8 DEF GetPublishes, Actors
  <2>9. CASE GetCancelled(g)
    BY <2>9 DEF GetCancelled, Actors
  <2> QED BY <1>1, <2>1, <2>2, <2>3, <2>4, <2>5, <2>6, <2>7, <2>8, <2>9 DEF GetStep
<1>2. ASSUME NEW f \in Refreshers, RefreshStep(f) \/ RefreshCancelled(f) PROVE LocalsFit'
  <2> f \in Actors
    BY DEF Actors
  <2>1. CASE RefreshWithoutEntry(f)
    BY <2>1 DEF RefreshWithoutEntry, Actors
  <2>2. CASE RefreshWaits(f)
    BY ZenonT(40), <2>2 DEF RefreshWaits, Actors
  <2>3. CASE RefreshEntryReady(f)
    BY <2>3 DEF RefreshEntryReady, Actors
  <2>4. CASE RefreshMarksStale(f)
    BY <2>4 DEF RefreshMarksStale, Actors
  <2>5. CASE RefreshFinishes(f)
    <3>1. Wakes(FinishWakes(at[f]))
      BY <2>5, WokenWakes DEF RefreshFinishes
    <3> QED BY <2>5, <3>1 DEF RefreshFinishes, Wakes, Actors
  <2>6. CASE RefreshFails(f)
    BY <2>6 DEF RefreshFails, Actors
  <2>7. CASE RefreshReplaces(f)
    <3>1. \E w : Wakes(w) /\ pc' = [w EXCEPT ![f] = "done"]
      BY <2>7, WokenWakes DEF RefreshReplaces
    <3> QED BY SMTT(30), <2>7, <3>1 DEF RefreshReplaces, Wakes, Actors
  <2>8. CASE RefreshCancelled(f)
    BY <2>8 DEF RefreshCancelled, Actors
  <2> QED BY <1>2, <2>1, <2>2, <2>3, <2>4, <2>5, <2>6, <2>7, <2>8 DEF RefreshStep
<1>3. ASSUME NEW a \in Actors, Compile(a) PROVE LocalsFit'
  <2> DEFINE d == pc[a] # "compileRefresh" /\ config.deferAuthorization
  <2>1. PICK o \in Discoveries(d) : found' = [found EXCEPT ![a] = o]
    BY <1>3 DEF Compile
  <2>2. d \in BOOLEAN
    OBVIOUS
  <2>3. o \in Outcomes /\ (pc[a] = "compileRefresh" => o.kind # "pending")
    BY <2>1, <2>2, DiscoveriesAreOutcomes
  <2>4. o # None
    BY <2>3, NilAssumption
  <2>5. \/ pc[a] = "compile" /\ pc' = [pc EXCEPT ![a] = "install"]
        \/ pc[a] = "compileOwn" /\ pc' = [pc EXCEPT ![a] = "publish"]
        \/ pc[a] = "compileRefresh" /\ pc' = [pc EXCEPT ![a] = "finish"]
    BY <1>3 DEF Compile
  <2> HIDE DEF d
  <2> QED BY <1>3, <2>1, <2>3, <2>4, <2>5 DEF Compile, Actors
<1>4. ASSUME NEW a \in Actors, TimerFires(a) PROVE LocalsFit'
  BY <1>4 DEF TimerFires, Actors
<1>5. ASSUME NEW a \in Actors, NEW r \in Runs, WorkerStep(a, r) PROVE LocalsFit'
  <2>1. CASE WorkerCompiles(a, r)
    BY <2>1 DEF WorkerCompiles, Actors
  <2>2. CASE WorkerFindsReplacement(a, r)
    BY <2>2 DEF WorkerFindsReplacement, Actors
  <2>3. CASE WorkerFinishes(a, r)
    <3>1. Wakes(pc')
      BY <2>3, WokenWakes DEF WorkerFinishes
    <3> QED BY <2>3, <3>1 DEF WorkerFinishes, Wakes, Actors
  <2> QED BY <1>5, <2>1, <2>2, <2>3 DEF WorkerStep
<1>6. CASE RunRefresh
  BY <1>6 DEF RunRefresh, Actors
<1>7. CASE RunRefreshReturns
  BY <1>7 DEF RunRefreshReturns, Actors
<1>8. CASE UpstreamChanges
  BY <1>8 DEF UpstreamChanges, Actors
<1>9. ASSUME NEW n \in Changes, NoticeIgnored(n) \/ RequestRefresh(n) \/ CallBack(n) PROVE LocalsFit'
  <2>1. CASE NoticeIgnored(n)
    BY <2>1 DEF NoticeIgnored, Actors
  <2>2. CASE RequestRefresh(n)
    BY <2>2 DEF RequestRefresh, Actors
  <2>3. CASE CallBack(n)
    BY <2>3 DEF CallBack, Actors
  <2> QED BY <1>9, <2>1, <2>2, <2>3
<1>10. CASE InvalidateComponent
  <2>1. Wakes(pc')
    BY <1>10, WokenWakes DEF InvalidateComponent
  <2> QED BY <1>10, <2>1 DEF InvalidateComponent, Wakes, Actors
<1>11. CASE Close
  <2>1. Wakes(pc')
    BY <1>11, WokenWakes DEF Close
  <2> QED BY <1>11, <2>1 DEF Close, Wakes, Actors
<1>12. CASE UNCHANGED vars
  BY <1>12 DEF vars, Actors
<1> QED BY <1>1, <1>2, <1>3, <1>4, <1>5, <1>6, <1>7, <1>8, <1>9, <1>10, <1>11, <1>12 DEF Next

\* Goroutines of runRefresh hold callbacks only while they run.
LEMMA WorkersStep == IndInv /\ [Next]_vars => WorkersFit'
<1> SUFFICES ASSUME IndInv, [Next]_vars PROVE WorkersFit'
  OBVIOUS
<1> USE DEF IndInv, TypeOK, WorkersFit, actorVars, envVars
<1>1. ASSUME NEW g \in Getters, GetStep(g) \/ GetCancelled(g) PROVE WorkersFit'
  <2> g \in Actors
    BY DEF Actors
  <2>1. CASE GetFindsEntry(g)
    BY <2>1 DEF GetFindsEntry
  <2>2. CASE GetCreatesEntry(g)
    BY <2>2 DEF GetCreatesEntry
  <2>3. CASE GetInstalls(g)
    BY <2>3 DEF GetInstalls
  <2>4. CASE GetReadsEntry(g)
    BY <2>4 DEF GetReadsEntry
  <2>5. CASE GetCancelledByClose(g)
    BY <2>5 DEF GetCancelledByClose
  <2>6. CASE GetAwaitsRefresh(g)
    BY <2>6 DEF GetAwaitsRefresh
  <2>7. CASE GetReadsRefreshed(g)
    BY <2>7 DEF GetReadsRefreshed
  <2>8. CASE GetPublishes(g)
    BY <2>8 DEF GetPublishes
  <2>9. CASE GetCancelled(g)
    BY <2>9 DEF GetCancelled
  <2> QED BY <1>1, <2>1, <2>2, <2>3, <2>4, <2>5, <2>6, <2>7, <2>8, <2>9 DEF GetStep
<1>2. ASSUME NEW f \in Refreshers, RefreshStep(f) \/ RefreshCancelled(f) PROVE WorkersFit'
  <2> f \in Actors
    BY DEF Actors
  <2>1. CASE RefreshWithoutEntry(f)
    BY <2>1 DEF RefreshWithoutEntry
  <2>2. CASE RefreshWaits(f)
    BY <2>2 DEF RefreshWaits
  <2>3. CASE RefreshEntryReady(f)
    BY <2>3 DEF RefreshEntryReady
  <2>4. CASE RefreshMarksStale(f)
    BY <2>4 DEF RefreshMarksStale
  <2>5. CASE RefreshFinishes(f)
    BY <2>5 DEF RefreshFinishes
  <2>6. CASE RefreshFails(f)
    BY <2>6 DEF RefreshFails
  <2>7. CASE RefreshReplaces(f)
    BY <2>7 DEF RefreshReplaces
  <2>8. CASE RefreshCancelled(f)
    BY <2>8 DEF RefreshCancelled
  <2> QED BY <1>2, <2>1, <2>2, <2>3, <2>4, <2>5, <2>6, <2>7, <2>8 DEF RefreshStep
<1>3. ASSUME NEW a \in Actors, Compile(a) PROVE WorkersFit'
  BY <1>3 DEF Compile
<1>4. ASSUME NEW a \in Actors, TimerFires(a) PROVE WorkersFit'
  BY <1>4 DEF TimerFires
<1>5. ASSUME NEW a \in Actors, NEW r \in Runs, WorkerStep(a, r) PROVE WorkersFit'
  <2>1. CASE WorkerCompiles(a, r)
    <3>1. PICK o \in Discoveries(FALSE) :
             worker' = [worker EXCEPT ![a][r] = [@ EXCEPT !.state = "finish", !.found = o]]
      BY <2>1 DEF WorkerCompiles
    <3>2. o # None /\ o.kind # "pending"
      BY <3>1, NilAssumption, DiscoveriesAreOutcomes
    <3>3. worker' = [worker EXCEPT ![a] = [worker[a] EXCEPT ![r] =
             [worker[a][r] EXCEPT !.state = "finish", !.found = o]]]
      BY <3>1
    <3> QED BY <3>2, <3>3
  <2>2. CASE WorkerFindsReplacement(a, r)
    BY <2>2 DEF WorkerFindsReplacement, WorkerEnds, IdleWorker
  <2>3. CASE WorkerFinishes(a, r)
    BY <2>3 DEF WorkerFinishes, WorkerEnds, IdleWorker
  <2> QED BY <1>5, <2>1, <2>2, <2>3 DEF WorkerStep
<1>6. CASE RunRefresh
  BY <1>6 DEF RunRefresh, CanRefresh
<1>7. CASE RunRefreshReturns
  BY <1>7 DEF RunRefreshReturns
<1>8. CASE UpstreamChanges
  BY <1>8 DEF UpstreamChanges
<1>9. ASSUME NEW n \in Changes, NoticeIgnored(n) \/ RequestRefresh(n) \/ CallBack(n) PROVE WorkersFit'
  <2>1. CASE NoticeIgnored(n)
    BY <2>1 DEF NoticeIgnored
  <2>2. CASE RequestRefresh(n)
    BY <2>2 DEF RequestRefresh
  <2>3. CASE CallBack(n)
    BY <2>3 DEF CallBack
  <2> QED BY <1>9, <2>1, <2>2, <2>3
<1>10. CASE InvalidateComponent
  BY <1>10 DEF InvalidateComponent
<1>11. CASE Close
  BY <1>11 DEF Close
<1>12. CASE UNCHANGED vars
  BY <1>12 DEF vars
<1> QED BY <1>1, <1>2, <1>3, <1>4, <1>5, <1>6, <1>7, <1>8, <1>9, <1>10, <1>11, <1>12 DEF Next

\* What no actor has made is untouched: each makes one entry (entryForConfig,
\* publish, Refresh).
LEMMA UnmadeShrinks ==
    ASSUME IndInv, [Next]_vars, NEW x \in Actors, Unmade(x)'
    PROVE  Unmade(x)
<1>0. Getters \cap Refreshers = {}
  BY RegistryAssumption
<1> USE <1>0
    DEF IndInv, TypeOK, LocalsFit, GetLabels, RefreshLabels, Unmade, Waits,
        actorVars, envVars, Goto, Leave, Return
<1>1. ASSUME NEW g \in Getters, GetStep(g) \/ GetCancelled(g) PROVE Unmade(x)
  <2> g \in Actors
    BY DEF Actors
  <2>1. CASE GetFindsEntry(g)
    BY <2>1 DEF GetFindsEntry, Actors
  <2>2. CASE GetCreatesEntry(g)
    BY <2>2 DEF GetCreatesEntry, Actors
  <2>3. CASE GetInstalls(g)
    BY <2>3 DEF GetInstalls, Actors
  <2>4. CASE GetReadsEntry(g)
    BY <2>4, ReadsMove DEF Actors
  <2>5. CASE GetCancelledByClose(g)
    BY <2>5 DEF GetCancelledByClose, Actors
  <2>6. CASE GetAwaitsRefresh(g)
    BY <2>6 DEF GetAwaitsRefresh, Actors
  <2>7. CASE GetReadsRefreshed(g)
    BY <2>7, ReadsMove DEF Actors
  <2>8. CASE GetPublishes(g)
    BY <2>8 DEF GetPublishes, Actors
  <2>9. CASE GetCancelled(g)
    BY <2>9 DEF GetCancelled, Actors
  <2> QED BY <1>1, <2>1, <2>2, <2>3, <2>4, <2>5, <2>6, <2>7, <2>8, <2>9 DEF GetStep
<1>2. ASSUME NEW f \in Refreshers, RefreshStep(f) \/ RefreshCancelled(f) PROVE Unmade(x)
  <2> f \in Actors
    BY DEF Actors
  <2>1. CASE RefreshWithoutEntry(f)
    BY <2>1 DEF RefreshWithoutEntry, Actors
  <2>2. CASE RefreshWaits(f)
    BY <2>2 DEF RefreshWaits, Actors
  <2>3. CASE RefreshEntryReady(f)
    BY <2>3 DEF RefreshEntryReady, Actors
  <2>4. CASE RefreshMarksStale(f)
    BY <2>4 DEF RefreshMarksStale, Actors
  <2>5. CASE RefreshFinishes(f)
    <3>1. Wakes(FinishWakes(at[f]))
      BY <2>5, WokenWakes DEF RefreshFinishes
    <3> QED BY <2>5, <3>1 DEF RefreshFinishes, Wakes, Actors
  <2>6. CASE RefreshFails(f)
    BY <2>6 DEF RefreshFails, Actors
  <2>7. CASE RefreshReplaces(f)
    <3>1. \E w : Wakes(w) /\ pc' = [w EXCEPT ![f] = "done"]
      BY <2>7, WokenWakes DEF RefreshReplaces
    <3> QED BY <2>7, <3>1 DEF RefreshReplaces, Wakes, Actors
  <2>8. CASE RefreshCancelled(f)
    BY <2>8 DEF RefreshCancelled, Actors
  <2> QED BY <1>2, <2>1, <2>2, <2>3, <2>4, <2>5, <2>6, <2>7, <2>8 DEF RefreshStep
<1>3. ASSUME NEW a \in Actors, Compile(a) PROVE Unmade(x)
  BY <1>3 DEF Compile, Actors
<1>4. ASSUME NEW a \in Actors, TimerFires(a) PROVE Unmade(x)
  BY <1>4 DEF TimerFires, Actors
<1>5. ASSUME NEW a \in Actors, NEW r \in Runs, WorkerStep(a, r) PROVE Unmade(x)
  <2>1. CASE WorkerCompiles(a, r)
    BY <2>1 DEF WorkerCompiles, Actors
  <2>2. CASE WorkerFindsReplacement(a, r)
    BY <2>2 DEF WorkerFindsReplacement, Actors
  <2>3. CASE WorkerFinishes(a, r)
    <3>1. Wakes(pc')
      BY <2>3, WokenWakes DEF WorkerFinishes
    <3> QED BY <2>3, <3>1 DEF WorkerFinishes, Wakes, Actors
  <2> QED BY <1>5, <2>1, <2>2, <2>3 DEF WorkerStep
<1>6. CASE RunRefresh
  BY <1>6 DEF RunRefresh, Actors
<1>7. CASE RunRefreshReturns
  BY <1>7 DEF RunRefreshReturns, Actors
<1>8. CASE UpstreamChanges
  BY <1>8 DEF UpstreamChanges, Actors
<1>9. ASSUME NEW n \in Changes, NoticeIgnored(n) \/ RequestRefresh(n) \/ CallBack(n) PROVE Unmade(x)
  <2>1. CASE NoticeIgnored(n)
    BY <2>1 DEF NoticeIgnored, Actors
  <2>2. CASE RequestRefresh(n)
    BY <2>2 DEF RequestRefresh, Actors
  <2>3. CASE CallBack(n)
    BY <2>3 DEF CallBack, Actors
  <2> QED BY <1>9, <2>1, <2>2, <2>3
<1>10. CASE InvalidateComponent
  <2>1. Wakes(pc')
    BY <1>10, WokenWakes DEF InvalidateComponent
  <2> QED BY <1>10, <2>1 DEF InvalidateComponent, Wakes, Actors
<1>11. CASE Close
  <2>1. Wakes(pc')
    BY <1>11, WokenWakes DEF Close
  <2> QED BY <1>11, <2>1 DEF Close, Wakes, Actors
<1>12. CASE UNCHANGED vars
  BY <1>12 DEF vars, Actors
<1> QED BY <1>1, <1>2, <1>3, <1>4, <1>5, <1>6, <1>7, <1>8, <1>9, <1>10, <1>11, <1>12 DEF Next

LEMMA UnmadeStep == IndInv /\ [Next]_vars => UnmadeUntouched'
<1> SUFFICES ASSUME IndInv, [Next]_vars PROVE UnmadeUntouched'
  OBVIOUS
<1> SUFFICES ASSUME NEW x \in Actors, Unmade(x)' PROVE Untouched(x)'
  BY DEF UnmadeUntouched
<1>0. Unmade(x) /\ Untouched(x) /\ x # None
  BY UnmadeShrinks, RegistryAssumption DEF IndInv, UnmadeUntouched
<1>t. TypeOK'
  BY TypeStep
<1> USE <1>0, <1>t
    DEF IndInv, TypeOK, Untouched, actorVars, envVars, Goto, Leave, Return
<1>1. ASSUME NEW g \in Getters, GetStep(g) \/ GetCancelled(g) PROVE Untouched(x)'
  <2> g \in Actors
    BY DEF Actors
  <2>1. CASE GetFindsEntry(g)
    BY <2>1 DEF GetFindsEntry
  <2>2. CASE GetCreatesEntry(g)
    BY <2>2 DEF GetCreatesEntry, Unmade, Waits
  <2>3. CASE GetInstalls(g)
    BY <2>3 DEF GetInstalls, Unmade, Waits
  <2>4. CASE GetReadsEntry(g)
    BY <2>4, ReadsMove
  <2>5. CASE GetCancelledByClose(g)
    BY <2>5 DEF GetCancelledByClose
  <2>6. CASE GetAwaitsRefresh(g)
    BY <2>6 DEF GetAwaitsRefresh
  <2>7. CASE GetReadsRefreshed(g)
    BY <2>7, ReadsMove
  <2>8. CASE GetPublishes(g)
    BY <2>8 DEF GetPublishes, Unmade, Waits
  <2>9. CASE GetCancelled(g)
    BY <2>9 DEF GetCancelled
  <2> QED BY <1>1, <2>1, <2>2, <2>3, <2>4, <2>5, <2>6, <2>7, <2>8, <2>9 DEF GetStep
<1>2. ASSUME NEW f \in Refreshers, RefreshStep(f) \/ RefreshCancelled(f) PROVE Untouched(x)'
  <2> f \in Actors
    BY DEF Actors
  <2>1. CASE RefreshWithoutEntry(f)
    BY <2>1 DEF RefreshWithoutEntry
  <2>2. CASE RefreshWaits(f)
    BY <2>2 DEF RefreshWaits
  <2>3. CASE RefreshEntryReady(f)
    BY <2>3 DEF RefreshEntryReady
  <2>4. CASE RefreshMarksStale(f)
    BY <2>4 DEF RefreshMarksStale
  <2>5. CASE RefreshFinishes(f)
    BY <2>5 DEF RefreshFinishes
  <2>6. CASE RefreshFails(f)
    BY <2>6 DEF RefreshFails
  <2>7. CASE RefreshReplaces(f)
    <3>1. \E w \in [Actors -> GetLabels \cup RefreshLabels] :
             pc' = [w EXCEPT ![f] = "done"]
      BY <2>7, WokenWakes DEF RefreshReplaces, Wakes
    <3>2. x # f
      BY <3>1, RegistryAssumption DEF Unmade, Actors
    <3> QED BY <2>7, <3>2 DEF RefreshReplaces
  <2>8. CASE RefreshCancelled(f)
    BY <2>8 DEF RefreshCancelled
  <2> QED BY <1>2, <2>1, <2>2, <2>3, <2>4, <2>5, <2>6, <2>7, <2>8 DEF RefreshStep
<1>3. ASSUME NEW a \in Actors, Compile(a) PROVE Untouched(x)'
  BY <1>3 DEF Compile
<1>4. ASSUME NEW a \in Actors, TimerFires(a) PROVE Untouched(x)'
  <2>1. a # x
    BY <1>4 DEF TimerFires, NewEntry
  <2> QED BY <1>4, <2>1 DEF TimerFires
<1>5. ASSUME NEW a \in Actors, NEW r \in Runs, WorkerStep(a, r) PROVE Untouched(x)'
  <2>1. CASE WorkerCompiles(a, r)
    BY <2>1 DEF WorkerCompiles
  <2>2. CASE WorkerFindsReplacement(a, r)
    BY <2>2 DEF WorkerFindsReplacement, WorkerEnds, IdleWorker
  <2>3. CASE WorkerFinishes(a, r)
    BY <2>3 DEF WorkerFinishes, WorkerEnds, IdleWorker
  <2> QED BY <1>5, <2>1, <2>2, <2>3 DEF WorkerStep
<1>6. CASE RunRefresh
  BY <1>6 DEF RunRefresh, CanRefresh
<1>7. CASE RunRefreshReturns
  BY <1>7 DEF RunRefreshReturns
<1>8. CASE UpstreamChanges
  BY <1>8 DEF UpstreamChanges
<1>9. ASSUME NEW n \in Changes, NoticeIgnored(n) \/ RequestRefresh(n) \/ CallBack(n) PROVE Untouched(x)'
  <2>1. CASE NoticeIgnored(n)
    BY <2>1 DEF NoticeIgnored
  <2>2. CASE RequestRefresh(n)
    BY <2>2 DEF RequestRefresh
  <2>3. CASE CallBack(n)
    BY <2>3 DEF CallBack
  <2> QED BY <1>9, <2>1, <2>2, <2>3
<1>10. CASE InvalidateComponent
  BY <1>10 DEF InvalidateComponent
<1>11. CASE Close
  BY <1>11 DEF Close
<1>12. CASE UNCHANGED vars
  BY <1>12 DEF vars
<1> QED BY <1>1, <1>2, <1>3, <1>4, <1>5, <1>6, <1>7, <1>8, <1>9, <1>10, <1>11, <1>12 DEF Next

----------------------------------------------------------------------------
\* The fields that finishRefresh leaves in an entry, and RequestRefresh.
Finishes(e, o) ==
    /\ \A b \in Actors : b # e => entries'[b] = entries[b]
    /\ entries'[e].ready = entries[e].ready
    /\ entries'[e].catalog =
          IF Succeeded(o) THEN CatalogOf(o) ELSE entries[e].catalog
    /\ entries'[e].err = IF Succeeded(o) THEN None ELSE entries[e].err
    /\ ~entries'[e].refreshing /\ ~entries'[e].pending
    /\ entries'[e].timer =
          IF entries[e].pending /\ ~closed THEN "armed" ELSE entries[e].timer
    /\ entries'[e].callbacks = entries[e].callbacks
    /\ config.toolSearch =>
          /\ entries'[e].stale <=> entries[e].pending \/ ~Succeeded(o)
          /\ entries'[e].refreshDone <=>
                entries[e].refreshDone /\ entries[e].pending
    /\ ~config.toolSearch =>
          /\ entries'[e].stale = entries[e].stale
          /\ entries'[e].refreshDone = entries[e].refreshDone

Notes(n) ==
    /\ \A b \in Actors : b # installed => entries'[b] = entries[b]
    /\ entries'[installed].ready = entries[installed].ready
    /\ entries'[installed].catalog = entries[installed].catalog
    /\ entries'[installed].err = entries[installed].err
    /\ entries'[installed].refreshing = entries[installed].refreshing
    /\ entries'[installed].pending <=>
          entries[installed].pending \/ entries[installed].refreshing
    /\ entries'[installed].timer =
          IF entries[installed].refreshing
          THEN entries[installed].timer ELSE "armed"
    /\ entries'[installed].callbacks = entries[installed].callbacks \cup {n}
    /\ entries'[installed].stale <=>
          entries[installed].stale \/ config.toolSearch
    /\ entries'[installed].refreshDone <=>
          entries[installed].refreshDone \/ config.toolSearch

LEMMA WorkerFinishesFields ==
    ASSUME IndInv, NEW a \in Actors, NEW r \in Runs, WorkerFinishes(a, r)
    PROVE  /\ Finishes(a, worker[a][r].found)
           /\ worker[a][r].found \in Outcomes
           /\ worker[a][r].found.kind # "pending"
<1>1. /\ entries[a] \in EntryRecords /\ worker[a][r].found \in Outcomes
      /\ worker[a][r].found.kind # "pending"
  BY DEF IndInv, TypeOK, WorkersFit, WorkerFinishes
<1>2. entries' = [entries EXCEPT ![a] =
                     FinishedEntry(entries[a], worker[a][r].found)]
  BY DEF IndInv, TypeOK, WorkerFinishes
<1> QED BY ZenonT(40), <1>1, <1>2, FinishedFields DEF IndInv, TypeOK, Finishes

LEMMA RefreshFinishesFields ==
    ASSUME IndInv, NEW f \in Refreshers, RefreshFinishes(f)
    PROVE  /\ at[f] \in Actors
           /\ Finishes(at[f], found[f])
           /\ found[f] \in Outcomes
           /\ found[f].kind # "pending"
<1>1. /\ at[f] \in Actors
      /\ entries[at[f]] \in EntryRecords /\ found[f] \in Outcomes
      /\ found[f].kind # "pending"
  BY DEF IndInv, TypeOK, LocalsFit, RefreshFinishes, Actors
<1>2. entries' = [entries EXCEPT ![at[f]] =
                     FinishedEntry(entries[at[f]], found[f])]
  BY DEF IndInv, TypeOK, RefreshFinishes
<1> QED BY ZenonT(40), <1>1, <1>2, FinishedFields DEF IndInv, TypeOK, Finishes

LEMMA RequestRefreshFields ==
    ASSUME IndInv, NEW n \in Changes, RequestRefresh(n)
    PROVE  installed \in Actors /\ Notes(n)
<1>1. installed \in Actors /\ entries[installed] \in EntryRecords
  BY DEF IndInv, TypeOK, RequestRefresh
<1>2. entries' = [entries EXCEPT ![installed] =
                     NotedEntry(entries[installed], n)]
  BY DEF IndInv, TypeOK, RequestRefresh
<1> QED BY ZenonT(40), <1>1, <1>2, NotedFields DEF IndInv, TypeOK, Notes


\* What the cache holds (Registry.Get, publish, Refresh, finishRefresh).
LEMMA InstalledStep == IndInv /\ [Next]_vars => InstalledFits'
<1> SUFFICES ASSUME IndInv, [Next]_vars PROVE InstalledFits'
  OBVIOUS
<1>t. TypeOK'
  BY TypeStep
<1>0. Getters \cap Refreshers = {} /\ None \notin Actors
  BY RegistryAssumption
<1> USE <1>t, <1>0
    DEF IndInv, TypeOK, InstalledFits, actorVars, envVars, Goto, Leave, Return
<1>1. ASSUME NEW g \in Getters, GetStep(g) \/ GetCancelled(g) PROVE InstalledFits'
  <2> g \in Actors
    BY DEF Actors
  <2>1. CASE GetFindsEntry(g)
    BY <2>1 DEF GetFindsEntry
  <2>2. CASE GetCreatesEntry(g)
    <3>1. entries[g] = NewEntry
      BY <2>2 DEF GetCreatesEntry, UnmadeUntouched, Unmade, Untouched, Waits
    <3>2. ~entries[g].ready
      BY <3>1 DEF NewEntry
    <3> QED BY <2>2, <3>2 DEF GetCreatesEntry
  <2>3. CASE GetInstalls(g)
    <3>1. found[g] \in Outcomes /\ found[g] # None
      BY <2>3 DEF GetInstalls, LocalsFit
    <3>2. installed' = g => found[g].kind = "ready"
      BY <2>3 DEF GetInstalls, DropsEntry
    <3>3. installed' = g =>
             /\ entries'[g].err = None
             /\ entries'[g].catalog = CatalogOf(found[g])
             /\ CatalogOf(found[g]) # None
             /\ ~CatalogOf(found[g]).pending
      BY <2>3, <3>1, <3>2, CatalogsAndErrors, NilAssumption
         DEF GetInstalls, Succeeded
    <3>4. /\ \A b \in Actors : b # g => entries'[b] = entries[b]
          /\ entries'[g].pending = entries[g].pending
          /\ entries'[g].refreshing = entries[g].refreshing
          /\ entries'[g].refreshDone = entries[g].refreshDone
          /\ pc' = [pc EXCEPT ![g] = "done"] /\ config' = config
          /\ installed' = installed \/ installed' = None
      BY <2>3 DEF GetInstalls
    <3> QED BY <3>3, <3>4
  <2>4. CASE GetReadsEntry(g)
    <3>1. /\ pc[g] # "done" /\ \E l \in {"compileOwn", "done"} : pc' = [pc EXCEPT ![g] = l]
          /\ UNCHANGED <<config, installed, entries>>
      BY <2>4, ReadsMove
    <3> QED BY <3>1
  <2>5. CASE GetCancelledByClose(g)
    BY <2>5 DEF GetCancelledByClose
  <2>6. CASE GetAwaitsRefresh(g)
    <3>1. /\ config.toolSearch /\ config' = config /\ installed' = installed
          /\ pc' = [pc EXCEPT ![g] = "waitRefresh"] /\ pc[g] # "done"
          /\ \A b \in Actors :
             /\ entries'[b].ready = entries[b].ready
             /\ entries'[b].pending = entries[b].pending
             /\ entries'[b].refreshing = entries[b].refreshing
             /\ entries'[b].err = entries[b].err
             /\ entries'[b].catalog = entries[b].catalog
      BY <2>6 DEF GetAwaitsRefresh, EntryRecords
    <3> QED BY <3>1
  <2>7. CASE GetReadsRefreshed(g)
    <3>1. /\ pc[g] # "done" /\ \E l \in {"compileOwn", "done"} : pc' = [pc EXCEPT ![g] = l]
          /\ UNCHANGED <<config, installed, entries>>
      BY <2>7, ReadsMove
    <3> QED BY <3>1
  <2>8. CASE GetPublishes(g)
    <3>1. CASE installed' = g /\ entries' = [entries EXCEPT ![g] = ReadyEntry(found[g])]
               /\ found[g].kind = "ready"
      <4>1. found[g] \in Outcomes /\ found[g] # None
        BY <2>8 DEF GetPublishes, LocalsFit
      <4>2. CatalogOf(found[g]) # None /\ ~CatalogOf(found[g]).pending
        BY <3>1, <4>1, CatalogsAndErrors, NilAssumption
      <4> QED BY <2>8, <3>1, <4>1, <4>2, NewAndReadyEntries DEF GetPublishes
    <3>2. CASE UNCHANGED <<installed, entries>>
      BY <2>8, <3>2 DEF GetPublishes
    <3> QED BY <2>8, <3>1, <3>2 DEF GetPublishes
  <2>9. CASE GetCancelled(g)
    BY <2>9 DEF GetCancelled
  <2> QED BY <1>1, <2>1, <2>2, <2>3, <2>4, <2>5, <2>6, <2>7, <2>8, <2>9 DEF GetStep
<1>2. ASSUME NEW f \in Refreshers, RefreshStep(f) \/ RefreshCancelled(f) PROVE InstalledFits'
  <2> f \in Actors
    BY DEF Actors
  <2>1. CASE RefreshWithoutEntry(f)
    BY <2>1 DEF RefreshWithoutEntry
  <2>2. CASE RefreshWaits(f)
    BY <2>2 DEF RefreshWaits
  <2>3. CASE RefreshEntryReady(f)
    BY <2>3 DEF RefreshEntryReady
  <2>4. CASE RefreshMarksStale(f)
    BY <2>4 DEF RefreshMarksStale, LocalsFit, EntryRecords, Actors
  <2>5. CASE RefreshFinishes(f)
    <3>1. Finishes(at[f], found[f]) /\ at[f] \in Actors /\ found[f] \in Outcomes
          /\ found[f].kind # "pending"
      BY <2>5, RefreshFinishesFields
    <3>2. CatalogOf(found[f]) # None /\ ~CatalogOf(found[f]).pending
      BY <3>1, CatalogsAndErrors, NilAssumption
    <3>3. \E w : Wakes(w) /\ pc' = [w EXCEPT ![f] = "done"]
      BY <2>5, <3>1, WokenWakes DEF RefreshFinishes
    <3>4. \A b \in Actors : pc[b] = "done" => pc'[b] = "done"
      BY <3>3 DEF Wakes
    <3> QED BY <2>5, <3>1, <3>2, <3>4 DEF RefreshFinishes, Finishes
  <2>6. CASE RefreshFails(f)
    <3>1. \A b \in Actors :
             /\ entries'[b].ready = entries[b].ready
             /\ entries'[b].pending = entries[b].pending
             /\ entries'[b].refreshing = entries[b].refreshing
             /\ entries'[b].refreshDone = entries[b].refreshDone
             /\ entries'[b].err = entries[b].err
             /\ entries'[b].catalog = entries[b].catalog
      BY <2>6 DEF RefreshFails, EntryRecords
    <3> QED BY <2>6, <3>1 DEF RefreshFails, Actors
  <2>7. CASE RefreshReplaces(f)
    <3>1. found[f] \in Outcomes /\ found[f].kind # "pending"
      BY <2>7 DEF RefreshReplaces, LocalsFit
    <3>2. CatalogOf(found[f]) # None /\ ~CatalogOf(found[f]).pending
      BY <3>1, CatalogsAndErrors, NilAssumption
    <3>3. \E w : Wakes(w) /\ pc' = [w EXCEPT ![f] = "done"]
      BY <2>7, WokenWakes DEF RefreshReplaces
    <3>4. pc'[f] = "done" /\ \A b \in Actors : pc[b] = "done" => pc'[b] = "done"
      BY <3>3 DEF Wakes
    <3>5. /\ entries'[f] = ReadyEntry(found[f])
          /\ installed' = f /\ config' = config
          /\ \A b \in Actors : b # f =>
                /\ entries'[b].ready = entries[b].ready
                /\ entries'[b].pending = entries[b].pending
                /\ entries'[b].refreshing = entries[b].refreshing
                /\ entries'[b].refreshDone => entries[b].refreshDone
      BY <2>7 DEF RefreshReplaces, EntryRecords
    <3>6. /\ entries'[f].ready /\ entries'[f].err = None
          /\ entries'[f].catalog = CatalogOf(found[f])
          /\ ~entries'[f].pending /\ ~entries'[f].refreshDone
      BY <3>1, <3>5, NewAndReadyEntries
    <3> QED BY <3>2, <3>4, <3>5, <3>6
  <2>8. CASE RefreshCancelled(f)
    BY <2>8 DEF RefreshCancelled
  <2> QED BY <1>2, <2>1, <2>2, <2>3, <2>4, <2>5, <2>6, <2>7, <2>8 DEF RefreshStep
<1>3. ASSUME NEW a \in Actors, Compile(a) PROVE InstalledFits'
  <2>1. pc[a] # "done" /\ \A b \in Actors : b # a => pc'[b] = pc[b]
    BY <1>3 DEF Compile
  <2> QED BY <1>3, <2>1 DEF Compile
<1>4. ASSUME NEW a \in Actors, TimerFires(a) PROVE InstalledFits'
  BY <1>4 DEF TimerFires, EntryRecords
<1>5. ASSUME NEW a \in Actors, NEW r \in Runs, WorkerStep(a, r) PROVE InstalledFits'
  <2>1. CASE WorkerCompiles(a, r)
    BY <2>1 DEF WorkerCompiles
  <2>2. CASE WorkerFindsReplacement(a, r)
    BY <2>2 DEF WorkerFindsReplacement, WorkerEnds
  <2>3. CASE WorkerFinishes(a, r)
    <3>1. Finishes(a, worker[a][r].found) /\ worker[a][r].found \in Outcomes
          /\ worker[a][r].found.kind # "pending"
      BY <2>3, WorkerFinishesFields
    <3>2. CatalogOf(worker[a][r].found) # None
          /\ ~CatalogOf(worker[a][r].found).pending
      BY <3>1, CatalogsAndErrors, NilAssumption
    <3>3. Wakes(pc')
      BY <2>3, WokenWakes DEF WorkerFinishes
    <3> QED BY SMTT(30), <2>3, <3>1, <3>2, <3>3 DEF WorkerFinishes, Finishes, Wakes
  <2> QED BY <1>5, <2>1, <2>2, <2>3 DEF WorkerStep
<1>6. CASE RunRefresh
  BY <1>6 DEF RunRefresh, CanRefresh, EntryRecords
<1>7. CASE RunRefreshReturns
  BY <1>7 DEF RunRefreshReturns
<1>8. CASE UpstreamChanges
  BY <1>8 DEF UpstreamChanges
<1>9. ASSUME NEW n \in Changes, NoticeIgnored(n) \/ RequestRefresh(n) \/ CallBack(n) PROVE InstalledFits'
  <2>1. CASE NoticeIgnored(n)
    BY <2>1 DEF NoticeIgnored
  <2>2. CASE RequestRefresh(n)
    <3>1. installed \in Actors /\ Notes(n)
      BY <2>2, RequestRefreshFields
    <3> QED BY <2>2, <3>1 DEF RequestRefresh, Notes
  <2>3. CASE CallBack(n)
    BY <2>3 DEF CallBack
  <2> QED BY <1>9, <2>1, <2>2, <2>3
<1>10. CASE InvalidateComponent
  <2>1. Wakes(pc')
    BY <1>10, WokenWakes DEF InvalidateComponent
  <2>2. \A b \in Actors : pc[b] = "done" => pc'[b] = "done"
    BY <2>1 DEF Wakes
  <2> QED BY <1>10, <2>2 DEF InvalidateComponent, EntryRecords
<1>11. CASE Close
  <2>1. Wakes(pc')
    BY <1>11, WokenWakes DEF Close
  <2>2. \A b \in Actors : pc[b] = "done" => pc'[b] = "done"
    BY <2>1 DEF Wakes
  <2>3. /\ installed' = installed /\ config' = config
        /\ \A b \in Actors :
           /\ entries'[b].ready = entries[b].ready
           /\ entries'[b].pending = entries[b].pending
           /\ entries'[b].refreshing = entries[b].refreshing
           /\ entries'[b].refreshDone => entries[b].refreshDone
           /\ entries'[b].err = entries[b].err
           /\ entries'[b].catalog = entries[b].catalog
    BY <1>11, CloseKeeps DEF Close
  <2> QED BY <2>2, <2>3
<1>12. CASE UNCHANGED vars
  BY <1>12 DEF vars
<1> QED BY <1>1, <1>2, <1>3, <1>4, <1>5, <1>6, <1>7, <1>8, <1>9, <1>10, <1>11, <1>12 DEF Next

\* A result that asks to authorize is the request's own (Registry.Get).
LEMMA CredentialStep == IndInv /\ [Next]_vars => CredentialOutcomesStayRequestLocal'
<1> SUFFICES ASSUME IndInv, [Next]_vars PROVE CredentialOutcomesStayRequestLocal'
  OBVIOUS
<1> USE DEF IndInv, TypeOK, CredentialOutcomesStayRequestLocal, actorVars, envVars,
            Goto, Leave, Return
<1>1. ASSUME NEW g \in Getters, GetStep(g) \/ GetCancelled(g) PROVE CredentialOutcomesStayRequestLocal'
  <2> g \in Actors
    BY DEF Actors
  <2>1. CASE GetFindsEntry(g)
    BY <2>1 DEF GetFindsEntry
  <2>2. CASE GetCreatesEntry(g)
    BY <2>2 DEF GetCreatesEntry
  <2>3. CASE GetInstalls(g)
    <3>1. found[g] \in Outcomes
      BY <2>3 DEF GetInstalls, LocalsFit
    <3>2. Answer(found[g]).own
      BY <3>1, AnswersFit
    <3> QED BY <2>3, <3>2 DEF GetInstalls, Actors
  <2>4. CASE GetReadsEntry(g)
    <3>1. \/ result' = result
          \/ \E x \in Results :
                /\ result' = [result EXCEPT ![g] = x]
                /\ ~x.pending /\ x.kind # "auth"
      BY <2>4, ReadsMove
    <3> QED BY <3>1 DEF Actors
  <2>5. CASE GetCancelledByClose(g)
    BY <2>5, AnswersFit DEF GetCancelledByClose, Actors
  <2>6. CASE GetAwaitsRefresh(g)
    BY <2>6 DEF GetAwaitsRefresh
  <2>7. CASE GetReadsRefreshed(g)
    <3>1. \/ result' = result
          \/ \E x \in Results :
                /\ result' = [result EXCEPT ![g] = x]
                /\ ~x.pending /\ x.kind # "auth"
      BY <2>7, ReadsMove
    <3> QED BY <3>1 DEF Actors
  <2>8. CASE GetPublishes(g)
    <3>1. found[g] \in Outcomes
      BY <2>8 DEF GetPublishes, LocalsFit
    <3>2. Answer(found[g]).own
      BY <3>1, AnswersFit
    <3> QED BY <2>8, <3>2 DEF GetPublishes, Actors
  <2>9. CASE GetCancelled(g)
    BY <2>9, AnswersFit DEF GetCancelled, Actors
  <2> QED BY <1>1, <2>1, <2>2, <2>3, <2>4, <2>5, <2>6, <2>7, <2>8, <2>9 DEF GetStep
<1>2. ASSUME NEW f \in Refreshers, RefreshStep(f) \/ RefreshCancelled(f) PROVE CredentialOutcomesStayRequestLocal'
  <2> f \in Actors
    BY DEF Actors
  <2>1. CASE RefreshWithoutEntry(f)
    BY <2>1 DEF RefreshWithoutEntry
  <2>2. CASE RefreshWaits(f)
    BY <2>2 DEF RefreshWaits
  <2>3. CASE RefreshEntryReady(f)
    BY <2>3 DEF RefreshEntryReady
  <2>4. CASE RefreshMarksStale(f)
    BY <2>4 DEF RefreshMarksStale
  <2>5. CASE RefreshFinishes(f)
    BY <2>5 DEF RefreshFinishes
  <2>6. CASE RefreshFails(f)
    BY <2>6 DEF RefreshFails
  <2>7. CASE RefreshReplaces(f)
    BY <2>7 DEF RefreshReplaces
  <2>8. CASE RefreshCancelled(f)
    BY <2>8 DEF RefreshCancelled
  <2> QED BY <1>2, <2>1, <2>2, <2>3, <2>4, <2>5, <2>6, <2>7, <2>8 DEF RefreshStep
<1>3. ASSUME NEW a \in Actors, Compile(a) PROVE CredentialOutcomesStayRequestLocal'
  BY <1>3 DEF Compile
<1>4. ASSUME NEW a \in Actors, TimerFires(a) PROVE CredentialOutcomesStayRequestLocal'
  BY <1>4 DEF TimerFires
<1>5. ASSUME NEW a \in Actors, NEW r \in Runs, WorkerStep(a, r) PROVE CredentialOutcomesStayRequestLocal'
  <2>1. CASE WorkerCompiles(a, r)
    BY <2>1 DEF WorkerCompiles
  <2>2. CASE WorkerFindsReplacement(a, r)
    BY <2>2 DEF WorkerFindsReplacement, WorkerEnds
  <2>3. CASE WorkerFinishes(a, r)
    BY <2>3 DEF WorkerFinishes
  <2> QED BY <1>5, <2>1, <2>2, <2>3 DEF WorkerStep
<1>6. CASE RunRefresh
  BY <1>6 DEF RunRefresh
<1>7. CASE RunRefreshReturns
  BY <1>7 DEF RunRefreshReturns
<1>8. CASE UpstreamChanges
  BY <1>8 DEF UpstreamChanges
<1>9. ASSUME NEW n \in Changes, NoticeIgnored(n) \/ RequestRefresh(n) \/ CallBack(n) PROVE CredentialOutcomesStayRequestLocal'
  <2>1. CASE NoticeIgnored(n)
    BY <2>1 DEF NoticeIgnored
  <2>2. CASE RequestRefresh(n)
    BY <2>2 DEF RequestRefresh
  <2>3. CASE CallBack(n)
    BY <2>3 DEF CallBack
  <2> QED BY <1>9, <2>1, <2>2, <2>3
<1>10. CASE InvalidateComponent
  BY <1>10 DEF InvalidateComponent
<1>11. CASE Close
  BY <1>11 DEF Close
<1>12. CASE UNCHANGED vars
  BY <1>12 DEF vars
<1> QED BY <1>1, <1>2, <1>3, <1>4, <1>5, <1>6, <1>7, <1>8, <1>9, <1>10, <1>11, <1>12 DEF Next

----------------------------------------------------------------------------
\* Where notifications are (RequestRefresh, runRefresh): steps that leave the
\* lists of callbacks alone, ...
Undisturbed ==
    /\ notices' = notices /\ upstream <= upstream'
    /\ \A e \in Actors :
          /\ entries'[e].callbacks = entries[e].callbacks
          /\ entries[e].ready => entries'[e].ready
          /\ \A r \in Runs : worker'[e][r].callbacks = worker[e][r].callbacks

LEMMA UndisturbedKeeps ==
    ASSUME IndInv, TypeOK', Undisturbed
    PROVE  NoticesKept'
<1>1. \A n \in Changes : n \in Nat
  BY DEF Changes
<1>2. upstream \in Nat /\ upstream' \in Nat /\ NoticesKept
  BY DEF IndInv, TypeOK, Versions
<1>5. \A n \in Changes : notices[n].entry \in Actors \cup {None}
  BY DEF IndInv, TypeOK
<1>3. ASSUME NEW n \in Changes PROVE NoticeFits(n)'
  <2>1. NoticeFits(n)
    BY <1>2 DEF NoticesKept
  <2> QED BY <1>1, <1>2, <1>5, <2>1 DEF NoticeFits, Undisturbed
<1>4. ASSUME NEW e \in Actors PROVE CallbacksFit(e)' /\ RunsFit(e)'
  <2>1. CallbacksFit(e) /\ RunsFit(e)
    BY <1>2 DEF NoticesKept
  <2> QED BY <2>1 DEF CallbacksFit, RunsFit, Undisturbed
<1> QED BY <1>3, <1>4 DEF NoticesKept

\* ... and the others.
LEMMA NoticesStep == IndInv /\ [Next]_vars => NoticesKept'
<1> SUFFICES ASSUME IndInv, [Next]_vars PROVE NoticesKept'
  OBVIOUS
<1>t. TypeOK'
  BY TypeStep
<1>u. upstream \in Nat
  BY DEF IndInv, TypeOK, Versions
<1>k. Undisturbed => NoticesKept'
  BY <1>t, UndisturbedKeeps
<1>i. /\ NoticesKept /\ WorkersFit /\ UnmadeUntouched /\ LocalsFit
      /\ TypeOK
  BY DEF IndInv
<1>n. \A n \in Changes : notices[n].entry \in Actors \cup {None}
  BY <1>i DEF TypeOK
<1>s. \A e \in Actors :
         /\ entries[e].callbacks \subseteq Changes
         /\ \A r \in Runs : worker[e][r].callbacks \subseteq Changes
  BY <1>i DEF TypeOK, EntryRecords
<1> USE DEF actorVars, envVars, Goto, Leave, Return
<1>1. ASSUME NEW g \in Getters, GetStep(g) \/ GetCancelled(g) PROVE NoticesKept'
  <2> g \in Actors
    BY DEF Actors
  <2>1. CASE GetFindsEntry(g)
    <3>1. Undisturbed
      BY <2>1, <1>i, <1>t, <1>u DEF GetFindsEntry, Undisturbed, EntryRecords, TypeOK
    <3> QED BY <3>1, <1>k
  <2>2. CASE GetCreatesEntry(g)
    <3>1. Undisturbed
      BY <2>2, <1>i, <1>t, <1>u DEF GetCreatesEntry, Undisturbed, EntryRecords, TypeOK
    <3> QED BY <3>1, <1>k
  <2>3. CASE GetInstalls(g)
    <3>1. Undisturbed
      BY <2>3, <1>i, <1>t, <1>u DEF GetInstalls, Undisturbed, EntryRecords, TypeOK
    <3> QED BY <3>1, <1>k
  <2>4. CASE GetReadsEntry(g)
    <3>1. UNCHANGED <<upstream, entries, worker, notices>>
      BY <2>4, ReadsMove
    <3>2. Undisturbed
      BY <3>1, <1>u DEF Undisturbed
    <3> QED BY <3>2, <1>k
  <2>5. CASE GetCancelledByClose(g)
    <3>1. Undisturbed
      BY <2>5, <1>i, <1>t, <1>u DEF GetCancelledByClose, Undisturbed, EntryRecords, TypeOK
    <3> QED BY <3>1, <1>k
  <2>6. CASE GetAwaitsRefresh(g)
    <3>1. Undisturbed
      BY <2>6, <1>i, <1>t, <1>u DEF GetAwaitsRefresh, Undisturbed, EntryRecords, TypeOK
    <3> QED BY <3>1, <1>k
  <2>7. CASE GetReadsRefreshed(g)
    <3>1. UNCHANGED <<upstream, entries, worker, notices>>
      BY <2>7, ReadsMove
    <3>2. Undisturbed
      BY <3>1, <1>u DEF Undisturbed
    <3> QED BY <3>2, <1>k
  <2>8. CASE GetPublishes(g)
    <3>1. Untouched(g)
      BY <2>8, <1>i, <1>t DEF GetPublishes, UnmadeUntouched, Unmade, Actors, TypeOK
    <3>2. entries[g].callbacks = {} /\ ~entries[g].ready
      BY <3>1 DEF Untouched, NewEntry
    <3>3. found[g] \in Outcomes
      BY <2>8, <1>i, <1>t DEF GetPublishes, LocalsFit, Actors, TypeOK
    <3>4. ReadyEntry(found[g]).callbacks = {} /\ ReadyEntry(found[g]).ready
      BY <3>3, NewAndReadyEntries
    <3>5. Undisturbed
      <4>1. UNCHANGED <<upstream, worker, notices>>
        BY <2>8, <1>i, <1>t DEF GetPublishes, TypeOK
      <4>2. /\ entries'[g] = ReadyEntry(found[g]) \/ entries'[g] = entries[g]
            /\ \A e \in Actors : e # g => entries'[e] = entries[e]
        BY <2>8, <1>i, <1>t DEF GetPublishes, TypeOK
      <4> QED BY SMTT(30), <3>2, <3>4, <4>1, <4>2, <1>u DEF Undisturbed
    <3> QED BY <3>5, <1>k
  <2>9. CASE GetCancelled(g)
    <3>1. Undisturbed
      BY <2>9, <1>i, <1>t, <1>u DEF GetCancelled, Undisturbed, EntryRecords, TypeOK
    <3> QED BY <3>1, <1>k
  <2> QED BY <1>1, <2>1, <2>2, <2>3, <2>4, <2>5, <2>6, <2>7, <2>8, <2>9 DEF GetStep
<1>2. ASSUME NEW f \in Refreshers, RefreshStep(f) \/ RefreshCancelled(f) PROVE NoticesKept'
  <2> f \in Actors
    BY DEF Actors
  <2>1. CASE RefreshWithoutEntry(f)
    <3>1. Undisturbed
      BY <2>1, <1>i, <1>t, <1>u DEF RefreshWithoutEntry, Undisturbed, EntryRecords, TypeOK
    <3> QED BY <3>1, <1>k
  <2>2. CASE RefreshWaits(f)
    <3>1. Undisturbed
      BY <2>2, <1>i, <1>t, <1>u DEF RefreshWaits, Undisturbed, EntryRecords, TypeOK
    <3> QED BY <3>1, <1>k
  <2>3. CASE RefreshEntryReady(f)
    <3>1. Undisturbed
      BY <2>3, <1>i, <1>t, <1>u DEF RefreshEntryReady, Undisturbed, EntryRecords, TypeOK
    <3> QED BY <3>1, <1>k
  <2>4. CASE RefreshMarksStale(f)
    <3>1. Undisturbed
      BY <2>4, <1>i, <1>t, <1>u DEF RefreshMarksStale, Undisturbed, EntryRecords, TypeOK
    <3> QED BY <3>1, <1>k
  <2>5. CASE RefreshFinishes(f)
    <3>1. Finishes(at[f], found[f])
      BY <2>5, RefreshFinishesFields
    <3>2. Undisturbed
      BY <2>5, <1>i, <1>t, <3>1, <1>u DEF RefreshFinishes, Finishes, Undisturbed, TypeOK
    <3> QED BY <3>2, <1>k
  <2>6. CASE RefreshFails(f)
    <3>1. Undisturbed
      BY <2>6, <1>i, <1>t, <1>u DEF RefreshFails, Undisturbed, EntryRecords, TypeOK
    <3> QED BY <3>1, <1>k
  <2>7. CASE RefreshReplaces(f)
    <3>1. Untouched(f)
      BY <2>7, <1>i, <1>t, RegistryAssumption DEF RefreshReplaces, UnmadeUntouched, Unmade, Actors, TypeOK
    <3>2. entries[f].callbacks = {} /\ ~entries[f].ready
      BY <3>1 DEF Untouched, NewEntry
    <3>3. found[f] \in Outcomes
      BY <2>7, <1>i, <1>t DEF RefreshReplaces, LocalsFit, Actors, TypeOK
    <3>4. ReadyEntry(found[f]).callbacks = {} /\ ReadyEntry(found[f]).ready
      BY <3>3, NewAndReadyEntries
    <3>5. Undisturbed
      <4>1. UNCHANGED <<upstream, worker, notices>>
        BY <2>7, <1>i, <1>t DEF RefreshReplaces, TypeOK
      <4>2. /\ entries'[f] = ReadyEntry(found[f])
            /\ \A e \in Actors : e # f =>
                  /\ entries'[e].callbacks = entries[e].callbacks
                  /\ entries'[e].ready = entries[e].ready
        BY <2>7, <1>i, <1>t DEF RefreshReplaces, EntryRecords, Actors, TypeOK
      <4>3. entries'[f].callbacks = entries[f].callbacks /\ entries'[f].ready
        BY <3>2, <3>4, <4>2
      <4>4. \A e \in Actors : /\ entries'[e].callbacks = entries[e].callbacks
                              /\ entries[e].ready => entries'[e].ready
        BY <4>2, <4>3
      <4> QED BY <4>1, <4>4, <1>u DEF Undisturbed
    <3> QED BY <3>5, <1>k
  <2>8. CASE RefreshCancelled(f)
    <3>1. Undisturbed
      BY <2>8, <1>i, <1>t, <1>u DEF RefreshCancelled, Undisturbed, EntryRecords, TypeOK
    <3> QED BY <3>1, <1>k
  <2> QED BY <1>2, <2>1, <2>2, <2>3, <2>4, <2>5, <2>6, <2>7, <2>8 DEF RefreshStep
<1>3. ASSUME NEW a \in Actors, Compile(a) PROVE NoticesKept'
  <2>1. Undisturbed
    BY <1>3, <1>i, <1>t, <1>u DEF Compile, Undisturbed, EntryRecords, TypeOK
  <2> QED BY <2>1, <1>k
<1>4. ASSUME NEW a \in Actors, TimerFires(a) PROVE NoticesKept'
  <2>1. Undisturbed
    BY <1>4, <1>i, <1>t, <1>u DEF TimerFires, Undisturbed, EntryRecords, TypeOK
  <2> QED BY <2>1, <1>k
<1>5. ASSUME NEW a \in Actors, NEW r \in Runs, WorkerStep(a, r) PROVE NoticesKept'
  <2>1. CASE WorkerCompiles(a, r)
    <3>1. Undisturbed
      BY <2>1, <1>i, <1>t, <1>u DEF WorkerCompiles, Undisturbed, TypeOK
    <3> QED BY <3>1, <1>k
  <2>2. CASE WorkerFindsReplacement(a, r)
    <3>1. WorkerEnds(a, r) /\ UNCHANGED <<upstream, entries>>
      BY <2>2, <1>i, <1>t DEF WorkerFindsReplacement, TypeOK
    <3>2. /\ worker'[a][r].callbacks = {}
          /\ \A e \in Actors : \A q \in Runs :
                e # a \/ q # r => worker'[e][q] = worker[e][q]
          /\ \A m \in Changes :
                /\ notices'[m].entry = notices[m].entry
                /\ notices'[m].whenReady = notices[m].whenReady
                /\ m \notin worker[a][r].callbacks => notices'[m] = notices[m]
                /\ m \in worker[a][r].callbacks =>
                      notices'[m].state \in {"succeeded", "failed"}
      BY <3>1, <1>i DEF WorkerEnds, IdleWorker, TypeOK
    <3>3. RunsFit(a) /\ CallbacksFit(a)
      BY <1>i DEF NoticesKept
    <3>4. /\ \A m \in worker[a][r].callbacks : /\ notices[m].entry = a
                                               /\ m \notin entries[a].callbacks
          /\ \A q \in Runs : q # r =>
                \A m \in worker[a][r].callbacks : m \notin worker[a][q].callbacks
      BY <3>3 DEF RunsFit, CallbacksFit
    <3>a. ASSUME NEW m \in Changes PROVE NoticeFits(m)'
      <4>1. NoticeFits(m)
        BY <1>i DEF NoticesKept
      <4> QED BY <3>1, <3>2, <3>4, <4>1, <1>n DEF NoticeFits
    <3>b. ASSUME NEW e \in Actors PROVE CallbacksFit(e)' /\ RunsFit(e)'
      <4>1. CallbacksFit(e) /\ RunsFit(e)
        BY <1>i DEF NoticesKept
      <4> QED BY <3>1, <3>2, <3>4, <4>1, <1>s DEF CallbacksFit, RunsFit
    <3> QED BY <3>a, <3>b DEF NoticesKept
  <2>3. CASE WorkerFinishes(a, r)
    <3>1. WorkerEnds(a, r) /\ upstream' = upstream
      BY <2>3, <1>i, <1>t DEF WorkerFinishes, TypeOK
    <3>2. Finishes(a, worker[a][r].found)
      BY <2>3, WorkerFinishesFields
    <3>3. \A e \in Actors : /\ entries'[e].callbacks = entries[e].callbacks
                            /\ entries'[e].ready = entries[e].ready
      BY <3>2 DEF Finishes
    <3>5. /\ worker'[a][r].callbacks = {}
          /\ \A e \in Actors : \A q \in Runs :
                e # a \/ q # r => worker'[e][q] = worker[e][q]
          /\ \A m \in Changes :
                /\ notices'[m].entry = notices[m].entry
                /\ notices'[m].whenReady = notices[m].whenReady
                /\ m \notin worker[a][r].callbacks => notices'[m] = notices[m]
                /\ m \in worker[a][r].callbacks =>
                      notices'[m].state \in {"succeeded", "failed"}
      BY <3>1, <1>i DEF WorkerEnds, IdleWorker, TypeOK
    <3>6. RunsFit(a) /\ CallbacksFit(a)
      BY <1>i DEF NoticesKept
    <3>4. /\ \A m \in worker[a][r].callbacks : /\ notices[m].entry = a
                                               /\ m \notin entries[a].callbacks
          /\ \A q \in Runs : q # r =>
                \A m \in worker[a][r].callbacks : m \notin worker[a][q].callbacks
      BY <3>6 DEF RunsFit, CallbacksFit
    <3>a. ASSUME NEW m \in Changes PROVE NoticeFits(m)'
      <4>1. NoticeFits(m)
        BY <1>i DEF NoticesKept
      <4> QED BY <3>1, <3>3, <3>4, <3>5, <4>1, <1>n DEF NoticeFits
    <3>b. ASSUME NEW e \in Actors PROVE CallbacksFit(e)' /\ RunsFit(e)'
      <4>1. CallbacksFit(e) /\ RunsFit(e)
        BY <1>i DEF NoticesKept
      <4> QED BY <3>1, <3>3, <3>4, <3>5, <4>1, <1>s DEF CallbacksFit, RunsFit
    <3> QED BY <3>a, <3>b DEF NoticesKept
  <2> QED BY <1>5, <2>1, <2>2, <2>3 DEF WorkerStep
<1>6. CASE RunRefresh
  <2> DEFINE i == installed
  <2>1. i \in Actors
    BY <1>6, <1>i, <1>t DEF RunRefresh, CanRefresh, TypeOK
  <2>2. PICK r \in Runs :
           /\ worker[i][r].state = "idle"
           /\ worker' = [worker EXCEPT ![i] = [worker[i] EXCEPT ![r] =
                 [state |-> "compile", found |-> None,
                  callbacks |-> entries[i].callbacks]]]
    BY <1>6, <1>i, <1>t DEF RunRefresh, NextRun, TypeOK
  <2>3. worker[i][r].callbacks = {}
    BY <2>1, <2>2, <1>i DEF WorkersFit
  <2>4. /\ UNCHANGED <<upstream, notices>>
        /\ \A e \in Actors : entries'[e].ready = entries[e].ready
        /\ \A e \in Actors : e # i => entries'[e].callbacks = entries[e].callbacks
        /\ entries'[i].callbacks = {}
    BY <1>6, <1>i, <1>t, <2>1 DEF RunRefresh, EntryRecords, TypeOK
  <2>5. /\ worker'[i][r].callbacks = entries[i].callbacks
        /\ \A e \in Actors : \A q \in Runs :
              e # i \/ q # r => worker'[e][q].callbacks = worker[e][q].callbacks
    BY <2>1, <2>2, <1>i DEF TypeOK
  <2> HIDE DEF i
  <2>a. ASSUME NEW m \in Changes PROVE NoticeFits(m)'
    <3>1. NoticeFits(m)
      BY <1>i DEF NoticesKept
    <3> QED BY <2>1, <2>3, <2>4, <2>5, <3>1, <1>n DEF NoticeFits
  <2>b. ASSUME NEW e \in Actors PROVE CallbacksFit(e)' /\ RunsFit(e)'
    <3>1. CallbacksFit(e) /\ RunsFit(e)
      BY <1>i DEF NoticesKept
    <3> QED BY <2>1, <2>3, <2>4, <2>5, <3>1, <1>s DEF CallbacksFit, RunsFit
  <2> QED BY <2>a, <2>b DEF NoticesKept
<1>7. CASE RunRefreshReturns
  <2>1. Undisturbed
    BY <1>7, <1>i, <1>t, <1>u DEF RunRefreshReturns, Undisturbed, EntryRecords, TypeOK
  <2> QED BY <2>1, <1>k
<1>8. CASE UpstreamChanges
  <2>1. Undisturbed
    BY <1>8, <1>i, <1>t, <1>u DEF UpstreamChanges, Undisturbed, EntryRecords, TypeOK
  <2> QED BY <2>1, <1>k
<1>9. ASSUME NEW n \in Changes, NoticeIgnored(n) \/ RequestRefresh(n) \/ CallBack(n) PROVE NoticesKept'
  <2>1. CASE NoticeIgnored(n)
    <3>1. /\ notices' = [notices EXCEPT ![n].state = "ignored"]
          /\ notices[n].state = "new" /\ UNCHANGED <<upstream, entries, worker>>
      BY <2>1, <1>i, <1>t DEF NoticeIgnored, NoticeDue, TypeOK
    <3>a. ASSUME NEW m \in Changes PROVE NoticeFits(m)'
      <4>1. NoticeFits(m)
        BY <1>i DEF NoticesKept
      <4> QED BY <3>1, <4>1, <1>n DEF NoticeFits
    <3>b. ASSUME NEW e \in Actors PROVE CallbacksFit(e)' /\ RunsFit(e)'
      <4>1. CallbacksFit(e) /\ RunsFit(e)
        BY <1>i DEF NoticesKept
      <4> QED BY <3>1, <4>1, <1>s DEF CallbacksFit, RunsFit
    <3> QED BY <3>a, <3>b DEF NoticesKept
  <2>2. CASE RequestRefresh(n)
    <3> DEFINE i == installed
    <3>1. i \in Actors /\ Notes(n)
      BY <2>2, RequestRefreshFields
    <3>2. /\ notices' = [notices EXCEPT ![n] =
                [state |-> "queued", entry |-> i, whenReady |-> entries[i].ready]]
          /\ notices[n].state = "new" /\ n <= upstream
          /\ UNCHANGED <<upstream, worker>>
      BY <2>2, <1>i, <1>t DEF RequestRefresh, NoticeDue, TypeOK
    <3>3. /\ \A e \in Actors : e # i => entries'[e].callbacks = entries[e].callbacks
          /\ entries'[i].callbacks = entries[i].callbacks \cup {n}
          /\ \A e \in Actors : entries'[e].ready = entries[e].ready
      BY <3>1 DEF Notes
    <3>4. i # None
      BY <2>2, <1>i, <1>t DEF RequestRefresh, TypeOK
    <3> HIDE DEF i
    <3>5. NoticeFits(n) /\ n \in Changes
      BY <1>i DEF NoticesKept
    <3>6. notices[n].entry = None
      BY <3>2, <3>5 DEF NoticeFits
    <3>a. ASSUME NEW m \in Changes PROVE NoticeFits(m)'
      <4>1. NoticeFits(m)
        BY <1>i DEF NoticesKept
      <4> QED BY <3>1, <3>2, <3>3, <3>4, <3>6, <4>1, <1>n DEF NoticeFits
    <3>b. ASSUME NEW e \in Actors PROVE CallbacksFit(e)' /\ RunsFit(e)'
      <4>1. CallbacksFit(e) /\ RunsFit(e)
        BY <1>i DEF NoticesKept
      <4>2. n \notin entries[e].callbacks /\ \A r \in Runs : n \notin worker[e][r].callbacks
        BY <3>2, <4>1 DEF CallbacksFit, RunsFit
      <4>3. /\ notices'[n].state = "queued" /\ notices'[n].entry = i
            /\ \A m \in Changes : m # n => notices'[m] = notices[m]
        BY <3>2, <1>i DEF TypeOK
      <4>4. RunsFit(e)'
        BY <3>2, <4>1, <4>2, <4>3, <1>s DEF RunsFit
      <4>5. ASSUME NEW m \in entries'[e].callbacks
            PROVE  /\ notices'[m].state = "queued" /\ notices'[m].entry = e
                   /\ \A r \in Runs : m \notin worker'[e][r].callbacks
        <5>1. CASE m = n
          <6>1. e = i
            BY <3>3, <4>2, <5>1
          <6> QED BY <3>2, <4>2, <4>3, <5>1, <6>1
        <5>2. CASE m # n
          <6>1. m \in entries[e].callbacks
            BY <3>3, <5>2
          <6> QED BY <3>2, <4>1, <4>3, <5>2, <6>1, <1>s DEF CallbacksFit
        <5> QED BY <5>1, <5>2
      <4> QED BY <4>4, <4>5 DEF CallbacksFit
    <3> QED BY <3>a, <3>b DEF NoticesKept
  <2>3. CASE CallBack(n)
    <3>1. /\ notices' = [notices EXCEPT ![n].state = "announced"]
          /\ notices[n].state = "succeeded" /\ UNCHANGED <<upstream, entries, worker>>
      BY <2>3, <1>i, <1>t DEF CallBack, TypeOK
    <3>a. ASSUME NEW m \in Changes PROVE NoticeFits(m)'
      <4>1. NoticeFits(m)
        BY <1>i DEF NoticesKept
      <4> QED BY <3>1, <4>1, <1>n DEF NoticeFits
    <3>b. ASSUME NEW e \in Actors PROVE CallbacksFit(e)' /\ RunsFit(e)'
      <4>1. CallbacksFit(e) /\ RunsFit(e)
        BY <1>i DEF NoticesKept
      <4> QED BY <3>1, <4>1, <1>s DEF CallbacksFit, RunsFit
    <3> QED BY <3>a, <3>b DEF NoticesKept
  <2> QED BY <1>9, <2>1, <2>2, <2>3
<1>10. CASE InvalidateComponent
  <2>1. UNCHANGED <<upstream, worker, notices>>
    BY <1>10 DEF InvalidateComponent
  <2>2. installed \in Actors
    BY <1>10, <1>i DEF InvalidateComponent, TypeOK
  <2>3. \A e \in Actors : /\ entries'[e].callbacks = entries[e].callbacks
                          /\ entries'[e].ready = entries[e].ready
    BY <1>10, <2>2, <1>i DEF InvalidateComponent, EntryRecords, TypeOK
  <2>4. Undisturbed
    BY <2>1, <2>3, <1>u DEF Undisturbed
  <2> QED BY <2>4, <1>k
<1>11. CASE Close
  <2>1. UNCHANGED <<upstream, worker, notices>>
    BY <1>11 DEF Close
  <2>3. \A e \in Actors : /\ entries'[e].callbacks = entries[e].callbacks
                          /\ entries'[e].ready = entries[e].ready
    <3>1. CASE installed = None
      BY <1>11, <3>1 DEF Close
    <3>2. CASE installed # None
      BY <1>11, <1>i, CloseKeeps
    <3> QED BY <3>1, <3>2
  <2>4. Undisturbed
    BY <2>1, <2>3, <1>u DEF Undisturbed
  <2> QED BY <2>4, <1>k
<1>12. CASE UNCHANGED vars
  <2>1. UNCHANGED <<upstream, entries, worker, notices>>
    BY <1>12 DEF vars
  <2>2. Undisturbed
    BY <2>1, <1>u DEF Undisturbed
  <2> QED BY <2>2, <1>k
<1> QED BY <1>1, <1>2, <1>3, <1>4, <1>5, <1>6, <1>7, <1>8, <1>9, <1>10, <1>11, <1>12 DEF Next

----------------------------------------------------------------------------
\* An explicit Refresh that has got past its waits stays past them.
LEMMA BegunStays ==
    ASSUME IndInv, [Next]_vars, NEW h \in Refreshers, pc[h] \notin Waits
    PROVE  pc'[h] \notin Waits
<1>0. Getters \cap Refreshers = {} /\ h \in Actors
  BY RegistryAssumption DEF Actors
<1> USE <1>0
    DEF IndInv, TypeOK, LocalsFit, GetLabels, RefreshLabels, Waits, actorVars,
        envVars, Goto, Leave, Return
<1>1. ASSUME NEW g \in Getters, GetStep(g) \/ GetCancelled(g) PROVE pc'[h] \notin Waits
  <2> g \in Actors
    BY DEF Actors
  <2>1. CASE GetFindsEntry(g)
    BY <2>1 DEF GetFindsEntry, Actors
  <2>2. CASE GetCreatesEntry(g)
    BY <2>2 DEF GetCreatesEntry, Actors
  <2>3. CASE GetInstalls(g)
    BY <2>3 DEF GetInstalls, Actors
  <2>4. CASE GetReadsEntry(g)
    BY <2>4, ReadsMove DEF Actors
  <2>5. CASE GetCancelledByClose(g)
    BY <2>5 DEF GetCancelledByClose, Actors
  <2>6. CASE GetAwaitsRefresh(g)
    BY <2>6 DEF GetAwaitsRefresh, Actors
  <2>7. CASE GetReadsRefreshed(g)
    BY <2>7, ReadsMove DEF Actors
  <2>8. CASE GetPublishes(g)
    BY <2>8 DEF GetPublishes, Actors
  <2>9. CASE GetCancelled(g)
    BY <2>9 DEF GetCancelled, Actors
  <2> QED BY <1>1, <2>1, <2>2, <2>3, <2>4, <2>5, <2>6, <2>7, <2>8, <2>9 DEF GetStep
<1>2. ASSUME NEW f \in Refreshers, RefreshStep(f) \/ RefreshCancelled(f) PROVE pc'[h] \notin Waits
  <2> f \in Actors
    BY DEF Actors
  <2>1. CASE RefreshWithoutEntry(f)
    BY <2>1 DEF RefreshWithoutEntry, Actors
  <2>2. CASE RefreshWaits(f)
    BY <2>2 DEF RefreshWaits, Actors
  <2>3. CASE RefreshEntryReady(f)
    BY <2>3 DEF RefreshEntryReady, Actors
  <2>4. CASE RefreshMarksStale(f)
    BY <2>4 DEF RefreshMarksStale, Actors
  <2>5. CASE RefreshFinishes(f)
    <3>1. Wakes(FinishWakes(at[f]))
      BY <2>5, WokenWakes DEF RefreshFinishes
    <3> QED BY <2>5, <3>1 DEF RefreshFinishes, Wakes, Actors
  <2>6. CASE RefreshFails(f)
    BY <2>6 DEF RefreshFails, Actors
  <2>7. CASE RefreshReplaces(f)
    <3>1. \E w : Wakes(w) /\ pc' = [w EXCEPT ![f] = "done"]
      BY <2>7, WokenWakes DEF RefreshReplaces
    <3> QED BY <2>7, <3>1 DEF RefreshReplaces, Wakes, Actors
  <2>8. CASE RefreshCancelled(f)
    BY <2>8 DEF RefreshCancelled, Actors
  <2> QED BY <1>2, <2>1, <2>2, <2>3, <2>4, <2>5, <2>6, <2>7, <2>8 DEF RefreshStep
<1>3. ASSUME NEW a \in Actors, Compile(a) PROVE pc'[h] \notin Waits
  BY <1>3 DEF Compile, Actors
<1>4. ASSUME NEW a \in Actors, TimerFires(a) PROVE pc'[h] \notin Waits
  BY <1>4 DEF TimerFires, Actors
<1>5. ASSUME NEW a \in Actors, NEW r \in Runs, WorkerStep(a, r) PROVE pc'[h] \notin Waits
  <2>1. CASE WorkerCompiles(a, r)
    BY <2>1 DEF WorkerCompiles, Actors
  <2>2. CASE WorkerFindsReplacement(a, r)
    BY <2>2 DEF WorkerFindsReplacement, Actors
  <2>3. CASE WorkerFinishes(a, r)
    <3>1. Wakes(pc')
      BY <2>3, WokenWakes DEF WorkerFinishes
    <3> QED BY <2>3, <3>1 DEF WorkerFinishes, Wakes
  <2> QED BY <1>5, <2>1, <2>2, <2>3 DEF WorkerStep
<1>6. CASE RunRefresh
  BY <1>6 DEF RunRefresh, Actors
<1>7. CASE RunRefreshReturns
  BY <1>7 DEF RunRefreshReturns, Actors
<1>8. CASE UpstreamChanges
  BY <1>8 DEF UpstreamChanges, Actors
<1>9. ASSUME NEW n \in Changes, NoticeIgnored(n) \/ RequestRefresh(n) \/ CallBack(n) PROVE pc'[h] \notin Waits
  <2>1. CASE NoticeIgnored(n)
    BY <2>1 DEF NoticeIgnored, Actors
  <2>2. CASE RequestRefresh(n)
    BY <2>2 DEF RequestRefresh, Actors
  <2>3. CASE CallBack(n)
    BY <2>3 DEF CallBack, Actors
  <2> QED BY <1>9, <2>1, <2>2, <2>3
<1>10. CASE InvalidateComponent
  <2>1. Wakes(pc')
    BY <1>10, WokenWakes DEF InvalidateComponent
  <2> QED BY <1>10, <2>1 DEF InvalidateComponent, Wakes
<1>11. CASE Close
  <2>1. Wakes(pc')
    BY <1>11, WokenWakes DEF Close
  <2> QED BY <1>11, <2>1 DEF Close, Wakes
<1>12. CASE UNCHANGED vars
  BY <1>12 DEF vars, Actors
<1> QED BY <1>1, <1>2, <1>3, <1>4, <1>5, <1>6, <1>7, <1>8, <1>9, <1>10, <1>11, <1>12 DEF Next

\* The cache takes entries in with nothing under way (entryForConfig, publish,
\* Refresh).
Pristine(i) ==
    /\ LET e == entries[i] IN
       /\ e.timer = "nil" /\ ~e.refreshing /\ ~e.pending /\ ~e.refreshDone
       /\ e.callbacks = {}
    /\ \A r \in Runs : worker[i][r].state = "idle"
    /\ \A n \in Changes : notices[n].entry # i

Installs == installed' \in {installed, None} \/ Pristine(installed)'

LEMMA InstallsPristine == IndInv /\ [Next]_vars => Installs
<1> SUFFICES ASSUME IndInv, [Next]_vars PROVE Installs
  OBVIOUS
<1>i. TypeOK /\ LocalsFit /\ UnmadeUntouched
  BY DEF IndInv
<1>0. Getters \cap Refreshers = {}
  BY RegistryAssumption
<1> USE DEF Installs, Goto, Leave, Return
<1>1. ASSUME NEW g \in Getters, GetStep(g) \/ GetCancelled(g) PROVE Installs
  <2> g \in Actors
    BY DEF Actors
  <2>1. CASE GetFindsEntry(g)
    BY <2>1 DEF GetFindsEntry
  <2>2. CASE GetCreatesEntry(g)
    <3>1. Untouched(g)
      BY <2>2, <1>i DEF GetCreatesEntry, UnmadeUntouched, Unmade, Waits
    <3>2. UNCHANGED <<entries, worker, notices>> /\ installed' = g
      BY <2>2 DEF GetCreatesEntry
    <3> QED BY <3>1, <3>2 DEF Untouched, Pristine, NewEntry
  <2>3. CASE GetInstalls(g)
    BY <2>3 DEF GetInstalls
  <2>4. CASE GetReadsEntry(g)
    BY <2>4, ReadsMove
  <2>5. CASE GetCancelledByClose(g)
    BY <2>5 DEF GetCancelledByClose
  <2>6. CASE GetAwaitsRefresh(g)
    BY <2>6 DEF GetAwaitsRefresh
  <2>7. CASE GetReadsRefreshed(g)
    BY <2>7, ReadsMove
  <2>8. CASE GetPublishes(g)
    <3>1. Untouched(g)
      BY <2>8, <1>i, <1>0 DEF GetPublishes, UnmadeUntouched, Unmade, Waits
    <3>2. found[g] \in Outcomes
      BY <2>8, <1>i DEF GetPublishes, LocalsFit, TypeOK
    <3>3. CASE installed' = g /\ entries'[g] = ReadyEntry(found[g])
               /\ UNCHANGED <<worker, notices>>
      BY <3>1, <3>2, <3>3, NewAndReadyEntries DEF Untouched, Pristine
    <3> QED BY <2>8, <3>3, <1>i DEF GetPublishes, TypeOK
  <2>9. CASE GetCancelled(g)
    BY <2>9 DEF GetCancelled
  <2> QED BY <1>1, <2>1, <2>2, <2>3, <2>4, <2>5, <2>6, <2>7, <2>8, <2>9 DEF GetStep
<1>2. ASSUME NEW f \in Refreshers, RefreshStep(f) \/ RefreshCancelled(f) PROVE Installs
  <2> f \in Actors
    BY DEF Actors
  <2>1. CASE RefreshWithoutEntry(f)
    BY <2>1 DEF RefreshWithoutEntry
  <2>2. CASE RefreshWaits(f)
    BY <2>2 DEF RefreshWaits
  <2>3. CASE RefreshEntryReady(f)
    BY <2>3 DEF RefreshEntryReady
  <2>4. CASE RefreshMarksStale(f)
    BY <2>4 DEF RefreshMarksStale
  <2>5. CASE RefreshFinishes(f)
    BY <2>5 DEF RefreshFinishes
  <2>6. CASE RefreshFails(f)
    BY <2>6 DEF RefreshFails
  <2>7. CASE RefreshReplaces(f)
    <3>1. Untouched(f)
      BY <2>7, <1>i, <1>0 DEF RefreshReplaces, UnmadeUntouched, Unmade, Waits
    <3>2. found[f] \in Outcomes
      BY <2>7, <1>i DEF RefreshReplaces, LocalsFit, TypeOK
    <3>3. CASE installed' = f /\ entries'[f] = ReadyEntry(found[f])
               /\ UNCHANGED <<worker, notices>>
      BY <3>1, <3>2, <3>3, NewAndReadyEntries DEF Untouched, Pristine
    <3> QED BY <2>7, <3>3, <1>i DEF RefreshReplaces, TypeOK
  <2>8. CASE RefreshCancelled(f)
    BY <2>8 DEF RefreshCancelled
  <2> QED BY <1>2, <2>1, <2>2, <2>3, <2>4, <2>5, <2>6, <2>7, <2>8 DEF RefreshStep
<1>3. ASSUME NEW a \in Actors, Compile(a) PROVE Installs
  BY <1>3 DEF Compile
<1>4. ASSUME NEW a \in Actors, TimerFires(a) PROVE Installs
  BY <1>4 DEF TimerFires
<1>5. ASSUME NEW a \in Actors, NEW r \in Runs, WorkerStep(a, r) PROVE Installs
  <2>1. CASE WorkerCompiles(a, r)
    BY <2>1 DEF WorkerCompiles
  <2>2. CASE WorkerFindsReplacement(a, r)
    BY <2>2 DEF WorkerFindsReplacement
  <2>3. CASE WorkerFinishes(a, r)
    BY <2>3 DEF WorkerFinishes
  <2> QED BY <1>5, <2>1, <2>2, <2>3 DEF WorkerStep
<1>6. CASE RunRefresh
  BY <1>6 DEF RunRefresh
<1>7. CASE RunRefreshReturns
  BY <1>7 DEF RunRefreshReturns
<1>8. CASE UpstreamChanges
  BY <1>8 DEF UpstreamChanges
<1>9. ASSUME NEW n \in Changes, NoticeIgnored(n) \/ RequestRefresh(n) \/ CallBack(n) PROVE Installs
  <2>1. CASE NoticeIgnored(n)
    BY <2>1 DEF NoticeIgnored
  <2>2. CASE RequestRefresh(n)
    BY <2>2 DEF RequestRefresh
  <2>3. CASE CallBack(n)
    BY <2>3 DEF CallBack
  <2> QED BY <1>9, <2>1, <2>2, <2>3
<1>10. CASE InvalidateComponent
  BY <1>10 DEF InvalidateComponent
<1>11. CASE Close
  BY <1>11 DEF Close
<1>12. CASE UNCHANGED vars
  BY <1>12 DEF vars
<1> QED BY <1>1, <1>2, <1>3, <1>4, <1>5, <1>6, <1>7, <1>8, <1>9, <1>10, <1>11, <1>12 DEF Next

\* Steps that leave the refreshing of the installed entry alone, ...
SameEntry ==
    /\ installed' = installed /\ closed' = closed /\ timersFired' = timersFired
    /\ config' = config
    /\ installed # None =>
          /\ entries'[installed].refreshing = entries[installed].refreshing
          /\ entries'[installed].pending = entries[installed].pending
          /\ entries'[installed].timer = entries[installed].timer
          /\ entries'[installed].callbacks = entries[installed].callbacks
          /\ entries'[installed].refreshDone = entries[installed].refreshDone
          /\ \A r \in Runs :
                worker'[installed][r].state = "idle"
                   <=> worker[installed][r].state = "idle"
          /\ ~closed => \A f \in Refreshers :
                at[f] = installed /\ pc[f] \in {"compileRefresh", "finish"}
                => at'[f] = installed /\ pc'[f] \in {"compileRefresh", "finish"}

\* ... and what they and all other steps are to keep.
Served == RefreshersExist /\ DueIsAwaited /\ TimersServe /\ RunsAlone

LEMMA PhasesOnly ==
    ASSUME IndInv, [Next]_vars
    PROVE  /\ NoneBegun' => NoneBegun
           /\ OneExplicitRefresh' => OneExplicitRefresh
           /\ NoExplicitRefresh' /\ installed' = installed => NoExplicitRefresh
<1>1. \A f \in Refreshers : pc[f] \notin Waits => pc'[f] \notin Waits
  BY BegunStays
<1>2. NoneBegun' => NoneBegun
  BY <1>1 DEF NoneBegun
<1>3. OneExplicitRefresh' => OneExplicitRefresh
  BY <1>1 DEF OneExplicitRefresh, Waits
<1>4. NoExplicitRefresh' /\ installed' = installed => NoExplicitRefresh
  BY <1>1 DEF NoExplicitRefresh, Waits
<1> QED BY <1>2, <1>3, <1>4

LEMMA SameEntryServed ==
    ASSUME IndInv, [Next]_vars, SameEntry
    PROVE  Served'
<1>1. Served
  BY DEF IndInv, Served
<1>2. /\ NoneBegun' => NoneBegun
      /\ OneExplicitRefresh' => OneExplicitRefresh
      /\ NoExplicitRefresh' => NoExplicitRefresh
  BY PhasesOnly DEF SameEntry
<1>3. RefreshersExist'
  BY <1>1 DEF Served, RefreshersExist, SameEntry
<1>4. DueIsAwaited'
  BY <1>1, <1>2 DEF Served, DueIsAwaited, SameEntry
<1>5. TimersServe'
  BY <1>1, <1>2 DEF Served, TimersServe, SameEntry
<1>6. RunsAlone'
  BY <1>1, <1>2 DEF Served, RunsAlone, SameEntry
<1> QED BY <1>3, <1>4, <1>5, <1>6 DEF Served

LEMMA PristineServed ==
    ASSUME installed' = None \/ Pristine(installed)'
    PROVE  Served'
<1>1. CASE installed' = None
  BY <1>1 DEF Served, RefreshersExist, DueIsAwaited, TimersServe, RunsAlone
<1>2. CASE Pristine(installed)'
  BY <1>2 DEF Served, RefreshersExist, DueIsAwaited, TimersServe, RunsAlone,
              Pristine
<1> QED BY <1>1, <1>2

\* No order of timers, goroutines of runRefresh and an explicit Refresh leaves
\* the installed entry with a refresh that nobody ends.
LEMMA ServedStep == IndInv /\ [Next]_vars => Served'
<1> SUFFICES ASSUME IndInv, [Next]_vars, installed' = installed PROVE Served'
  BY InstallsPristine, PristineServed DEF Installs
<1>i. /\ TypeOK /\ LocalsFit /\ UnmadeUntouched /\ InstalledFits
      /\ RefreshersExist /\ DueIsAwaited /\ TimersServe /\ RunsAlone
      /\ Getters \cap Refreshers = {} /\ None \notin Actors
  BY RegistryAssumption DEF IndInv
<1>t. TypeOK'
  BY TypeStep
<1>p. /\ NoneBegun' => NoneBegun
      /\ OneExplicitRefresh' => OneExplicitRefresh
      /\ NoExplicitRefresh' => NoExplicitRefresh
  BY PhasesOnly
<1>s. SameEntry => Served'
  BY SameEntryServed
<1>n. /\ NoneBegun => NoExplicitRefresh
      /\ NoExplicitRefresh => OneExplicitRefresh
  BY DEF NoneBegun, NoExplicitRefresh, OneExplicitRefresh, Waits
<1> USE DEF actorVars, envVars, Goto, Leave, Return
<1>1. ASSUME NEW g \in Getters, GetStep(g) \/ GetCancelled(g) PROVE Served'
  <2> g \in Actors
    BY DEF Actors
  <2>1. CASE GetFindsEntry(g)
    <3>1. SameEntry
      BY <2>1, <1>i DEF GetFindsEntry, SameEntry, TypeOK, LocalsFit
    <3> QED BY <3>1, <1>s
  <2>2. CASE GetCreatesEntry(g)
    <3>1. installed' = g /\ installed = None
      BY <2>2 DEF GetCreatesEntry
    <3> QED BY <3>1, <1>i
  <2>3. CASE GetInstalls(g)
    <3>1. SameEntry
      BY <2>3, <1>i DEF GetInstalls, SameEntry, TypeOK, LocalsFit, EntryRecords
    <3> QED BY <3>1, <1>s
  <2>4. CASE GetReadsEntry(g)
    <3>1. /\ \E l \in {"compileOwn", "done"} : pc' = [pc EXCEPT ![g] = l]
          /\ at' = [at EXCEPT ![g] = None] /\ g \notin Refreshers
          /\ UNCHANGED <<config, installed, entries, closed, timersFired, worker>>
      BY <2>4, <1>i, ReadsMove
    <3>2. SameEntry
      BY <3>1, <1>i DEF SameEntry, Actors, TypeOK
    <3> QED BY <3>2, <1>s
  <2>5. CASE GetCancelledByClose(g)
    <3>1. SameEntry
      BY <2>5, <1>i DEF GetCancelledByClose, SameEntry, TypeOK, LocalsFit
    <3> QED BY <3>1, <1>s
  <2>6. CASE GetAwaitsRefresh(g)
    <3>1. at[g] \in Actors /\ g \notin Refreshers
      BY <2>6, <1>i DEF GetAwaitsRefresh, LocalsFit, TypeOK, Actors
    <3>2. /\ UNCHANGED <<config, installed, closed, timersFired, at, worker>>
          /\ pc' = [pc EXCEPT ![g] = "waitRefresh"] /\ ~closed
          /\ \A b \in Actors : b # at[g] => entries'[b] = entries[b]
          /\ entries'[at[g]].refreshing = entries[at[g]].refreshing
          /\ entries'[at[g]].pending = entries[at[g]].pending
          /\ entries'[at[g]].callbacks = entries[at[g]].callbacks
          /\ entries'[at[g]].timer = TimerDue(entries[at[g]])
          /\ entries'[at[g]].refreshDone
      BY <2>6, <3>1, <1>i DEF GetAwaitsRefresh, TypeOK, EntryRecords
    <3>3. \A f \in Refreshers : pc'[f] = pc[f]
      BY <3>1, <3>2, <1>i DEF TypeOK, Actors
    <3>4. CASE at[g] # installed
      <4>1. SameEntry
        BY <3>2, <3>3, <3>4, <1>i DEF SameEntry, TypeOK
      <4> QED BY <4>1, <1>s
    <3>5. CASE at[g] = installed
      <4>w. RefreshersExist'
        BY <3>1, <3>2, <3>3, <3>5, <1>i, <1>p DEF RefreshersExist, TimerDue
      <4>x. DueIsAwaited'
        BY <3>1, <3>2, <3>3, <3>5, <1>i, <1>p, <1>n DEF DueIsAwaited
      <4>y. TimersServe'
        BY <3>1, <3>2, <3>3, <3>5, <1>i, <1>p DEF TimersServe, TimerDue
      <4>z. RunsAlone'
        BY <3>1, <3>2, <3>3, <3>5, <1>i, <1>p DEF RunsAlone
      <4> QED BY <4>w, <4>x, <4>y, <4>z DEF Served
    <3> QED BY <3>4, <3>5
  <2>7. CASE GetReadsRefreshed(g)
    <3>1. /\ \E l \in {"compileOwn", "done"} : pc' = [pc EXCEPT ![g] = l]
          /\ at' = [at EXCEPT ![g] = None] /\ g \notin Refreshers
          /\ UNCHANGED <<config, installed, entries, closed, timersFired, worker>>
      BY <2>7, <1>i, ReadsMove
    <3>2. SameEntry
      BY <3>1, <1>i DEF SameEntry, Actors, TypeOK
    <3> QED BY <3>2, <1>s
  <2>8. CASE GetPublishes(g)
    <3>1. (installed' = g /\ installed = None) \/ UNCHANGED <<installed, entries>>
      BY <2>8 DEF GetPublishes
    <3>2. SameEntry
      BY <2>8, <3>1, <1>i DEF GetPublishes, SameEntry, TypeOK, LocalsFit
    <3> QED BY <3>2, <1>s
  <2>9. CASE GetCancelled(g)
    <3>1. SameEntry
      BY <2>9, <1>i DEF GetCancelled, SameEntry, TypeOK, LocalsFit
    <3> QED BY <3>1, <1>s
  <2> QED BY <1>1, <2>1, <2>2, <2>3, <2>4, <2>5, <2>6, <2>7, <2>8, <2>9 DEF GetStep
<1>2. ASSUME NEW f \in Refreshers, RefreshStep(f) \/ RefreshCancelled(f) PROVE Served'
  <2> f \in Actors
    BY DEF Actors
  <2>1. CASE RefreshWithoutEntry(f)
    <3>1. SameEntry
      BY <2>1, <1>i DEF RefreshWithoutEntry, SameEntry, TypeOK, LocalsFit
    <3> QED BY <3>1, <1>s
  <2>2. CASE RefreshWaits(f)
    <3>1. /\ UNCHANGED <<config, installed, entries, closed, timersFired, worker>>
          /\ pc[f] = "start" /\ \A h \in Refreshers : h # f =>
                pc'[h] = pc[h] /\ at'[h] = at[h]
      BY <2>2, <1>i DEF RefreshWaits, TypeOK, Actors
    <3>2. SameEntry
      BY <3>1 DEF SameEntry
    <3> QED BY <3>2, <1>s
  <2>3. CASE RefreshEntryReady(f)
    <3>1. SameEntry
      BY <2>3, <1>i DEF RefreshEntryReady, SameEntry, TypeOK, LocalsFit
    <3> QED BY <3>1, <1>s
  <2>4. CASE RefreshMarksStale(f)
    <3>1. /\ UNCHANGED <<config, closed, timersFired, worker>>
          /\ config.toolSearch /\ ~closed /\ installed \in Actors
          /\ ~entries[installed].refreshDone /\ pc[f] = "start"
          /\ entries'[installed].refreshing /\ entries'[installed].refreshDone
          /\ entries'[installed].pending = entries[installed].pending
          /\ entries'[installed].callbacks = entries[installed].callbacks
          /\ entries'[installed].timer = entries[installed].timer
          /\ at' = [at EXCEPT ![f] = installed]
          /\ pc' = [pc EXCEPT ![f] = "compileRefresh"]
      BY <2>4, <1>i DEF RefreshMarksStale, TypeOK, EntryRecords
    <3>2. at'[f] = installed /\ pc'[f] = "compileRefresh"
      BY <3>1, <1>i DEF TypeOK
    <3>3. ~NoneBegun'
      BY <3>2 DEF NoneBegun, Waits
    <3>4. ~NoExplicitRefresh'
      <4>1. installed # f
        BY <3>1, <1>i DEF UnmadeUntouched, Unmade, Untouched
      <4> QED BY <3>2, <4>1 DEF NoExplicitRefresh
    <3>5. OneExplicitRefresh' => NoneBegun
      <4>1. ASSUME OneExplicitRefresh', NEW h \in Refreshers, h # f
            PROVE  pc[h] \in Waits
        <5>1. pc'[h] = pc[h]
          BY <3>1, <4>1, <1>i DEF TypeOK, Actors
        <5>2. {pc'[f], pc'[h]} \cap {"start", "waitReady", "waitRefresh"} # {}
          BY <4>1 DEF OneExplicitRefresh
        <5> QED BY <3>2, <5>1, <5>2 DEF Waits
      <4> QED BY <3>1, <4>1 DEF NoneBegun, Waits
    <3>w. RefreshersExist'
      BY <3>1, <3>2 DEF RefreshersExist
    <3>x. DueIsAwaited'
      BY <3>3 DEF DueIsAwaited
    <3>y. TimersServe'
      <4>1. OneExplicitRefresh' =>
               entries[installed].timer = "nil" /\ entries[installed].callbacks = {}
        BY <3>1, <3>5, <1>i DEF DueIsAwaited
      <4> QED BY <3>1, <4>1 DEF TimersServe
    <3>z. RunsAlone'
      BY <3>4 DEF RunsAlone
    <3> QED BY <3>w, <3>x, <3>y, <3>z DEF Served
  <2>5. CASE RefreshFinishes(f)
    <3>1. /\ Finishes(at[f], found[f]) /\ at[f] \in Actors
          /\ UNCHANGED <<config, closed, timersFired, worker>>
          /\ ~closed /\ at' = [at EXCEPT ![f] = None] /\ pc[f] = "finish"
      BY <2>5, RefreshFinishesFields DEF RefreshFinishes
    <3>2. config.toolSearch
      BY <3>1, <1>i DEF LocalsFit
    <3>3. \E w : Wakes(w) /\ pc' = [w EXCEPT ![f] = "done"]
      BY <2>5, <3>1, <1>i, WokenWakes DEF RefreshFinishes
    <3>4. pc'[f] = "done"
          /\ \A h \in Refreshers : h # f /\ pc[h] \in {"compileRefresh", "finish"}
                => pc'[h] = pc[h] /\ at'[h] = at[h]
      BY <3>1, <3>3, <1>i DEF Wakes, TypeOK, Actors
    <3>5. CASE at[f] # installed
      <4>1. SameEntry
        BY <3>1, <3>4, <3>5, <1>i DEF SameEntry, Finishes, TypeOK
      <4> QED BY <4>1, <1>s
    <3>6. CASE at[f] = installed
      <4>1. ~NoneBegun'
        BY <3>4 DEF NoneBegun, Waits
      <4>2. ~NoExplicitRefresh'
        <5>1. installed # f
          BY <3>1, <3>6, <1>i DEF UnmadeUntouched, Unmade, Untouched, Actors
        <5> QED BY <3>4, <5>1 DEF NoExplicitRefresh
      <4>w. RefreshersExist'
        BY <3>1, <3>2, <3>6 DEF RefreshersExist, Finishes
      <4>x. DueIsAwaited'
        BY <4>1 DEF DueIsAwaited
      <4>y. TimersServe'
        BY <3>1, <3>6, <1>i, <1>p DEF TimersServe, Finishes
      <4>z. RunsAlone'
        BY <4>2 DEF RunsAlone
      <4> QED BY <4>w, <4>x, <4>y, <4>z DEF Served
    <3> QED BY <3>5, <3>6
  <2>6. CASE RefreshFails(f)
    <3>1. SameEntry
      BY <2>6, <1>i DEF RefreshFails, SameEntry, TypeOK, LocalsFit, EntryRecords
    <3> QED BY <3>1, <1>s
  <2>7. CASE RefreshReplaces(f)
    <3>1. Untouched(f)
      BY <2>7, <1>i DEF RefreshReplaces, UnmadeUntouched, Unmade
    <3>2. installed' = f
      BY <2>7 DEF RefreshReplaces
    <3> QED BY <3>1, <3>2 DEF Untouched
  <2>8. CASE RefreshCancelled(f)
    <3>1. SameEntry
      BY <2>8, <1>i DEF RefreshCancelled, SameEntry, TypeOK, LocalsFit
    <3> QED BY <3>1, <1>s
  <2> QED BY <1>2, <2>1, <2>2, <2>3, <2>4, <2>5, <2>6, <2>7, <2>8 DEF RefreshStep
<1>3. ASSUME NEW a \in Actors, Compile(a) PROVE Served'
  <2>1. SameEntry
    <3>1. pc[a] # "finish" /\ (pc[a] = "compileRefresh" => pc'[a] = "finish")
          /\ \A b \in Actors : b # a => pc'[b] = pc[b]
      BY <1>3, <1>i DEF Compile, TypeOK
    <3>2. UNCHANGED <<config, installed, entries, closed, timersFired, at, worker>>
      BY <1>3 DEF Compile
    <3> QED BY <3>1, <3>2 DEF SameEntry, Actors
  <2> QED BY <2>1, <1>s
<1>4. ASSUME NEW a \in Actors, TimerFires(a) PROVE Served'
  <2>1. /\ UNCHANGED <<config, closed, at, pc, worker>>
        /\ timersFired' = timersFired + 1 /\ timersFired \in Nat
        /\ \A b \in Actors : b # a => entries'[b] = entries[b]
        /\ entries'[a].refreshing = entries[a].refreshing
        /\ entries'[a].pending = entries[a].pending
        /\ entries'[a].callbacks = entries[a].callbacks
        /\ entries'[a].refreshDone = entries[a].refreshDone
        /\ entries[a].timer = "armed" /\ entries'[a].timer = "spent"
    BY <1>4, <1>i DEF TimerFires, TypeOK, EntryRecords
  <2>2. timersFired' > 0 /\ (installed # None => installed \in Actors)
    BY <2>1, <1>i DEF TypeOK
  <2>w. RefreshersExist'
    BY <2>1, <2>2, <1>i, <1>p DEF RefreshersExist
  <2>x. DueIsAwaited'
    BY <2>1, <2>2, <1>i, <1>p, <1>n DEF DueIsAwaited
  <2>y. TimersServe'
    BY <2>1, <2>2, <1>i, <1>p DEF TimersServe
  <2>z. RunsAlone'
    BY <2>1, <2>2, <1>i, <1>p DEF RunsAlone
  <2> QED BY <2>w, <2>x, <2>y, <2>z DEF Served
<1>5. ASSUME NEW a \in Actors, NEW r \in Runs, WorkerStep(a, r) PROVE Served'
  <2>1. CASE WorkerCompiles(a, r)
    <3>1. /\ UNCHANGED <<config, installed, entries, closed, timersFired, at, pc>>
          /\ \A e \in Actors : \A q \in Runs :
                worker'[e][q].state = "idle" <=> worker[e][q].state = "idle"
      BY <2>1, <1>i DEF WorkerCompiles, TypeOK
    <3>2. SameEntry
      BY <3>1, <1>i DEF SameEntry, TypeOK
    <3> QED BY <3>2, <1>s
  <2>2. CASE WorkerFindsReplacement(a, r)
    <3>1. /\ UNCHANGED <<config, installed, entries, closed, timersFired, at, pc>>
          /\ installed # a
          /\ \A e \in Actors : e # a => worker'[e] = worker[e]
      BY <2>2, <1>i DEF WorkerFindsReplacement, WorkerEnds, TypeOK
    <3>2. SameEntry
      BY <3>1, <1>i DEF SameEntry, TypeOK
    <3> QED BY <3>2, <1>s
  <2>3. CASE WorkerFinishes(a, r)
    <3>1. /\ Finishes(a, worker[a][r].found) /\ installed = a
          /\ UNCHANGED <<config, closed, timersFired, at>>
          /\ worker[a][r].state # "idle"
      BY <2>3, WorkerFinishesFields DEF WorkerFinishes
    <3>2. /\ worker'[a][r].state = "idle"
          /\ \A q \in Runs : q # r => worker'[a][q] = worker[a][q]
      BY <2>3, <1>i DEF WorkerFinishes, WorkerEnds, IdleWorker, TypeOK
    <3>3. installed # None /\ ~config.toolSearch => ~entries[installed].refreshDone
      BY <3>1, <1>i DEF InstalledFits
    <3>w. RefreshersExist'
      BY <3>1, <3>3, <1>i DEF RefreshersExist, Finishes
    <3>x. DueIsAwaited'
      <4> SUFFICES ASSUME ~closed, config.toolSearch, NoneBegun
                   PROVE  LET e == entries'[a] IN
                          e.timer # "nil" \/ e.callbacks # {} \/ e.pending
                             => e.refreshDone
        BY <3>1, <1>p DEF DueIsAwaited
      <4>1. entries[a].refreshing
        BY <3>1, <1>i, <1>n DEF RunsAlone
      <4>2. /\ entries[a].timer = "nil"
            /\ entries[a].callbacks = {} \/ entries[a].pending
        BY <3>1, <4>1, <1>i, <1>n DEF TimersServe
      <4>3. entries[a].pending => entries[a].refreshDone
        BY <3>1, <1>i DEF DueIsAwaited
      <4> QED BY <3>1, <4>2, <4>3 DEF Finishes
    <3>y. TimersServe'
      BY <3>1, <1>i, <1>p DEF TimersServe, Finishes
    <3>z. RunsAlone'
      BY <3>1, <3>2, <1>i, <1>p DEF RunsAlone, Finishes
    <3> QED BY <3>w, <3>x, <3>y, <3>z DEF Served
  <2> QED BY <1>5, <2>1, <2>2, <2>3 DEF WorkerStep
<1>6. CASE RunRefresh
  <2>1. /\ UNCHANGED <<config, closed, at, pc>>
        /\ installed \in Actors /\ ~entries[installed].refreshing
        /\ entries'[installed].refreshing /\ ~entries'[installed].pending
        /\ entries'[installed].callbacks = {}
        /\ entries'[installed].refreshDone = entries[installed].refreshDone
        /\ entries'[installed].timer = "nil"
    BY <1>6, <1>i DEF RunRefresh, CanRefresh, TypeOK, EntryRecords
  <2>2. PICK r \in Runs :
           worker' = [worker EXCEPT ![installed] = [worker[installed] EXCEPT ![r] =
              [state |-> "compile", found |-> None,
               callbacks |-> entries[installed].callbacks]]]
    BY <1>6 DEF RunRefresh
  <2>3. /\ worker'[installed][r].state = "compile"
        /\ \A q \in Runs : q # r => worker'[installed][q] = worker[installed][q]
    BY <2>1, <2>2, <1>i DEF TypeOK
  <2>w. RefreshersExist'
    BY <2>1, <2>3, <1>i, <1>p DEF RefreshersExist
  <2>x. DueIsAwaited'
    BY <2>1, <2>3, <1>i, <1>p, <1>n DEF DueIsAwaited
  <2>y. TimersServe'
    BY <2>1, <2>3, <1>i, <1>p DEF TimersServe
  <2>z. RunsAlone'
    BY <2>1, <2>3, <1>i, <1>p DEF RunsAlone
  <2> QED BY <2>w, <2>x, <2>y, <2>z DEF Served
<1>7. CASE RunRefreshReturns
  <2>1. /\ UNCHANGED <<config, closed, at, pc, worker, entries>>
        /\ closed \/ installed = None \/ entries[installed].refreshing
    BY <1>7 DEF RunRefreshReturns, CanRefresh
  <2>w. RefreshersExist'
    BY <2>1, <1>i, <1>p DEF RefreshersExist
  <2>x. DueIsAwaited'
    BY <2>1, <1>i, <1>p, <1>n DEF DueIsAwaited
  <2>y. TimersServe'
    BY <2>1, <1>i, <1>p DEF TimersServe
  <2>z. RunsAlone'
    BY <2>1, <1>i, <1>p DEF RunsAlone
  <2> QED BY <2>w, <2>x, <2>y, <2>z DEF Served
<1>8. CASE UpstreamChanges
  <2>1. SameEntry
    BY <1>8, <1>i DEF UpstreamChanges, SameEntry, TypeOK, LocalsFit
  <2> QED BY <2>1, <1>s
<1>9. ASSUME NEW n \in Changes, NoticeIgnored(n) \/ RequestRefresh(n) \/ CallBack(n) PROVE Served'
  <2>1. CASE NoticeIgnored(n)
    <3>1. SameEntry
      BY <2>1, <1>i DEF NoticeIgnored, SameEntry, TypeOK, LocalsFit
    <3> QED BY <3>1, <1>s
  <2>2. CASE RequestRefresh(n)
    <3>1. /\ installed \in Actors /\ Notes(n) /\ ~closed
          /\ UNCHANGED <<config, closed, at, pc, worker, timersFired>>
      BY <2>2, RequestRefreshFields DEF RequestRefresh
    <3>w. RefreshersExist'
      BY <3>1, <1>i, <1>p DEF RefreshersExist, Notes, InstalledFits
    <3>x. DueIsAwaited'
      BY <3>1, <1>i, <1>p, <1>n DEF DueIsAwaited, Notes
    <3>y. TimersServe'
      BY <3>1, <1>i, <1>p DEF TimersServe, Notes
    <3>z. RunsAlone'
      BY <3>1, <1>i, <1>p DEF RunsAlone, Notes
    <3> QED BY <3>w, <3>x, <3>y, <3>z DEF Served
  <2>3. CASE CallBack(n)
    <3>1. SameEntry
      BY <2>3, <1>i DEF CallBack, SameEntry, TypeOK, LocalsFit
    <3> QED BY <3>1, <1>s
  <2> QED BY <1>9, <2>1, <2>2, <2>3
<1>10. CASE InvalidateComponent
  <2>1. installed' = None /\ installed # None
    BY <1>10 DEF InvalidateComponent
  <2> QED BY <2>1
<1>11. CASE Close
  <2>1. closed' /\ worker' = worker
    BY <1>11 DEF Close
  <2>2. installed # None =>
           entries'[installed].refreshing = entries[installed].refreshing
    BY <1>11, <1>i, CloseKeeps DEF TypeOK
  <2>z. RunsAlone'
    BY <2>1, <2>2, <1>i, <1>p DEF RunsAlone
  <2> QED BY <2>1, <2>z DEF Served, RefreshersExist, DueIsAwaited, TimersServe
<1>12. CASE UNCHANGED vars
  <2>1. SameEntry
    BY <1>12 DEF vars, SameEntry
  <2> QED BY <2>1, <1>s
<1> QED BY <1>1, <1>2, <1>3, <1>4, <1>5, <1>6, <1>7, <1>8, <1>9, <1>10, <1>11, <1>12 DEF Next

----------------------------------------------------------------------------
\* Which changes the installed catalog includes (runRefresh, finishRefresh):
\* steps that leave the catalog and its refreshes alone, ...
Current == VersionsGrow /\ StaleMarksLack

SameCatalog ==
    /\ installed' = installed /\ config' = config
    /\ ~closed' => ~closed
    /\ installed # None =>
          /\ entries'[installed].catalog = entries[installed].catalog
          /\ entries[installed].stale => entries'[installed].stale
          /\ \A r \in Runs :
                \/ worker'[installed][r] = worker[installed][r]
                \/ worker'[installed][r].state # "finish"
          /\ \A n \in Changes : notices'[n].entry = installed =>
                \/ /\ notices[n].entry = installed
                   /\ notices'[n].whenReady = notices[n].whenReady
                   /\ notices'[n].state \in {"succeeded", "announced"} =>
                         notices[n].state \in {"succeeded", "announced"}
                   /\ notices'[n].state = "queued" <=> notices[n].state = "queued"
                \/ /\ notices'[n].state = "queued"
                   /\ entries'[installed].stale \/ ~config.toolSearch
                   /\ \A r \in Runs : n \notin worker'[installed][r].callbacks

LEMMA SameCatalogCurrent ==
    ASSUME IndInv, [Next]_vars, SameCatalog
    PROVE  Current'
<1>1. NoExplicitRefresh' => NoExplicitRefresh
  BY PhasesOnly DEF SameCatalog
<1>2. VersionsGrow /\ StaleMarksLack
  BY DEF IndInv
<1>3. VersionsGrow'
  <2> SUFFICES ASSUME installed # None, NoExplicitRefresh, NEW n \in Changes,
                      notices'[n].entry = installed
               PROVE  /\ notices'[n].whenReady
                         /\ notices'[n].state \in {"succeeded", "announced"}
                            => entries'[installed].catalog.version >= n
                      /\ \A r \in Runs :
                            /\ worker'[installed][r].state = "finish"
                            /\ Succeeded(worker'[installed][r].found)
                            /\ \/ n \in worker'[installed][r].callbacks
                               \/ notices'[n].state # "queued"
                            => worker'[installed][r].found.version >= n
    BY <1>1 DEF VersionsGrow, SameCatalog, Accepted
  <2>1. CASE notices[n].entry = installed
    BY <2>1, <1>2 DEF VersionsGrow, SameCatalog, Accepted
  <2>2. CASE notices[n].entry # installed
    BY <2>2 DEF SameCatalog
  <2> QED BY <2>1, <2>2
<1>4. StaleMarksLack'
  <2> SUFFICES ASSUME ~closed, installed # None, config.toolSearch,
                      NoExplicitRefresh, NEW n \in Changes,
                      notices'[n].entry = installed
               PROVE  \/ entries'[installed].stale
                      \/ /\ notices'[n].state # "queued"
                         /\ notices'[n].whenReady =>
                               entries'[installed].catalog.version >= n
    BY <1>1 DEF StaleMarksLack, SameCatalog, Accepted
  <2>1. CASE notices[n].entry = installed
    BY <2>1, <1>2 DEF StaleMarksLack, SameCatalog, Accepted
  <2>2. CASE notices[n].entry # installed
    BY <2>2 DEF SameCatalog
  <2> QED BY <2>1, <2>2
<1> QED BY <1>3, <1>4 DEF Current

\* ... entries that come in, ...
LEMMA PristineCurrent ==
    ASSUME installed' = None \/ Pristine(installed)'
    PROVE  Current'
BY DEF Current, VersionsGrow, StaleMarksLack, Accepted, Pristine

\* ... and the others.
LEMMA CurrentStep == IndInv /\ [Next]_vars => Current'
<1> SUFFICES ASSUME IndInv, [Next]_vars, installed' = installed PROVE Current'
  BY InstallsPristine, PristineCurrent DEF Installs
<1>i. /\ TypeOK /\ LocalsFit /\ UnmadeUntouched /\ InstalledFits /\ NoticesKept
      /\ TimersServe /\ RunsAlone /\ VersionsGrow /\ StaleMarksLack /\ WorkersFit
      /\ Getters \cap Refreshers = {} /\ None \notin Actors
  BY RegistryAssumption DEF IndInv
<1>p. NoExplicitRefresh' => NoExplicitRefresh
  BY PhasesOnly
<1>s. SameCatalog => Current'
  BY SameCatalogCurrent
<1>n. NoExplicitRefresh => OneExplicitRefresh
  BY DEF NoExplicitRefresh, OneExplicitRefresh, Waits
<1>e. ~NoExplicitRefresh' => Current'
  BY DEF Current, VersionsGrow, StaleMarksLack
<1>v. /\ \A n \in Changes : n \in Nat
      /\ \A o \in Outcomes : o.version \in Nat
  BY DEF Changes, Outcomes, Versions
<1> USE DEF actorVars, envVars, Goto, Leave, Return
<1>1. ASSUME NEW g \in Getters, GetStep(g) \/ GetCancelled(g) PROVE Current'
  <2> g \in Actors
    BY DEF Actors
  <2>1. CASE GetFindsEntry(g)
    <3>1. SameCatalog
      BY <2>1, <1>i DEF GetFindsEntry, SameCatalog, TypeOK
    <3> QED BY <3>1, <1>s
  <2>2. CASE GetCreatesEntry(g)
    <3>1. installed' = g /\ installed = None
      BY <2>2 DEF GetCreatesEntry
    <3> QED BY <3>1, <1>i
  <2>3. CASE GetInstalls(g)
    <3>1. /\ UNCHANGED <<config, closed, worker, notices>>
          /\ pc[g] = "install" /\ g \notin Refreshers
          /\ \A b \in Actors : entries'[b].stale = entries[b].stale
          /\ \A b \in Actors : b # g => entries'[b] = entries[b]
      BY <2>3, <1>i DEF GetInstalls, TypeOK, EntryRecords
    <3>2. CASE g # installed
      <4>1. SameCatalog
        BY <3>1, <3>2, <1>i DEF SameCatalog, TypeOK
      <4> QED BY <4>1, <1>s
    <3>3. CASE g = installed
      <4>1. \A n \in Changes : notices[n].entry = installed => ~notices[n].whenReady
        <5>1. ~entries[installed].ready
          BY <3>1, <3>3, <1>i DEF InstalledFits
        <5> QED BY <3>3, <5>1, <1>i DEF NoticesKept, NoticeFits
      <4>2. VersionsGrow'
        BY <3>1, <3>3, <4>1, <1>i, <1>p DEF VersionsGrow, Accepted
      <4>3. StaleMarksLack'
        BY <3>1, <3>3, <4>1, <1>i, <1>p DEF StaleMarksLack, Accepted
      <4> QED BY <4>2, <4>3 DEF Current
    <3> QED BY <3>2, <3>3
  <2>4. CASE GetReadsEntry(g)
    <3>1. UNCHANGED <<config, installed, entries, closed, worker, notices>>
      BY <2>4, ReadsMove
    <3>2. SameCatalog
      BY <3>1 DEF SameCatalog
    <3> QED BY <3>2, <1>s
  <2>5. CASE GetCancelledByClose(g)
    <3>1. SameCatalog
      BY <2>5, <1>i DEF GetCancelledByClose, SameCatalog, TypeOK
    <3> QED BY <3>1, <1>s
  <2>6. CASE GetAwaitsRefresh(g)
    <3>1. at[g] \in Actors
      BY <2>6, <1>i DEF GetAwaitsRefresh, LocalsFit, TypeOK, Actors
    <3>2. /\ UNCHANGED <<config, installed, closed, worker, notices>>
          /\ \A b \in Actors : entries'[b].catalog = entries[b].catalog
                               /\ entries'[b].stale = entries[b].stale
      BY <2>6, <3>1, <1>i DEF GetAwaitsRefresh, TypeOK, EntryRecords
    <3>3. SameCatalog
      BY <3>2, <1>i DEF SameCatalog, TypeOK
    <3> QED BY <3>3, <1>s
  <2>7. CASE GetReadsRefreshed(g)
    <3>1. UNCHANGED <<config, installed, entries, closed, worker, notices>>
      BY <2>7, ReadsMove
    <3>2. SameCatalog
      BY <3>1 DEF SameCatalog
    <3> QED BY <3>2, <1>s
  <2>8. CASE GetPublishes(g)
    <3>1. (installed' = g /\ installed = None) \/ UNCHANGED <<installed, entries>>
      BY <2>8 DEF GetPublishes
    <3>2. SameCatalog
      BY <2>8, <3>1, <1>i DEF GetPublishes, SameCatalog
    <3> QED BY <3>2, <1>s
  <2>9. CASE GetCancelled(g)
    <3>1. SameCatalog
      BY <2>9, <1>i DEF GetCancelled, SameCatalog, TypeOK
    <3> QED BY <3>1, <1>s
  <2> QED BY <1>1, <2>1, <2>2, <2>3, <2>4, <2>5, <2>6, <2>7, <2>8, <2>9 DEF GetStep
<1>2. ASSUME NEW f \in Refreshers, RefreshStep(f) \/ RefreshCancelled(f) PROVE Current'
  <2> f \in Actors
    BY DEF Actors
  <2>1. CASE RefreshWithoutEntry(f)
    <3>1. SameCatalog
      BY <2>1, <1>i DEF RefreshWithoutEntry, SameCatalog, TypeOK
    <3> QED BY <3>1, <1>s
  <2>2. CASE RefreshWaits(f)
    <3>1. SameCatalog
      BY <2>2, <1>i DEF RefreshWaits, SameCatalog, TypeOK
    <3> QED BY <3>1, <1>s
  <2>3. CASE RefreshEntryReady(f)
    <3>1. SameCatalog
      BY <2>3, <1>i DEF RefreshEntryReady, SameCatalog, TypeOK
    <3> QED BY <3>1, <1>s
  <2>4. CASE RefreshMarksStale(f)
    <3>1. UNCHANGED <<config, closed, worker, notices>>
          /\ \A b \in Actors : /\ entries'[b].catalog = entries[b].catalog
                               /\ entries[b].stale => entries'[b].stale
      BY <2>4, <1>i DEF RefreshMarksStale, TypeOK, EntryRecords
    <3>2. SameCatalog
      BY <3>1, <1>i DEF SameCatalog, TypeOK
    <3> QED BY <3>2, <1>s
  <2>5. CASE RefreshFinishes(f)
    <3>1. /\ Finishes(at[f], found[f]) /\ at[f] \in Actors
          /\ UNCHANGED <<config, closed, worker, notices>> /\ pc[f] = "finish"
      BY <2>5, RefreshFinishesFields DEF RefreshFinishes
    <3>2. CASE at[f] # installed
      <4>1. SameCatalog
        BY <3>1, <3>2, <1>i DEF SameCatalog, Finishes, TypeOK
      <4> QED BY <4>1, <1>s
    <3>3. CASE at[f] = installed
      <4>1. installed # f
        BY <3>1, <3>3, <1>i DEF UnmadeUntouched, Unmade, Untouched, Actors
      <4>2. ~NoExplicitRefresh'
        BY <3>1, <4>1, <1>p DEF NoExplicitRefresh
      <4> QED BY <4>2, <1>e
    <3> QED BY <3>2, <3>3
  <2>6. CASE RefreshFails(f)
    <3>1. SameCatalog
      BY <2>6, <1>i DEF RefreshFails, SameCatalog, TypeOK, EntryRecords
    <3> QED BY <3>1, <1>s
  <2>7. CASE RefreshReplaces(f)
    <3>1. Untouched(f)
      BY <2>7, <1>i DEF RefreshReplaces, UnmadeUntouched, Unmade
    <3>2. installed' = f
      BY <2>7 DEF RefreshReplaces
    <3> QED BY <3>1, <3>2 DEF Untouched
  <2>8. CASE RefreshCancelled(f)
    <3>1. SameCatalog
      BY <2>8, <1>i DEF RefreshCancelled, SameCatalog, TypeOK
    <3> QED BY <3>1, <1>s
  <2> QED BY <1>2, <2>1, <2>2, <2>3, <2>4, <2>5, <2>6, <2>7, <2>8 DEF RefreshStep
<1>3. ASSUME NEW a \in Actors, Compile(a) PROVE Current'
  <2>1. SameCatalog
    BY <1>3, <1>i DEF Compile, SameCatalog, TypeOK
  <2> QED BY <2>1, <1>s
<1>4. ASSUME NEW a \in Actors, TimerFires(a) PROVE Current'
  <2>1. SameCatalog
    BY <1>4, <1>i DEF TimerFires, SameCatalog, TypeOK, EntryRecords
  <2> QED BY <2>1, <1>s
<1>5. ASSUME NEW a \in Actors, NEW r \in Runs, WorkerStep(a, r) PROVE Current'
  <2>1. CASE WorkerCompiles(a, r)
    <3>1. PICK o \in Discoveries(FALSE) :
             worker' = [worker EXCEPT ![a][r] = [@ EXCEPT !.state = "finish", !.found = o]]
      BY <2>1 DEF WorkerCompiles
    <3>2. o \in Outcomes /\ (Succeeded(o) => o.version = upstream)
      BY <3>1, <1>i, DiscoveriesAreOutcomes
    <3>3. worker' = [worker EXCEPT ![a] = [worker[a] EXCEPT ![r] =
             [worker[a][r] EXCEPT !.state = "finish", !.found = o]]]
      BY <3>1
    <3>4. /\ worker'[a][r].found = o
          /\ \A q \in Runs : q # r => worker'[a][q] = worker[a][q]
          /\ \A e \in Actors : e # a => worker'[e] = worker[e]
      BY <3>3, <1>i DEF TypeOK
    <3>5. UNCHANGED <<config, entries, closed, notices, upstream>>
      BY <2>1 DEF WorkerCompiles
    <3>6. CASE a # installed
      <4>1. SameCatalog
        BY <3>4, <3>5, <3>6, <1>i DEF SameCatalog, TypeOK
      <4> QED BY <4>1, <1>s
    <3>7. CASE a = installed
      <4>1. \A n \in Changes : notices[n].entry = a => n <= upstream
        BY <3>7, <1>i DEF NoticesKept, NoticeFits
      <4>2. StaleMarksLack'
        BY <3>5, <3>7, <1>i, <1>p DEF StaleMarksLack, Accepted
      <4>3. VersionsGrow'
        <5> SUFFICES ASSUME NoExplicitRefresh, NEW n \in Changes,
                            notices[n].entry = a, NEW q \in Runs,
                            Succeeded(worker'[a][q].found)
                     PROVE  \/ worker'[a][q] = worker[a][q]
                            \/ worker'[a][q].found.version >= n
          BY <3>5, <3>7, <1>i, <1>p DEF VersionsGrow, Accepted
        <5>1. CASE q = r
          BY <3>2, <3>4, <4>1, <5>1, <1>v
        <5>2. CASE q # r
          BY <3>4, <5>2
        <5> QED BY <5>1, <5>2
      <4> QED BY <4>2, <4>3 DEF Current
    <3> QED BY <3>6, <3>7
  <2>2. CASE WorkerFindsReplacement(a, r)
    <3>1. UNCHANGED <<config, entries, closed>> /\ installed # a
      BY <2>2 DEF WorkerFindsReplacement
    <3>2. /\ worker'[a][r].state = "idle"
          /\ \A q \in Runs : q # r => worker'[a][q] = worker[a][q]
          /\ \A e \in Actors : e # a => worker'[e] = worker[e]
          /\ \A n \in Changes :
                /\ notices'[n].entry = notices[n].entry
                /\ notices'[n].whenReady = notices[n].whenReady
                /\ n \notin worker[a][r].callbacks => notices'[n] = notices[n]
                /\ n \in worker[a][r].callbacks => notices'[n].state =
                      IF Succeeded(worker[a][r].found) THEN "succeeded" ELSE "failed"
      BY <2>2, <1>i DEF WorkerFindsReplacement, WorkerEnds, IdleWorker, TypeOK
    <3>3. \A n \in worker[a][r].callbacks : notices[n].entry = a
      BY <1>i DEF NoticesKept, RunsFit
    <3>4. SameCatalog
      BY <3>1, <3>2, <3>3, <1>i DEF SameCatalog, TypeOK
    <3> QED BY <3>4, <1>s
  <2>3. CASE WorkerFinishes(a, r)
    <3> DEFINE o == worker[a][r].found
    <3>1. /\ Finishes(a, o) /\ installed = a /\ o \in Outcomes
          /\ UNCHANGED <<config, closed>>
          /\ worker[a][r].state = "finish"
      BY <2>3, WorkerFinishesFields DEF WorkerFinishes
    <3>2. /\ worker'[a][r].state = "idle"
          /\ \A q \in Runs : q # r => worker'[a][q] = worker[a][q]
          /\ \A e \in Actors : e # a => worker'[e] = worker[e]
          /\ \A n \in Changes :
                /\ notices'[n].entry = notices[n].entry
                /\ notices'[n].whenReady = notices[n].whenReady
                /\ n \notin worker[a][r].callbacks => notices'[n] = notices[n]
                /\ n \in worker[a][r].callbacks => notices'[n].state =
                      IF Succeeded(worker[a][r].found) THEN "succeeded" ELSE "failed"
      BY <2>3, <1>i DEF WorkerFinishes, WorkerEnds, IdleWorker, TypeOK
    <3>3. Succeeded(o) => entries'[a].catalog.version = o.version
      BY <3>1, CatalogsAndErrors DEF Finishes
    <3>4. ~Succeeded(o) => entries'[a].catalog = entries[a].catalog
      BY <3>1 DEF Finishes
    <3>5. ASSUME NoExplicitRefresh
          PROVE  /\ entries[a].refreshing
                 /\ \A q \in Runs : worker'[a][q].state = "idle"
                 /\ \A q \in Runs : q # r => worker[a][q].callbacks = {}
      BY <3>1, <3>2, <3>5, <1>i DEF RunsAlone, WorkersFit
    <3>6. ASSUME NoExplicitRefresh, Succeeded(o), NEW n \in Changes,
                 notices[n].entry = a,
                 n \in worker[a][r].callbacks \/ notices[n].state # "queued"
          PROVE  o.version >= n
      BY <3>1, <3>6, <1>i DEF VersionsGrow, Accepted
    <3> HIDE DEF o
    <3>7. VersionsGrow'
      <4> SUFFICES ASSUME NoExplicitRefresh, NEW n \in Changes,
                          notices[n].entry = a, notices'[n].whenReady,
                          notices'[n].state \in {"succeeded", "announced"}
                   PROVE  entries'[a].catalog.version >= n
        BY <3>1, <3>2, <3>5, <1>p DEF VersionsGrow, Accepted
      <4>1. CASE Succeeded(o)
        <5>1. n \in worker[a][r].callbacks \/ notices[n].state # "queued"
          BY <3>2
        <5> QED BY <3>3, <3>6, <4>1, <5>1
      <4>2. CASE ~Succeeded(o)
        <5>1. n \notin worker[a][r].callbacks
          BY <3>2, <4>2 DEF o
        <5>2. notices[n].whenReady /\ notices[n].state \in {"succeeded", "announced"}
          BY <3>2, <5>1
        <5> QED BY <3>1, <3>4, <4>2, <5>2, <1>i DEF VersionsGrow, Accepted
      <4> QED BY <4>1, <4>2
    <3>8. StaleMarksLack'
      <4> SUFFICES ASSUME ~closed, config.toolSearch, NoExplicitRefresh,
                          NEW n \in Changes, notices[n].entry = a,
                          ~entries[a].pending, Succeeded(o)
                   PROVE  /\ notices'[n].state # "queued"
                          /\ notices'[n].whenReady =>
                                entries'[a].catalog.version >= n
        BY <3>1, <3>2, <1>p DEF StaleMarksLack, Accepted, Finishes
      <4>1. n \in worker[a][r].callbacks \/ notices[n].state # "queued"
        <5>1. entries[a].callbacks = {}
          BY <3>1, <3>5, <1>i, <1>n DEF TimersServe
        <5>2. NoticeFits(n)
          BY <1>i DEF NoticesKept
        <5> QED BY <3>5, <5>1, <5>2 DEF NoticeFits
      <4>2. notices'[n].state # "queued"
        BY <3>2, <4>1
      <4> QED BY <3>3, <3>6, <4>1, <4>2
    <3> QED BY <3>7, <3>8 DEF Current
  <2> QED BY <1>5, <2>1, <2>2, <2>3 DEF WorkerStep
<1>6. CASE RunRefresh
  <2>1. /\ UNCHANGED <<config, closed, notices>> /\ installed \in Actors
        /\ entries'[installed].catalog = entries[installed].catalog
        /\ entries'[installed].stale = entries[installed].stale
    BY <1>6, <1>i DEF RunRefresh, CanRefresh, TypeOK, EntryRecords
  <2>2. PICK r \in Runs :
           worker' = [worker EXCEPT ![installed] = [worker[installed] EXCEPT ![r] =
              [state |-> "compile", found |-> None,
               callbacks |-> entries[installed].callbacks]]]
    BY <1>6 DEF RunRefresh
  <2>3. /\ worker'[installed][r].state = "compile"
        /\ \A q \in Runs : q # r => worker'[installed][q] = worker[installed][q]
    BY <2>1, <2>2, <1>i DEF TypeOK
  <2>4. SameCatalog
    BY <2>1, <2>3 DEF SameCatalog
  <2> QED BY <2>4, <1>s
<1>7. CASE RunRefreshReturns
  <2>1. SameCatalog
    BY <1>7, <1>i DEF RunRefreshReturns, SameCatalog, TypeOK
  <2> QED BY <2>1, <1>s
<1>8. CASE UpstreamChanges
  <2>1. SameCatalog
    BY <1>8, <1>i DEF UpstreamChanges, SameCatalog, TypeOK
  <2> QED BY <2>1, <1>s
<1>9. ASSUME NEW n \in Changes, NoticeIgnored(n) \/ RequestRefresh(n) \/ CallBack(n) PROVE Current'
  <2>1. CASE NoticeIgnored(n)
    <3>1. SameCatalog
      BY <2>1, <1>i DEF NoticeIgnored, SameCatalog, TypeOK, NoticeDue
    <3> QED BY <3>1, <1>s
  <2>2. CASE RequestRefresh(n)
    <3>1. installed \in Actors /\ Notes(n)
      BY <2>2, RequestRefreshFields
    <3>2. /\ UNCHANGED <<config, closed, worker>> /\ notices[n].state = "new"
          /\ notices'[n].state = "queued"
          /\ \A m \in Changes : m # n => notices'[m] = notices[m]
      BY <2>2, <1>i DEF RequestRefresh, NoticeDue, TypeOK
    <3>3. \A r \in Runs : n \notin worker[installed][r].callbacks
      BY <3>1, <3>2, <1>i DEF NoticesKept, RunsFit
    <3>4. SameCatalog
      BY <3>1, <3>2, <3>3 DEF SameCatalog, Notes
    <3> QED BY <3>4, <1>s
  <2>3. CASE CallBack(n)
    <3>1. SameCatalog
      BY <2>3, <1>i DEF CallBack, SameCatalog, TypeOK
    <3> QED BY <3>1, <1>s
  <2> QED BY <1>9, <2>1, <2>2, <2>3
<1>10. CASE InvalidateComponent
  <2>1. installed' = None /\ installed # None
    BY <1>10 DEF InvalidateComponent
  <2> QED BY <2>1
<1>11. CASE Close
  <2>1. closed' /\ UNCHANGED <<config, worker, notices>>
    BY <1>11 DEF Close
  <2>2. installed # None =>
           /\ entries'[installed].catalog = entries[installed].catalog
           /\ entries'[installed].stale = entries[installed].stale
    BY <1>11, <1>i, CloseKeeps DEF TypeOK
  <2>3. SameCatalog
    BY <2>1, <2>2 DEF SameCatalog
  <2> QED BY <2>3, <1>s
<1>12. CASE UNCHANGED vars
  <2>1. SameCatalog
    BY <1>12 DEF vars, SameCatalog
  <2> QED BY <2>1, <1>s
<1> QED BY <1>1, <1>2, <1>3, <1>4, <1>5, <1>6, <1>7, <1>8, <1>9, <1>10, <1>11, <1>12 DEF Next

----------------------------------------------------------------------------
\* The invariant holds at first, ...
LEMMA InvInit == Init => IndInv
<1> SUFFICES ASSUME Init PROVE IndInv
  OBVIOUS
<1>1. TypeOK
  BY TypeInit
<1>2. LocalsFit
  BY DEF Init, LocalsFit, GetLabels, RefreshLabels, Waits, Actors
<1>3. WorkersFit
  BY DEF Init, WorkersFit, IdleWorker
<1>4. UnmadeUntouched
  BY RegistryAssumption DEF Init, UnmadeUntouched, Untouched, IdleWorker
<1>5. InstalledFits
  BY DEF Init, InstalledFits, NewEntry
<1>6. NoticesKept
  BY DEF Init, NoticesKept, NoticeFits, CallbacksFit, RunsFit, NewEntry,
         IdleWorker
<1>7. RefreshersExist /\ DueIsAwaited /\ TimersServe /\ RunsAlone
      /\ VersionsGrow /\ StaleMarksLack
  BY DEF Init, RefreshersExist, DueIsAwaited, TimersServe, RunsAlone,
         VersionsGrow, StaleMarksLack
<1>8. CredentialOutcomesStayRequestLocal
  BY DEF Init, CredentialOutcomesStayRequestLocal, Actors
<1> QED BY <1>1, <1>2, <1>3, <1>4, <1>5, <1>6, <1>7, <1>8 DEF IndInv

\* ... and every step keeps it.
LEMMA InvStep == IndInv /\ [Next]_vars => IndInv'
<1> SUFFICES ASSUME IndInv, [Next]_vars PROVE IndInv'
  OBVIOUS
<1>1. TypeOK' /\ LocalsFit' /\ WorkersFit' /\ UnmadeUntouched'
      /\ InstalledFits' /\ NoticesKept' /\ CredentialOutcomesStayRequestLocal'
  BY TypeStep, LocalsStep, WorkersStep, UnmadeStep, InstalledStep, NoticesStep,
     CredentialStep
<1>2. Served' /\ Current'
  BY ServedStep, CurrentStep
<1> QED BY <1>1, <1>2 DEF IndInv, Served, Current

LEMMA Invariance == Spec => []IndInv
BY InvInit, InvStep, PTL DEF Spec

----------------------------------------------------------------------------
\* Registry, registryEntry and the ghost state keep their types (registry.go).
THEOREM TypeCorrect == Spec => []TypeOK
<1>1. IndInv => TypeOK
  BY DEF IndInv
<1> QED BY Invariance, <1>1, PTL

\* Once frontends were told of an upstream change, the installed catalog
\* includes it (runRefresh, finishRefresh).
THEOREM AnnouncedChangeIsServedCorrect == Spec => []AnnouncedChangeIsServed
<1>1. IndInv => AnnouncedChangeIsServed
  BY DEF IndInv, AnnouncedChangeIsServed, VersionsGrow, Accepted
<1> QED BY Invariance, <1>1, PTL

\* A search catalog is served without a wait only if it includes every change
\* that was notified (waitForCatalog, RequestRefresh, finishRefresh).
THEOREM SearchServesNoStaleCatalogCorrect ==
    Spec => []SearchServesNoStaleCatalog
<1>1. ASSUME IndInv PROVE SearchServesNoStaleCatalog
  <2> SUFFICES ASSUME config.toolSearch, NoExplicitRefresh, Cached # None,
                      NEW n \in Accepted, notices[n].whenReady
               PROVE  Cached.version >= n
    BY DEF SearchServesNoStaleCatalog
  <2>1. /\ ~closed /\ installed # None /\ ~entries[installed].stale
        /\ Cached = entries[installed].catalog
    BY DEF Cached
  <2> QED BY <1>1, <2>1 DEF IndInv, StaleMarksLack
<1> QED BY Invariance, <1>1, PTL

\* A request is told to authorize only on the strength of its own discovery
\* (Registry.Get).
THEOREM CredentialOutcomesStayRequestLocalCorrect ==
    Spec => []CredentialOutcomesStayRequestLocal
<1>1. IndInv => CredentialOutcomesStayRequestLocal
  BY DEF IndInv
<1> QED BY Invariance, <1>1, PTL

\* Whoever waits for a refresh waits for something that happens
\* (waitForCatalog, RequestRefresh, runRefresh, finishRefresh, Refresh).
THEOREM AwaitedRefreshIsComingCorrect == Spec => []AwaitedRefreshIsComing
<1>1. ASSUME IndInv PROVE AwaitedRefreshIsComing
  <2> SUFFICES ASSUME OneExplicitRefresh, ~closed, installed # None,
                      entries[installed].refreshDone
               PROVE  RefreshComing
    BY DEF AwaitedRefreshIsComing
  <2>1. /\ entries[installed].timer \in {"nil", "armed", "spent"}
        /\ entries[installed].refreshing \/ entries[installed].timer # "nil"
    BY <1>1 DEF IndInv, TypeOK, EntryRecords, TimerStates, RefreshersExist
  <2>2. CASE entries[installed].refreshing
    BY <1>1, <2>2 DEF IndInv, RefreshersExist, RefreshComing
  <2>3. CASE entries[installed].timer # "nil"
    BY <1>1, <2>1, <2>3 DEF IndInv, TimersServe, RefreshComing
  <2> QED BY <2>1, <2>2, <2>3
<1> QED BY Invariance, <1>1, PTL

\* No notification is lost while its entry is installed (RequestRefresh,
\* runRefresh, finishRefresh).
THEOREM NoNoticeLostCorrect == Spec => []NoNoticeLost
<1>1. ASSUME IndInv PROVE NoNoticeLost
  <2> SUFFICES ASSUME OneExplicitRefresh, ~closed, NEW n \in Accepted,
                      notices[n].state = "queued",
                      \A r \in Runs : n \notin worker[installed][r].callbacks
               PROVE  /\ n \in entries[installed].callbacks
                      /\ \/ entries[installed].timer = "armed"
                         \/ timersFired > 0
                         \/ entries[installed].pending /\ RefreshComing
    BY DEF NoNoticeLost
  <2>1. installed \in Actors /\ n \in Changes /\ notices[n].entry = installed
        /\ installed # None
    BY <1>1 DEF IndInv, TypeOK, Accepted
  <2>2. n \in entries[installed].callbacks
    BY <1>1, <2>1 DEF IndInv, NoticesKept, NoticeFits
  <2>3. \/ entries[installed].timer = "armed"
        \/ timersFired > 0
        \/ entries[installed].pending
    BY <1>1, <2>1, <2>2 DEF IndInv, TimersServe
  <2>4. entries[installed].pending => entries[installed].refreshing
    BY <1>1, <2>1 DEF IndInv, InstalledFits
  <2>5. entries[installed].refreshing => RefreshComing
    BY <1>1, <2>1 DEF IndInv, RefreshersExist, RefreshComing
  <2> QED BY <2>2, <2>3, <2>4, <2>5
<1> QED BY Invariance, <1>1, PTL

----------------------------------------------------------------------------
\* How an entry leaves the cache (Registry.Get, Refresh, InvalidateComponent).
Leaves ==
    \/ installed' = installed
    \/ installed = None
    \/ pc[installed] = "install" /\ installed' = None
    \/ \E f \in Refreshers : RefreshReplaces(f)
    \/ InvalidateComponent

LEMMA EntriesLeave == IndInv /\ [Next]_vars => Leaves
<1> SUFFICES ASSUME IndInv, [Next]_vars PROVE Leaves
  OBVIOUS
<1> USE DEF Leaves
<1>1. ASSUME NEW g \in Getters, GetStep(g) \/ GetCancelled(g) PROVE Leaves
  <2> g \in Actors
    BY DEF Actors
  <2>1. CASE GetFindsEntry(g)
    BY <2>1 DEF GetFindsEntry
  <2>2. CASE GetCreatesEntry(g)
    BY <2>2 DEF GetCreatesEntry
  <2>3. CASE GetInstalls(g)
    BY <2>3 DEF GetInstalls, DropsEntry
  <2>4. CASE GetReadsEntry(g)
    BY <2>4, ReadsMove
  <2>5. CASE GetCancelledByClose(g)
    BY <2>5 DEF GetCancelledByClose
  <2>6. CASE GetAwaitsRefresh(g)
    BY <2>6 DEF GetAwaitsRefresh
  <2>7. CASE GetReadsRefreshed(g)
    BY <2>7, ReadsMove
  <2>8. CASE GetPublishes(g)
    BY <2>8 DEF GetPublishes
  <2>9. CASE GetCancelled(g)
    BY <2>9 DEF GetCancelled
  <2> QED BY <1>1, <2>1, <2>2, <2>3, <2>4, <2>5, <2>6, <2>7, <2>8, <2>9 DEF GetStep
<1>2. ASSUME NEW f \in Refreshers, RefreshStep(f) \/ RefreshCancelled(f) PROVE Leaves
  <2> f \in Actors
    BY DEF Actors
  <2>1. CASE RefreshWithoutEntry(f)
    BY <2>1 DEF RefreshWithoutEntry
  <2>2. CASE RefreshWaits(f)
    BY <2>2 DEF RefreshWaits
  <2>3. CASE RefreshEntryReady(f)
    BY <2>3 DEF RefreshEntryReady
  <2>4. CASE RefreshMarksStale(f)
    BY <2>4 DEF RefreshMarksStale
  <2>5. CASE RefreshFinishes(f)
    BY <2>5 DEF RefreshFinishes
  <2>6. CASE RefreshFails(f)
    BY <2>6 DEF RefreshFails
  <2>7. CASE RefreshReplaces(f)
    BY <2>7
  <2>8. CASE RefreshCancelled(f)
    BY <2>8 DEF RefreshCancelled
  <2> QED BY <1>2, <2>1, <2>2, <2>3, <2>4, <2>5, <2>6, <2>7, <2>8 DEF RefreshStep
<1>3. ASSUME NEW a \in Actors, Compile(a) PROVE Leaves
  BY <1>3 DEF Compile
<1>4. ASSUME NEW a \in Actors, TimerFires(a) PROVE Leaves
  BY <1>4 DEF TimerFires
<1>5. ASSUME NEW a \in Actors, NEW r \in Runs, WorkerStep(a, r) PROVE Leaves
  <2>1. CASE WorkerCompiles(a, r)
    BY <2>1 DEF WorkerCompiles
  <2>2. CASE WorkerFindsReplacement(a, r)
    BY <2>2 DEF WorkerFindsReplacement
  <2>3. CASE WorkerFinishes(a, r)
    BY <2>3 DEF WorkerFinishes
  <2> QED BY <1>5, <2>1, <2>2, <2>3 DEF WorkerStep
<1>6. CASE RunRefresh
  BY <1>6 DEF RunRefresh
<1>7. CASE RunRefreshReturns
  BY <1>7 DEF RunRefreshReturns
<1>8. CASE UpstreamChanges
  BY <1>8 DEF UpstreamChanges
<1>9. ASSUME NEW n \in Changes, NoticeIgnored(n) \/ RequestRefresh(n) \/ CallBack(n) PROVE Leaves
  <2>1. CASE NoticeIgnored(n)
    BY <2>1 DEF NoticeIgnored
  <2>2. CASE RequestRefresh(n)
    BY <2>2 DEF RequestRefresh
  <2>3. CASE CallBack(n)
    BY <2>3 DEF CallBack
  <2> QED BY <1>9, <2>1, <2>2, <2>3
<1>10. CASE InvalidateComponent
  BY <1>10
<1>11. CASE Close
  BY <1>11 DEF Close
<1>12. CASE UNCHANGED vars
  BY <1>12 DEF vars
<1> QED BY <1>1, <1>2, <1>3, <1>4, <1>5, <1>6, <1>7, <1>8, <1>9, <1>10, <1>11, <1>12 DEF Next

\* The cache holds entries whose compile runs or found a ready catalog, and an
\* entry leaves it only when its own compile ends, by an explicit Refresh or by
\* invalidation (Registry.Get, publish, Refresh, InvalidateComponent).
THEOREM CacheKeepsReadyEntriesCorrect == Spec => CacheKeepsReadyEntries
<1>1. ASSUME IndInv, IndInv', [Next]_vars, installed # None
      PROVE  \/ /\ installed' = installed
                /\ entries'[installed].ready =>
                      /\ entries'[installed].err = None
                      /\ entries'[installed].catalog # None
                      /\ ~entries'[installed].catalog.pending
             \/ pc[installed] = "install" /\ installed' = None
             \/ \E f \in Refreshers : RefreshReplaces(f)
             \/ InvalidateComponent
  <2>1. Leaves
    BY <1>1, EntriesLeave
  <2>2. InstalledFits'
    BY <1>1 DEF IndInv
  <2>3. installed' = installed /\ entries'[installed].ready =>
           /\ entries'[installed].err = None
           /\ entries'[installed].catalog # None
           /\ ~entries'[installed].catalog.pending
    BY <1>1, <2>2 DEF InstalledFits
  <2> QED BY <1>1, <2>1, <2>3 DEF Leaves
<1>2. Spec => [][Next]_vars
  BY PTL DEF Spec
<1> QED BY <1>1, <1>2, Invariance, PTL DEF CacheKeepsReadyEntries
=============================================================================
