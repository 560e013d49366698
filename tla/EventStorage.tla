----------------------------- MODULE EventStorage -----------------------------
(***************************************************************************)
(* The persistent event store of resumable streams: storage.SQLStore       *)
(* (eventstore.go, eventstore_sqlite.go) in one or more databases, behind  *)
(* storage.EventAdapter (event_adapter.go), which binds a session to the   *)
(* database its first stream was opened in.                                *)
(*                                                                         *)
(* A writing transaction is one action: SQLite runs them one at a time,    *)
(* and one that fails or is retried leaves the tables alone. The clock is  *)
(* read before the transaction begins, so transactions may commit in       *)
(* another order than their times. A replay reads in two statements, which *)
(* see one snapshot (SQLite, MySQL) or two (PostgreSQL at its default      *)
(* isolation): SnapshotReads.                                              *)
(*                                                                         *)
(* A stream is its key (session_id, stream_id); streams are numbers in the *)
(* order of their keys. A payload is its size.                             *)
(***************************************************************************)
EXTENDS Integers, FiniteSets, FiniteSetsExt

CONSTANTS
    Clients,        \* goroutines of the SDK that use the event store
    Stores,         \* databases
    Sessions,
    NumStreams,
    SessionOf,      \* the session of each stream
    Sizes,          \* payload sizes
    MaxEventBytes,  \* Options.MaxEventBytes
    EventTTL,       \* Options.EventTTL
    MaxEvents,      \* bound on the positions allocated in existing streams
    MaxClock,       \* bound on the time
    SnapshotReads,  \* whether the statements of a transaction see one snapshot
    None

Streams == 1..NumStreams

ASSUME StorageAssumption ==
    /\ NumStreams \in Nat
    /\ SessionOf \in [Streams -> Sessions]
    /\ Sizes \subseteq Nat
    /\ MaxEventBytes \in Nat \ {0}
    /\ EventTTL \in Nat \ {0}
    /\ MaxEvents \in Nat
    /\ MaxClock \in Nat
    /\ SnapshotReads \in BOOLEAN
    /\ None \notin Stores
    /\ None \notin [first: Nat, next: Nat, expires: Nat]

VARIABLES
    streams,    \* mmmcp_event_streams of each store: the row of a stream, or None
    log,        \* mmmcp_event_log of each store
    clock,
    sessions,   \* EventAdapter.sessions
    op,         \* what each client does
    disturbed   \* sessions whose binding was removed once

vars == <<streams, log, clock, sessions, op, disturbed>>

StreamRow == [first: Nat, next: Nat, expires: Nat]
Event == [stream: Streams, index: Nat, size: Nat, created: Nat]

\* An operation in progress. start is the first index a replay asks for,
\* next and rows are what its statements have found.
Operating(at, d, s, now) ==
    [at |-> at, store |-> d, stream |-> s, now |-> now, created |-> FALSE,
     size |-> 0, start |-> 0, next |-> 0, rows |-> {}]

Advanced(o, at, next, rows) ==
    [at |-> at, store |-> o.store, stream |-> o.stream, now |-> o.now,
     created |-> o.created, size |-> o.size, start |-> o.start,
     next |-> next, rows |-> rows]

Idle == Operating("idle", None, None, 0)

Operation ==
    [at: {"open", "append", "read", "rows", "replay", "close", "unbind"},
     store: Stores, stream: Streams, now: Nat, created: BOOLEAN, size: Nat,
     start: Nat, next: Nat, rows: SUBSET Nat]

Init ==
    /\ streams = [d \in Stores |-> [s \in Streams |-> None]]
    /\ log = [d \in Stores |-> {}]
    /\ clock = 0
    /\ sessions = [s \in Sessions |-> None]
    /\ op = [c \in Clients |-> Idle]
    /\ disturbed = {}

----------------------------------------------------------------------------
(* pruneTx, as a function of the tables: the expired streams go with their *)
(* events, then the oldest events until the payloads fit or one is left.   *)

Precedes(a, b) ==
    \/ a.created < b.created
    \/ /\ a.created = b.created
       /\ \/ a.stream < b.stream
          \/ a.stream = b.stream /\ a.index < b.index


Bytes(E) == MapThenSumSet(LAMBDA e : e.size, E)

ExpiredStreams(S, now) == {s \in Streams : S[s] # None /\ S[s].expires <= now}

\* Events that are not the newest and with which the payloads do not fit.
OldestEvents(E) ==
    {e \in E : /\ \E f \in E : Precedes(e, f)
               /\ Bytes({f \in E : ~Precedes(f, e)}) > MaxEventBytes}

\* Faulty variant: the watermark is the deleted index, not the one after it.
RaisedFirstTooLow(row, s, P) ==
    LET Above(m) == \A e \in P : e.stream = s => e.index <= m
    IN  CHOOSE m \in row.first..row.next :
            Above(m) /\ \A k \in row.first..row.next : Above(k) => m <= k

\* first_retained_index after the events P are deleted one by one.
RaisedFirst(row, s, P) ==
    LET Above(m) == \A e \in P : e.stream = s => e.index < m
    IN  CHOOSE m \in row.first..row.next :
            Above(m) /\ \A k \in row.first..row.next : Above(k) => m <= k

\* Faulty variant: the events of expired streams stay behind.
PrunedLogKeepsExpired(S, L, now) == L \ OldestEvents(L)

\* Faulty variant: the size bound is not enforced.
PrunedLogUnbounded(S, L, now) ==
    {e \in L : e.stream \notin ExpiredStreams(S, now)}

PrunedLog(S, L, now) ==
    LET kept == {e \in L : e.stream \notin ExpiredStreams(S, now)}
    IN  kept \ OldestEvents(kept)

PrunedStreams(S, L, now) ==
    LET kept == {e \in L : e.stream \notin ExpiredStreams(S, now)}
    IN  [s \in Streams |->
            IF S[s] = None \/ s \in ExpiredStreams(S, now)
            THEN None
            ELSE [S[s] EXCEPT !.first = RaisedFirst(S[s], s, OldestEvents(kept))]]

\* The end of a transaction on d that left its tables as S and L.
PruneTx(d, S, L, now) ==
    /\ streams' = [streams EXCEPT ![d] = PrunedStreams(S, L, now)]
    /\ log' = [log EXCEPT ![d] = PrunedLog(S, L, now)]

----------------------------------------------------------------------------
(* Operations. Each is looked up in the adapter, takes its time and then   *)
(* commits or fails.                                                       *)

Begin(c, o) == op[c].at = "idle" /\ op' = [op EXCEPT ![c] = o]
Finish(c) == op' = [op EXCEPT ![c] = Idle]

\* Faulty variant: every stream goes to the store its own request selects.
OpenBeginsAnywhere(c, s, d) ==
    /\ Begin(c, Operating("open", d, s, clock))
    /\ sessions' = [sessions EXCEPT ![SessionOf[s]] = d]
    /\ UNCHANGED <<streams, log, clock, disturbed>>

\* EventAdapter.Open finds the session's store or binds the one its request
\* selects; SQLStore.Open reads the clock.
OpenBegins(c, s, d) ==
    LET store == sessions[SessionOf[s]] IN
    /\ IF store = None
       THEN Begin(c, [Operating("open", d, s, clock) EXCEPT !.created = TRUE])
       ELSE Begin(c, Operating("open", store, s, clock))
    /\ sessions' = IF store = None
                   THEN [sessions EXCEPT ![SessionOf[s]] = d] ELSE sessions
    /\ UNCHANGED <<streams, log, clock, disturbed>>

\* Faulty variant: opening a stream again starts its indexes anew.
OpenCommitsAnew(c) ==
    LET o == op[c]
        opened == [first |-> 0, next |-> 0, expires |-> o.now + EventTTL]
    IN
    /\ o.at = "open"
    /\ PruneTx(o.store, [streams[o.store] EXCEPT ![o.stream] = opened],
               log[o.store], o.now)
    /\ Finish(c)
    /\ UNCHANGED <<clock, sessions, disturbed>>

\* A row that exists keeps its indexes; only its expiry moves.
OpenCommits(c) ==
    LET o == op[c]
        row == streams[o.store][o.stream]
        expires == o.now + EventTTL
        opened == IF row = None
                  THEN [first |-> 0, next |-> 0, expires |-> expires]
                  ELSE [row EXCEPT !.expires = expires]
    IN
    /\ o.at = "open"
    /\ PruneTx(o.store, [streams[o.store] EXCEPT ![o.stream] = opened],
               log[o.store], o.now)
    /\ Finish(c)
    /\ UNCHANGED <<clock, sessions, disturbed>>

\* Releases s from store d, if it is still bound to it.
Unbind(s, d) ==
    IF sessions[s] = d
    THEN /\ sessions' = [sessions EXCEPT ![s] = None]
         /\ disturbed' = disturbed \cup {s}
    ELSE UNCHANGED <<sessions, disturbed>>

\* The transaction failed; the call that made the binding removes it.
OpenFails(c) ==
    /\ op[c].at = "open"
    /\ IF op[c].created
       THEN Unbind(SessionOf[op[c].stream], op[c].store)
       ELSE UNCHANGED <<sessions, disturbed>>
    /\ Finish(c)
    /\ UNCHANGED <<streams, log, clock>>

AppendBegins(c, s, size) ==
    /\ sessions[SessionOf[s]] # None
    /\ Begin(c, [Operating("append", sessions[SessionOf[s]], s, clock)
                   EXCEPT !.size = size])
    /\ UNCHANGED <<streams, log, clock, sessions, disturbed>>

Positions ==
    LET rows == {t \in Stores \X Streams : streams[t[1]][t[2]] # None}
    IN  MapThenSumSet(LAMBDA t : streams[t[1]][t[2]].next, rows)

AppendCommits(c) ==
    LET o == op[c]
        row == streams[o.store][o.stream]
        event == [stream |-> o.stream, index |-> row.next, size |-> o.size,
                  created |-> o.now]
    IN
    /\ o.at = "append"
    /\ row # None
    /\ Positions < MaxEvents
    /\ PruneTx(o.store,
               [streams[o.store] EXCEPT ![o.stream] =
                   [first |-> row.first, next |-> row.next + 1,
                    expires |-> o.now + EventTTL]],
               log[o.store] \cup {event}, o.now)
    /\ Finish(c)
    /\ UNCHANGED <<clock, sessions, disturbed>>

\* The stream is unknown or the transaction failed.
AppendFails(c) ==
    /\ op[c].at = "append"
    /\ Finish(c)
    /\ UNCHANGED <<streams, log, clock, sessions, disturbed>>

----------------------------------------------------------------------------
(* Replay.                                                                 *)

ReplayBegins(c, s, start) ==
    /\ sessions[SessionOf[s]] # None
    /\ Begin(c, [Operating("read", sessions[SessionOf[s]], s, 0)
                   EXCEPT !.start = start])
    /\ UNCHANGED <<streams, log, clock, sessions, disturbed>>

RowsAfter(d, s, start) ==
    {e.index : e \in {f \in log[d] : f.stream = s /\ f.index >= start}}

\* Faulty variant: the watermark is compared with the last index received.
HasEventsFromTooEarly(row, start) ==
    /\ row # None
    /\ row.first <= start + 1
    /\ start < row.next

\* The stream is known, its watermark is not above start and it has more.
HasEventsFrom(row, start) ==
    /\ row # None
    /\ row.first <= start
    /\ start < row.next

\* No row, purged events or nothing new.
ReplayEmpty(c) ==
    LET o == op[c]
        row == streams[o.store][o.stream]
    IN
    /\ o.at = "read"
    /\ ~HasEventsFrom(row, o.start)
    /\ Finish(c)
    /\ UNCHANGED <<streams, log, clock, sessions, disturbed>>

\* The first statement finds the watermark at or below the start.
ReplayReadsRow(c) ==
    LET o == op[c]
        row == streams[o.store][o.stream]
    IN
    /\ o.at = "read"
    /\ HasEventsFrom(row, o.start)
    /\ op' = [op EXCEPT ![c] =
                 Advanced(o, "rows", row.next,
                          RowsAfter(o.store, o.stream, o.start))]
    /\ UNCHANGED <<streams, log, clock, sessions, disturbed>>

\* The second statement reads the events, in that snapshot or a new one.
ReplayReadsEvents(c) ==
    LET o == op[c] IN
    /\ o.at = "rows"
    /\ op' = [op EXCEPT ![c] =
                 Advanced(o, "replay", o.next,
                          IF SnapshotReads THEN o.rows
                          ELSE RowsAfter(o.store, o.stream, o.start))]
    /\ UNCHANGED <<streams, log, clock, sessions, disturbed>>

\* The caller has been given the events.
ReplayEnds(c) ==
    /\ op[c].at = "replay"
    /\ Finish(c)
    /\ UNCHANGED <<streams, log, clock, sessions, disturbed>>

----------------------------------------------------------------------------
(* The end of a session, time, other processes and restarts.               *)

SessionClosedBegins(c, s) ==
    /\ sessions[SessionOf[s]] # None
    /\ Begin(c, Operating("close", sessions[SessionOf[s]], s, 0))
    /\ UNCHANGED <<streams, log, clock, sessions, disturbed>>

SessionClosedCommits(c) ==
    LET o == op[c]
        Mine(s) == SessionOf[s] = SessionOf[o.stream]
    IN
    /\ o.at = "close"
    /\ streams' = [streams EXCEPT ![o.store] =
                      [s \in Streams |-> IF Mine(s) THEN None ELSE @[s]]]
    /\ log' = [log EXCEPT ![o.store] = {e \in @ : ~Mine(e.stream)}]
    /\ op' = [op EXCEPT ![c] = Advanced(o, "unbind", 0, {})]
    /\ UNCHANGED <<clock, sessions, disturbed>>

SessionClosedFails(c) ==
    /\ op[c].at = "close"
    /\ Finish(c)
    /\ UNCHANGED <<streams, log, clock, sessions, disturbed>>

SessionClosedUnbinds(c) ==
    /\ op[c].at = "unbind"
    /\ Unbind(SessionOf[op[c].stream], op[c].store)
    /\ Finish(c)
    /\ UNCHANGED <<streams, log, clock>>

Tick ==
    /\ clock < MaxClock
    /\ clock' = clock + 1
    /\ UNCHANGED <<streams, log, sessions, op, disturbed>>

\* storage.Open prunes the database it has opened: this process at its first
\* use of the DSN, or another one.
Prune(d) ==
    /\ PruneTx(d, streams[d], log[d], clock)
    /\ UNCHANGED <<clock, sessions, op, disturbed>>

\* The process ends with whatever it was doing; the databases stay.
Restart ==
    /\ sessions' = [s \in Sessions |-> None]
    /\ op' = [c \in Clients |-> Idle]
    /\ disturbed' = Sessions
    /\ UNCHANGED <<streams, log, clock>>

Next ==
    \/ \E c \in Clients, s \in Streams :
          \/ \E d \in Stores : OpenBegins(c, s, d)
          \/ \E size \in Sizes : AppendBegins(c, s, size)
          \/ \E start \in 0..(MaxEvents - 1) : ReplayBegins(c, s, start)
          \/ SessionClosedBegins(c, s)
    \/ \E c \in Clients :
          \/ OpenCommits(c)
          \/ OpenFails(c)
          \/ AppendCommits(c)
          \/ AppendFails(c)
          \/ ReplayEmpty(c)
          \/ ReplayReadsRow(c)
          \/ ReplayReadsEvents(c)
          \/ ReplayEnds(c)
          \/ SessionClosedCommits(c)
          \/ SessionClosedFails(c)
          \/ SessionClosedUnbinds(c)
    \/ Tick
    \/ \E d \in Stores : Prune(d)
    \/ Restart

Spec == Init /\ [][Next]_vars

----------------------------------------------------------------------------
\* The rows and the operations in progress have their types.
TypeOK ==
    /\ streams \in [Stores -> [Streams -> StreamRow \cup {None}]]
    /\ log \in [Stores -> SUBSET Event]
    /\ clock \in Nat
    /\ sessions \in [Sessions -> Stores \cup {None}]
    /\ op \in [Clients -> {Idle} \cup Operation]
    /\ disturbed \subseteq Sessions

\* What the watermark promises is there: from first_retained_index on, every
\* event of a stream is in the log, although events are pruned in the order of
\* their times and not of their indexes (eventstore_sqlite.go:48-82).
RetainedEventsPresent ==
    \A d \in Stores, s \in Streams :
        streams[d][s] # None =>
            \A i \in streams[d][s].first..(streams[d][s].next - 1) :
                \E e \in log[d] : e.stream = s /\ e.index = i

\* The log holds one event per position, of a stream that exists and below its
\* next_index: an event appended later never meets an old one in its place,
\* also after its stream expired and was opened again (eventstore.go:60-90).
NoOrphanEvents ==
    \A d \in Stores : \A e \in log[d] :
        /\ streams[d][e.stream] # None
        /\ e.index < streams[d][e.stream].next
        /\ \A f \in log[d] : f.stream = e.stream /\ f.index = e.index => f = e

\* Every transaction leaves the payloads within the bound, or one event.
LogWithinBound ==
    \A d \in Stores :
        Cardinality(log[d]) > 1 => Bytes(log[d]) <= MaxEventBytes

\* A replay is never partial: it has every event from the one asked for to the
\* last one its first statement knew (eventstore.go:82-83).
NoPartialReplay ==
    \A c \in Clients :
        op[c].at = "replay" =>
            \A i \in op[c].start..(op[c].next - 1) : i \in op[c].rows

\* While its stream exists, a position is used once and purged for good:
\* neither index of a row ever moves back (eventstore.go:250-252).
IndexesOnlyGrow ==
    [][\A d \in Stores, s \in Streams :
          streams[d][s] # None /\ streams'[d][s] # None =>
              /\ streams'[d][s].first >= streams[d][s].first
              /\ streams'[d][s].next >= streams[d][s].next]_vars

\* As long as nothing released its binding, a session has streams in one
\* database only, whatever its requests select (event_adapter.go:14-15).
StoreAffinity ==
    \A s \in Sessions \ disturbed : \A d \in Stores :
        (\E t \in Streams : SessionOf[t] = s /\ streams[d][t] # None)
            => sessions[s] = d

\* "Later requests cannot move that session to another database"
\* (event_adapter.go:15): an Open that fails does not take the store from a
\* session that has streams in it.
FailedOpenKeepsStore ==
    [][\A c \in Clients : OpenFails(c) =>
          \A s \in Sessions :
              sessions[s] # None /\ sessions'[s] # sessions[s] =>
                  \A t \in Streams :
                      SessionOf[t] = s => streams[sessions[s]][t] = None]_vars
=============================================================================
