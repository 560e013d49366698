-------------------------- MODULE EventStorageProofs --------------------------
(***************************************************************************)
(* Proofs about EventStorage: what the watermark of a stream promises, the *)
(* order and uniqueness of positions, complete replays and the store of a  *)
(* session, for any number of clients, databases, streams and events.      *)
(*                                                                         *)
(* The argument is about the tables of one database. TablesOK holds of     *)
(* them between transactions; the statements of Open, Append and           *)
(* SessionClosed keep it, and so does pruneTx whichever events it finds to *)
(* be the oldest: none of that depends on times, sizes or their order.     *)
(* Only the bound on the bytes does, and it rests on how sizes add up.     *)
(***************************************************************************)
EXTENDS EventStorage, WellFoundedInduction, FiniteSetTheorems, TLAPS

Tables(S, L) ==
    /\ S \in [Streams -> StreamRow \cup {None}]
    /\ L \in SUBSET Event

RowsInRange(S) ==
    \A s \in Streams : S[s] # None => S[s].first <= S[s].next

RetainedPresent(S, L) ==
    \A s \in Streams :
        S[s] # None =>
            \A i \in S[s].first..(S[s].next - 1) :
                \E e \in L : e.stream = s /\ e.index = i

NoOrphans(S, L) ==
    \A e \in L :
        /\ S[e.stream] # None
        /\ e.index < S[e.stream].next
        /\ \A f \in L : f.stream = e.stream /\ f.index = e.index => f = e

TablesOK(S, L) ==
    /\ Tables(S, L)
    /\ RowsInRange(S)
    /\ RetainedPresent(S, L)
    /\ NoOrphans(S, L)

----------------------------------------------------------------------------
(* pruneTx.                                                                *)

\* The watermark stays within its row and ends above every pruned event.
LEMMA RaisedFirstBounds ==
    ASSUME NEW row \in StreamRow, row.first <= row.next,
           NEW s, NEW P \in SUBSET Event,
           \A e \in P : e.stream = s => e.index < row.next
    PROVE  /\ RaisedFirst(row, s, P) \in row.first..row.next
           /\ \A e \in P : e.stream = s => e.index < RaisedFirst(row, s, P)
<1> DEFINE Above(m) == \A e \in P : e.stream = s => e.index < m
           Bounds == {m \in row.first..row.next : Above(m)}
           Least(m) == /\ Above(m)
                       /\ \A k \in row.first..row.next : Above(k) => m <= k
<1>1. row.first \in Nat /\ row.next \in Nat
  BY DEF StreamRow
<1>2. Bounds \in SUBSET Nat
  BY <1>1
<1>3. row.next \in Bounds
  BY <1>1
<1>4. PICK m \in Bounds : \A k \in Bounds : m <= k
  <2> HIDE DEF Bounds
  <2>1. PICK m \in Bounds : \A k \in Bounds : <<k, m>> \notin OpToRel(<, Nat)
    <3>1. Bounds \subseteq Nat /\ Bounds # {}
      BY <1>2, <1>3
    <3> QED
      BY <3>1, NatLessThanWellFounded, WFMin, Zenon
  <2>2. \A k \in Bounds : ~(k < m)
    BY <1>2, <2>1 DEF OpToRel
  <2> QED
    BY <1>2, <2>2
<1>5. m \in row.first..row.next /\ Least(m)
  BY <1>4
<1>6. RaisedFirst(row, s, P) = CHOOSE k \in row.first..row.next : Least(k)
  BY DEF RaisedFirst
<1>7. /\ RaisedFirst(row, s, P) \in row.first..row.next
      /\ Least(RaisedFirst(row, s, P))
  <2> HIDE DEF Least
  <2> QED
    BY <1>5, <1>6
<1> QED
  BY <1>7

\* Pruning keeps the promises of the tables, whatever it deletes.
LEMMA PruneKeepsTables ==
    ASSUME NEW S, NEW L, TablesOK(S, L), NEW now \in Nat
    PROVE  TablesOK(PrunedStreams(S, L, now), PrunedLog(S, L, now))
<1> DEFINE X == ExpiredStreams(S, now)
           kept == {e \in L : e.stream \notin X}
           P == OldestEvents(kept)
           S2 == PrunedStreams(S, L, now)
           L2 == PrunedLog(S, L, now)
<1>1. P \in SUBSET kept
  BY DEF OldestEvents
<1>2. L2 = kept \ P
  BY DEF PrunedLog
<1>3. S \in [Streams -> StreamRow \cup {None}] /\ L \in SUBSET Event
  BY DEF TablesOK, Tables
<1>4. P \in SUBSET Event /\ L2 \in SUBSET Event
  BY <1>1, <1>2, <1>3
<1>5. ASSUME NEW s \in Streams, S[s] # None, s \notin X
      PROVE  /\ S2[s] = [S[s] EXCEPT !.first = RaisedFirst(S[s], s, P)]
             /\ S2[s] \in StreamRow
             /\ S2[s].next = S[s].next
             /\ S2[s].first \in S[s].first..S[s].next
             /\ \A e \in P : e.stream = s => e.index < S2[s].first
  <2>1. S[s] \in StreamRow /\ S[s].first <= S[s].next
    BY <1>3, <1>5 DEF TablesOK, RowsInRange
  <2>2. \A e \in P : e.stream = s => e.index < S[s].next
    BY <1>1 DEF TablesOK, NoOrphans
  <2>3. /\ RaisedFirst(S[s], s, P) \in S[s].first..S[s].next
        /\ \A e \in P : e.stream = s => e.index < RaisedFirst(S[s], s, P)
    BY <2>1, <2>2, <1>4, RaisedFirstBounds
  <2>4. S2[s] = [S[s] EXCEPT !.first = RaisedFirst(S[s], s, P)]
    BY <1>5 DEF PrunedStreams
  <2>5. S[s].first \in Nat /\ S[s].next \in Nat
    BY <2>1 DEF StreamRow
  <2>6. RaisedFirst(S[s], s, P) \in Nat
    BY <2>3, <2>5
  <2>7. S2[s] \in StreamRow /\ S2[s].next = S[s].next
        /\ S2[s].first = RaisedFirst(S[s], s, P)
    BY <2>1, <2>4, <2>6 DEF StreamRow
  <2> QED
    BY <2>3, <2>4, <2>7
<1>6. ASSUME NEW s \in Streams, S[s] = None \/ s \in X
      PROVE  S2[s] = None
  BY <1>6 DEF PrunedStreams
<1>7. S2 \in [Streams -> StreamRow \cup {None}]
  <2>1. \A s \in Streams : S2[s] \in StreamRow \cup {None}
    BY <1>5, <1>6
  <2>2. S2 = [s \in Streams |-> S2[s]]
    BY DEF PrunedStreams
  <2> HIDE DEF S2
  <2> QED
    BY <2>1, <2>2
<1>8. None \notin StreamRow
  BY StorageAssumption DEF StreamRow
<1>9. RowsInRange(S2)
  <2> SUFFICES ASSUME NEW s \in Streams, S2[s] # None
               PROVE  S2[s].first <= S2[s].next
    BY DEF RowsInRange
  <2>1. S[s] # None /\ s \notin X
    BY <1>6
  <2>2. S2[s].next = S[s].next /\ S2[s].first \in S[s].first..S[s].next
    BY <1>5, <2>1
  <2>3. S[s].first \in Nat /\ S[s].next \in Nat
    BY <1>3, <2>1 DEF StreamRow
  <2> QED
    BY <2>2, <2>3
<1>10. RetainedPresent(S2, L2)
  <2> SUFFICES ASSUME NEW s \in Streams, S2[s] # None,
                      NEW i \in S2[s].first..(S2[s].next - 1)
               PROVE  \E e \in L2 : e.stream = s /\ e.index = i
    BY DEF RetainedPresent
  <2>1. S[s] # None /\ s \notin X
    BY <1>6
  <2>2. /\ S2[s].next = S[s].next
        /\ S2[s].first \in S[s].first..S[s].next
        /\ \A e \in P : e.stream = s => e.index < S2[s].first
    BY <1>5, <2>1
  <2>3. S[s].first \in Nat /\ S[s].next \in Nat
    BY <1>3, <2>1 DEF StreamRow
  <2>4. i \in S[s].first..(S[s].next - 1) /\ ~(i < S2[s].first)
    BY <2>2, <2>3
  <2>5. PICK e \in L : e.stream = s /\ e.index = i
    BY <2>1, <2>4 DEF TablesOK, RetainedPresent
  <2>6. e \in kept /\ e \notin P
    BY <2>1, <2>2, <2>4, <2>5
  <2> QED
    BY <1>2, <2>5, <2>6
<1>11. NoOrphans(S2, L2)
  <2> SUFFICES ASSUME NEW e \in L2
               PROVE  /\ S2[e.stream] # None
                      /\ e.index < S2[e.stream].next
                      /\ \A f \in L2 : f.stream = e.stream /\ f.index = e.index
                                        => f = e
    BY DEF NoOrphans
  <2>1. e \in L /\ e.stream \notin X /\ e.stream \in Streams
    BY <1>2, <1>3 DEF Event
  <2>2. /\ S[e.stream] # None
        /\ e.index < S[e.stream].next
        /\ \A f \in L : f.stream = e.stream /\ f.index = e.index => f = e
    BY <2>1 DEF TablesOK, NoOrphans
  <2>3. S2[e.stream] \in StreamRow /\ S2[e.stream].next = S[e.stream].next
    BY <1>5, <2>1, <2>2
  <2> QED
    BY <1>2, <1>8, <2>2, <2>3
<1> QED
  BY <1>4, <1>7, <1>9, <1>10, <1>11 DEF TablesOK, Tables

\* A row that pruning keeps has its indexes moved forward only.
LEMMA PruneOnlyRaises ==
    ASSUME NEW S, NEW L, TablesOK(S, L), NEW now \in Nat, NEW s \in Streams,
           PrunedStreams(S, L, now)[s] # None
    PROVE  /\ S[s] # None
           /\ PrunedStreams(S, L, now)[s].first >= S[s].first
           /\ PrunedStreams(S, L, now)[s].next = S[s].next
<1> DEFINE kept == {e \in L : e.stream \notin ExpiredStreams(S, now)}
           P == OldestEvents(kept)
<1>1. S[s] # None /\ s \notin ExpiredStreams(S, now)
  BY DEF PrunedStreams
<1>2. PrunedStreams(S, L, now)[s]
        = [S[s] EXCEPT !.first = RaisedFirst(S[s], s, P)]
  BY <1>1 DEF PrunedStreams
<1>3. S[s] \in StreamRow /\ S[s].first <= S[s].next
  BY <1>1 DEF TablesOK, Tables, RowsInRange
<1>4. P \in SUBSET Event /\ \A e \in P : e.stream = s => e.index < S[s].next
  <2>1. P \in SUBSET L
    BY DEF OldestEvents
  <2> QED
    BY <2>1 DEF TablesOK, Tables, NoOrphans
<1>5. RaisedFirst(S[s], s, P) \in S[s].first..S[s].next
  BY <1>3, <1>4, RaisedFirstBounds
<1>6. S[s].first \in Nat /\ S[s].next \in Nat
  BY <1>3 DEF StreamRow
<1>7. /\ PrunedStreams(S, L, now)[s].first = RaisedFirst(S[s], s, P)
      /\ PrunedStreams(S, L, now)[s].next = S[s].next
  BY <1>2, <1>3 DEF StreamRow
<1> QED
  BY <1>1, <1>5, <1>6, <1>7

----------------------------------------------------------------------------
(* Types.                                                                  *)

LEMMA InitType == Init => TypeOK
<1> SUFFICES ASSUME Init PROVE TypeOK
  OBVIOUS
<1> QED
  BY StorageAssumption DEF Init, TypeOK

\* The tables that a transaction on d leaves have their types.
LEMMA PruneTxType ==
    ASSUME TypeOK, NEW d \in Stores, NEW S, NEW L, TablesOK(S, L),
           NEW now \in Nat, PruneTx(d, S, L, now)
    PROVE  /\ streams' \in [Stores -> [Streams -> StreamRow \cup {None}]]
           /\ log' \in [Stores -> SUBSET Event]
<1>1. /\ PrunedStreams(S, L, now) \in [Streams -> StreamRow \cup {None}]
      /\ PrunedLog(S, L, now) \in SUBSET Event
  BY PruneKeepsTables DEF TablesOK, Tables
<1> QED
  BY <1>1 DEF PruneTx, TypeOK

DatabasesOK == \A d \in Stores : TablesOK(streams[d], log[d])

\* The statements of Open before pruneTx keep the promises of the tables.
LEMMA OpenKeepsTables ==
    ASSUME NEW S, NEW L, TablesOK(S, L), NEW s \in Streams, NEW t \in Nat
    PROVE  TablesOK([S EXCEPT ![s] = IF S[s] = None
                                     THEN [first |-> 0, next |-> 0, expires |-> t]
                                     ELSE [S[s] EXCEPT !.expires = t]], L)
<1> DEFINE new == IF S[s] = None
                  THEN [first |-> 0, next |-> 0, expires |-> t]
                  ELSE [S[s] EXCEPT !.expires = t]
           S2 == [S EXCEPT ![s] = new]
<1>1. S \in [Streams -> StreamRow \cup {None}] /\ L \in SUBSET Event
  BY DEF TablesOK, Tables
<1>2. /\ new \in StreamRow
      /\ S[s] = None => new.first = 0 /\ new.next = 0
      /\ S[s] # None => new.first = S[s].first /\ new.next = S[s].next
  BY <1>1 DEF StreamRow
<1> HIDE DEF new
<1>3. /\ S2 \in [Streams -> StreamRow \cup {None}]
      /\ S2[s] = new
      /\ \A x \in Streams : x # s => S2[x] = S[x]
  BY <1>1, <1>2
<1>4. None \notin StreamRow
  BY StorageAssumption DEF StreamRow
<1> HIDE DEF S2
<1>5. RowsInRange(S2)
  BY <1>2, <1>3 DEF TablesOK, RowsInRange
<1>6. RetainedPresent(S2, L)
  BY <1>2, <1>3 DEF TablesOK, RetainedPresent
<1>7. NoOrphans(S2, L)
  <2> SUFFICES ASSUME NEW e \in L
               PROVE  /\ S2[e.stream] # None
                      /\ e.index < S2[e.stream].next
    BY DEF TablesOK, NoOrphans
  <2>1. e.stream \in Streams /\ S[e.stream] # None
        /\ e.index < S[e.stream].next
    BY <1>1 DEF TablesOK, NoOrphans, Event
  <2> QED
    BY <1>2, <1>3, <1>4, <2>1
<1> QED
  BY <1>1, <1>3, <1>5, <1>6, <1>7 DEF TablesOK, Tables, S2, new

\* So do those of Append: the event gets the position after the last one.
LEMMA AppendKeepsTables ==
    ASSUME NEW S, NEW L, TablesOK(S, L), NEW s \in Streams, S[s] # None,
           NEW t \in Nat, NEW size \in Nat, NEW created \in Nat
    PROVE  TablesOK([S EXCEPT ![s] = [first |-> S[s].first, next |-> S[s].next + 1,
                                      expires |-> t]],
                    L \cup {[stream |-> s, index |-> S[s].next, size |-> size,
                             created |-> created]})
<1> DEFINE new == [first |-> S[s].first, next |-> S[s].next + 1, expires |-> t]
           S2 == [S EXCEPT ![s] = new]
           event == [stream |-> s, index |-> S[s].next, size |-> size,
                     created |-> created]
           L2 == L \cup {event}
<1>1. S \in [Streams -> StreamRow \cup {None}] /\ L \in SUBSET Event
  BY DEF TablesOK, Tables
<1>2. S[s] \in StreamRow
  BY <1>1
<1>3. S[s].first \in Nat /\ S[s].next \in Nat /\ S[s].first <= S[s].next
  BY <1>2 DEF StreamRow, TablesOK, RowsInRange
<1>4. new \in StreamRow /\ new.first = S[s].first /\ new.next = S[s].next + 1
  BY <1>2, <1>3 DEF StreamRow
<1>5. event \in Event /\ event.stream = s /\ event.index = S[s].next
  BY <1>3 DEF Event
<1> HIDE DEF new, event
<1>6. /\ S2 \in [Streams -> StreamRow \cup {None}]
      /\ S2[s] = new
      /\ \A x \in Streams : x # s => S2[x] = S[x]
  BY <1>1, <1>4
<1>7. None \notin StreamRow
  BY StorageAssumption DEF StreamRow
<1>8. L2 \in SUBSET Event
  BY <1>1, <1>5
<1> HIDE DEF S2
<1>9. RowsInRange(S2)
  BY <1>3, <1>4, <1>6 DEF TablesOK, RowsInRange
<1>10. RetainedPresent(S2, L2)
  <2> SUFFICES ASSUME NEW x \in Streams, S2[x] # None,
                      NEW i \in S2[x].first..(S2[x].next - 1)
               PROVE  \E e \in L2 : e.stream = x /\ e.index = i
    BY DEF RetainedPresent
  <2>1. CASE x # s
    BY <1>6, <2>1 DEF TablesOK, RetainedPresent
  <2>2. CASE x = s /\ i = S[s].next
    BY <1>5, <2>2
  <2>3. CASE x = s /\ i # S[s].next
    <3>1. i \in S[s].first..(S[s].next - 1)
      BY <1>3, <1>4, <1>6, <2>3
    <3> QED
      BY <2>3, <3>1 DEF TablesOK, RetainedPresent
  <2> QED
    BY <2>1, <2>2, <2>3
<1>11. NoOrphans(S2, L2)
  <2>1. ASSUME NEW e \in L
        PROVE  /\ e.stream \in Streams /\ e.index \in Nat
               /\ S[e.stream] # None
               /\ e.index < S[e.stream].next
               /\ \A f \in L : f.stream = e.stream /\ f.index = e.index => f = e
    BY <1>1 DEF TablesOK, NoOrphans, Event
  <2>2. ASSUME NEW e \in L2
        PROVE  S2[e.stream] # None /\ e.index < S2[e.stream].next
    <3>1. CASE e \in L /\ e.stream # s
      BY <1>6, <2>1, <3>1
    <3>2. CASE e \in L /\ e.stream = s
      BY <1>3, <1>4, <1>6, <1>7, <2>1, <3>2
    <3>3. CASE e = event
      BY <1>3, <1>4, <1>5, <1>6, <1>7, <3>3
    <3> QED
      BY <3>1, <3>2, <3>3
  <2>3. ASSUME NEW e \in L2, NEW f \in L2,
               f.stream = e.stream, f.index = e.index
        PROVE  f = e
    <3>1. CASE e \in L /\ f \in L
      BY <2>1, <2>3, <3>1
    <3>2. CASE e = event /\ f = event
      BY <3>2
    <3>3. CASE e = event /\ f \in L
      BY <1>3, <1>5, <2>1, <2>3, <3>3
    <3>4. CASE e \in L /\ f = event
      BY <1>3, <1>5, <2>1, <2>3, <3>4
    <3> QED
      BY <3>1, <3>2, <3>3, <3>4
  <2> QED
    BY <2>2, <2>3 DEF NoOrphans
<1> QED
  BY <1>6, <1>8, <1>9, <1>10, <1>11 DEF TablesOK, Tables, S2, new, event

\* SessionClosed removes whole streams.
LEMMA CloseKeepsTables ==
    ASSUME NEW S, NEW L, TablesOK(S, L), NEW X \in SUBSET Streams
    PROVE  TablesOK([s \in Streams |-> IF s \in X THEN None ELSE S[s]],
                    {e \in L : e.stream \notin X})
<1> DEFINE S2 == [s \in Streams |-> IF s \in X THEN None ELSE S[s]]
           L2 == {e \in L : e.stream \notin X}
<1>1. S \in [Streams -> StreamRow \cup {None}] /\ L \in SUBSET Event
  BY DEF TablesOK, Tables
<1>2. S2 \in [Streams -> StreamRow \cup {None}] /\ L2 \in SUBSET Event
  BY <1>1
<1>3. \A s \in Streams : S2[s] # None => s \notin X /\ S2[s] = S[s]
  OBVIOUS
<1>4. \A e \in L2 : e \in L /\ e.stream \in Streams /\ S2[e.stream] = S[e.stream]
  BY <1>1 DEF Event
<1>5. \A e \in L : e.stream \notin X => e \in L2
  OBVIOUS
<1> HIDE DEF S2, L2
<1>6. RowsInRange(S2)
  BY <1>3 DEF TablesOK, RowsInRange
<1>7. RetainedPresent(S2, L2)
  <2> SUFFICES ASSUME NEW s \in Streams, S2[s] # None,
                      NEW i \in S2[s].first..(S2[s].next - 1)
               PROVE  \E e \in L2 : e.stream = s /\ e.index = i
    BY DEF RetainedPresent
  <2>1. PICK e \in L : e.stream = s /\ e.index = i
    BY <1>3 DEF TablesOK, RetainedPresent
  <2> QED
    BY <1>3, <1>5, <2>1
<1>8. NoOrphans(S2, L2)
  BY <1>4 DEF TablesOK, NoOrphans
<1> QED
  BY <1>2, <1>6, <1>7, <1>8 DEF TablesOK, Tables, S2, L2

----------------------------------------------------------------------------
(* The steps.                                                              *)

\* An operation in progress names a store, a stream and a time.
LEMMA OperationType ==
    ASSUME TypeOK, NEW c \in Clients, op[c].at # "idle"
    PROVE  op[c] \in Operation
BY DEF TypeOK, Idle, Operating

\* The tables of d after the transaction of a step; the others are unchanged.
LEMMA PruneTxKeepsDatabases ==
    ASSUME TypeOK, DatabasesOK, NEW d \in Stores, NEW S, NEW L, TablesOK(S, L),
           NEW now \in Nat, PruneTx(d, S, L, now)
    PROVE  DatabasesOK'
<1> SUFFICES ASSUME NEW x \in Stores PROVE TablesOK(streams'[x], log'[x])
  BY DEF DatabasesOK, TablesOK, Tables, RowsInRange, RetainedPresent, NoOrphans,
         Streams, StreamRow, Event
<1>1. CASE x = d
  <2>1. /\ streams'[x] = PrunedStreams(S, L, now)
        /\ log'[x] = PrunedLog(S, L, now)
    BY <1>1 DEF PruneTx, TypeOK
  <2> QED
    BY <2>1, PruneKeepsTables
<1>2. CASE x # d
  BY <1>2 DEF PruneTx, TypeOK, DatabasesOK
<1> QED
  BY <1>1, <1>2

\* At most one event is new.
Adds(d, L) == \E e : L \subseteq log[d] \cup {e}

\* What the transaction of a writing step has made of its database.
LEMMA WritingSteps ==
    ASSUME TypeOK, DatabasesOK, Next
    PROVE  \/ UNCHANGED <<streams, log>>
           \/ \E d \in Stores, now \in Nat : \E S, L :
                 TablesOK(S, L) /\ PruneTx(d, S, L, now) /\ Adds(d, L)
           \/ \E c \in Clients : SessionClosedCommits(c)
<1>1. ASSUME NEW c \in Clients, OpenCommits(c)
      PROVE  \E d \in Stores, now \in Nat : \E S, L :
                 TablesOK(S, L) /\ PruneTx(d, S, L, now) /\ Adds(d, L)
  <2> DEFINE o == op[c]
             S == streams[o.store]
             t == o.now + EventTTL
             new == IF S[o.stream] = None
                    THEN [first |-> 0, next |-> 0, expires |-> t]
                    ELSE [S[o.stream] EXCEPT !.expires = t]
  <2>1. o.store \in Stores /\ o.stream \in Streams /\ o.now \in Nat
    BY <1>1, OperationType DEF OpenCommits, Operation
  <2>2. t \in Nat
    BY <2>1, StorageAssumption
  <2>3. TablesOK([S EXCEPT ![o.stream] = new], log[o.store])
    BY <2>1, <2>2, OpenKeepsTables DEF DatabasesOK
  <2>4. PruneTx(o.store, [S EXCEPT ![o.stream] = new], log[o.store], o.now)
    BY <1>1 DEF OpenCommits
  <2>5. Adds(o.store, log[o.store])
    BY DEF Adds
  <2> QED
    BY <2>1, <2>3, <2>4, <2>5
<1>2. ASSUME NEW c \in Clients, AppendCommits(c)
      PROVE  \E d \in Stores, now \in Nat : \E S, L :
                 TablesOK(S, L) /\ PruneTx(d, S, L, now) /\ Adds(d, L)
  <2> DEFINE o == op[c]
             S == streams[o.store]
             row == S[o.stream]
             new == [first |-> row.first, next |-> row.next + 1,
                     expires |-> o.now + EventTTL]
             event == [stream |-> o.stream, index |-> row.next,
                       size |-> o.size, created |-> o.now]
  <2>1. /\ o.store \in Stores /\ o.stream \in Streams
        /\ o.now \in Nat /\ o.size \in Nat
    BY <1>2, OperationType DEF AppendCommits, Operation
  <2>2. o.now + EventTTL \in Nat
    BY <2>1, StorageAssumption
  <2>3. row # None
    BY <1>2 DEF AppendCommits
  <2>4. TablesOK([S EXCEPT ![o.stream] = new], log[o.store] \cup {event})
    BY <2>1, <2>2, <2>3, AppendKeepsTables DEF DatabasesOK
  <2>5. PruneTx(o.store, [S EXCEPT ![o.stream] = new],
                log[o.store] \cup {event}, o.now)
    BY <1>2 DEF AppendCommits
  <2>6. Adds(o.store, log[o.store] \cup {event})
    BY DEF Adds
  <2> QED
    BY <2>1, <2>4, <2>5, <2>6
<1>3. ASSUME NEW d \in Stores, Prune(d)
      PROVE  \E x \in Stores, now \in Nat : \E S, L :
                 TablesOK(S, L) /\ PruneTx(x, S, L, now) /\ Adds(x, L)
  BY <1>3 DEF Prune, DatabasesOK, TypeOK, Adds
<1> QED
  BY <1>1, <1>2, <1>3
  DEF Next, OpenBegins, AppendBegins, ReplayBegins, SessionClosedBegins,
      OpenFails, AppendFails, ReplayEmpty, ReplayReadsRow, ReplayReadsEvents,
      ReplayEnds, SessionClosedFails, SessionClosedUnbinds, Tick, Restart

\* SessionClosed on one database.
LEMMA SessionClosedTables ==
    ASSUME TypeOK, DatabasesOK, NEW c \in Clients, SessionClosedCommits(c)
    PROVE  /\ DatabasesOK'
           /\ streams' \in [Stores -> [Streams -> StreamRow \cup {None}]]
           /\ log' \in [Stores -> SUBSET Event]
           /\ \A d \in Stores, s \in Streams :
                 streams'[d][s] # None => streams'[d][s] = streams[d][s]
<1> DEFINE o == op[c]
           X == {s \in Streams : SessionOf[s] = SessionOf[o.stream]}
           S2 == [s \in Streams |-> IF s \in X THEN None
                                    ELSE streams[o.store][s]]
           L2 == {e \in log[o.store] : e.stream \notin X}
<1>1. o.store \in Stores /\ o.stream \in Streams
  BY OperationType DEF SessionClosedCommits, Operation
<1>2. TablesOK(S2, L2)
  <2>1. X \in SUBSET Streams
    OBVIOUS
  <2>2. TablesOK(streams[o.store], log[o.store])
    BY <1>1 DEF DatabasesOK
  <2> HIDE DEF X
  <2> QED
    BY <2>1, <2>2, CloseKeepsTables
<1>3. S2 \in [Streams -> StreamRow \cup {None}] /\ L2 \in SUBSET Event
  BY <1>2 DEF TablesOK, Tables
<1>4. streams' = [streams EXCEPT ![o.store] = S2]
  BY DEF SessionClosedCommits
<1>5. log' = [log EXCEPT ![o.store] = L2]
  <2>1. \A e \in log[o.store] : e.stream \in Streams
    BY <1>1 DEF TypeOK, Event
  <2>2. L2 = {e \in log[o.store] : ~(SessionOf[e.stream] = SessionOf[o.stream])}
    BY <2>1
  <2> QED
    BY <2>2 DEF SessionClosedCommits
<1>6. /\ streams' \in [Stores -> [Streams -> StreamRow \cup {None}]]
      /\ log' \in [Stores -> SUBSET Event]
  <2> HIDE DEF S2, L2
  <2> QED
    BY <1>3, <1>4, <1>5 DEF TypeOK
<1>7. \A d \in Stores : TablesOK(streams'[d], log'[d])
  <2> TAKE d \in Stores
  <2>1. CASE d = o.store
    <3>1. streams'[d] = S2 /\ log'[d] = L2
      BY <1>4, <1>5, <2>1 DEF TypeOK
    <3> QED
      BY <1>2, <3>1
  <2>2. CASE d # o.store
    BY <1>4, <1>5, <2>2 DEF TypeOK, DatabasesOK
  <2> QED
    BY <2>1, <2>2
<1>8. DatabasesOK'
  BY <1>7
  DEF DatabasesOK, TablesOK, Tables, RowsInRange, RetainedPresent, NoOrphans,
      Streams, StreamRow, Event
<1>9. \A d \in Stores, s \in Streams :
         streams'[d][s] # None => streams'[d][s] = streams[d][s]
  BY <1>1, <1>4 DEF TypeOK
<1> QED
  BY <1>6, <1>8, <1>9

LEMMA DatabasesStep ==
    ASSUME TypeOK, DatabasesOK, [Next]_vars
    PROVE  /\ DatabasesOK'
           /\ streams' \in [Stores -> [Streams -> StreamRow \cup {None}]]
           /\ log' \in [Stores -> SUBSET Event]
<1>1. CASE UNCHANGED <<streams, log>>
  BY <1>1
  DEF TypeOK, DatabasesOK, TablesOK, Tables, RowsInRange, RetainedPresent,
      NoOrphans, Streams, StreamRow, Event
<1>2. ASSUME NEW d \in Stores, NEW now \in Nat, NEW S, NEW L,
             TablesOK(S, L), PruneTx(d, S, L, now)
      PROVE  /\ DatabasesOK'
             /\ streams' \in [Stores -> [Streams -> StreamRow \cup {None}]]
             /\ log' \in [Stores -> SUBSET Event]
  BY <1>2, PruneTxType, PruneTxKeepsDatabases
<1>3. ASSUME NEW c \in Clients, SessionClosedCommits(c)
      PROVE  /\ DatabasesOK'
             /\ streams' \in [Stores -> [Streams -> StreamRow \cup {None}]]
             /\ log' \in [Stores -> SUBSET Event]
  BY <1>3, SessionClosedTables
<1>4. CASE UNCHANGED vars
  BY <1>1, <1>4 DEF vars
<1> QED
  BY <1>1, <1>2, <1>3, <1>4, WritingSteps

\* The clock, the bindings and the operations keep their types.
LEMMA OtherTypesStep ==
    ASSUME TypeOK, [Next]_vars
    PROVE  /\ clock' \in Nat
           /\ sessions' \in [Sessions -> Stores \cup {None}]
           /\ op' \in [Clients -> {Idle} \cup Operation]
           /\ disturbed' \subseteq Sessions
<1> DEFINE Others == /\ clock' \in Nat
                     /\ sessions' \in [Sessions -> Stores \cup {None}]
                     /\ op' \in [Clients -> {Idle} \cup Operation]
                     /\ disturbed' \subseteq Sessions
<1> USE DEF TypeOK
<1>1. ASSUME NEW s \in Streams PROVE SessionOf[s] \in Sessions
  BY StorageAssumption
<1>2. ASSUME NEW c \in Clients, NEW o \in Operation, Begin(c, o)
      PROVE  op' \in [Clients -> {Idle} \cup Operation]
  BY <1>2 DEF Begin
<1>3. ASSUME NEW at \in {"open", "append", "read", "close"}, NEW d \in Stores,
             NEW s \in Streams, NEW now \in Nat, NEW n \in Nat
      PROVE  /\ Operating(at, d, s, now) \in Operation
             /\ [Operating(at, d, s, now) EXCEPT !.created = TRUE] \in Operation
             /\ [Operating(at, d, s, now) EXCEPT !.size = n] \in Operation
             /\ [Operating(at, d, s, now) EXCEPT !.start = n] \in Operation
  BY DEF Operating, Operation
<1>4. ASSUME NEW c \in Clients, NEW s \in Streams, NEW d \in Stores,
             OpenBegins(c, s, d)
      PROVE  Others
  <2>1. CASE sessions[SessionOf[s]] = None
    BY <1>1, <1>2, <1>3, <1>4, <2>1 DEF OpenBegins
  <2>2. CASE sessions[SessionOf[s]] # None
    BY <1>1, <1>2, <1>3, <1>4, <2>2 DEF OpenBegins
  <2> QED
    BY <2>1, <2>2
<1>5. ASSUME NEW c \in Clients, NEW s \in Streams,
             \/ \E size \in Sizes : AppendBegins(c, s, size)
             \/ \E start \in 0..(MaxEvents - 1) : ReplayBegins(c, s, start)
             \/ SessionClosedBegins(c, s)
      PROVE  Others
  <2>1. ASSUME NEW size \in Sizes, AppendBegins(c, s, size) PROVE Others
    <3>1. sessions[SessionOf[s]] \in Stores /\ size \in Nat
      BY <1>1, <2>1, StorageAssumption DEF AppendBegins
    <3> QED
      BY <1>2, <1>3, <2>1, <3>1 DEF AppendBegins
  <2>2. ASSUME NEW start \in 0..(MaxEvents - 1), ReplayBegins(c, s, start)
        PROVE  Others
    <3>1. sessions[SessionOf[s]] \in Stores /\ start \in Nat
      BY <1>1, <2>2, StorageAssumption DEF ReplayBegins
    <3> QED
      BY <1>2, <1>3, <2>2, <3>1 DEF ReplayBegins
  <2>3. CASE SessionClosedBegins(c, s)
    <3>1. sessions[SessionOf[s]] \in Stores
      BY <1>1, <2>3 DEF SessionClosedBegins
    <3> QED
      BY <1>2, <1>3, <2>3, <3>1 DEF SessionClosedBegins
  <2> QED
    BY <1>5, <2>1, <2>2, <2>3
<1>6. ASSUME NEW s \in Sessions, NEW d, Unbind(s, d)
      PROVE  /\ sessions' \in [Sessions -> Stores \cup {None}]
             /\ disturbed' \subseteq Sessions
  BY <1>6 DEF Unbind
<1>7. ASSUME NEW c \in Clients, Finish(c)
      PROVE  op' \in [Clients -> {Idle} \cup Operation]
  BY <1>7 DEF Finish
<1>8. ASSUME NEW c \in Clients, OpenCommits(c) PROVE Others
  BY <1>7, <1>8 DEF OpenCommits
<1>9. ASSUME NEW c \in Clients, OpenFails(c) PROVE Others
  <2>1. SessionOf[op[c].stream] \in Sessions
    BY <1>1, <1>9, OperationType DEF OpenFails, Operation
  <2> QED
    BY <1>6, <1>7, <1>9, <2>1 DEF OpenFails
<1>10. ASSUME NEW c \in Clients, AppendCommits(c) PROVE Others
  BY <1>7, <1>10 DEF AppendCommits
<1>11. ASSUME NEW c \in Clients,
              \/ AppendFails(c)
              \/ ReplayEmpty(c)
              \/ ReplayEnds(c)
              \/ SessionClosedFails(c)
       PROVE  Others
  BY <1>7, <1>11 DEF AppendFails, ReplayEmpty, ReplayEnds, SessionClosedFails
<1>12. ASSUME NEW o \in Operation, NEW at \in {"rows", "replay", "unbind"},
              NEW next \in Nat, NEW rows \in SUBSET Nat
       PROVE  Advanced(o, at, next, rows) \in Operation
  BY DEF Advanced, Operation
<1>13. ASSUME NEW c \in Clients, ReplayReadsRow(c) \/ ReplayReadsEvents(c)
       PROVE  Others
  <2> DEFINE o == op[c]
  <2>1. o \in Operation
    BY <1>13, OperationType DEF ReplayReadsRow, ReplayReadsEvents
  <2>2. o.store \in Stores /\ o.stream \in Streams /\ o.next \in Nat
        /\ o.rows \in SUBSET Nat
    BY <2>1 DEF Operation
  <2>3. RowsAfter(o.store, o.stream, o.start) \in SUBSET Nat
    BY <2>2 DEF RowsAfter, Event
  <2>4. CASE ReplayReadsRow(c)
    <3>1. streams[o.store][o.stream].next \in Nat
      BY <2>2, <2>4 DEF ReplayReadsRow, HasEventsFrom, StreamRow
    <3> QED
      BY <1>12, <2>1, <2>3, <2>4, <3>1 DEF ReplayReadsRow
  <2>5. CASE ReplayReadsEvents(c)
    <3>1. CASE SnapshotReads
      BY <1>12, <2>1, <2>2, <2>5, <3>1 DEF ReplayReadsEvents
    <3>2. CASE ~SnapshotReads
      BY <1>12, <2>1, <2>2, <2>3, <2>5, <3>2 DEF ReplayReadsEvents
    <3> QED
      BY <3>1, <3>2
  <2> QED
    BY <1>13, <2>4, <2>5
<1>14. ASSUME NEW c \in Clients, SessionClosedCommits(c) PROVE Others
  <2>1. op[c] \in Operation
    BY <1>14, OperationType DEF SessionClosedCommits
  <2>2. Advanced(op[c], "unbind", 0, {}) \in Operation
    BY <1>12, <2>1
  <2> QED
    BY <1>14, <2>2 DEF SessionClosedCommits
<1>15. ASSUME NEW c \in Clients, SessionClosedUnbinds(c) PROVE Others
  <2>1. SessionOf[op[c].stream] \in Sessions
    BY <1>1, <1>15, OperationType DEF SessionClosedUnbinds, Operation
  <2> QED
    BY <1>6, <1>7, <1>15, <2>1 DEF SessionClosedUnbinds
<1>16. CASE Tick
  BY <1>16 DEF Tick
<1>17. ASSUME NEW d \in Stores, Prune(d) PROVE Others
  BY <1>17 DEF Prune
<1>18. CASE Restart
  BY <1>18 DEF Restart
<1>19. CASE UNCHANGED vars
  BY <1>19 DEF vars
<1> QED
  BY <1>4, <1>5, <1>8, <1>9, <1>10, <1>11, <1>13, <1>14, <1>15,
     <1>16, <1>17, <1>18, <1>19 DEF Next

\* A row exists after a step because it did before, and then only moved
\* forward, or because Open made it.
LEMMA StreamMoves ==
    ASSUME TypeOK, DatabasesOK, Next, NEW d \in Stores, NEW s \in Streams,
           streams'[d][s] # None
    PROVE  \/ /\ streams[d][s] # None
              /\ streams'[d][s].first >= streams[d][s].first
              /\ streams'[d][s].next >= streams[d][s].next
           \/ /\ streams[d][s] = None
              /\ \E c \in Clients :
                    OpenCommits(c) /\ op[c].store = d /\ op[c].stream = s
<1> DEFINE Forward == /\ streams[d][s] # None
                      /\ streams'[d][s].first >= streams[d][s].first
                      /\ streams'[d][s].next >= streams[d][s].next
           Opened == /\ streams[d][s] = None
                     /\ \E c \in Clients : /\ OpenCommits(c)
                                           /\ op[c].store = d
                                           /\ op[c].stream = s
<1>1. ASSUME streams[d][s] # None
      PROVE  streams[d][s].first \in Nat /\ streams[d][s].next \in Nat
  BY <1>1 DEF TypeOK, StreamRow
<1>2. CASE streams'[d] = streams[d]
  BY <1>1, <1>2
<1>3. ASSUME NEW S, NEW L, NEW now \in Nat, TablesOK(S, L),
             PruneTx(d, S, L, now)
      PROVE  /\ S[s] # None
             /\ streams'[d][s].first >= S[s].first
             /\ streams'[d][s].next = S[s].next
             /\ S[s].first \in Nat /\ S[s].next \in Nat
             /\ streams'[d][s].first \in Nat
  <2>1. streams'[d] = PrunedStreams(S, L, now)
    BY <1>3 DEF PruneTx, TypeOK
  <2>2. /\ S[s] # None
        /\ streams'[d][s].first >= S[s].first
        /\ streams'[d][s].next = S[s].next
    BY <1>3, <2>1, PruneOnlyRaises
  <2>3. S[s].first \in Nat /\ S[s].next \in Nat
    BY <1>3, <2>2 DEF TablesOK, Tables, StreamRow
  <2>4. streams'[d][s] \in StreamRow
    BY <1>3, <2>1, PruneKeepsTables DEF TablesOK, Tables
  <2> QED
    BY <2>2, <2>3, <2>4 DEF StreamRow
<1>4. ASSUME NEW c \in Clients, OpenCommits(c) PROVE Forward \/ Opened
  <2> DEFINE o == op[c]
             S == streams[o.store]
             t == o.now + EventTTL
             new == IF S[o.stream] = None
                    THEN [first |-> 0, next |-> 0, expires |-> t]
                    ELSE [S[o.stream] EXCEPT !.expires = t]
             S2 == [S EXCEPT ![o.stream] = new]
  <2>1. o.store \in Stores /\ o.stream \in Streams /\ o.now \in Nat
    BY <1>4, OperationType DEF OpenCommits, Operation
  <2>2. TablesOK(S2, log[o.store])
    <3>1. t \in Nat
      BY <2>1, StorageAssumption
    <3>2. TablesOK(S, log[o.store])
      BY <2>1 DEF DatabasesOK
    <3> QED
      BY <2>1, <3>1, <3>2, OpenKeepsTables
  <2>3. PruneTx(o.store, S2, log[o.store], o.now)
    BY <1>4 DEF OpenCommits
  <2>4. CASE o.store # d
    BY <1>2, <2>3, <2>4 DEF PruneTx, TypeOK
  <2>5. CASE o.store = d
    <3>1. /\ S2[s] # None
          /\ streams'[d][s].first >= S2[s].first
          /\ streams'[d][s].next = S2[s].next
          /\ S2[s].first \in Nat /\ S2[s].next \in Nat
          /\ streams'[d][s].first \in Nat
      <4> HIDE DEF S2
      <4> QED
        BY <1>3, <2>1, <2>2, <2>3, <2>5
    <3>2. S \in [Streams -> StreamRow \cup {None}]
      BY <2>1 DEF TypeOK
    <3>3. CASE s # o.stream
      <4>1. S2[s] = S[s]
        BY <3>2, <3>3
      <4> QED
        BY <2>5, <3>1, <4>1
    <3>4. CASE s = o.stream /\ S[s] = None
      BY <1>4, <2>5, <3>4
    <3>5. CASE s = o.stream /\ S[s] # None
      <4>1. S2[s] = [S[s] EXCEPT !.expires = t]
        BY <3>2, <3>5
      <4>2. S2[s].first = S[s].first /\ S2[s].next = S[s].next
        BY <3>2, <3>5, <4>1 DEF StreamRow
      <4> QED
        BY <2>5, <3>1, <3>5, <4>2
    <3> QED
      BY <3>3, <3>4, <3>5
  <2> QED
    BY <2>4, <2>5
<1>5. ASSUME NEW c \in Clients, AppendCommits(c) PROVE Forward
  <2> DEFINE o == op[c]
             S == streams[o.store]
             row == S[o.stream]
             new == [first |-> row.first, next |-> row.next + 1,
                     expires |-> o.now + EventTTL]
             S2 == [S EXCEPT ![o.stream] = new]
             L2 == log[o.store] \cup
                     {[stream |-> o.stream, index |-> row.next,
                       size |-> o.size, created |-> o.now]}
  <2>1. /\ o.store \in Stores /\ o.stream \in Streams
        /\ o.now \in Nat /\ o.size \in Nat
    BY <1>5, OperationType DEF AppendCommits, Operation
  <2>2. row # None
    BY <1>5 DEF AppendCommits
  <2>3. TablesOK(S2, L2)
    <3>1. o.now + EventTTL \in Nat
      BY <2>1, StorageAssumption
    <3>2. TablesOK(S, log[o.store])
      BY <2>1 DEF DatabasesOK
    <3> QED
      BY <2>1, <2>2, <3>1, <3>2, AppendKeepsTables
  <2>4. PruneTx(o.store, S2, L2, o.now)
    BY <1>5 DEF AppendCommits
  <2>5. CASE o.store # d
    BY <1>1, <1>2, <2>4, <2>5 DEF PruneTx, TypeOK
  <2>6. CASE o.store = d
    <3>1. /\ S2[s] # None
          /\ streams'[d][s].first >= S2[s].first
          /\ streams'[d][s].next = S2[s].next
          /\ S2[s].first \in Nat /\ S2[s].next \in Nat
          /\ streams'[d][s].first \in Nat
      <4> HIDE DEF S2, L2
      <4> QED
        BY <1>3, <2>1, <2>3, <2>4, <2>6
    <3>2. S \in [Streams -> StreamRow \cup {None}]
      BY <2>1 DEF TypeOK
    <3>3. CASE s # o.stream
      <4>1. S2[s] = S[s]
        BY <3>2, <3>3
      <4> QED
        BY <2>6, <3>1, <4>1
    <3>4. CASE s = o.stream
      <4>1. S2[s] = new
        BY <3>2, <3>4
      <4>2. row.first \in Nat /\ row.next \in Nat
        BY <2>2, <2>1, <3>2 DEF StreamRow
      <4>3. S2[s].first = row.first /\ S2[s].next = row.next + 1
        BY <4>1
      <4> QED
        BY <2>2, <2>6, <3>1, <3>4, <4>2, <4>3
    <3> QED
      BY <3>3, <3>4
  <2> QED
    BY <2>5, <2>6
<1>6. ASSUME NEW c \in Clients, SessionClosedCommits(c) PROVE Forward
  <2>1. streams'[d][s] = streams[d][s]
    BY <1>6, SessionClosedTables
  <2> QED
    BY <1>1, <2>1
<1>7. ASSUME NEW x \in Stores, Prune(x) PROVE Forward
  <2>1. TablesOK(streams[x], log[x]) /\ clock \in Nat
        /\ PruneTx(x, streams[x], log[x], clock)
    BY <1>7 DEF Prune, DatabasesOK, TypeOK
  <2>2. CASE x = d
    BY <1>1, <1>3, <2>1, <2>2
  <2>3. CASE x # d
    BY <1>1, <2>1, <2>3 DEF PruneTx, TypeOK
  <2> QED
    BY <2>2, <2>3
<1>8. CASE UNCHANGED streams
  BY <1>2, <1>8
<1> QED
  BY <1>4, <1>5, <1>6, <1>7, <1>8
  DEF Next, OpenBegins, AppendBegins, ReplayBegins, SessionClosedBegins,
      OpenFails, AppendFails, ReplayEmpty, ReplayReadsRow, ReplayReadsEvents,
      ReplayEnds, SessionClosedFails, SessionClosedUnbinds, Tick, Restart

----------------------------------------------------------------------------
(* Replays.                                                                *)

\* What the first statement found is complete, and the second adds nothing.
ReplaysComplete ==
    \A c \in Clients :
        op[c].at \in {"rows", "replay"} =>
            \A i \in op[c].start..(op[c].next - 1) : i \in op[c].rows

\* From an index that the watermark does not exclude, every event is found.
LEMMA RowsAfterComplete ==
    ASSUME NEW d \in Stores, NEW s \in Streams, NEW start \in Nat,
           TypeOK, DatabasesOK, HasEventsFrom(streams[d][s], start)
    PROVE  \A i \in start..(streams[d][s].next - 1) :
              i \in RowsAfter(d, s, start)
<1> TAKE i \in start..(streams[d][s].next - 1)
<1>1. /\ streams[d][s] # None
      /\ streams[d][s].first <= start
      /\ streams[d][s].first \in Nat
      /\ streams[d][s].next \in Nat
  BY DEF HasEventsFrom, TypeOK, StreamRow
<1>2. i \in streams[d][s].first..(streams[d][s].next - 1) /\ i >= start
  BY <1>1
<1>3. PICK e \in log[d] : e.stream = s /\ e.index = i
  BY <1>1, <1>2 DEF DatabasesOK, TablesOK, RetainedPresent
<1> QED
  BY <1>2, <1>3 DEF RowsAfter

LEMMA ReplaysStep ==
    ASSUME SnapshotReads, TypeOK, DatabasesOK, ReplaysComplete, [Next]_vars
    PROVE  ReplaysComplete'
<1> SUFFICES ASSUME NEW c \in Clients, op'[c].at \in {"rows", "replay"}
             PROVE  \A i \in op'[c].start..(op'[c].next - 1) : i \in op'[c].rows
  BY DEF ReplaysComplete
<1>1. CASE op'[c] = op[c]
  BY <1>1 DEF ReplaysComplete
<1>2. CASE ReplayReadsRow(c)
  <2> DEFINE o == op[c]
             found == RowsAfter(o.store, o.stream, o.start)
             row == streams[o.store][o.stream]
  <2>1. o.store \in Stores /\ o.stream \in Streams /\ o.start \in Nat
    BY <1>2, OperationType DEF ReplayReadsRow, Operation
  <2>2. \A i \in o.start..(row.next - 1) : i \in found
    BY <1>2, <2>1, RowsAfterComplete DEF ReplayReadsRow
  <2>3. op'[c] = Advanced(o, "rows", row.next, found)
    BY <1>2 DEF ReplayReadsRow, TypeOK
  <2>4. op'[c].start = o.start /\ op'[c].next = row.next /\ op'[c].rows = found
    BY <2>3 DEF Advanced
  <2> QED
    BY <2>2, <2>4
<1>3. CASE ReplayReadsEvents(c)
  <2>1. op'[c] = Advanced(op[c], "replay", op[c].next, op[c].rows)
    BY <1>3 DEF ReplayReadsEvents, TypeOK
  <2>2. /\ op'[c].start = op[c].start
        /\ op'[c].next = op[c].next
        /\ op'[c].rows = op[c].rows
    BY <2>1 DEF Advanced
  <2> QED
    BY <1>3, <2>2 DEF ReplaysComplete, ReplayReadsEvents
<1>4. ASSUME NEW b \in Clients, Finish(b) PROVE op'[c] = op[c]
  BY <1>4 DEF Finish, Idle, Operating, TypeOK
<1>5. ASSUME NEW b \in Clients, NEW o, Begin(b, o),
             o.at \notin {"rows", "replay"}
      PROVE  op'[c] = op[c]
  BY <1>5 DEF Begin, TypeOK
<1>6. ASSUME NEW b \in Clients, NEW s \in Streams,
             \/ \E d \in Stores : OpenBegins(b, s, d)
             \/ \E size \in Sizes : AppendBegins(b, s, size)
             \/ \E start \in 0..(MaxEvents - 1) : ReplayBegins(b, s, start)
             \/ SessionClosedBegins(b, s)
      PROVE  op'[c] = op[c]
  <2>1. ASSUME NEW at \in {"open", "append", "read", "close"},
               NEW d, NEW now, NEW n
        PROVE  /\ Operating(at, d, s, now).at = at
               /\ [Operating(at, d, s, now) EXCEPT !.created = TRUE].at = at
               /\ [Operating(at, d, s, now) EXCEPT !.size = n].at = at
               /\ [Operating(at, d, s, now) EXCEPT !.start = n].at = at
    BY DEF Operating
  <2>2. ASSUME NEW d \in Stores, OpenBegins(b, s, d) PROVE op'[c] = op[c]
    <3> DEFINE o == Operating("open", d, s, clock)
               o1 == [o EXCEPT !.created = TRUE]
               o2 == Operating("open", sessions[SessionOf[s]], s, clock)
    <3>1. o1.at = "open" /\ o2.at = "open"
      BY <2>1
    <3>2. Begin(b, o1) \/ Begin(b, o2)
      BY <2>2 DEF OpenBegins
    <3> HIDE DEF o1, o2
    <3> QED
      BY <1>5, <3>1, <3>2
  <2>3. ASSUME NEW size \in Sizes, AppendBegins(b, s, size)
        PROVE  op'[c] = op[c]
    <3> DEFINE o == [Operating("append", sessions[SessionOf[s]], s, clock)
                       EXCEPT !.size = size]
    <3>1. o.at = "append"
      BY <2>1
    <3>2. Begin(b, o)
      BY <2>3 DEF AppendBegins
    <3> HIDE DEF o
    <3> QED
      BY <1>5, <3>1, <3>2
  <2>4. ASSUME NEW start \in 0..(MaxEvents - 1), ReplayBegins(b, s, start)
        PROVE  op'[c] = op[c]
    <3> DEFINE o == [Operating("read", sessions[SessionOf[s]], s, 0)
                       EXCEPT !.start = start]
    <3>1. o.at = "read"
      BY <2>1
    <3>2. Begin(b, o)
      BY <2>4 DEF ReplayBegins
    <3> HIDE DEF o
    <3> QED
      BY <1>5, <3>1, <3>2
  <2>5. CASE SessionClosedBegins(b, s)
    BY <1>5, <2>1, <2>5 DEF SessionClosedBegins
  <2> QED
    BY <1>6, <2>2, <2>3, <2>4, <2>5
<1>7. ASSUME NEW b \in Clients,
             \/ OpenCommits(b)
             \/ OpenFails(b)
             \/ AppendCommits(b)
             \/ AppendFails(b)
             \/ ReplayEmpty(b)
             \/ ReplayEnds(b)
             \/ SessionClosedFails(b)
             \/ SessionClosedUnbinds(b)
      PROVE  op'[c] = op[c]
  BY <1>4, <1>7
  DEF OpenCommits, OpenFails, AppendCommits, AppendFails, ReplayEmpty,
      ReplayEnds, SessionClosedFails, SessionClosedUnbinds
<1>8. ASSUME NEW b \in Clients, SessionClosedCommits(b) PROVE op'[c] = op[c]
  BY <1>8 DEF SessionClosedCommits, Advanced, TypeOK
<1>9. ASSUME NEW b \in Clients, b # c,
             ReplayReadsRow(b) \/ ReplayReadsEvents(b)
      PROVE  op'[c] = op[c]
  BY <1>9 DEF ReplayReadsRow, ReplayReadsEvents, TypeOK
<1>10. CASE Tick \/ \E d \in Stores : Prune(d)
  BY <1>1, <1>10 DEF Tick, Prune
<1>11. CASE Restart
  BY <1>11 DEF Restart, Idle, Operating
<1>12. CASE UNCHANGED vars
  BY <1>1, <1>12 DEF vars
<1> QED
  BY <1>1, <1>2, <1>3, <1>6, <1>7, <1>8, <1>9, <1>10, <1>11, <1>12 DEF Next

----------------------------------------------------------------------------
(* The store of a session.                                                 *)

\* An Open in progress uses the store its session is bound to.
OpensUseBoundStore ==
    \A c \in Clients :
        op[c].at = "open" /\ SessionOf[op[c].stream] \notin disturbed =>
            sessions[SessionOf[op[c].stream]] = op[c].store

\* A binding is made where there is none; one that is removed is recorded.
LEMMA BindingsStep ==
    ASSUME TypeOK, [Next]_vars, NEW s \in Sessions, s \notin disturbed'
    PROVE  /\ s \notin disturbed
           /\ sessions[s] # None => sessions'[s] = sessions[s]
<1> DEFINE Kept == /\ s \notin disturbed
                   /\ sessions[s] # None => sessions'[s] = sessions[s]
<1>1. CASE UNCHANGED <<sessions, disturbed>>
  BY <1>1
<1>2. ASSUME NEW c \in Clients, NEW t \in Streams, NEW d \in Stores,
             OpenBegins(c, t, d)
      PROVE  Kept
  BY <1>2 DEF OpenBegins, TypeOK
<1>3. ASSUME NEW x, NEW d, Unbind(x, d) PROVE Kept
  BY <1>3 DEF Unbind, TypeOK
<1>4. ASSUME NEW c \in Clients, OpenFails(c) \/ SessionClosedUnbinds(c)
      PROVE  Kept
  BY <1>1, <1>3, <1>4 DEF OpenFails, SessionClosedUnbinds
<1>5. CASE Restart
  BY <1>5 DEF Restart
<1>6. CASE UNCHANGED vars
  BY <1>1, <1>6 DEF vars
<1> QED
  BY <1>1, <1>2, <1>4, <1>5, <1>6
  DEF Next, AppendBegins, ReplayBegins, SessionClosedBegins, OpenCommits,
      AppendCommits, AppendFails, ReplayEmpty, ReplayReadsRow,
      ReplayReadsEvents, ReplayEnds, SessionClosedCommits, SessionClosedFails,
      Tick, Prune

\* An Open in progress was in progress before the step, or begins with it in
\* the store its session is bound to.
LEMMA OpensStep ==
    ASSUME TypeOK, [Next]_vars, NEW c \in Clients, op'[c].at = "open"
    PROVE  \/ op'[c] = op[c]
           \/ sessions'[SessionOf[op'[c].stream]] = op'[c].store
<1>1. ASSUME NEW b \in Clients, NEW s \in Streams, NEW d \in Stores,
             OpenBegins(b, s, d), b = c
      PROVE  sessions'[SessionOf[op'[c].stream]] = op'[c].store
  <2>1. SessionOf[s] \in Sessions
    BY StorageAssumption
  <2>2. CASE sessions[SessionOf[s]] = None
    <3>1. op'[c] = [Operating("open", d, s, clock) EXCEPT !.created = TRUE]
      BY <1>1, <2>2 DEF OpenBegins, Begin, TypeOK
    <3>2. op'[c].store = d /\ op'[c].stream = s
      BY <3>1 DEF Operating
    <3>3. sessions'[SessionOf[s]] = d
      BY <1>1, <2>1, <2>2 DEF OpenBegins, TypeOK
    <3> QED
      BY <3>2, <3>3
  <2>3. CASE sessions[SessionOf[s]] # None
    <3>1. op'[c] = Operating("open", sessions[SessionOf[s]], s, clock)
      BY <1>1, <2>3 DEF OpenBegins, Begin, TypeOK
    <3>2. op'[c].store = sessions[SessionOf[s]] /\ op'[c].stream = s
      BY <3>1 DEF Operating
    <3>3. sessions' = sessions
      BY <1>1, <2>3 DEF OpenBegins
    <3> QED
      BY <3>2, <3>3
  <2> QED
    BY <2>2, <2>3
<1>2. ASSUME NEW b \in Clients, b # c, NEW o, Begin(b, o)
      PROVE  op'[c] = op[c]
  BY <1>2 DEF Begin, TypeOK
<1>3. ASSUME NEW b \in Clients, NEW s \in Streams, NEW d \in Stores,
             OpenBegins(b, s, d), b # c
      PROVE  op'[c] = op[c]
  BY <1>2, <1>3 DEF OpenBegins
<1>4. ASSUME NEW b \in Clients, NEW s \in Streams,
             \/ \E size \in Sizes : AppendBegins(b, s, size)
             \/ \E start \in 0..(MaxEvents - 1) : ReplayBegins(b, s, start)
             \/ SessionClosedBegins(b, s)
      PROVE  op'[c] = op[c]
  <2>1. CASE b # c
    BY <1>2, <1>4, <2>1 DEF AppendBegins, ReplayBegins, SessionClosedBegins
  <2>2. CASE b = c
    <3>1. ASSUME NEW size \in Sizes, AppendBegins(b, s, size) PROVE FALSE
      <4>1. op'[c] = [Operating("append", sessions[SessionOf[s]], s, clock)
                        EXCEPT !.size = size]
        BY <2>2, <3>1 DEF AppendBegins, Begin, TypeOK
      <4> QED
        BY <4>1 DEF Operating
    <3>2. ASSUME NEW start \in 0..(MaxEvents - 1), ReplayBegins(b, s, start)
          PROVE  FALSE
      <4>1. op'[c] = [Operating("read", sessions[SessionOf[s]], s, 0)
                        EXCEPT !.start = start]
        BY <2>2, <3>2 DEF ReplayBegins, Begin, TypeOK
      <4> QED
        BY <4>1 DEF Operating
    <3>3. CASE SessionClosedBegins(b, s)
      <4>1. op'[c] = Operating("close", sessions[SessionOf[s]], s, 0)
        BY <2>2, <3>3 DEF SessionClosedBegins, Begin, TypeOK
      <4> QED
        BY <4>1 DEF Operating
    <3> QED
      BY <1>4, <3>1, <3>2, <3>3
  <2> QED
    BY <2>1, <2>2
<1>5. ASSUME NEW b \in Clients, Finish(b) PROVE op'[c] = op[c]
  BY <1>5 DEF Finish, Idle, Operating, TypeOK
<1>6. ASSUME NEW b \in Clients,
             \/ OpenCommits(b)
             \/ OpenFails(b)
             \/ AppendCommits(b)
             \/ AppendFails(b)
             \/ ReplayEmpty(b)
             \/ ReplayEnds(b)
             \/ SessionClosedFails(b)
             \/ SessionClosedUnbinds(b)
      PROVE  op'[c] = op[c]
  BY <1>5, <1>6
  DEF OpenCommits, OpenFails, AppendCommits, AppendFails, ReplayEmpty,
      ReplayEnds, SessionClosedFails, SessionClosedUnbinds
<1>7. ASSUME NEW b \in Clients,
             \/ ReplayReadsRow(b)
             \/ ReplayReadsEvents(b)
             \/ SessionClosedCommits(b)
      PROVE  op'[c] = op[c]
  <2>1. \E at \in {"rows", "replay", "unbind"} : \E next, rows :
           op' = [op EXCEPT ![b] = Advanced(op[b], at, next, rows)]
    BY <1>7 DEF ReplayReadsRow, ReplayReadsEvents, SessionClosedCommits
  <2> QED
    BY <2>1 DEF Advanced, TypeOK
<1>8. CASE Tick \/ \E d \in Stores : Prune(d)
  BY <1>8 DEF Tick, Prune
<1>9. CASE Restart
  BY <1>9 DEF Restart, Idle, Operating
<1>10. CASE UNCHANGED vars
  BY <1>10 DEF vars
<1> QED
  BY <1>1, <1>3, <1>4, <1>6, <1>7, <1>8, <1>9, <1>10 DEF Next

LEMMA AffinityStep ==
    ASSUME TypeOK, TypeOK', DatabasesOK, OpensUseBoundStore, StoreAffinity,
           [Next]_vars
    PROVE  OpensUseBoundStore' /\ StoreAffinity'
<1>1. OpensUseBoundStore'
  <2> SUFFICES ASSUME NEW c \in Clients, op'[c].at = "open",
                      SessionOf[op'[c].stream] \notin disturbed'
               PROVE  sessions'[SessionOf[op'[c].stream]] = op'[c].store
    BY DEF OpensUseBoundStore
  <2>1. CASE op'[c] = op[c]
    <3>1. op[c].store \in Stores /\ op[c].stream \in Streams
      BY <2>1, OperationType DEF Operation
    <3>2. SessionOf[op[c].stream] \in Sessions
      BY <3>1, StorageAssumption
    <3>3. SessionOf[op[c].stream] \notin disturbed
      BY <2>1, <3>2, BindingsStep
    <3>4. sessions[SessionOf[op[c].stream]] = op[c].store
      BY <2>1, <3>3 DEF OpensUseBoundStore
    <3> QED
      BY <2>1, <3>1, <3>2, <3>4, BindingsStep, StorageAssumption
  <2> QED
    BY <2>1, OpensStep
<1>2. StoreAffinity'
  <2> SUFFICES ASSUME NEW s \in Sessions, s \notin disturbed', NEW d \in Stores,
                      NEW t \in Streams, SessionOf[t] = s,
                      streams'[d][t] # None
               PROVE  sessions'[s] = d
    BY DEF StoreAffinity, Streams
  <2>1. /\ s \notin disturbed
        /\ sessions[s] # None => sessions'[s] = sessions[s]
    BY BindingsStep
  <2>2. CASE streams[d][t] # None
    BY <2>1, <2>2, StorageAssumption DEF StoreAffinity
  <2>3. CASE streams[d][t] = None
    <3>1. Next
      BY <2>3 DEF vars
    <3>2. PICK c \in Clients :
             OpenCommits(c) /\ op[c].store = d /\ op[c].stream = t
      BY <2>3, <3>1, StreamMoves
    <3>3. sessions[s] = d
      BY <2>1, <3>2 DEF OpenCommits, OpensUseBoundStore
    <3> QED
      BY <2>1, <3>3, StorageAssumption
  <2> QED
    BY <2>2, <2>3
<1> QED
  BY <1>1, <1>2

----------------------------------------------------------------------------
(* The bound on the bytes.                                                 *)

\* What holds of 0, and of n + 1 whenever it holds of n, holds of every number.
LEMMA Naturals == ASSUME NEW T, 0 \in T, \A n \in Nat : n \in T => n + 1 \in T
                  PROVE  Nat \subseteq T
<1> DEFINE Missing == Nat \ T
<1>1. SUFFICES ASSUME Missing # {} PROVE FALSE
  OBVIOUS
<1>2. PICK m \in Missing : \A k \in Missing : <<k, m>> \notin OpToRel(<, Nat)
  BY <1>1, NatLessThanWellFounded, WFMin, Zenon
<1>3. \A k \in Missing : ~(k < m)
  BY <1>2 DEF OpToRel
<1>4. m \in Nat /\ m - 1 \in Nat /\ m - 1 < m
  <2>1. m \in Nat /\ m # 0
    BY <1>2
  <2> QED BY <2>1
<1>5. m - 1 \in T
  BY <1>3, <1>4
<1>6. (m - 1) + 1 = m
  BY <1>4
<1> QED BY <1>2, <1>4, <1>5, <1>6

\* The element a sum takes first.
Taken(E) == CHOOSE e \in E : TRUE

\* f gives the sizes of the sets in D their sum.
Sums(f, D) == f = [E \in D |-> IF E = {} THEN 0 ELSE Taken(E).size + f[E \ {Taken(E)}]]

AtMost(E, n) == {A \in SUBSET E : Cardinality(A) <= n}

LEMMA TakenIsElement == ASSUME NEW E, E # {} PROVE Taken(E) \in E
BY DEF Taken

\* A set of at most n + 1 elements has one of at most n when one is removed.
LEMMA Smaller ==
    ASSUME NEW E, IsFiniteSet(E), NEW A \in SUBSET E, NEW e \in A
    PROVE  /\ A \ {e} \in SUBSET E
           /\ Cardinality(A) \in Nat \ {0} /\ Cardinality(A \ {e}) = Cardinality(A) - 1
<1>1. IsFiniteSet(A)
  BY FS_Subset
<1>2. Cardinality(A) \in Nat /\ Cardinality(A \ {e}) = Cardinality(A) - 1
  BY <1>1, FS_RemoveElement, FS_CardinalityType
<1>3. Cardinality(A) # 0
  BY <1>1, FS_EmptySet
<1> QED BY <1>2, <1>3

LEMMA OnlyEmpty ==
    ASSUME NEW E, IsFiniteSet(E) PROVE AtMost(E, 0) = {{}}
<1>1. \A A \in SUBSET E : Cardinality(A) \in Nat /\ (Cardinality(A) = 0 <=> A = {})
  BY FS_Subset, FS_EmptySet, FS_CardinalityType
<1>2. \A A \in SUBSET E : Cardinality(A) <= 0 <=> A = {}
  BY <1>1
<1> QED BY <1>2 DEF AtMost

\* Sets of at most n + 1 elements without one of them.
LEMMA OneLess ==
    ASSUME NEW E, IsFiniteSet(E), NEW n \in Nat, NEW A \in AtMost(E, n + 1), NEW e \in A
    PROVE  A \ {e} \in AtMost(E, n)
<1>1. A \in SUBSET E /\ Cardinality(A) <= n + 1
  BY DEF AtMost
<1>2. /\ A \ {e} \in SUBSET E
      /\ Cardinality(A) \in Nat \ {0} /\ Cardinality(A \ {e}) = Cardinality(A) - 1
  BY <1>1, Smaller
<1>3. Cardinality(A \ {e}) <= n
  BY <1>1, <1>2
<1> QED BY <1>2, <1>3 DEF AtMost

LEMMA SmallSumsExist ==
    ASSUME NEW E, IsFiniteSet(E)
    PROVE  \A n \in Nat : \E f : Sums(f, AtMost(E, n))
<1> DEFINE Summed == {n \in Nat : \E f : Sums(f, AtMost(E, n))}
<1>1. 0 \in Summed
  <2> DEFINE f == [A \in AtMost(E, 0) |-> 0]
  <2>1. \A A \in AtMost(E, 0) : A = {}
    BY OnlyEmpty
  <2>2. f = [A \in AtMost(E, 0) |-> IF A = {} THEN 0 ELSE Taken(A).size + f[A \ {Taken(A)}]]
    BY <2>1
  <2> QED BY <2>2 DEF Sums
<1>2. ASSUME NEW n \in Nat, n \in Summed PROVE n + 1 \in Summed
  <2>1. PICK f : Sums(f, AtMost(E, n))
    BY <1>2
  <2> DEFINE One(A) == IF A = {} THEN 0 ELSE Taken(A).size + f[A \ {Taken(A)}]
             g == [A \in AtMost(E, n + 1) |-> One(A)]
  <2>2. f = [A \in AtMost(E, n) |-> One(A)]
    BY <2>1 DEF Sums
  <2>3. AtMost(E, n) \subseteq AtMost(E, n + 1)
    <3>1. \A A \in SUBSET E : IsFiniteSet(A) /\ Cardinality(A) \in Nat
      BY FS_Subset, FS_CardinalityType
    <3> QED BY <3>1 DEF AtMost
  <2>4. \A A \in AtMost(E, n) : f[A] = One(A) /\ g[A] = One(A)
    <3> HIDE DEF One
    <3> QED BY <2>2, <2>3
  <2>5. ASSUME NEW A \in AtMost(E, n + 1), A # {}
        PROVE  A \ {Taken(A)} \in AtMost(E, n)
    BY <2>5, TakenIsElement, OneLess
  <2>6. \A A \in AtMost(E, n + 1) : A # {} => f[A \ {Taken(A)}] = g[A \ {Taken(A)}]
    <3> HIDE DEF g, One
    <3> QED BY <2>4, <2>5
  <2>7. g = [A \in AtMost(E, n + 1) |->
                IF A = {} THEN 0 ELSE Taken(A).size + g[A \ {Taken(A)}]]
    <3> HIDE DEF g
    <3>1. g = [A \in AtMost(E, n + 1) |->
                IF A = {} THEN 0 ELSE Taken(A).size + f[A \ {Taken(A)}]]
      BY DEF g
    <3>2. \A A \in AtMost(E, n + 1) :
             (IF A = {} THEN 0 ELSE Taken(A).size + f[A \ {Taken(A)}])
             = (IF A = {} THEN 0 ELSE Taken(A).size + g[A \ {Taken(A)}])
      BY <2>6
    <3> QED BY <3>1, <3>2
  <2>8. Sums(g, AtMost(E, n + 1))
    <3> HIDE DEF g
    <3> QED BY <2>7 DEF Sums
  <2> HIDE DEF g
  <2> QED BY <2>8
<1> HIDE DEF Summed
<1>3. Nat \subseteq Summed
  BY <1>1, <1>2, Naturals
<1> QED BY <1>3 DEF Summed

LEMMA SumsExist == ASSUME NEW E, IsFiniteSet(E) PROVE \E f : Sums(f, SUBSET E)
<1>1. \A A \in SUBSET E : Cardinality(A) <= Cardinality(E)
  BY FS_Subset
<1>2. AtMost(E, Cardinality(E)) = SUBSET E
  BY <1>1 DEF AtMost
<1>3. Cardinality(E) \in Nat
  BY FS_CardinalityType
<1>4. \E f : Sums(f, AtMost(E, Cardinality(E)))
  BY <1>3, SmallSumsExist
<1> QED BY <1>2, <1>4

\* Bytes is the value of such a function.
LEMMA BytesIsSum ==
    ASSUME NEW E, IsFiniteSet(E)
    PROVE  \E f : Sums(f, SUBSET E) /\ Bytes(E) = f[E]
<1>1. Bytes(E) = (CHOOSE f : Sums(f, SUBSET E))[E]
  BY DEF Bytes, MapThenSumSet, MapThenFoldSet, Sums, Taken
<1> QED BY <1>1, SumsExist

AddsUp(f, E) == \A A \in SUBSET E : f[A] \in Nat /\ \A e \in A : f[A] = e.size + f[A \ {e}]

\* A sum does not depend on which element is taken first.
LEMMA SumTakesAny ==
    ASSUME NEW E, IsFiniteSet(E), \A e \in E : e.size \in Nat,
           NEW f, Sums(f, SUBSET E)
    PROVE  AddsUp(f, E)
<1> DEFINE Good(A) == f[A] \in Nat /\ \A e \in A : f[A] = e.size + f[A \ {e}]
           Fit == {n \in Nat : \A A \in AtMost(E, n) : Good(A)}
<1>1. f[{}] = 0 /\ \A A \in SUBSET E : A # {} => f[A] = Taken(A).size + f[A \ {Taken(A)}]
  <2>1. f = [A \in SUBSET E |-> IF A = {} THEN 0 ELSE Taken(A).size + f[A \ {Taken(A)}]]
    BY DEF Sums
  <2> QED BY <2>1
<1>2. 0 \in Fit
  <2>1. \A A \in AtMost(E, 0) : A = {}
    BY OnlyEmpty
  <2>2. f[{}] \in Nat
    BY <1>1
  <2>3. Good({})
    BY <2>2
  <2> HIDE DEF Good
  <2> QED BY <2>1, <2>3
<1>3. ASSUME NEW n \in Nat, n \in Fit PROVE n + 1 \in Fit
  <2> SUFFICES ASSUME NEW A \in AtMost(E, n + 1) PROVE Good(A)
    OBVIOUS
  <2>1. A \in SUBSET E /\ Cardinality(A) <= n + 1
    BY DEF AtMost
  <2>3. CASE A = {}
    BY <1>1, <2>3
  <2>4. CASE A # {}
    <3> DEFINE t == Taken(A)
    <3>1. t \in A /\ t.size \in Nat /\ f[A] = t.size + f[A \ {t}]
      BY <1>1, <2>1, <2>4, TakenIsElement
    <3> HIDE DEF t
    <3>2. \A e \in A : A \ {e} \in AtMost(E, n)
      BY OneLess
    <3>3. \A e \in A : Good(A \ {e})
      BY <1>3, <3>2
    <3>4. f[A] \in Nat
      <4>1. f[A \ {t}] \in Nat
        BY <3>1, <3>3
      <4> QED BY <3>1, <4>1
    <3>5. ASSUME NEW e \in A, e # t PROVE f[A] = e.size + f[A \ {e}]
      <4>1. e \in A \ {t} /\ t \in A \ {e} /\ (A \ {t}) \ {e} = (A \ {e}) \ {t}
        BY <3>1, <3>5
      <4>2. /\ f[A \ {t}] = e.size + f[(A \ {t}) \ {e}]
            /\ f[A \ {e}] = t.size + f[(A \ {e}) \ {t}]
        BY <3>1, <3>3, <4>1
      <4>3. /\ f[(A \ {t}) \ {e}] \in Nat /\ e.size \in Nat
        <5>1. (A \ {t}) \ {e} \in SUBSET E /\ IsFiniteSet((A \ {t}) \ {e})
          BY <2>1, FS_Subset
        <5>2. Cardinality((A \ {t}) \ {e}) <= n
          <6>1. A \ {t} \in SUBSET E /\ Cardinality(A \ {t}) <= n
            BY <3>1, <3>2 DEF AtMost
          <6> DEFINE B == A \ {t}
          <6>2. B \in SUBSET E /\ e \in B
            BY <4>1, <6>1
          <6> HIDE DEF B
          <6>3. Cardinality(B) \in Nat \ {0} /\ Cardinality(B \ {e}) = Cardinality(B) - 1
            BY <6>2, Smaller
          <6>4. Cardinality(B) <= n
            BY <6>1 DEF B
          <6>5. Cardinality(B \ {e}) <= n
            BY <6>3, <6>4
          <6> QED BY <6>5 DEF B
        <5>3. (A \ {t}) \ {e} \in AtMost(E, n)
          BY <5>1, <5>2 DEF AtMost
        <5>4. Good((A \ {t}) \ {e})
          <6> HIDE DEF Good
          <6> QED BY <1>3, <5>3
        <5> QED BY <5>4, <2>1
      <4>4. f[(A \ {e}) \ {t}] = f[(A \ {t}) \ {e}]
        BY <4>1
      <4>5. f[A] = t.size + (e.size + f[(A \ {t}) \ {e}])
        BY <3>1, <4>2
      <4>6. f[A \ {e}] = t.size + f[(A \ {t}) \ {e}]
        BY <4>2, <4>4
      <4>7. t.size \in Nat
        BY <3>1
      <4> QED BY <4>3, <4>5, <4>6, <4>7
    <3> QED BY <3>1, <3>4, <3>5
  <2> QED BY <2>3, <2>4
<1> HIDE DEF Fit, Good
<1>4. Nat \subseteq Fit
  BY <1>2, <1>3, Naturals
<1>5. \A A \in SUBSET E : Cardinality(A) \in Nat /\ A \in AtMost(E, Cardinality(A))
  <2>1. \A A \in SUBSET E : Cardinality(A) \in Nat
    BY FS_Subset, FS_CardinalityType
  <2> QED BY <2>1 DEF AtMost
<1>6. \A A \in SUBSET E : Good(A)
  BY <1>4, <1>5 DEF Fit
<1> QED BY <1>6 DEF Good, AddsUp

\* Two such functions agree where both are defined.
LEMMA SumsAgree ==
    ASSUME NEW E, IsFiniteSet(E), \A e \in E : e.size \in Nat, NEW F \in SUBSET E,
           NEW f, Sums(f, SUBSET E), NEW g, Sums(g, SUBSET F)
    PROVE  f[F] = g[F]
<1> DEFINE Alike == {n \in Nat : \A A \in AtMost(F, n) : f[A] = g[A]}
<1>1. IsFiniteSet(F) /\ \A e \in F : e.size \in Nat
  BY FS_Subset
<1>2. /\ \A A \in SUBSET F : A # {} => f[A] = Taken(A).size + f[A \ {Taken(A)}]
      /\ \A A \in SUBSET F : A # {} => g[A] = Taken(A).size + g[A \ {Taken(A)}]
      /\ f[{}] = 0 /\ g[{}] = 0
  <2>1. f = [A \in SUBSET E |-> IF A = {} THEN 0 ELSE Taken(A).size + f[A \ {Taken(A)}]]
    BY DEF Sums
  <2>2. g = [A \in SUBSET F |-> IF A = {} THEN 0 ELSE Taken(A).size + g[A \ {Taken(A)}]]
    BY DEF Sums
  <2> QED BY <2>1, <2>2
<1>3. 0 \in Alike
  <2>1. \A A \in AtMost(F, 0) : A = {}
    BY <1>1, OnlyEmpty
  <2> QED BY <2>1, <1>2
<1>4. ASSUME NEW n \in Nat, n \in Alike PROVE n + 1 \in Alike
  <2> SUFFICES ASSUME NEW A \in AtMost(F, n + 1) PROVE f[A] = g[A]
    OBVIOUS
  <2>1. A \in SUBSET F /\ Cardinality(A) <= n + 1
    BY DEF AtMost
  <2>2. CASE A = {}
    BY <1>2, <2>2
  <2>3. CASE A # {}
    <3>1. A \ {Taken(A)} \in AtMost(F, n)
      BY <1>1, <2>3, TakenIsElement, OneLess
    <3>2. f[A \ {Taken(A)}] = g[A \ {Taken(A)}]
      BY <3>1, <1>4
    <3> QED BY <1>2, <2>1, <2>3, <3>2
  <2> QED BY <2>2, <2>3
<1> HIDE DEF Alike
<1>5. Nat \subseteq Alike
  BY <1>3, <1>4, Naturals
<1>6. Cardinality(F) \in Nat /\ F \in AtMost(F, Cardinality(F))
  BY <1>1, FS_CardinalityType DEF AtMost
<1> QED BY <1>5, <1>6 DEF Alike

\* The payloads of fewer events are not more bytes.
LEMMA BytesGrow ==
    ASSUME NEW E, IsFiniteSet(E), \A e \in E : e.size \in Nat, NEW F \in SUBSET E
    PROVE  Bytes(F) \in Nat /\ Bytes(E) \in Nat /\ Bytes(F) <= Bytes(E)
<1>1. IsFiniteSet(F) /\ \A e \in F : e.size \in Nat
  BY FS_Subset
<1>2. PICK f : Sums(f, SUBSET E) /\ Bytes(E) = f[E]
  BY BytesIsSum
<1>3. PICK g : Sums(g, SUBSET F) /\ Bytes(F) = g[F]
  BY <1>1, BytesIsSum
<1>4. Bytes(F) = f[F]
  BY <1>2, <1>3, SumsAgree
<1>5. \A A \in SUBSET E : f[A] \in Nat /\ \A e \in A : f[A] = e.size + f[A \ {e}]
  <2>1. Sums(f, SUBSET E)
    BY <1>2
  <2>2. AddsUp(f, E)
    BY <2>1, SumTakesAny
  <2> QED BY <2>2 DEF AddsUp
<1> DEFINE Above == {n \in Nat : \A A \in AtMost(E, n) : F \subseteq A => f[F] <= f[A]}
<1>6. 0 \in Above
  <2>1. \A A \in AtMost(E, 0) : A = {}
    BY OnlyEmpty
  <2>2. \A A \in AtMost(E, 0) : F \subseteq A => F = A
    BY <2>1
  <2> QED BY <2>2, <1>5
<1>7. ASSUME NEW n \in Nat, n \in Above PROVE n + 1 \in Above
  <2> SUFFICES ASSUME NEW A \in AtMost(E, n + 1), F \subseteq A PROVE f[F] <= f[A]
    OBVIOUS
  <2>1. A \in SUBSET E /\ Cardinality(A) <= n + 1
    BY DEF AtMost
  <2>2. CASE A = F
    BY <2>2, <1>5
  <2>3. ASSUME NEW e \in A, e \notin F PROVE f[F] <= f[A]
    <3>1. A \ {e} \in AtMost(E, n) /\ F \subseteq A \ {e}
      BY <2>3, OneLess
    <3>2. f[F] <= f[A \ {e}]
      BY <3>1, <1>7
    <3>3. f[A] = e.size + f[A \ {e}] /\ e.size \in Nat /\ f[A \ {e}] \in Nat /\ f[F] \in Nat
      BY <1>5, <2>1
    <3> QED BY <3>2, <3>3
  <2> QED BY <2>2, <2>3
<1> HIDE DEF Above
<1>8. Nat \subseteq Above
  BY <1>6, <1>7, Naturals
<1>9. E \in AtMost(E, Cardinality(E)) /\ Cardinality(E) \in Nat
  BY FS_CardinalityType DEF AtMost
<1>10. f[F] <= f[E]
  BY <1>8, <1>9 DEF Above
<1> QED BY <1>2, <1>4, <1>5, <1>10

\* A set of numbers has a least one.
LEMMA LeastNumber ==
    ASSUME NEW N \in SUBSET Nat, N # {} PROVE \E m \in N : \A n \in N : m <= n
<1>1. PICK m \in N : \A k \in N : <<k, m>> \notin OpToRel(<, Nat)
  BY NatLessThanWellFounded, WFMin, Zenon
<1>2. \A k \in N : ~(k < m)
  BY <1>1 DEF OpToRel
<1> QED
  BY <1>2

\* Among some events one precedes the others, or comes from its position twice.
LEMMA OldestEvent ==
    ASSUME NEW R \in SUBSET Event, R # {}
    PROVE  \E m \in R : \A f \in R : ~Precedes(f, m)
<1>1. \A e \in Event : e.created \in Nat /\ e.stream \in Nat /\ e.index \in Nat
  BY StorageAssumption DEF Event, Streams
<1> DEFINE Times == {e.created : e \in R}
<1>2. PICK c \in Times : \A t \in Times : c <= t
  <2>1. Times \in SUBSET Nat /\ Times # {}
    BY <1>1
  <2> HIDE DEF Times
  <2> QED
    BY <2>1, LeastNumber
<1> DEFINE Early == {e \in R : e.created = c}
           Places == {e.stream : e \in Early}
<1>3. PICK s \in Places : \A t \in Places : s <= t
  <2>1. Places \in SUBSET Nat /\ Places # {}
    BY <1>1, <1>2
  <2> HIDE DEF Places
  <2> QED
    BY <2>1, LeastNumber
<1> DEFINE First == {e \in Early : e.stream = s}
           Indexes == {e.index : e \in First}
<1>4. PICK i \in Indexes : \A t \in Indexes : i <= t
  <2>1. Indexes \in SUBSET Nat /\ Indexes # {}
    BY <1>1, <1>3
  <2> HIDE DEF Indexes
  <2> QED
    BY <2>1, LeastNumber
<1>5. PICK m \in First : m.index = i
  BY <1>4
<1>6. m \in R /\ m.created = c /\ m.stream = s /\ m.index = i
  BY <1>5
<1>7. ASSUME NEW f \in R PROVE ~Precedes(f, m)
  <2>1. c <= f.created
    BY <1>2
  <2>2. f.created = c => s <= f.stream
    BY <1>3
  <2>3. f.created = c /\ f.stream = s => i <= f.index
    BY <1>4
  <2>4. /\ f.created \in Nat /\ f.stream \in Nat /\ f.index \in Nat
        /\ c \in Nat /\ s \in Nat /\ i \in Nat
    BY <1>1, <1>6
  <2> QED
    BY <1>6, <2>1, <2>2, <2>3, <2>4 DEF Precedes
<1> QED
  BY <1>6, <1>7

Bounded(L) == IsFiniteSet(L) /\ (Cardinality(L) > 1 => Bytes(L) <= MaxEventBytes)

LEMMA FewerEventsFit ==
    ASSUME NEW L \in SUBSET Event, Bounded(L), NEW M \in SUBSET L PROVE Bounded(M)
<1>1. IsFiniteSet(L) /\ IsFiniteSet(M) /\ Cardinality(M) <= Cardinality(L)
  BY FS_Subset DEF Bounded
<1>2. Cardinality(M) \in Nat /\ Cardinality(L) \in Nat
  BY <1>1, FS_CardinalityType
<1>3. \A e \in L : e.size \in Nat
  BY DEF Event
<1>4. Bytes(M) \in Nat /\ Bytes(L) \in Nat /\ Bytes(M) <= Bytes(L)
  BY <1>1, <1>3, BytesGrow
<1>5. MaxEventBytes \in Nat
  BY StorageAssumption
<1>6. Cardinality(L) > 1 => Bytes(L) <= MaxEventBytes
  BY DEF Bounded
<1>7. Cardinality(M) > 1 => Bytes(M) <= MaxEventBytes
  BY <1>1, <1>2, <1>4, <1>5, <1>6
<1> QED
  BY <1>1, <1>7 DEF Bounded

\* If more than one event stays, the first of them stays because what follows
\* it fits, and that is all that stays.
LEMMA PruneBounds ==
    ASSUME NEW S, NEW L, TablesOK(S, L), IsFiniteSet(L), NEW now
    PROVE  Bounded(PrunedLog(S, L, now))
<1> DEFINE kept == {e \in L : e.stream \notin ExpiredStreams(S, now)}
           R == kept \ OldestEvents(kept)
<1>1. kept \in SUBSET L /\ R \in SUBSET kept /\ L \in SUBSET Event
  BY DEF TablesOK, Tables
<1>2. IsFiniteSet(kept) /\ IsFiniteSet(R)
  <2> HIDE DEF kept, R
  <2>1. IsFiniteSet(kept)
    BY <1>1, FS_Subset
  <2> QED
    BY <1>1, <2>1, FS_Subset
<1>3. \A e \in kept : e \in Event /\ e.size \in Nat
  BY <1>1 DEF Event
<1>4. \A e, f \in kept : e.stream = f.stream /\ e.index = f.index => e = f
  BY DEF TablesOK, NoOrphans
<1>5. ASSUME Cardinality(R) > 1 PROVE Bytes(R) <= MaxEventBytes
  <2>1. R # {}
    <3> HIDE DEF R
    <3> QED
      BY <1>5, FS_EmptySet
  <2>2. PICK m \in R : \A f \in R : ~Precedes(f, m)
    <3>1. R \in SUBSET Event
      BY <1>1
    <3> HIDE DEF R
    <3> QED
      BY <2>1, <3>1, OldestEvent
  <2>3. PICK f \in R : f # m
    <3>1. R # {m}
      <4>1. Cardinality({m}) = 1
        BY FS_Singleton
      <4> HIDE DEF R
      <4> QED
        BY <1>5, <4>1
    <3> QED
      BY <2>2, <3>1
  <2>4. Precedes(m, f)
    <3>1. ~Precedes(f, m)
      BY <2>2, <2>3
    <3>2. m \in Event /\ f \in Event
      BY <1>1, <2>2, <2>3
    <3>3. /\ m.created \in Nat /\ m.stream \in Nat /\ m.index \in Nat
          /\ f.created \in Nat /\ f.stream \in Nat /\ f.index \in Nat
      BY <3>2, StorageAssumption DEF Event, Streams
    <3>4. ~(m.stream = f.stream /\ m.index = f.index)
      BY <1>1, <1>4, <2>2, <2>3
    <3> QED
      BY <3>1, <3>3, <3>4 DEF Precedes
  <2> DEFINE rest == {g \in kept : ~Precedes(g, m)}
  <2>5. ~(Bytes(rest) > MaxEventBytes)
    <3>1. m \in kept /\ f \in kept /\ m \notin OldestEvents(kept)
      BY <2>2, <2>3
    <3> HIDE DEF kept
    <3> QED
      BY <2>4, <3>1 DEF OldestEvents
  <2>6. R \in SUBSET rest /\ rest \in SUBSET kept
    BY <2>2
  <2>7. IsFiniteSet(rest) /\ \A e \in rest : e.size \in Nat
    <3> HIDE DEF rest, kept
    <3> QED
      BY <1>2, <1>3, <2>6, FS_Subset
  <2>8. Bytes(R) \in Nat /\ Bytes(rest) \in Nat /\ Bytes(R) <= Bytes(rest)
    <3> HIDE DEF rest, R
    <3> QED
      BY <2>6, <2>7, BytesGrow
  <2>9. MaxEventBytes \in Nat
    BY StorageAssumption
  <2> HIDE DEF rest, R
  <2> QED
    BY <2>5, <2>8, <2>9
<1> QED
  <2>1. PrunedLog(S, L, now) = R
    BY DEF PrunedLog
  <2> HIDE DEF R, kept
  <2> QED
    BY <1>2, <1>5, <2>1 DEF Bounded

LogsBounded == \A d \in Stores : Bounded(log[d])

LEMMA BoundedStep ==
    ASSUME TypeOK, DatabasesOK, LogsBounded, [Next]_vars PROVE LogsBounded'
<1> SUFFICES ASSUME NEW x \in Stores PROVE Bounded(log'[x])
  BY DEF LogsBounded, Bounded, Bytes, MapThenSumSet, MapThenFoldSet
<1>1. Bounded(log[x]) /\ log[x] \in SUBSET Event
  BY DEF LogsBounded, TypeOK
<1>2. CASE UNCHANGED log
  BY <1>1, <1>2
<1>3. ASSUME NEW d \in Stores, NEW now \in Nat, NEW S, NEW L,
             TablesOK(S, L), PruneTx(d, S, L, now), Adds(d, L)
      PROVE  Bounded(log'[x])
  <2>1. CASE x = d
    <3>1. log'[x] = PrunedLog(S, L, now)
      BY <1>3, <2>1 DEF PruneTx, TypeOK
    <3>2. PICK e : L \subseteq log[d] \cup {e}
      BY <1>3 DEF Adds
    <3>3. IsFiniteSet(log[d] \cup {e})
      BY <1>1, <2>1, FS_AddElement DEF Bounded
    <3>4. IsFiniteSet(L)
      BY <3>2, <3>3, FS_Subset
    <3> QED
      BY <1>3, <3>1, <3>4, PruneBounds
  <2>2. CASE x # d
    <3>1. log'[x] = log[x]
      BY <1>3, <2>2 DEF PruneTx, TypeOK
    <3> QED
      BY <1>1, <3>1
  <2> QED
    BY <2>1, <2>2
<1>4. ASSUME NEW c \in Clients, SessionClosedCommits(c) PROVE Bounded(log'[x])
  <2>1. log'[x] \in SUBSET log[x]
    BY <1>4 DEF SessionClosedCommits, TypeOK
  <2> QED
    BY <1>1, <2>1, FewerEventsFit
<1>5. CASE UNCHANGED vars
  BY <1>2, <1>5 DEF vars
<1> QED
  BY <1>2, <1>3, <1>4, <1>5, WritingSteps

----------------------------------------------------------------------------
(* The theorems.                                                           *)

IndInv ==
    /\ TypeOK
    /\ DatabasesOK
    /\ OpensUseBoundStore
    /\ StoreAffinity

LEMMA IndInvInit == Init => IndInv
<1> SUFFICES ASSUME Init PROVE IndInv
  OBVIOUS
<1>1. TypeOK
  BY DEF Init, TypeOK
<1>2. DatabasesOK
  BY DEF Init, DatabasesOK, TablesOK, Tables, RowsInRange, RetainedPresent,
         NoOrphans
<1>3. OpensUseBoundStore
  BY DEF Init, OpensUseBoundStore, Idle, Operating
<1>4. StoreAffinity
  BY DEF Init, StoreAffinity
<1> QED
  BY <1>1, <1>2, <1>3, <1>4 DEF IndInv

LEMMA IndInvStep == IndInv /\ [Next]_vars => IndInv'
<1> SUFFICES ASSUME IndInv, [Next]_vars PROVE IndInv'
  OBVIOUS
<1> USE DEF IndInv
<1>1. TypeOK'
  BY DatabasesStep, OtherTypesStep DEF TypeOK, Streams, StreamRow, Event,
     Operation, Idle, Operating
<1>2. DatabasesOK'
  BY DatabasesStep
<1> QED
  BY <1>1, <1>2, AffinityStep

LEMMA Inductive == Spec => []IndInv
BY IndInvInit, IndInvStep, PTL DEF Spec

\* The tables, the bindings and the operations keep their types.
THEOREM TypeInvariant == Spec => []TypeOK
<1>1. IndInv => TypeOK
  BY DEF IndInv
<1> QED
  BY <1>1, Inductive, PTL

\* The watermark never lies: every index from first_retained_index to
\* next_index is in the log, whatever was pruned by age or size, in whatever
\* order the clocks of the transactions put the events
\* (eventstore_sqlite.go:48-82).
THEOREM WatermarkIsTrue == Spec => []RetainedEventsPresent
<1>1. IndInv => RetainedEventsPresent
  BY DEF IndInv, DatabasesOK, TablesOK, RetainedPresent, RetainedEventsPresent
<1> QED
  BY <1>1, Inductive, PTL

\* An event has its position to itself, in a stream that exists and has
\* allocated that position: a stream that expired and was opened again finds
\* nothing of its former life (eventstore.go:60-90).
THEOREM PositionsAreUnique == Spec => []NoOrphanEvents
<1>1. IndInv => NoOrphanEvents
  BY DEF IndInv, DatabasesOK, TablesOK, NoOrphans, NoOrphanEvents
<1> QED
  BY <1>1, Inductive, PTL

\* Where a transaction reads one snapshot, After answers with every event from
\* the first one asked for, or with the error or the nothing that it should
\* (eventstore.go:82-155).
THEOREM ReplayIsComplete == ASSUME SnapshotReads PROVE Spec => []NoPartialReplay
<1>1. Init => ReplaysComplete
  BY DEF Init, ReplaysComplete, Idle, Operating
<1>2. IndInv /\ ReplaysComplete /\ [Next]_vars => ReplaysComplete'
  BY ReplaysStep DEF IndInv
<1>3. ReplaysComplete => NoPartialReplay
  BY DEF ReplaysComplete, NoPartialReplay
<1> QED
  BY <1>1, <1>2, <1>3, Inductive, PTL DEF Spec

\* After every transaction the payloads in a database are within MaxEventBytes,
\* unless there is one event only, which may be larger by itself
\* (eventstore_sqlite.go:48-82).
THEOREM BytesStayBounded == Spec => []LogWithinBound
<1>1. Init => LogsBounded
  <2> SUFFICES ASSUME Init, NEW d \in Stores PROVE Bounded(log[d])
    BY DEF LogsBounded
  <2>1. log[d] = {}
    BY DEF Init
  <2>2. IsFiniteSet(log[d]) /\ Cardinality(log[d]) = 0
    BY <2>1, FS_EmptySet
  <2> QED
    BY <2>2 DEF Bounded
<1>2. IndInv /\ LogsBounded /\ [Next]_vars => LogsBounded'
  BY BoundedStep DEF IndInv
<1>3. LogsBounded => LogWithinBound
  BY DEF LogsBounded, Bounded, LogWithinBound
<1> QED
  BY <1>1, <1>2, <1>3, Inductive, PTL DEF Spec

\* A session whose binding was never released has its streams in the one
\* database it is bound to (event_adapter.go:29-53).
THEOREM SessionsStayInTheirStore == Spec => []StoreAffinity
<1>1. IndInv => StoreAffinity
  BY DEF IndInv
<1> QED
  BY <1>1, Inductive, PTL

\* No transaction moves an index of an existing stream back: a position is not
\* allocated twice and the watermark never uncovers what it has purged
\* (eventstore.go:250-252, eventstore_sqlite.go:68-78).
THEOREM IndexesNeverMoveBack == Spec => IndexesOnlyGrow
<1> DEFINE Grow == \A d \in Stores, s \in Streams :
                      streams[d][s] # None /\ streams'[d][s] # None =>
                          /\ streams'[d][s].first >= streams[d][s].first
                          /\ streams'[d][s].next >= streams[d][s].next
<1>1. IndInv /\ [Next]_vars => [Grow]_vars
  BY StreamMoves DEF IndInv
<1> QED
  BY <1>1, Inductive, PTL DEF Spec, IndexesOnlyGrow
=============================================================================
