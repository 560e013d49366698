-------------------------- MODULE SearchIndexProofs --------------------------
(***************************************************************************)
(* Proofs about SearchIndex, for any clients, contents, queries and limits *)
(* and any number of changes: a walk through the pages of one catalog      *)
(* finds the whole ranking, a call runs the tool that was shown, and an    *)
(* index that was published answers.                                       *)
(*                                                                         *)
(* The first part is about data: the pages that Search cuts from prefixes, *)
(* each promoted on its own, are those of the promoted ranking.  The       *)
(* second part counts entries and compiles, and the third follows what     *)
(* each client has been shown.                                             *)
(***************************************************************************)
EXTENDS SearchIndex, FiniteSetTheorems, SequenceTheorems, TLAPS

Texts == {a.text : a \in Asks}
Known(o) == \E i \in Catalogs : o = Contents[i]
Full(o, text) == Promote(o, text, o.ranking[text])

----------------------------------------------------------------------------
(* The pages of a catalog.                                                 *)

LEMMA ContentsFit ==
    ASSUME NEW o, Known(o), NEW text \in Texts
    PROVE  /\ IsFiniteSet(DOMAIN o.tools)
           /\ Cardinality(DOMAIN o.tools) \in Nat
           /\ o.ranking[text] \in Seq(DOMAIN o.tools)
           /\ IsInjective(o.ranking[text])
  BY ContentsAssumption, FS_CardinalityType DEF Known, Texts

\* A part of a sequence, and a sequence with one more element in front.
LEMMA SliceFits ==
    ASSUME NEW S, NEW s \in Seq(S), NEW m \in 1 .. Len(s) + 1, NEW n \in m - 1 .. Len(s)
    PROVE  /\ SubSeq(s, m, n) \in Seq(S)
           /\ Len(SubSeq(s, m, n)) = n - m + 1
           /\ \A j \in 1 .. n - m + 1 : SubSeq(s, m, n)[j] = s[m + j - 1]
<1>1. Len(s) \in Nat /\ m \in Int /\ n \in Int
  BY LenProperties
<1>2. \A j \in m .. n : s[j] \in S
  BY <1>1, ElementOfSeq
<1>3. /\ SubSeq(s, m, n) \in Seq(S)
      /\ Len(SubSeq(s, m, n)) = IF m <= n THEN n - m + 1 ELSE 0
      /\ \A j \in 1 .. n - m + 1 : SubSeq(s, m, n)[j] = s[m + j - 1]
  BY <1>1, <1>2, SubSeqProperties
<1> QED BY <1>1, <1>3

\* What is at j once x stands in front, or what was at q does.
AfterFront(x, t, j) == IF j = 1 THEN x ELSE t[j - 1]
AfterMove(t, q, j) == IF j = 1 THEN t[q] ELSE IF j <= q THEN t[j - 1] ELSE t[j]
AfterJoin(t, u, j) == IF j <= Len(t) THEN t[j] ELSE u[j - Len(t)]

LEMMA Joined ==
    ASSUME NEW S, NEW t \in Seq(S), NEW u \in Seq(S)
    PROVE  /\ t \o u \in Seq(S)
           /\ Len(t \o u) = Len(t) + Len(u)
           /\ \A j \in 1 .. Len(t) + Len(u) : (t \o u)[j] = AfterJoin(t, u, j)
  BY ConcatProperties DEF AfterJoin

LEMMA InFront ==
    ASSUME NEW S, NEW x \in S, NEW t \in Seq(S)
    PROVE  /\ <<x>> \o t \in Seq(S)
           /\ Len(<<x>> \o t) = Len(t) + 1
           /\ \A j \in 1 .. Len(t) + 1 : (<<x>> \o t)[j] = AfterFront(x, t, j)
<1> DEFINE u == <<x>>
<1>1. u \in Seq(S) /\ Len(u) = 1 /\ u[1] = x /\ Len(t) \in Nat
  BY LenProperties
<1> HIDE DEF u
<1>2. /\ u \o t \in Seq(S) /\ Len(u \o t) = Len(u) + Len(t)
      /\ \A j \in 1 .. Len(u) + Len(t) : (u \o t)[j] = AfterJoin(u, t, j)
  BY <1>1, Joined, Zenon
<1>3. /\ u \o t \in Seq(S) /\ Len(u \o t) = Len(t) + 1
      /\ \A j \in 1 .. Len(t) + 1 : (u \o t)[j] = AfterFront(x, t, j)
  BY <1>1, <1>2 DEF AfterJoin, AfterFront
<1> QED BY <1>3 DEF u

LEMMA PrefixFits ==
    ASSUME NEW S, NEW s \in Seq(S), IsInjective(s), NEW m \in 0 .. Len(s)
    PROVE  /\ SubSeq(s, 1, m) \in Seq(S)
           /\ Len(SubSeq(s, 1, m)) = m
           /\ \A j \in 1 .. m : SubSeq(s, 1, m)[j] = s[j]
           /\ IsInjective(SubSeq(s, 1, m))
<1>1. Len(s) \in Nat /\ m \in Nat /\ 1 \in 1 .. Len(s) + 1 /\ m \in 1 - 1 .. Len(s)
  BY LenProperties
<1>2. /\ SubSeq(s, 1, m) \in Seq(S)
      /\ Len(SubSeq(s, 1, m)) = m - 1 + 1
      /\ \A j \in 1 .. m - 1 + 1 : SubSeq(s, 1, m)[j] = s[1 + j - 1]
  BY <1>1, SliceFits
<1>3. /\ Len(SubSeq(s, 1, m)) = m
      /\ \A j \in 1 .. m : SubSeq(s, 1, m)[j] = s[j]
  BY <1>1, <1>2
<1>4. DOMAIN SubSeq(s, 1, m) = 1 .. m /\ DOMAIN s = 1 .. Len(s)
  BY <1>2, <1>3, LenProperties
<1>5. IsInjective(SubSeq(s, 1, m))
  BY <1>1, <1>3, <1>4 DEF IsInjective
<1> QED BY <1>2, <1>3, <1>5

\* An exact name that was matched moves to the front,
LEMMA PromoteMatched ==
    ASSUME NEW o, NEW text \in DOMAIN o.tools, NEW s \in Seq(DOMAIN o.tools),
           IsInjective(s), NEW q \in 1 .. Len(s), s[q] = text
    PROVE  /\ Promote(o, text, s) \in Seq(DOMAIN o.tools)
           /\ Len(Promote(o, text, s)) = Len(s)
           /\ \A j \in 1 .. Len(s) : Promote(o, text, s)[j] = AfterMove(s, q, j)
<1> DEFINE S == DOMAIN o.tools
           a == SubSeq(s, 1, q - 1)
           b == SubSeq(s, q + 1, Len(s))
<1>1. Len(s) \in Nat /\ DOMAIN s = 1 .. Len(s) /\ q \in Nat
      /\ \A j \in 1 .. Len(s) : s[j] \in S
  BY ElementOfSeq, LenProperties
<1>2. (CHOOSE k \in DOMAIN s : s[k] = text) = q
  BY <1>1 DEF IsInjective
<1>3. Promote(o, text, s) = (<<text>> \o a) \o b
  <2>1. \E k \in DOMAIN s : s[k] = text
    BY <1>1
  <2> QED BY <1>2, <2>1 DEF Promote
<1>4. /\ a \in Seq(S) /\ Len(a) = q - 1
      /\ \A j \in 1 .. q - 1 : a[j] = s[j]
  <2>1. q - 1 \in 0 .. Len(s)
    BY <1>1
  <2> QED BY <2>1, PrefixFits, Zenon
<1>5. /\ b \in Seq(S) /\ Len(b) = Len(s) - q
      /\ \A j \in 1 .. Len(s) - q : b[j] = s[q + j]
  <2>1. q + 1 \in 1 .. Len(s) + 1 /\ Len(s) \in (q + 1) - 1 .. Len(s)
    BY <1>1
  <2>2. /\ b \in Seq(S) /\ Len(b) = Len(s) - (q + 1) + 1
        /\ \A j \in 1 .. Len(s) - (q + 1) + 1 : b[j] = s[(q + 1) + j - 1]
    BY <2>1, SliceFits, Zenon
  <2> HIDE DEF b
  <2>3. /\ Len(s) - (q + 1) + 1 = Len(s) - q
        /\ \A j \in 1 .. Len(s) - q : (q + 1) + j - 1 = q + j
    BY <1>1
  <2> QED BY <1>1, <2>2, <2>3
<1> HIDE DEF a, b
<1> DEFINE c == <<text>> \o a
<1>6. /\ c \in Seq(S) /\ Len(c) = q
      /\ \A j \in 1 .. q : c[j] = IF j = 1 THEN text ELSE s[j - 1]
  <2>1. /\ c \in Seq(S) /\ Len(c) = Len(a) + 1
        /\ \A j \in 1 .. Len(a) + 1 : c[j] = AfterFront(text, a, j)
    BY <1>4, InFront, Zenon
  <2> HIDE DEF c
  <2> QED BY <1>1, <1>4, <2>1 DEF AfterFront
<1> HIDE DEF c
<1>7. /\ c \o b \in Seq(S) /\ Len(c \o b) = Len(c) + Len(b)
      /\ \A j \in 1 .. Len(c) + Len(b) : (c \o b)[j] = AfterJoin(c, b, j)
  <2>1. c \in Seq(S) /\ b \in Seq(S)
    BY <1>5, <1>6
  <2> HIDE DEF S
  <2> QED BY <2>1, Joined, Zenon
<1> DEFINE P == c \o b
<1>8. Promote(o, text, s) = P
  BY <1>3 DEF c
<1> HIDE DEF P
<1>9. P \in Seq(S) /\ Len(P) = Len(s)
  BY <1>1, <1>5, <1>6, <1>7 DEF P
<1>10. ASSUME NEW j \in 1 .. Len(s)
       PROVE  P[j] = IF j = 1 THEN text ELSE IF j <= q THEN s[j - 1] ELSE s[j]
  <2>1. CASE j <= q
    <3>1. P[j] = c[j] /\ j \in 1 .. q
      BY <1>1, <1>5, <1>6, <1>7, <2>1 DEF P, AfterJoin
    <3> QED BY <1>6, <2>1, <3>1
  <2>2. CASE j > q
    <3>1. P[j] = b[j - q] /\ j - q \in 1 .. Len(s) - q
      BY <1>1, <1>5, <1>6, <1>7, <2>2 DEF P, AfterJoin
    <3> QED BY SMTT(30), <1>1, <1>5, <2>2, <3>1
  <2> QED BY <1>1, <2>1, <2>2
<1> QED BY <1>8, <1>9, <1>10 DEF AfterMove

\* one that was not is put there.
LEMMA PromoteUnmatched ==
    ASSUME NEW o, NEW text \in DOMAIN o.tools, NEW s \in Seq(DOMAIN o.tools),
           \A q \in 1 .. Len(s) : s[q] # text
    PROVE  /\ Promote(o, text, s) \in Seq(DOMAIN o.tools)
           /\ Len(Promote(o, text, s)) = Len(s) + 1
           /\ \A j \in 1 .. Len(s) + 1 : Promote(o, text, s)[j] = AfterFront(text, s, j)
<1>1. Promote(o, text, s) = <<text>> \o s
  BY LenProperties DEF Promote
<1>2. /\ <<text>> \o s \in Seq(DOMAIN o.tools)
      /\ Len(<<text>> \o s) = Len(s) + 1
      /\ \A j \in 1 .. Len(s) + 1 : (<<text>> \o s)[j] = AfterFront(text, s, j)
  BY InFront, Zenon
<1> QED BY <1>1, <1>2, Zenon

\* Promotion keeps a ranking one: names of tools, each once.
LEMMA PromoteFits ==
    ASSUME NEW o, NEW text, NEW s \in Seq(DOMAIN o.tools), IsInjective(s)
    PROVE  /\ Promote(o, text, s) \in Seq(DOMAIN o.tools)
           /\ IsInjective(Promote(o, text, s))
           /\ Len(Promote(o, text, s)) >= Len(s)
<1> DEFINE P == Promote(o, text, s)
<1>1. Len(s) \in Nat /\ DOMAIN s = 1 .. Len(s)
  BY LenProperties
<1>2. CASE text \notin DOMAIN o.tools
  BY <1>1, <1>2 DEF Promote
<1>3. CASE text \in DOMAIN o.tools /\ \A q \in 1 .. Len(s) : s[q] # text
  <2>1. /\ P \in Seq(DOMAIN o.tools) /\ Len(P) = Len(s) + 1
        /\ \A j \in 1 .. Len(s) + 1 : P[j] = AfterFront(text, s, j)
    BY <1>3, PromoteUnmatched, Zenon
  <2> HIDE DEF P
  <2>2. DOMAIN P = 1 .. Len(s) + 1
    BY <2>1, LenProperties
  <2>3. ASSUME NEW j \in DOMAIN P, NEW k \in DOMAIN P, P[j] = P[k] PROVE j = k
    <3>1. CASE j = 1 /\ k = 1
      BY <3>1
    <3>2. CASE j = 1 /\ k # 1
      BY <1>1, <1>3, <2>1, <2>2, <2>3, <3>2 DEF AfterFront
    <3>3. CASE j # 1 /\ k = 1
      BY <1>1, <1>3, <2>1, <2>2, <2>3, <3>3 DEF AfterFront
    <3>4. CASE j # 1 /\ k # 1
      <4>1. j - 1 \in DOMAIN s /\ k - 1 \in DOMAIN s /\ s[j - 1] = s[k - 1]
        BY <1>1, <2>1, <2>2, <2>3, <3>4 DEF AfterFront
      <4>2. j - 1 = k - 1
        BY <4>1 DEF IsInjective
      <4> QED BY <1>1, <2>2, <4>2
    <3> QED BY <3>1, <3>2, <3>3, <3>4
  <2> QED BY <1>1, <2>1, <2>3 DEF IsInjective, P
<1>4. CASE text \in DOMAIN o.tools /\ \E q \in 1 .. Len(s) : s[q] = text
  <2>1. PICK q \in 1 .. Len(s) : s[q] = text
    BY <1>4
  <2>2. /\ P \in Seq(DOMAIN o.tools) /\ Len(P) = Len(s)
        /\ \A j \in 1 .. Len(s) : P[j] = AfterMove(s, q, j)
    BY <1>4, <2>1, PromoteMatched, Zenon
  <2> HIDE DEF P
  <2>3. DOMAIN P = 1 .. Len(s)
    BY <2>2, LenProperties
  <2> DEFINE from(j) == IF j = 1 THEN q ELSE IF j <= q THEN j - 1 ELSE j
  <2>4. \A j \in DOMAIN P : from(j) \in DOMAIN s /\ P[j] = s[from(j)]
    BY <1>1, <2>1, <2>2, <2>3 DEF AfterMove
  <2>5. \A j, k \in DOMAIN P : from(j) = from(k) => j = k
    BY <1>1, <2>1, <2>3
  <2> HIDE DEF from
  <2>6. IsInjective(P)
    BY <2>4, <2>5 DEF IsInjective
  <2> QED BY <1>1, <2>2, <2>6 DEF P
<1> QED BY <1>2, <1>3, <1>4

\* A prefix of the ranking, promoted, begins as the promoted ranking does.
LEMMA PrefixAgrees ==
    ASSUME NEW o, NEW text, NEW s \in Seq(DOMAIN o.tools), IsInjective(s),
           NEW m \in 0 .. Len(s)
    PROVE  /\ Len(Promote(o, text, SubSeq(s, 1, m))) >= m
           /\ \A j \in 1 .. m :
                 Promote(o, text, SubSeq(s, 1, m))[j] = Promote(o, text, s)[j]
<1> DEFINE p == SubSeq(s, 1, m)
<1>1. Len(s) \in Nat /\ DOMAIN s = 1 .. Len(s) /\ m \in Nat
  BY LenProperties
<1>2. /\ p \in Seq(DOMAIN o.tools) /\ Len(p) = m /\ IsInjective(p)
      /\ \A j \in 1 .. m : p[j] = s[j]
  BY PrefixFits
<1> HIDE DEF p
<1>3. Len(Promote(o, text, p)) >= m
  BY <1>2, PromoteFits
<1>4. CASE text \notin DOMAIN o.tools
  BY <1>2, <1>3, <1>4 DEF Promote, p
<1>5. CASE text \in DOMAIN o.tools /\ \A q \in 1 .. Len(s) : s[q] # text
  <2>1. \A q \in 1 .. Len(p) : p[q] # text
    BY <1>1, <1>2, <1>5
  <2>2. \A j \in 1 .. Len(s) + 1 : Promote(o, text, s)[j] = AfterFront(text, s, j)
    BY <1>5, PromoteUnmatched, Zenon
  <2>3. \A j \in 1 .. Len(p) + 1 : Promote(o, text, p)[j] = AfterFront(text, p, j)
    BY <1>2, <1>5, <2>1, PromoteUnmatched, Zenon
  <2>4. \A j \in 1 .. m : Promote(o, text, p)[j] = Promote(o, text, s)[j]
    BY <1>1, <1>2, <2>2, <2>3 DEF AfterFront
  <2> QED BY <1>3, <2>4 DEF p
<1>6. CASE text \in DOMAIN o.tools /\ \E q \in 1 .. Len(s) : s[q] = text
  <2>1. PICK q \in 1 .. Len(s) : s[q] = text
    BY <1>6
  <2>2. \A j \in 1 .. Len(s) : Promote(o, text, s)[j] = AfterMove(s, q, j)
    BY <1>6, <2>1, PromoteMatched, Zenon
  <2>3. CASE q <= m
    <3>1. q \in 1 .. Len(p) /\ p[q] = text
      BY <1>1, <1>2, <2>1, <2>3
    <3>2. \A j \in 1 .. Len(p) : Promote(o, text, p)[j] = AfterMove(p, q, j)
      BY <1>2, <1>6, <3>1, PromoteMatched, Zenon
    <3>3. \A j \in 1 .. m : Promote(o, text, p)[j] = Promote(o, text, s)[j]
      BY <1>1, <1>2, <2>1, <2>2, <2>3, <3>2 DEF AfterMove
    <3> QED BY <1>3, <3>3 DEF p
  <2>4. CASE q > m
    <3>1. \A k \in 1 .. Len(p) : p[k] # text
      BY <1>1, <1>2, <2>1, <2>4 DEF IsInjective
    <3>2. \A j \in 1 .. Len(p) + 1 : Promote(o, text, p)[j] = AfterFront(text, p, j)
      BY <1>2, <1>6, <3>1, PromoteUnmatched, ZenonT(40)
    <3>3. \A j \in 1 .. m : Promote(o, text, p)[j] = Promote(o, text, s)[j]
      BY <1>1, <1>2, <2>1, <2>2, <2>4, <3>2 DEF AfterMove, AfterFront
    <3> QED BY <1>3, <3>3 DEF p
  <2> QED BY <1>1, <2>1, <2>3, <2>4
<1> QED BY <1>4, <1>5, <1>6

\* A ranking without repetitions is no longer than there are tools.
LEMMA RankingsAreShort ==
    ASSUME NEW S, IsFiniteSet(S), NEW s \in Seq(S), IsInjective(s)
    PROVE  Len(s) <= Cardinality(S)
<1>1. Len(s) \in Nat /\ s \in [1 .. Len(s) -> S] /\ Cardinality(S) \in Nat
  BY LenProperties, FS_CardinalityType
<1>2. IsFiniteSet(1 .. Len(s)) /\ Cardinality(1 .. Len(s)) = Len(s)
  <2>1. 1 \in Int /\ Len(s) \in Int
    BY <1>1
  <2>2. /\ IsFiniteSet(1 .. Len(s))
        /\ Cardinality(1 .. Len(s)) = IF 1 > Len(s) THEN 0 ELSE Len(s) - 1 + 1
    BY <2>1, FS_Interval
  <2> QED BY <1>1, <2>2
<1>3. SUFFICES ASSUME Cardinality(S) < Cardinality(1 .. Len(s)) PROVE FALSE
  BY <1>1, <1>2
<1>4. \E j, k \in 1 .. Len(s) : j # k /\ s[j] = s[k]
  BY <1>1, <1>2, <1>3, FS_PigeonHole
<1> QED BY <1>1, <1>4 DEF IsInjective

\* The whole of a sequence, as a prefix of it.
LEMMA WholePrefix ==
    ASSUME NEW S, NEW s \in Seq(S), IsInjective(s)
    PROVE  SubSeq(s, 1, Len(s)) = s
<1>1. Len(s) \in Nat /\ Len(s) \in 0 .. Len(s)
  BY LenProperties
<1>2. /\ SubSeq(s, 1, Len(s)) \in Seq(S)
      /\ Len(SubSeq(s, 1, Len(s))) = Len(s)
      /\ \A j \in 1 .. Len(s) : SubSeq(s, 1, Len(s))[j] = s[j]
  BY <1>1, PrefixFits, Zenon
<1> QED BY <1>2, SeqEqual, Zenon

\* The hits of a list of names.
Shown(o, names) == [k \in DOMAIN names |-> Hit(o, names[k])]

LEMMA HitsAreShown ==
    ASSUME NEW o, Known(o), NEW name \in DOMAIN o.tools
    PROVE  Hit(o, name) \in Hits
  BY DEF Known, Hits

LEMMA ShownFits ==
    ASSUME NEW o, Known(o), NEW names \in Seq(DOMAIN o.tools)
    PROVE  /\ Shown(o, names) \in Seq(Hits)
           /\ Len(Shown(o, names)) = Len(names)
           /\ DOMAIN Shown(o, names) = 1 .. Len(names)
           /\ \A k \in 1 .. Len(names) : Shown(o, names)[k] = Hit(o, names[k])
<1>1. Len(names) \in Nat /\ DOMAIN names = 1 .. Len(names)
      /\ \A k \in 1 .. Len(names) : names[k] \in DOMAIN o.tools
  BY LenProperties, ElementOfSeq
<1>2. \A k \in 1 .. Len(names) : Hit(o, names[k]) \in Hits
  BY <1>1, HitsAreShown
<1>3. /\ Shown(o, names) \in [1 .. Len(names) -> Hits]
      /\ \A k \in 1 .. Len(names) : Shown(o, names)[k] = Hit(o, names[k])
  BY <1>1, <1>2 DEF Shown
<1>4. Shown(o, names) \in Seq(Hits)
  BY <1>1, <1>3, SeqDef
<1>5. Len(Shown(o, names)) = Len(names) /\ DOMAIN Shown(o, names) = 1 .. Len(names)
  BY <1>1, <1>3, <1>4, LenProperties
<1> QED BY <1>3, <1>4, <1>5

\* What a page is cut from, and where it ends.
Reach(o, limit, offset) ==
    offset + Least(limit, Cardinality(DOMAIN o.tools) - offset)
Fetched(o, text, limit, offset) ==
    Promote(o, text, SubSeq(o.ranking[text], 1,
        Least(Fetch(Cardinality(DOMAIN o.tools), Reach(o, limit, offset)),
              Len(o.ranking[text]))))

LEMMA FetchedAgrees ==
    ASSUME NEW o, Known(o), NEW text \in Texts, NEW limit \in Nat \ {0},
           NEW offset \in Nat, offset < Cardinality(DOMAIN o.tools)
    PROVE  LET end == Reach(o, limit, offset)
               hits == Fetched(o, text, limit, offset)
               full == Full(o, text)
           IN  /\ end \in offset + 1 .. Cardinality(DOMAIN o.tools)
               /\ hits \in Seq(DOMAIN o.tools)
               /\ full \in Seq(DOMAIN o.tools)
               /\ Least(end, Len(hits)) = Least(end, Len(full))
               /\ Len(hits) > end <=> Len(full) > end
               /\ \A j \in 1 .. Least(end, Len(hits)) : hits[j] = full[j]
<1> DEFINE size == Cardinality(DOMAIN o.tools)
           end == Reach(o, limit, offset)
           s == o.ranking[text]
           full == Full(o, text)
           m == Least(Fetch(size, end), Len(s))
           hits == Promote(o, text, SubSeq(s, 1, m))
<1>1. /\ size \in Nat /\ s \in Seq(DOMAIN o.tools) /\ IsInjective(s)
      /\ Len(s) \in Nat /\ Len(s) <= size
  BY ContentsFit, RankingsAreShort, LenProperties
<1>2. end \in offset + 1 .. size
  BY <1>1 DEF Reach, Least
<1>3. full \in Seq(DOMAIN o.tools) /\ Len(full) \in Nat /\ Len(full) >= Len(s)
  BY <1>1, PromoteFits, LenProperties DEF Full
<1>4. Fetched(o, text, limit, offset) = hits
  BY DEF Fetched
<1> HIDE DEF end, s
<1>5. CASE Fetch(size, end) >= Len(s)
  <2>1. m = Len(s)
    BY <1>1, <1>2, <1>5 DEF Least, Fetch
  <2>2. hits = full
    BY <1>1, <2>1, WholePrefix DEF Full, s
  <2> HIDE DEF hits, full
  <2> QED BY <1>2, <1>3, <1>4, <2>2 DEF end, full
<1>6. CASE Fetch(size, end) < Len(s)
  <2>1. m = end + 1 /\ m \in 0 .. Len(s)
    BY <1>1, <1>2, <1>6 DEF Least, Fetch
  <2>2. /\ SubSeq(s, 1, m) \in Seq(DOMAIN o.tools)
        /\ IsInjective(SubSeq(s, 1, m))
    BY <1>1, <2>1, PrefixFits, Zenon
  <2>3. hits \in Seq(DOMAIN o.tools) /\ Len(hits) \in Nat
    BY <2>2, PromoteFits, LenProperties
  <2>4. /\ Len(hits) >= m
        /\ \A j \in 1 .. m : hits[j] = full[j]
    <3>1. m \in 0 .. Len(s) /\ s \in Seq(DOMAIN o.tools) /\ IsInjective(s)
      BY <1>1, <2>1
    <3>2. full = Promote(o, text, s)
      BY DEF Full, s
    <3> HIDE DEF m, full
    <3>3. /\ Len(hits) >= m
          /\ \A j \in 1 .. m : hits[j] = Promote(o, text, s)[j]
      BY <3>1, PrefixAgrees, Zenon
    <3> QED BY <3>2, <3>3, Zenon
  <2> HIDE DEF hits, full, m
  <2>5. Least(end, Len(hits)) = end /\ Least(end, Len(full)) = end
        /\ Len(hits) > end /\ Len(full) > end
    BY <1>1, <1>2, <1>3, <2>1, <2>3, <2>4 DEF Least
  <2>6. \A j \in 1 .. end : hits[j] = full[j]
    BY <1>1, <1>2, <2>1, <2>4
  <2> QED BY <1>2, <1>3, <1>4, <2>3, <2>5, <2>6 DEF end, full
<1> QED BY <1>1, <1>2, <1>5, <1>6 DEF Fetch

\* What was found is the part of the promoted ranking that begins at an offset,
\* and says whether more of it is left.
Continues(found, o, text, offset) ==
    LET full == Full(o, text) IN
    /\ found.hits \in Seq(Hits)
    /\ found.hasMore \in BOOLEAN
    /\ offset <= Len(full) =>
          /\ offset + Len(found.hits) <= Len(full)
          /\ found.hasMore <=> offset + Len(found.hits) < Len(full)
          /\ \A k \in 1 .. Len(found.hits) : found.hits[k] = Hit(o, full[offset + k])

LEMMA SearchPages ==
    ASSUME NEW o, Known(o), NEW text \in Texts, NEW limit \in Nat \ {0},
           NEW offset \in Nat
    PROVE  Continues(Search(o, text, limit, offset), o, text, offset)
<1> DEFINE size == Cardinality(DOMAIN o.tools)
           end == Reach(o, limit, offset)
           hits == Fetched(o, text, limit, offset)
           full == Full(o, text)
           page == SubSeq(hits, offset + 1, Least(end, Len(hits)))
           found == Search(o, text, limit, offset)
<1>1. /\ size \in Nat /\ full \in Seq(DOMAIN o.tools) /\ IsInjective(full)
      /\ IsFiniteSet(DOMAIN o.tools)
  BY ContentsFit, PromoteFits DEF Full
<1>2. Len(full) \in Nat /\ Len(full) <= size
  BY <1>1, RankingsAreShort, LenProperties
<1>3. CASE offset >= size
  <2>1. found = [hits |-> <<>>, hasMore |-> FALSE]
    BY <1>3 DEF Search
  <2>2. found.hits = <<>> /\ found.hasMore = FALSE
    BY <2>1
  <2>3. <<>> \in Seq(Hits) /\ Len(<<>>) = 0
    OBVIOUS
  <2>4. found.hasMore \in BOOLEAN
    BY <2>2
  <2> HIDE DEF found, full, size
  <2>5. offset <= Len(full) => /\ offset + Len(found.hits) <= Len(full)
                               /\ ~(offset + Len(found.hits) < Len(full))
    BY <1>1, <1>2, <1>3, <2>2, <2>3
  <2>6. ASSUME NEW k \in 1 .. Len(found.hits) PROVE FALSE
    BY <2>2, <2>3
  <2> QED BY <2>2, <2>3, <2>4, <2>5, <2>6 DEF Continues, found, full
<1>4. CASE offset < size
  <2>1. found = [hits |-> Shown(o, page), hasMore |-> Len(hits) > end]
    <3>1. ~(offset >= size)
      BY <1>1, <1>4
    <3> QED BY <3>1, Zenon DEF Search, Shown, Fetched, Reach
  <2>2. found.hits = Shown(o, page) /\ found.hasMore = (Len(hits) > end)
    BY <2>1
  <2>3. /\ end \in offset + 1 .. size
        /\ hits \in Seq(DOMAIN o.tools)
        /\ Least(end, Len(hits)) = Least(end, Len(full))
        /\ Len(hits) > end <=> Len(full) > end
        /\ \A j \in 1 .. Least(end, Len(hits)) : hits[j] = full[j]
    BY <1>4, FetchedAgrees
  <2>4. Len(hits) \in Nat
    BY <2>3, LenProperties
  <2> HIDE DEF found, full, hits, end, size
  <2>5. Least(end, Len(hits)) \in 0 .. Len(hits) /\ offset + 1 \in Nat \ {0}
        /\ end \in Nat
    BY <1>1, <2>3, <2>4 DEF Least
  <2>6. CASE offset <= Least(end, Len(hits))
    <3>1. offset + 1 \in 1 .. Len(hits) + 1
          /\ Least(end, Len(hits)) \in (offset + 1) - 1 .. Len(hits)
      BY <2>4, <2>5, <2>6
    <3>2. /\ page \in Seq(DOMAIN o.tools)
          /\ Len(page) = Least(end, Len(hits)) - (offset + 1) + 1
          /\ \A j \in 1 .. Least(end, Len(hits)) - (offset + 1) + 1 :
                page[j] = hits[(offset + 1) + j - 1]
      BY <2>3, <3>1, SliceFits, Zenon
    <3> HIDE DEF page
    <3>3. /\ Shown(o, page) \in Seq(Hits)
          /\ Len(Shown(o, page)) = Len(page)
          /\ \A k \in 1 .. Len(page) : Shown(o, page)[k] = Hit(o, page[k])
      BY <3>2, ShownFits, Zenon
    <3>4. Len(page) = Least(end, Len(hits)) - offset /\ Len(page) \in Nat
      BY <2>5, <2>6, <3>2
    <3>5. \A k \in 1 .. Len(page) : page[k] = full[offset + k]
      <4>1. TAKE k \in 1 .. Len(page)
      <4>2. offset + k \in 1 .. Least(end, Len(hits)) /\ (offset + 1) + k - 1 = offset + k
            /\ k \in 1 .. Least(end, Len(hits)) - (offset + 1) + 1
        BY <2>5, <3>4
      <4> QED BY <2>3, <3>2, <4>2
    <3>6. offset + Len(page) = Least(end, Len(full))
      BY <2>3, <2>5, <3>4
    <3>7. /\ found.hits \in Seq(Hits)
          /\ found.hasMore \in BOOLEAN
          /\ Len(found.hits) = Len(page)
          /\ \A k \in 1 .. Len(page) : found.hits[k] = Hit(o, full[offset + k])
      <4>1. (Len(hits) > end) \in BOOLEAN
        OBVIOUS
      <4> QED BY <2>2, <3>3, <3>5, <4>1
    <3>8. Least(end, Len(full)) <= Len(full)
          /\ (Len(full) > end <=> Least(end, Len(full)) < Len(full))
      BY <1>2, <2>3, <2>5 DEF Least
    <3>9. found.hasMore <=> offset + Len(found.hits) < Len(full)
      BY <2>2, <2>3, <3>6, <3>7, <3>8
    <3> QED BY <3>6, <3>7, <3>8, <3>9 DEF Continues, found, full
  <2>7. CASE offset > Least(end, Len(hits))
    <3>1. offset > Len(full)
      BY <1>2, <2>3, <2>5, <2>7 DEF Least
    <3>2. page = <<>>
      BY <2>3, <2>4, <2>5, <2>7
    <3>3. <<>> \in Seq(DOMAIN o.tools)
      OBVIOUS
    <3>4. found.hits \in Seq(Hits)
      BY ZenonT(40), <2>2, <3>2, <3>3, ShownFits
    <3>5. (Len(hits) > end) \in BOOLEAN
      OBVIOUS
    <3> QED BY <1>2, <2>2, <3>1, <3>4, <3>5 DEF Continues, found, full
  <2> QED BY <2>5, <2>6, <2>7
<1> QED BY <1>1, <1>3, <1>4

----------------------------------------------------------------------------
(* What a client has been shown.                                           *)

Offered == {Contents[i] : i \in Catalogs}

AnswerRecords ==
    [kind : {"none", "page", "ran"} \cup Retried, hasMore : BOOLEAN]
ClientRecords ==
    [pc : {"idle", "compiling", "joining", "using"},
     at : {0} \cup Entries \cup Catalogs, text : Texts \cup {None}, limit : Int,
     walk : Seq(Hits), of : Offered \cup {None}, called : Hits \cup {None},
     ran : {h.tool : h \in Hits} \cup {None}, answer : AnswerRecords]

\* The walk is the beginning of what the whole catalog would show, and the last
\* page has said whether that was all.
WalkOK(r) ==
    r.of # None =>
      LET full == Full(r.of, r.text) IN
      /\ Len(r.walk) <= Len(full)
      /\ \A k \in 1 .. Len(r.walk) : r.walk[k] = Hit(r.of, full[k])
      /\ r.answer.kind = "page" => (r.answer.hasMore <=> Len(r.walk) < Len(full))

\* A request that calls nothing searches for a text that was asked, and an
\* answer to a search is not one to a call.
RecordOK(r) ==
    /\ r \in ClientRecords
    /\ r.pc \in {"compiling", "joining"} => r.at \in Entries
    /\ r.pc = "using" => r.at \in Catalogs
    /\ r.called = None /\ r.pc # "idle" => r.text \in Texts
    /\ r.answer.kind \in {"page"} \cup Retried => r.called = None /\ r.text \in Texts
    /\ r.answer.hasMore => r.answer.kind = "page"
    /\ r.ran # None => r.called \in Hits /\ r.ran = r.called.tool
    /\ WalkOK(r)

LEMMA NewRecord ==
    /\ RecordOK(NewClient)
    /\ NewClient.pc = "idle" /\ NewClient.called = None /\ NewClient.ran = None
    /\ NewClient.of = None /\ NewClient.answer = Answer("none")
<1>1. <<>> \in Seq(Hits)
  OBVIOUS
<1>2. Answer("none") \in AnswerRecords /\ Answer("none").kind = "none"
      /\ Answer("none").hasMore = FALSE
  BY DEF Answer, AnswerRecords
<1>3. NewClient \in ClientRecords
  BY <1>1, <1>2 DEF NewClient, ClientRecords
<1>4. /\ NewClient.pc = "idle" /\ NewClient.called = None /\ NewClient.ran = None
      /\ NewClient.of = None /\ NewClient.answer = Answer("none")
  BY DEF NewClient
<1> QED BY <1>2, <1>3, <1>4 DEF RecordOK, WalkOK, Retried

\* A request that Arrive may begin with.
Startable(r) == RecordOK(r) /\ (r.called = None => r.text \in Texts)

LEMMA AskedIsStartable ==
    ASSUME NEW a \in Asks
    PROVE  Startable([NewClient EXCEPT !.text = a.text, !.limit = a.limit])
<1> DEFINE r == [NewClient EXCEPT !.text = a.text, !.limit = a.limit]
<1>1. a.text \in Texts /\ a.limit \in Int
  BY SearchAssumption DEF Texts
<1>2. NewClient \in ClientRecords /\ RecordOK(NewClient)
  BY NewRecord DEF RecordOK
<1>3. r \in ClientRecords
  BY <1>1, <1>2 DEF ClientRecords
<1>4. /\ r.pc = NewClient.pc /\ r.called = NewClient.called /\ r.ran = NewClient.ran
      /\ r.of = NewClient.of /\ r.answer = NewClient.answer /\ r.text = a.text
  BY <1>2 DEF ClientRecords
<1> HIDE DEF r
<1>5. Answer("none").kind = "none" /\ Answer("none").hasMore = FALSE
  BY DEF Answer
<1>6. RecordOK(r)
  BY <1>1, <1>3, <1>4, <1>5, NewRecord DEF RecordOK, WalkOK
<1> QED BY <1>1, <1>4, <1>6 DEF Startable, r

LEMMA CallIsStartable ==
    ASSUME NEW hit \in Hits
    PROVE  Startable([NewClient EXCEPT !.called = hit])
<1> DEFINE r == [NewClient EXCEPT !.called = hit]
<1>1. NewClient \in ClientRecords
  BY NewRecord DEF RecordOK
<1>2. r \in ClientRecords
  BY <1>1 DEF ClientRecords
<1>3. /\ r.pc = NewClient.pc /\ r.called = hit /\ r.ran = NewClient.ran
      /\ r.of = NewClient.of /\ r.answer = NewClient.answer
  BY <1>1 DEF ClientRecords
<1> HIDE DEF r
<1>4. Answer("none").kind = "none" /\ Answer("none").hasMore = FALSE /\ hit # None
  BY NilAssumption DEF Answer
<1>5. RecordOK(r)
  BY <1>2, <1>3, <1>4, NewRecord DEF RecordOK, WalkOK, Retried
<1> QED BY <1>3, <1>4, <1>5 DEF Startable, r

\* A client that has had an answer may ask for more, or the same again.
LEMMA AgainIsStartable ==
    ASSUME NEW r, RecordOK(r), r.answer.hasMore \/ r.answer.kind \in Retried
    PROVE  Startable(r)
  BY DEF Startable, RecordOK

LEMMA StartedFits ==
    ASSUME NEW r, Startable(r), NEW p \in {"compiling", "joining"}, NEW e \in Entries
    PROVE  /\ RecordOK([r EXCEPT !.pc = p, !.at = e])
           /\ [r EXCEPT !.pc = p, !.at = e].pc = p
           /\ [r EXCEPT !.pc = p, !.at = e].at = e
<1> DEFINE n == [r EXCEPT !.pc = p, !.at = e]
<1>1. r \in ClientRecords
  BY DEF Startable, RecordOK
<1>2. n \in ClientRecords
  BY <1>1 DEF ClientRecords
<1>3. /\ n.pc = p /\ n.at = e /\ n.text = r.text /\ n.walk = r.walk /\ n.of = r.of
      /\ n.called = r.called /\ n.ran = r.ran /\ n.answer = r.answer
  BY <1>1 DEF ClientRecords
<1> HIDE DEF n
<1>4. RecordOK(n)
  BY <1>2, <1>3 DEF Startable, RecordOK, WalkOK
<1> QED BY <1>3, <1>4 DEF n

LEMMA UsingFits ==
    ASSUME NEW r, RecordOK(r), r.pc \in {"compiling", "joining"}, NEW i \in Catalogs
    PROVE  /\ RecordOK([r EXCEPT !.pc = "using", !.at = i])
           /\ [r EXCEPT !.pc = "using", !.at = i].pc = "using"
           /\ [r EXCEPT !.pc = "using", !.at = i].at = i
<1> DEFINE n == [r EXCEPT !.pc = "using", !.at = i]
<1>1. r \in ClientRecords
  BY DEF RecordOK
<1>2. n \in ClientRecords
  BY <1>1 DEF ClientRecords
<1>3. /\ n.pc = "using" /\ n.at = i /\ n.text = r.text /\ n.walk = r.walk /\ n.of = r.of
      /\ n.called = r.called /\ n.ran = r.ran /\ n.answer = r.answer
  BY <1>1 DEF ClientRecords
<1> HIDE DEF n
<1>4. RecordOK(n)
  BY <1>2, <1>3 DEF RecordOK, WalkOK
<1> QED BY <1>3, <1>4 DEF n

LEMMA RetryFits ==
    ASSUME NEW r, RecordOK(r), r.pc = "using", r.called = None, NEW kind \in Retried
    PROVE  LET n == [r EXCEPT !.pc = "idle", !.at = 0, !.answer = Answer(kind)]
           IN  RecordOK(n) /\ n.pc = "idle"
<1> DEFINE n == [r EXCEPT !.pc = "idle", !.at = 0, !.answer = Answer(kind)]
<1>1. r \in ClientRecords /\ r.text \in Texts
  BY DEF RecordOK
<1>2. Answer(kind) \in AnswerRecords /\ Answer(kind).kind = kind
      /\ Answer(kind).hasMore = FALSE
  BY DEF Answer, AnswerRecords
<1>3. n \in ClientRecords
  BY <1>1, <1>2 DEF ClientRecords
<1>4. /\ n.pc = "idle" /\ n.at = 0 /\ n.text = r.text /\ n.walk = r.walk /\ n.of = r.of
      /\ n.called = r.called /\ n.ran = r.ran /\ n.answer = Answer(kind)
  BY <1>1 DEF ClientRecords
<1> HIDE DEF n
<1>5. RecordOK(n)
  BY <1>1, <1>2, <1>3, <1>4 DEF RecordOK, WalkOK, Retried
<1> QED BY <1>4, <1>5 DEF n

\* The revision of a hit tells which tool it was: one with the same revision is
\* of the same component and has the same definition.
LEMMA RevisionsTell ==
    ASSUME NEW o, Known(o), NEW hit \in Hits, Resolve(o, hit) = "ran"
    PROVE  hit.name \in DOMAIN o.tools /\ o.tools[hit.name] = hit.tool
<1>0. PICK i \in Catalogs : \E n \in DOMAIN Contents[i].tools : hit = Hit(Contents[i], n)
  BY DEF Hits
<1>1. PICK n \in DOMAIN Contents[i].tools : hit = Hit(Contents[i], n)
  BY <1>0
<1>2. /\ hit.name = n /\ hit.revision = Revision(n, Contents[i].tools[n])
      /\ hit.tool = Contents[i].tools[n]
  BY <1>1 DEF Hit
<1>3. hit.name \in DOMAIN o.tools /\ Revision(hit.name, o.tools[hit.name]) = hit.revision
  BY DEF Resolve
<1> DEFINE T == [component : STRING, original : STRING, definition : STRING]
<1>4. Contents[i].tools[n] \in T
  BY ContentsAssumption
<1>5. o.tools[hit.name] \in T
  BY <1>3, ContentsAssumption DEF Known
<1>6. Revision(n, o.tools[n]) = Revision(n, Contents[i].tools[n])
  BY <1>2, <1>3
<1>7. /\ o.tools[n].component = Contents[i].tools[n].component
      /\ o.tools[n].original = Contents[i].tools[n].original
      /\ o.tools[n].definition = Contents[i].tools[n].definition
  BY <1>6 DEF Revision
<1>8. \A t, u \in T : t.component = u.component /\ t.original = u.original
                        /\ t.definition = u.definition => t = u
  OBVIOUS
<1> QED BY <1>2, <1>3, <1>4, <1>5, <1>7, <1>8

LEMMA RanFits ==
    ASSUME NEW r, RecordOK(r), r.called # None, NEW o, Known(o),
           Resolve(o, r.called) = "ran"
    PROVE  LET n == [NewClient EXCEPT !.called = r.called, !.ran = o.tools[r.called.name],
                                      !.answer = Answer("ran")]
           IN  RecordOK(n) /\ n.pc = "idle"
<1> DEFINE n == [NewClient EXCEPT !.called = r.called, !.ran = o.tools[r.called.name],
                                  !.answer = Answer("ran")]
<1>1. r.called \in Hits
  BY DEF RecordOK, ClientRecords
<1>2. o.tools[r.called.name] = r.called.tool
  BY <1>1, RevisionsTell
<1>3. Answer("ran") \in AnswerRecords /\ Answer("ran").kind = "ran"
      /\ Answer("ran").hasMore = FALSE
  BY DEF Answer, AnswerRecords
<1>4. NewClient \in ClientRecords
  BY NewRecord DEF RecordOK
<1>5. n \in ClientRecords
  BY <1>1, <1>2, <1>3, <1>4 DEF ClientRecords
<1>6. /\ n.pc = NewClient.pc /\ n.of = NewClient.of /\ n.called = r.called
      /\ n.ran = r.called.tool /\ n.answer = Answer("ran")
  BY <1>2, <1>4 DEF ClientRecords
<1> HIDE DEF n
<1>7. RecordOK(n) /\ n.pc = "idle"
  BY <1>1, <1>3, <1>5, <1>6, NewRecord DEF RecordOK, WalkOK, Retried
<1> QED BY <1>7 DEF n

\* The next page goes on where the walk had ended, when both are of one catalog.
LEMMA FoundFits ==
    ASSUME NEW r, RecordOK(r), r.pc = "using", r.called = None,
           LimitOf(r.limit) >= 1
    PROVE  LET o == Contents[r.at]
               found == Search(o, r.text, LimitOf(r.limit), Len(r.walk))
               n == [r EXCEPT !.pc = "idle", !.at = 0,
                              !.answer = [kind |-> "page", hasMore |-> found.hasMore],
                              !.walk = r.walk \o found.hits,
                              !.of = IF r.walk = <<>> \/ r.of = o THEN o ELSE None]
           IN  RecordOK(n) /\ n.pc = "idle" /\ n.answer.kind = "page"
<1> DEFINE o == Contents[r.at]
           found == Search(o, r.text, LimitOf(r.limit), Len(r.walk))
           answer == [kind |-> "page", hasMore |-> found.hasMore]
           from == IF r.walk = <<>> \/ r.of = o THEN o ELSE None
           n == [r EXCEPT !.pc = "idle", !.at = 0, !.answer = answer,
                          !.walk = r.walk \o found.hits, !.of = from]
           full == Full(o, r.text)
<1>1. r \in ClientRecords /\ r.text \in Texts /\ r.at \in Catalogs
  BY DEF RecordOK
<1>2. Known(o) /\ o \in Offered
  BY <1>1 DEF Known, Offered
<1>3. LimitOf(r.limit) \in Nat \ {0}
  BY <1>1, SearchAssumption DEF ClientRecords, LimitOf
<1>4. r.walk \in Seq(Hits) /\ Len(r.walk) \in Nat
  BY <1>1, LenProperties DEF ClientRecords
<1>5. /\ found.hits \in Seq(Hits)
      /\ found.hasMore \in BOOLEAN
      /\ Len(r.walk) <= Len(full) =>
           /\ Len(r.walk) + Len(found.hits) <= Len(full)
           /\ found.hasMore <=> Len(r.walk) + Len(found.hits) < Len(full)
           /\ \A k \in 1 .. Len(found.hits) :
                 found.hits[k] = Hit(o, full[Len(r.walk) + k])
  <2>1. Continues(found, o, r.text, Len(r.walk))
    BY <1>1, <1>2, <1>3, <1>4, SearchPages, Zenon
  <2> HIDE DEF found, full
  <2> QED BY <2>1 DEF Continues, full
<1>6. full \in Seq(DOMAIN o.tools) /\ Len(full) \in Nat
  BY <1>1, <1>2, ContentsFit, PromoteFits, LenProperties DEF Full
<1> HIDE DEF o, found, full
<1>7. /\ r.walk \o found.hits \in Seq(Hits)
      /\ Len(r.walk \o found.hits) = Len(r.walk) + Len(found.hits)
      /\ \A k \in 1 .. Len(r.walk) + Len(found.hits) :
            (r.walk \o found.hits)[k] = AfterJoin(r.walk, found.hits, k)
  BY <1>4, <1>5, Joined, Zenon
<1>8. answer \in AnswerRecords /\ answer.kind = "page" /\ answer.hasMore = found.hasMore
  BY <1>5 DEF AnswerRecords
<1>9. from \in Offered \cup {None}
  BY <1>2
<1> HIDE DEF answer, from
<1>10. n \in ClientRecords
  <2> DEFINE w == r.walk \o found.hits
  <2>1. w \in Seq(Hits)
    BY <1>7
  <2> HIDE DEF w
  <2>2. [r EXCEPT !.pc = "idle", !.at = 0, !.answer = answer, !.walk = w, !.of = from]
           \in ClientRecords
    BY <1>1, <1>8, <1>9, <2>1 DEF ClientRecords
  <2> QED BY <2>2 DEF w
<1>11. /\ n.pc = "idle" /\ n.text = r.text /\ n.called = None /\ n.ran = r.ran
       /\ n.answer = answer /\ n.walk = r.walk \o found.hits /\ n.of = from
  BY <1>1 DEF ClientRecords
<1> HIDE DEF n
<1>12. n.ran # None => FALSE
  BY <1>11, NilAssumption DEF RecordOK
<1>13. WalkOK(n)
  <2>1. SUFFICES ASSUME from # None
                 PROVE  /\ Len(n.walk) <= Len(Full(from, r.text))
                        /\ \A k \in 1 .. Len(n.walk) :
                              n.walk[k] = Hit(from, Full(from, r.text)[k])
                        /\ found.hasMore <=> Len(n.walk) < Len(Full(from, r.text))
    BY <1>8, <1>11 DEF WalkOK
  <2>2. from = o /\ (r.walk = <<>> \/ r.of = o) /\ Full(from, r.text) = full
    BY <2>1 DEF from, full
  <2>3. /\ Len(r.walk) <= Len(full)
        /\ \A k \in 1 .. Len(r.walk) : r.walk[k] = Hit(o, full[k])
    <3>1. CASE r.walk = <<>>
      <4>1. Len(r.walk) = 0
        BY <3>1
      <4> QED BY <1>6, <4>1
    <3>2. CASE r.of = o
      <4>1. r.of # None
        BY <2>1, <2>2, <3>2
      <4> QED BY <3>2, <4>1 DEF RecordOK, WalkOK, full
    <3> QED BY <2>2, <3>1, <3>2
  <2>4. Len(found.hits) \in Nat
    BY <1>5, LenProperties
  <2>5. ASSUME NEW k \in 1 .. Len(n.walk) PROVE n.walk[k] = Hit(o, full[k])
    <3>1. k \in 1 .. Len(r.walk) + Len(found.hits)
          /\ n.walk[k] = AfterJoin(r.walk, found.hits, k)
      BY <1>7, <1>11
    <3>2. CASE k <= Len(r.walk)
      BY <1>4, <2>3, <3>1, <3>2 DEF AfterJoin
    <3>3. CASE k > Len(r.walk)
      <4>1. k - Len(r.walk) \in 1 .. Len(found.hits)
            /\ Len(r.walk) + (k - Len(r.walk)) = k
        <5> DEFINE m == Len(r.walk)
                   l == Len(found.hits)
        <5>1. m \in Nat /\ l \in Nat /\ k \in 1 .. m + l /\ k > m
          BY <1>4, <2>4, <3>1, <3>3
        <5> HIDE DEF m, l
        <5>2. k - m \in 1 .. l /\ m + (k - m) = k
          BY <5>1
        <5> QED BY <5>2 DEF m, l
      <4>2. n.walk[k] = found.hits[k - Len(r.walk)]
        <5>1. ~(k <= Len(r.walk))
          BY <1>4, <3>1, <3>3
        <5> QED BY <3>1, <5>1, Zenon DEF AfterJoin
      <4> QED BY <1>5, <2>3, <4>1, <4>2
    <3> QED BY <1>4, <3>1, <3>2, <3>3
  <2> QED BY <1>5, <1>7, <1>11, <2>2, <2>3, <2>5
<1>14. RecordOK(n)
  BY <1>1, <1>8, <1>10, <1>11, <1>12, <1>13 DEF RecordOK
<1> QED BY <1>8, <1>11, <1>14 DEF n, answer, from, found, o

----------------------------------------------------------------------------
(* The invariant.                                                          *)

Nils == {None, Compiling, Failed}

RegistryTyped ==
    /\ compiled \in 0 .. Len(Contents)
    /\ installed \in Entries \cup {None}
    /\ holding \in [Entries -> (1 .. compiled) \cup Nils]
    /\ superseded \subseteq Entries
    /\ closed \in BOOLEAN
    /\ events \in 0 .. MaxEvents
    /\ builder \in [Catalogs -> BuilderRecords]

ClientsTyped ==
    /\ client \in [Clients -> ClientRecords]
    /\ \A c \in Clients :
          /\ RecordOK(client[c])
          /\ client[c].pc = "using" => client[c].at \in 1 .. compiled

\* Entries are made in order, one for the first Get and one more after each
\* event at most.
Vacancy == IF installed = None THEN 1 ELSE 0
EntriesInOrder ==
    \E n \in 0 .. 1 + MaxEvents :
        /\ \A e \in Entries : holding[e] # None <=> e <= n
        /\ n + Vacancy <= 1 + events

InstalledHolds == installed # None => holding[installed] \notin {None, Failed}

\* Clients wait for entries that were made.
AwaitedExist ==
    \A c \in Clients :
      client[c].pc \in {"compiling", "joining"} => holding[client[c].at] # None

\* Each compile that was made or may still come, by a client that compiles now,
\* by one that will find its entry failed, or by the next to find no entry, is
\* paid for by the first Get or by an event, which costs one of each client.
Makers == {c \in Clients : client[c].pc = "compiling"}
Stranded == {c \in Clients : client[c].pc = "joining" /\ holding[client[c].at] = Failed}
Budget(n) == 1 + n * Cardinality(Clients)
CompilesPaid ==
    compiled + Cardinality(Makers) + Cardinality(Stranded) + Vacancy <= Budget(events)

Typed == RegistryTyped /\ ClientsTyped
Counted == EntriesInOrder /\ InstalledHolds /\ AwaitedExist /\ CompilesPaid
IInv == Typed /\ Counted

LEMMA CatalogNumbers ==
    /\ Len(Contents) \in Nat /\ MaxEvents \in Nat /\ MaxFailures \in Nat
    /\ Cardinality(Clients) \in Nat /\ Cardinality(Clients) >= 1
    /\ Catalogs = 1 .. Len(Contents)
    /\ Len(Contents) = Budget(MaxEvents)
<1>1. Cardinality(Clients) \in Nat /\ Cardinality(Clients) # 0
  BY SearchAssumption, FS_CardinalityType, FS_EmptySet
<1>2. MaxEvents * Cardinality(Clients) \in Nat
  BY <1>1, SearchAssumption
<1> QED BY <1>1, <1>2, SearchAssumption DEF Catalogs, Budget

LEMMA BudgetGrows ==
    ASSUME NEW n \in 0 .. MaxEvents
    PROVE  /\ Budget(n) \in Nat
           /\ Budget(n) <= Len(Contents)
           /\ n < MaxEvents => /\ Budget(n + 1) = Budget(n) + Cardinality(Clients)
                               /\ Budget(n) + 1 <= Len(Contents)
<1> DEFINE k == Cardinality(Clients)
<1>1. k \in Nat /\ k >= 1 /\ MaxEvents \in Nat /\ n \in Nat /\ MaxEvents - n \in Nat
  BY CatalogNumbers
<1>2. n * k \in Nat /\ (MaxEvents - n) * k \in Nat
  BY <1>1
<1>3. MaxEvents * k = n * k + (MaxEvents - n) * k
  BY <1>1
<1>4. (n + 1) * k = n * k + k
  BY <1>1
<1>5. n < MaxEvents => (MaxEvents - n) * k >= k
  <2>1. SUFFICES ASSUME n < MaxEvents PROVE (MaxEvents - n) * k >= k
    OBVIOUS
  <2> DEFINE d == MaxEvents - n - 1
  <2>2. d \in Nat /\ MaxEvents - n = d + 1
    BY <1>1, <2>1
  <2> HIDE DEF d, k
  <2>3. d * k \in Nat /\ (d + 1) * k = d * k + k
    BY <1>1, <2>2
  <2> QED BY <1>1, <2>2, <2>3
<1>6. Len(Contents) = 1 + MaxEvents * k
  BY CatalogNumbers DEF Budget
<1>7. Budget(n) = 1 + n * k /\ Budget(n + 1) = 1 + (n + 1) * k
  BY DEF Budget
<1> HIDE DEF k
<1>8. n < MaxEvents => /\ Budget(n + 1) = Budget(n) + k
                       /\ Budget(n) + 1 <= Len(Contents)
  BY <1>1, <1>2, <1>3, <1>4, <1>5, <1>6, <1>7
<1>9. Budget(n) \in Nat /\ Budget(n) <= Len(Contents)
  BY <1>1, <1>2, <1>3, <1>6, <1>7
<1> QED BY <1>8, <1>9 DEF k

\* The sets that are counted, now and after a step.
LEMMA CountsAreNumbers ==
    /\ IsFiniteSet(Makers) /\ Cardinality(Makers) \in Nat
    /\ IsFiniteSet(Stranded) /\ Cardinality(Stranded) \in Nat
    /\ IsFiniteSet(Makers') /\ Cardinality(Makers') \in Nat
    /\ IsFiniteSet(Stranded') /\ Cardinality(Stranded') \in Nat
<1>1. IsFiniteSet(Clients)
  BY SearchAssumption
<1>2. Makers \subseteq Clients /\ Stranded \subseteq Clients
      /\ Makers' \subseteq Clients /\ Stranded' \subseteq Clients
  BY DEF Makers, Stranded
<1> HIDE DEF Makers, Stranded
<1> QED BY <1>1, <1>2, FS_Subset, FS_CardinalityType

LEMMA Removed ==
    ASSUME NEW S, NEW T, NEW x \in S, IsFiniteSet(S), T \subseteq S \ {x}
    PROVE  Cardinality(T) <= Cardinality(S) - 1
<1>1. IsFiniteSet(S \ {x}) /\ Cardinality(S \ {x}) = Cardinality(S) - 1
  BY FS_RemoveElement
<1> QED BY <1>1, FS_Subset

LEMMA Added ==
    ASSUME NEW S, NEW T, NEW x, IsFiniteSet(S), T \subseteq S \cup {x}
    PROVE  Cardinality(T) <= Cardinality(S) + 1
<1>1. IsFiniteSet(S \cup {x}) /\ Cardinality(S) \in Nat
      /\ (Cardinality(S \cup {x}) = Cardinality(S)
            \/ Cardinality(S \cup {x}) = Cardinality(S) + 1)
  BY FS_AddElement, FS_CardinalityType
<1>2. Cardinality(T) <= Cardinality(S \cup {x}) /\ Cardinality(T) \in Nat
  BY <1>1, FS_Subset, FS_CardinalityType
<1> QED BY <1>1, <1>2

\* The next catalog is one whose contents are given.
LEMMA CompileIsPaid ==
    ASSUME Typed, CompilesPaid,
           \/ events < MaxEvents
           \/ Makers # {}
           \/ Stranded # {}
    PROVE  /\ NewCatalog \in Catalogs /\ NewCatalog \in 1 .. NewCatalog
           /\ NewCatalog \notin Nils
           /\ compiled \in Nat /\ NewCatalog = compiled + 1
           /\ 1 .. compiled \subseteq 1 .. NewCatalog
<1> USE DEF NewCatalog
<1>1. compiled \in Nat /\ events \in 0 .. MaxEvents /\ Len(Contents) \in Nat
  BY CatalogNumbers DEF Typed, RegistryTyped
<1>2. Budget(events) \in Nat /\ Budget(events) <= Len(Contents)
      /\ (events < MaxEvents => Budget(events) + 1 <= Len(Contents))
  BY <1>1, BudgetGrows
<1>3. Makers # {} => Cardinality(Makers) # 0
  BY CountsAreNumbers, FS_EmptySet
<1>4. Stranded # {} => Cardinality(Stranded) # 0
  BY CountsAreNumbers, FS_EmptySet
<1>5. compiled + 1 <= Len(Contents)
  BY <1>1, <1>2, <1>3, <1>4, CountsAreNumbers DEF CompilesPaid, Vacancy
<1>6. compiled + 1 \in Catalogs
  BY <1>1, <1>5, CatalogNumbers
<1> QED BY <1>1, <1>6, NilAssumption DEF Nils

\* The next entry is a new one.
LEMMA EntryIsNew ==
    ASSUME Typed, NEW n \in 0 .. 1 + MaxEvents,
           \A e \in Entries : holding[e] # None <=> e <= n
    PROVE  NewEntry = n + 1
<1>1. MaxEvents \in Nat /\ Entries = 1 .. 1 + MaxEvents /\ n \in Nat
  BY SearchAssumption DEF Entries
<1>2. {e \in Entries : holding[e] # None} = 1 .. n
  BY <1>1
<1>3. 1 \in Int /\ n \in Int
  BY <1>1
<1>4. Cardinality(1 .. n) = IF 1 > n THEN 0 ELSE n - 1 + 1
  BY <1>3, FS_Interval
<1>5. Cardinality(1 .. n) = n
  BY <1>1, <1>4
<1> QED BY <1>2, <1>5 DEF NewEntry

----------------------------------------------------------------------------
(* What a step may be: a client begins a request, or its request goes on or *)
(* ends without the registry, or one of the registry's own steps.          *)

Begins(c) == \E request : Startable(request) /\ Arrive(c, request)

Settles(c) ==
    /\ UNCHANGED <<registryVars, builder>>
    /\ \E n : /\ client' = [client EXCEPT ![c] = n]
              /\ RecordOK(n)
              /\ n.pc = "idle" \/ (n.pc = "using" /\ n.at \in 1 .. compiled)

LEMMA UseSetsOne ==
    ASSUME ClientsTyped, NEW c \in Clients, NEW i, UseCatalog(c, i)
    PROVE  client' = [client EXCEPT ![c] = [client[c] EXCEPT !.pc = "using", !.at = i]]
<1>1. client \in [Clients -> ClientRecords]
  BY DEF ClientsTyped
<1> QED BY <1>1 DEF UseCatalog, ClientRecords

LEMMA RetrySetsOne ==
    ASSUME ClientsTyped, NEW c \in Clients, NEW kind, ToldToRetry(c, kind)
    PROVE  client' = [client EXCEPT ![c] =
              [client[c] EXCEPT !.pc = "idle", !.at = 0, !.answer = Answer(kind)]]
<1>1. client \in [Clients -> ClientRecords]
  BY DEF ClientsTyped
<1> QED BY <1>1 DEF ToldToRetry, ClientRecords

LEMMA EndsSettle ==
    ASSUME NEW c \in Clients, End(c), UNCHANGED <<registryVars, builder>>
    PROVE  Settles(c)
  BY NewRecord DEF End, Settles

LEMMA RetriesSettle ==
    ASSUME ClientsTyped, NEW c \in Clients, Awaits(c),
           NEW kind \in Retried, ToldToRetry(c, kind), UNCHANGED <<registryVars, builder>>
    PROVE  Settles(c)
<1>1. RecordOK(client[c]) /\ client[c].pc = "using" /\ client[c].called = None
  BY DEF ClientsTyped, Awaits
<1> DEFINE n == [client[c] EXCEPT !.pc = "idle", !.at = 0, !.answer = Answer(kind)]
<1>2. RecordOK(n) /\ n.pc = "idle"
  BY <1>1, RetryFits
<1>3. client' = [client EXCEPT ![c] = n]
  BY RetrySetsOne
<1> HIDE DEF n
<1> QED BY <1>2, <1>3 DEF Settles

LEMMA UsesSettle ==
    ASSUME Typed, NEW c \in Clients, Uses(c) \/ Finds(c)
    PROVE  Settles(c)
<1>1. UNCHANGED <<registryVars, builder>>
  BY DEF Uses, Finds
<1>2. RecordOK(client[c]) /\ client[c] \in ClientRecords
  BY DEF Typed, ClientsTyped, RecordOK
<1>3. CASE Resolves(c)
  <2>1. client[c].pc = "using" /\ client[c].called # None
    BY <1>3 DEF Resolves
  <2>2. Known(Contents[client[c].at])
    BY <1>2, <2>1 DEF RecordOK, Known
  <2>3. CASE Resolve(Contents[client[c].at], client[c].called) = "ran"
    <3> DEFINE r == client[c]
               o == Contents[r.at]
               n == [NewClient EXCEPT !.called = r.called, !.ran = o.tools[r.called.name],
                                      !.answer = Answer("ran")]
    <3>1. client' = [client EXCEPT ![c] = n]
      BY <1>3, <2>3 DEF Resolves
    <3>2. RecordOK(n) /\ n.pc = "idle"
      BY <1>2, <2>1, <2>2, <2>3, RanFits
    <3> HIDE DEF n
    <3> QED BY <1>1, <3>1, <3>2 DEF Settles
  <2>4. CASE Resolve(Contents[client[c].at], client[c].called) # "ran"
    <3>1. End(c)
      BY <1>3, <2>4 DEF Resolves
    <3> QED BY <1>1, <3>1, EndsSettle
  <2> QED BY <2>3, <2>4
<1>4. CASE RefusesArguments(c)
  BY <1>1, <1>4, EndsSettle DEF RefusesArguments
<1>5. CASE FindsReady(c)
  <2> DEFINE r == client[c]
             o == Contents[r.at]
             found == Search(o, r.text, LimitOf(r.limit), Len(r.walk))
             n == [r EXCEPT !.pc = "idle", !.at = 0,
                            !.answer = [kind |-> "page", hasMore |-> found.hasMore],
                            !.walk = r.walk \o found.hits,
                            !.of = IF r.walk = <<>> \/ r.of = o THEN o ELSE None]
  <2>1. r.pc = "using" /\ r.called = None /\ LimitOf(r.limit) >= 1
    BY <1>5 DEF FindsReady, Awaits
  <2>2. client' = [client EXCEPT ![c] = n]
    BY <1>5 DEF FindsReady
  <2>3. RecordOK(n) /\ n.pc = "idle"
    BY <1>2, <2>1, FoundFits
  <2> HIDE DEF n
  <2> QED BY <1>1, <2>2, <2>3 DEF Settles
<1>6. CASE FindsStopped(c)
  BY <1>1, <1>6, RetriesSettle DEF FindsStopped, Typed, Retried
<1>7. CASE Joins(c)
  <2> DEFINE i == holding[client[c].at]
             n == [client[c] EXCEPT !.pc = "using", !.at = i]
  <2>1. client[c].pc = "joining" /\ i \in Catalogs /\ UseCatalog(c, i)
    BY <1>7 DEF Joins
  <2>2. client[c].at \in Entries
    BY <1>2, <2>1 DEF RecordOK
  <2>3. i \in 1 .. compiled
    BY <2>1, <2>2, NilAssumption DEF Typed, RegistryTyped, Nils
  <2>4. client' = [client EXCEPT ![c] = n]
    BY <2>1, UseSetsOne DEF Typed
  <2>5. RecordOK(n) /\ n.pc = "using" /\ n.at = i
    BY <1>2, <2>1, UsingFits
  <2> HIDE DEF n, i
  <2> QED BY <1>1, <2>3, <2>4, <2>5 DEF Settles
<1> QED BY <1>3, <1>4, <1>5, <1>6, <1>7 DEF Uses, Finds

LEMMA AsksBegin ==
    ASSUME ClientsTyped
    PROVE  /\ \A a \in Asks : AskFirst(a) => a.client \in Clients /\ Begins(a.client)
           /\ \A c \in Clients : AskAgain(c) => Begins(c)
           /\ \A c \in Clients : \A h \in ToSet(client[c].walk) : Call(c, h) => Begins(c)
<1>1. ASSUME NEW a \in Asks, AskFirst(a) PROVE a.client \in Clients /\ Begins(a.client)
  BY <1>1, SearchAssumption, AskedIsStartable DEF AskFirst, Begins
<1>2. ASSUME NEW c \in Clients, AskAgain(c) PROVE Begins(c)
  BY <1>2, AgainIsStartable DEF AskAgain, Begins, ClientsTyped
<1>3. ASSUME NEW c \in Clients, NEW h \in ToSet(client[c].walk), Call(c, h)
      PROVE  Begins(c)
  <2>1. client[c].walk \in Seq(Hits)
    BY DEF ClientsTyped, ClientRecords
  <2>2. h \in Hits
    BY <2>1, LenProperties, ElementOfSeq DEF ToSet
  <2> QED BY <1>3, <2>2, CallIsStartable DEF Call, Begins
<1> QED BY <1>1, <1>2, <1>3

\* The steps in these terms.
RegistryStep ==
    \/ \E i \in Catalogs : BuilderStep(i)
    \/ \E e \in Entries : FinishRefresh(e) \/ RefreshStops(e)
    \/ RefreshReplaces
    \/ InvalidateComponent
    \/ Close

LEMMA StepKinds ==
    ASSUME Typed, Next
    PROVE  \/ RegistryStep
           \/ \E c \in Clients : \/ Begins(c) \/ Settles(c) \/ Compile(c)
                                 \/ CompilesAgain(c) \/ CompileFails(c)
<1>1. ClientsTyped
  BY DEF Typed
<1>2. CASE RegistryStep
  BY <1>2
<1>3. CASE \E a \in Asks : AskFirst(a)
  BY <1>1, <1>3, AsksBegin
<1>4. ASSUME NEW c \in Clients, AskAgain(c) PROVE Begins(c)
  BY <1>1, <1>4, AsksBegin
<1>5. ASSUME NEW c \in Clients, JoinFails(c) PROVE Settles(c)
  BY <1>5, EndsSettle DEF JoinFails
<1>6. ASSUME NEW c \in Clients, Uses(c) \/ Finds(c) PROVE Settles(c)
  BY <1>6, UsesSettle
<1>7. CASE \E c \in Clients : \E h \in ToSet(client[c].walk) : Call(c, h)
  BY <1>1, <1>7, AsksBegin
<1>8. ASSUME NEW c \in Clients, TimesOut(c) \/ Cancels(c), UNCHANGED <<registryVars, builder>>
      PROVE  Settles(c)
  BY <1>1, <1>8, RetriesSettle, EndsSettle DEF TimesOut, Cancels, Retried
<1> QED BY <1>2, <1>3, <1>4, <1>5, <1>6, <1>7, <1>8 DEF Next, RegistryStep

----------------------------------------------------------------------------
(* Each kind of step keeps the invariant.                                  *)

LEMMA BuildersFit ==
    /\ NewBuilder \in BuilderRecords
    /\ \A b \in BuilderRecords : Stop(b) \in BuilderRecords
    /\ closed \in BOOLEAN => Start \in BuilderRecords
<1>1. MaxFailures \in Nat
  BY SearchAssumption
<1>2. NewBuilder \in BuilderRecords
  BY <1>1 DEF NewBuilder, BuilderRecords
<1>3. ASSUME NEW b \in BuilderRecords PROVE Stop(b) \in BuilderRecords
  BY DEF Stop, BuilderRecords
<1>4. ASSUME closed \in BOOLEAN PROVE Start \in BuilderRecords
  <2> HIDE DEF NewBuilder
  <2> QED BY <1>2, <1>4 DEF Start, BuilderRecords
<1> QED BY <1>2, <1>3, <1>4

\* A builder's step changes nothing but the builder.
LEMMA BuilderUpdates ==
    ASSUME NEW b \in BuilderRecords, NEW at \in {"backoff", "building", "leaving", "publishing", "ended"},
           NEW n \in 0 .. MaxFailures
    PROVE  /\ [b EXCEPT !.failures = n, !.at = at] \in BuilderRecords
           /\ [b EXCEPT !.at = at, !.failures = n] \in BuilderRecords
           /\ [b EXCEPT !.at = at] \in BuilderRecords
           /\ [b EXCEPT !.ready = TRUE, !.at = at] \in BuilderRecords
           /\ [b EXCEPT !.cancelled = TRUE, !.at = at, !.stopped = TRUE] \in BuilderRecords
  BY DEF BuilderRecords

LEMMA BuilderStepFits ==
    ASSUME Typed, NEW i \in Catalogs, BuilderStep(i)
    PROVE  /\ builder' \in [Catalogs -> BuilderRecords]
           /\ UNCHANGED <<registryVars, client>>
<1> DEFINE b == builder[i]
<1>1. builder \in [Catalogs -> BuilderRecords] /\ b \in BuilderRecords
  BY DEF Typed, RegistryTyped
<1>2. MaxFailures \in Nat /\ 0 \in 0 .. MaxFailures
      /\ b.cancelled \in BOOLEAN /\ b.failures \in 0 .. MaxFailures
  BY <1>1, SearchAssumption DEF BuilderRecords
<1>3. UNCHANGED <<registryVars, client>>
  BY DEF BuilderStep
<1>4. \E n \in BuilderRecords : builder' = [builder EXCEPT ![i] = n]
  <2>1. CASE BuildReturns(i)
    <3> DEFINE at == IF b.cancelled THEN "leaving" ELSE "publishing"
               n == [b EXCEPT !.failures = 0, !.at = at]
    <3>1. builder' = [builder EXCEPT ![i] = n]
      BY <2>1 DEF BuildReturns
    <3>2. at \in {"backoff", "building", "leaving", "publishing", "ended"}
      OBVIOUS
    <3> HIDE DEF at
    <3>3. n \in BuilderRecords
      BY <1>1, <1>2, <3>2, BuilderUpdates
    <3> QED BY <3>1, <3>3
  <2>2. CASE BuildFails(i)
    <3> DEFINE n == IF b.cancelled THEN [b EXCEPT !.at = "leaving", !.failures = 0]
                    ELSE [b EXCEPT !.at = "backoff", !.failures = b.failures + 1]
    <3>1. builder' = [builder EXCEPT ![i] = n] /\ (b.cancelled \/ b.failures < MaxFailures)
      BY <2>2 DEF BuildFails
    <3>2. CASE b.cancelled
      <4>1. n \in BuilderRecords
        BY <1>1, <1>2, <3>2, BuilderUpdates
      <4> HIDE DEF n
      <4> QED BY <3>1, <4>1
    <3>3. CASE ~b.cancelled
      <4>1. b.failures + 1 \in 0 .. MaxFailures
        BY <1>2, <3>1, <3>3
      <4>2. n \in BuilderRecords
        BY <1>1, <3>3, <4>1, BuilderUpdates
      <4> HIDE DEF n
      <4> QED BY <3>1, <4>2
    <3> QED BY <3>2, <3>3
  <2>3. CASE BackoffEnds(i)
    <3> DEFINE at == IF b.cancelled THEN "leaving" ELSE "building"
               n == [b EXCEPT !.at = at]
    <3>1. builder' = [builder EXCEPT ![i] = n]
      BY <2>3 DEF BackoffEnds
    <3>2. at \in {"backoff", "building", "leaving", "publishing", "ended"}
      OBVIOUS
    <3> HIDE DEF at
    <3>3. n \in BuilderRecords
      BY <1>1, <1>2, <3>2, BuilderUpdates
    <3> QED BY <3>1, <3>3
  <2>4. CASE Publish(i)
    <3>1. [b EXCEPT !.ready = TRUE, !.at = "leaving"] \in BuilderRecords
      BY <1>1, <1>2, BuilderUpdates
    <3> QED BY <2>4, <3>1 DEF Publish
  <2>5. CASE RunReturns(i)
    <3>1. [b EXCEPT !.cancelled = TRUE, !.at = "ended", !.stopped = TRUE] \in BuilderRecords
      BY <1>1, <1>2, BuilderUpdates
    <3> QED BY <2>5, <3>1 DEF RunReturns
  <2> QED BY <2>1, <2>2, <2>3, <2>4, <2>5 DEF BuilderStep
<1> QED BY <1>1, <1>3, <1>4

LEMMA StopHeldFits ==
    ASSUME builder \in [Catalogs -> BuilderRecords], NEW e, StopHeld(e)
    PROVE  builder' \in [Catalogs -> BuilderRecords]
<1>1. CASE holding[e] \in Catalogs
  <2> DEFINE n == Stop(builder[holding[e]])
  <2>1. builder' = [builder EXCEPT ![holding[e]] = n]
    BY <1>1 DEF StopHeld
  <2>2. n \in BuilderRecords
    BY <1>1, BuildersFit
  <2> HIDE DEF n
  <2> QED BY <2>1, <2>2
<1>2. CASE holding[e] \notin Catalogs
  BY <1>2 DEF StopHeld
<1> QED BY <1>1, <1>2

LEMMA MakeFits ==
    ASSUME builder \in [Catalogs -> BuilderRecords], closed \in BOOLEAN,
           NEW started, Make(started)
    PROVE  builder' \in [Catalogs -> BuilderRecords] /\ compiled' = NewCatalog
<1>1. Start \in BuilderRecords
  BY BuildersFit
<1>2. CASE started
  BY <1>1, <1>2 DEF Make
<1>3. CASE ~started
  <2>1. NewCatalog \in Catalogs => builder[NewCatalog] \in BuilderRecords
    OBVIOUS
  <2> QED BY <1>3, <2>1 DEF Make
<1> QED BY <1>2, <1>3 DEF Make

\* A registry of more catalogs, whose clients are as they were.
LEMMA HoldingGrows ==
    ASSUME Typed, NEW k, 1 .. compiled \subseteq 1 .. k
    PROVE  /\ holding \in [Entries -> (1 .. k) \cup Nils]
           /\ \A c \in Clients : client[c].pc = "using" => client[c].at \in 1 .. k
  BY DEF Typed, RegistryTyped, ClientsTyped

LEMMA RegistryStepTyped ==
    ASSUME IInv, RegistryStep
    PROVE  Typed'
<1> USE DEF registryVars
<1>1. /\ Typed /\ EntriesInOrder /\ CompilesPaid
      /\ MaxEvents \in Nat /\ events \in 0 .. MaxEvents
  BY SearchAssumption DEF IInv, Counted, Typed, RegistryTyped
<1>2. CASE \E i \in Catalogs : BuilderStep(i)
  <2>1. builder' \in [Catalogs -> BuilderRecords] /\ UNCHANGED <<registryVars, client>>
    BY <1>1, <1>2, BuilderStepFits
  <2> QED BY <1>1, <2>1 DEF Typed, RegistryTyped, ClientsTyped
<1>3. ASSUME NEW e \in Entries, FinishRefresh(e) PROVE Typed'
  <2>1. /\ events < MaxEvents /\ events' = events + 1 /\ compiled' = NewCatalog
        /\ holding' = [holding EXCEPT ![e] = NewCatalog]
        /\ builder' = [[builder EXCEPT ![holding[e]] = Stop(@)] EXCEPT ![NewCatalog] = Start]
        /\ UNCHANGED <<installed, superseded, closed, client>>
    BY <1>3 DEF FinishRefresh, Event
  <2>2. /\ NewCatalog \in Catalogs /\ NewCatalog \in 1 .. NewCatalog
        /\ 1 .. compiled \subseteq 1 .. NewCatalog
    BY <1>1, <2>1, CompileIsPaid
  <2>3. /\ holding \in [Entries -> (1 .. NewCatalog) \cup Nils]
        /\ \A c \in Clients : client[c].pc = "using" => client[c].at \in 1 .. NewCatalog
    BY <1>1, <2>2, HoldingGrows
  <2>4. builder' \in [Catalogs -> BuilderRecords]
    <3> DEFINE b == [builder EXCEPT ![holding[e]] = Stop(builder[holding[e]])]
    <3>1. Start \in BuilderRecords /\ builder \in [Catalogs -> BuilderRecords]
      BY <1>1, BuildersFit DEF Typed, RegistryTyped
    <3>2. holding[e] \in Catalogs
      BY <1>3 DEF FinishRefresh
    <3>3. Stop(builder[holding[e]]) \in BuilderRecords
      BY <3>1, <3>2, BuildersFit
    <3>4. b \in [Catalogs -> BuilderRecords]
      BY <3>1, <3>3
    <3>5. builder' = [b EXCEPT ![NewCatalog] = Start]
      BY <2>1
    <3> HIDE DEF b
    <3> QED BY <3>1, <3>4, <3>5
  <2>5. RegistryTyped'
    BY <1>1, <2>1, <2>2, <2>3, <2>4, CatalogNumbers DEF Typed, RegistryTyped
  <2>6. ClientsTyped'
    BY <1>1, <2>1, <2>3 DEF Typed, ClientsTyped
  <2> QED BY <2>5, <2>6 DEF Typed
<1>4. ASSUME NEW e \in Entries, RefreshStops(e) PROVE Typed'
  <2>1. /\ superseded' = superseded \ {e}
        /\ UNCHANGED <<compiled, installed, holding, closed, events, client>>
        /\ StopHeld(e)
    BY <1>4 DEF RefreshStops
  <2>2. builder' \in [Catalogs -> BuilderRecords]
    BY <1>1, <2>1, StopHeldFits DEF Typed, RegistryTyped
  <2> QED BY <1>1, <2>1, <2>2 DEF Typed, RegistryTyped, ClientsTyped
<1>5. CASE RefreshReplaces
  <2>1. /\ events < MaxEvents /\ events' = events + 1 /\ Make(TRUE)
        /\ holding' = [holding EXCEPT ![NewEntry] = NewCatalog]
        /\ installed' = NewEntry
        /\ superseded' = superseded \cup ({installed} \ {None})
        /\ UNCHANGED <<closed, client>>
    BY <1>5 DEF RefreshReplaces, Event
  <2>2. /\ NewCatalog \in Catalogs /\ NewCatalog \in 1 .. NewCatalog
        /\ 1 .. compiled \subseteq 1 .. NewCatalog
    BY <1>1, <2>1, CompileIsPaid
  <2>3. /\ holding \in [Entries -> (1 .. NewCatalog) \cup Nils]
        /\ \A c \in Clients : client[c].pc = "using" => client[c].at \in 1 .. NewCatalog
    BY <1>1, <2>2, HoldingGrows
  <2>4. builder' \in [Catalogs -> BuilderRecords] /\ compiled' = NewCatalog
    BY <1>1, <2>1, MakeFits DEF Typed, RegistryTyped
  <2>5. NewEntry \in Entries
    <3>1. PICK n \in 0 .. 1 + MaxEvents :
             (\A e \in Entries : holding[e] # None <=> e <= n) /\ n + Vacancy <= 1 + events
      BY <1>1 DEF EntriesInOrder
    <3>2. NewEntry = n + 1
      BY <1>1, <3>1, EntryIsNew
    <3> QED BY <1>1, <2>1, <3>1, <3>2 DEF Vacancy, Entries
  <2>6. RegistryTyped'
    BY <1>1, <2>1, <2>2, <2>3, <2>4, <2>5, CatalogNumbers DEF Typed, RegistryTyped
  <2>7. ClientsTyped'
    BY <1>1, <2>1, <2>3, <2>4 DEF Typed, ClientsTyped
  <2> QED BY <2>6, <2>7 DEF Typed
<1>6. CASE InvalidateComponent
  <2>1. /\ events < MaxEvents /\ events' = events + 1 /\ installed' = None
        /\ StopHeld(installed)
        /\ UNCHANGED <<compiled, holding, superseded, closed, client>>
    BY <1>6 DEF InvalidateComponent, Event
  <2>2. builder' \in [Catalogs -> BuilderRecords]
    BY <1>1, <2>1, StopHeldFits DEF Typed, RegistryTyped
  <2> QED BY <1>1, <2>1, <2>2 DEF Typed, RegistryTyped, ClientsTyped
<1>7. CASE Close
  <2>1. closed' = TRUE /\ builder' = [i \in Catalogs |-> Stop(builder[i])]
        /\ UNCHANGED <<compiled, installed, holding, superseded, events, client>>
    BY <1>7 DEF Close
  <2>2. \A i \in Catalogs : Stop(builder[i]) \in BuilderRecords
    BY <1>1, BuildersFit DEF Typed, RegistryTyped
  <2>3. builder' \in [Catalogs -> BuilderRecords]
    BY <2>1, <2>2
  <2>4. closed' \in BOOLEAN
    BY <2>1
  <2> QED BY <1>1, <2>1, <2>3, <2>4 DEF Typed, RegistryTyped, ClientsTyped
<1> QED BY <1>2, <1>3, <1>4, <1>5, <1>6, <1>7 DEF RegistryStep

LEMMA ClientStepTyped ==
    ASSUME IInv, NEW c \in Clients,
           Begins(c) \/ Settles(c) \/ Compile(c) \/ CompilesAgain(c) \/ CompileFails(c)
    PROVE  Typed'
<1> USE DEF registryVars
<1>1. /\ Typed /\ EntriesInOrder /\ CompilesPaid /\ RegistryTyped /\ ClientsTyped
      /\ MaxEvents \in Nat /\ events \in 0 .. MaxEvents
  BY SearchAssumption DEF IInv, Counted, Typed, RegistryTyped
<1>2. /\ client \in [Clients -> ClientRecords] /\ RecordOK(client[c])
      /\ \A d \in Clients : RecordOK(client[d])
                            /\ (client[d].pc = "using" => client[d].at \in 1 .. compiled)
  BY <1>1 DEF ClientsTyped
<1>3. installed = None => NewEntry \in Entries
  <2>1. PICK n \in 0 .. 1 + MaxEvents :
           (\A e \in Entries : holding[e] # None <=> e <= n) /\ n + Vacancy <= 1 + events
    BY <1>1 DEF EntriesInOrder
  <2>2. NewEntry = n + 1
    BY <1>1, <2>1, EntryIsNew
  <2> QED BY <1>1, <2>1, <2>2 DEF Vacancy, Entries
<1>4. ASSUME NEW n, client' = [client EXCEPT ![c] = n], RecordOK(n),
             n.pc = "using" => n.at \in 1 .. compiled',
             1 .. compiled \subseteq 1 .. compiled'
      PROVE  ClientsTyped'
  <2>1. n \in ClientRecords
    BY <1>4 DEF RecordOK
  <2>2. client' \in [Clients -> ClientRecords]
    BY <1>2, <1>4, <2>1
  <2>3. \A d \in Clients : client'[d] = IF d = c THEN n ELSE client[d]
    BY <1>2, <1>4
  <2>4. \A d \in Clients : RecordOK(client'[d])
                           /\ (client'[d].pc = "using" => client'[d].at \in 1 .. compiled')
    BY <1>2, <1>4, <2>3
  <2> QED BY <2>2, <2>4 DEF ClientsTyped
<1>5. CASE Begins(c)
  <2>1. PICK request : Startable(request) /\ Arrive(c, request)
    BY <1>5 DEF Begins
  <2>2. CASE installed # None
    <3> DEFINE n == [request EXCEPT !.pc = "joining", !.at = installed]
    <3>1. client' = [client EXCEPT ![c] = n] /\ UNCHANGED <<registryVars, builder>>
      BY <2>1, <2>2 DEF Arrive
    <3>2. installed \in Entries
      BY <1>1, <2>2 DEF RegistryTyped
    <3>3. RecordOK(n) /\ n.pc = "joining"
      BY <2>1, <3>2, StartedFits
    <3> HIDE DEF n
    <3>4. ClientsTyped'
      BY <1>4, <3>1, <3>3
    <3> QED BY <1>1, <3>1, <3>4 DEF Typed, RegistryTyped
  <2>3. CASE installed = None
    <3> DEFINE n == [request EXCEPT !.pc = "compiling", !.at = NewEntry]
    <3>1. /\ client' = [client EXCEPT ![c] = n] /\ installed' = NewEntry
          /\ holding' = [holding EXCEPT ![NewEntry] = Compiling]
          /\ UNCHANGED <<compiled, superseded, closed, events, builder>>
      BY <2>1, <2>3 DEF Arrive
    <3>2. RecordOK(n) /\ n.pc = "compiling"
      BY <1>3, <2>1, <2>3, StartedFits
    <3> HIDE DEF n
    <3>3. ClientsTyped'
      BY <1>4, <3>1, <3>2
    <3>4. RegistryTyped'
      BY <1>1, <1>3, <2>3, <3>1 DEF RegistryTyped, Nils
    <3> QED BY <3>3, <3>4 DEF Typed
  <2> QED BY <2>2, <2>3
<1>6. CASE Settles(c)
  <2>1. UNCHANGED <<registryVars, builder>>
    BY <1>6 DEF Settles
  <2>2. PICK n : /\ client' = [client EXCEPT ![c] = n]
                 /\ RecordOK(n)
                 /\ n.pc = "idle" \/ (n.pc = "using" /\ n.at \in 1 .. compiled)
    BY <1>6 DEF Settles
  <2>3. ClientsTyped'
    BY <1>4, <2>1, <2>2
  <2> QED BY <1>1, <2>1, <2>3 DEF Typed, RegistryTyped
<1>7. ASSUME client[c].pc \in {"compiling", "joining"}, UseCatalog(c, NewCatalog),
             compiled' = NewCatalog, NewCatalog \in Catalogs, NewCatalog \in 1 .. NewCatalog,
             1 .. compiled \subseteq 1 .. NewCatalog
      PROVE  ClientsTyped'
  <2> DEFINE n == [client[c] EXCEPT !.pc = "using", !.at = NewCatalog]
  <2>1. client' = [client EXCEPT ![c] = n]
    BY <1>1, <1>7, UseSetsOne
  <2>2. RecordOK(n) /\ n.pc = "using" /\ n.at = NewCatalog
    BY <1>2, <1>7, UsingFits
  <2> HIDE DEF n
  <2> QED BY <1>4, <1>7, <2>1, <2>2
<1>8. CASE Compile(c)
  <2>1. /\ client[c].pc = "compiling" /\ Make(~closed) /\ UseCatalog(c, NewCatalog)
        /\ holding' = [holding EXCEPT ![client[c].at] = NewCatalog]
        /\ UNCHANGED <<installed, superseded, closed, events>>
    BY <1>8 DEF Compile
  <2>2. Makers # {}
    BY <2>1 DEF Makers
  <2>3. /\ NewCatalog \in Catalogs /\ NewCatalog \in 1 .. NewCatalog
        /\ 1 .. compiled \subseteq 1 .. NewCatalog
    BY <1>1, <2>2, CompileIsPaid
  <2>4. builder' \in [Catalogs -> BuilderRecords] /\ compiled' = NewCatalog
    BY <1>1, <2>1, MakeFits DEF RegistryTyped
  <2>5. ClientsTyped'
    BY <1>7, <2>1, <2>3, <2>4
  <2>6. holding \in [Entries -> (1 .. NewCatalog) \cup Nils]
    BY <1>1, <2>3, HoldingGrows
  <2>7. holding' \in [Entries -> (1 .. compiled') \cup Nils]
    BY <2>1, <2>3, <2>4, <2>6
  <2>8. compiled' \in 0 .. Len(Contents)
    BY <2>3, <2>4, CatalogNumbers
  <2>9. RegistryTyped'
    BY <1>1, <2>1, <2>4, <2>7, <2>8 DEF RegistryTyped
  <2> QED BY <2>5, <2>9 DEF Typed
<1>9. CASE CompilesAgain(c)
  <2>1. /\ client[c].pc = "joining" /\ holding[client[c].at] = Failed
        /\ Make(~closed) /\ UseCatalog(c, NewCatalog)
        /\ UNCHANGED <<superseded, closed, events>>
    BY <1>9 DEF CompilesAgain
  <2>2. Stranded # {}
    BY <2>1 DEF Stranded
  <2>3. /\ NewCatalog \in Catalogs /\ NewCatalog \in 1 .. NewCatalog
        /\ 1 .. compiled \subseteq 1 .. NewCatalog
    BY <1>1, <2>2, CompileIsPaid
  <2>4. builder' \in [Catalogs -> BuilderRecords] /\ compiled' = NewCatalog
    BY <1>1, <2>1, MakeFits DEF RegistryTyped
  <2>5. ClientsTyped'
    BY <1>7, <2>1, <2>3, <2>4
  <2>6. holding \in [Entries -> (1 .. NewCatalog) \cup Nils]
    BY <1>1, <2>3, HoldingGrows
  <2>7. CASE closed \/ installed # None
    <3>1. UNCHANGED <<installed, holding>>
      BY <1>9, <2>7 DEF CompilesAgain
    <3>2. RegistryTyped'
      BY <1>1, <2>1, <2>3, <2>4, <2>6, <3>1, CatalogNumbers DEF RegistryTyped
    <3> QED BY <2>5, <3>2 DEF Typed
  <2>8. CASE ~(closed \/ installed # None)
    <3>1. /\ installed' = NewEntry
          /\ holding' = [holding EXCEPT ![NewEntry] = NewCatalog]
      BY <1>9, <2>8 DEF CompilesAgain
    <3>2. RegistryTyped'
      BY <1>1, <1>3, <2>1, <2>3, <2>4, <2>6, <2>8, <3>1, CatalogNumbers DEF RegistryTyped
    <3> QED BY <2>5, <3>2 DEF Typed
  <2> QED BY <2>7, <2>8
<1>10. CASE CompileFails(c)
  <2>1. /\ events < MaxEvents /\ events' = events + 1 /\ End(c)
        /\ holding' = [holding EXCEPT ![client[c].at] = Failed]
        /\ installed' = IF installed = client[c].at THEN None ELSE installed
        /\ UNCHANGED <<compiled, superseded, closed, builder>>
    BY <1>10 DEF CompileFails, Event
  <2>2. ClientsTyped'
    BY <1>4, <2>1, NewRecord DEF End
  <2>3. holding' \in [Entries -> (1 .. compiled') \cup Nils]
    BY <1>1, <2>1 DEF RegistryTyped, Nils
  <2>4. installed' \in Entries \cup {None}
    BY <1>1, <2>1 DEF RegistryTyped
  <2>5. events' \in 0 .. MaxEvents
    BY <1>1, <2>1
  <2>6. RegistryTyped'
    BY <1>1, <2>1, <2>3, <2>4, <2>5 DEF RegistryTyped
  <2> QED BY <2>2, <2>6 DEF Typed
<1> QED BY <1>5, <1>6, <1>8, <1>9, <1>10

\* The counts, step by step.
LEMMA FirstFree ==
    ASSUME Typed, EntriesInOrder
    PROVE  \E n \in 0 .. 1 + MaxEvents :
              /\ \A e \in Entries : holding[e] # None <=> e <= n
              /\ n + Vacancy <= 1 + events
              /\ NewEntry = n + 1
<1>1. PICK n \in 0 .. 1 + MaxEvents :
         (\A e \in Entries : holding[e] # None <=> e <= n) /\ n + Vacancy <= 1 + events
  BY DEF EntriesInOrder
<1>2. NewEntry = n + 1
  BY <1>1, EntryIsNew
<1> QED BY <1>1, <1>2

\* A step that makes no entry, of which another installed none,
LEMMA OrderKept ==
    ASSUME Typed, EntriesInOrder,
           events' \in 0 .. MaxEvents,
           \A e \in Entries : holding'[e] # None <=> holding[e] # None,
           Vacancy' - Vacancy <= events' - events
    PROVE  EntriesInOrder'
<1>1. /\ MaxEvents \in Nat /\ events \in 0 .. MaxEvents
      /\ Vacancy \in {0, 1} /\ Vacancy' \in {0, 1}
  BY SearchAssumption DEF Typed, RegistryTyped, Vacancy
<1>2. PICK n \in 0 .. 1 + MaxEvents :
         (\A e \in Entries : holding[e] # None <=> e <= n) /\ n + Vacancy <= 1 + events
  BY DEF EntriesInOrder
<1>3. \A e \in Entries : holding'[e] # None <=> e <= n
  BY <1>2
<1>4. n + Vacancy' <= 1 + events'
  <2>1. /\ Vacancy \in Int /\ Vacancy' \in Int /\ events \in Int /\ events' \in Int
        /\ n \in Int
    BY <1>1
  <2>2. n + Vacancy <= 1 + events
    BY <1>2
  <2>3. \A i, v, w, d, e \in Int :
           i + v <= 1 + d /\ w - v <= e - d => i + w <= 1 + e
    OBVIOUS
  <2> QED BY <2>1, <2>2, <2>3, Zenon
<1> QED BY <1>3, <1>4 DEF EntriesInOrder

\* and one that makes the next and installs it.
LEMMA OrderGrows ==
    ASSUME Typed, EntriesInOrder, NEW x, x # None,
           holding' = [holding EXCEPT ![NewEntry] = x], installed' = NewEntry,
           \/ installed = None /\ events' = events
           \/ events < MaxEvents /\ events' = events + 1
    PROVE  /\ EntriesInOrder'
           /\ NewEntry \in Entries
           /\ holding[NewEntry] = None
           /\ Vacancy' = 0
<1>1. /\ MaxEvents \in Nat /\ events \in 0 .. MaxEvents
      /\ Entries = 1 .. 1 + MaxEvents
      /\ Vacancy \in {0, 1} /\ (installed = None => Vacancy = 1)
      /\ holding \in [Entries -> (1 .. compiled) \cup Nils]
  BY SearchAssumption DEF Typed, RegistryTyped, Vacancy, Entries
<1>2. PICK n \in 0 .. 1 + MaxEvents :
              /\ \A e \in Entries : holding[e] # None <=> e <= n
              /\ n + Vacancy <= 1 + events
              /\ NewEntry = n + 1
  BY FirstFree
<1>3. n + 1 <= 1 + events'
  BY <1>1, <1>2
<1>4. events' \in 0 .. MaxEvents
  BY <1>1
<1>5. n + 1 \in 1 .. 1 + MaxEvents /\ n + 1 \in 0 .. 1 + MaxEvents
  BY <1>1, <1>2, <1>3, <1>4
<1>6. NewEntry \in Entries /\ holding[NewEntry] = None
  BY <1>1, <1>2, <1>5
<1>7. Vacancy' = 0
  BY <1>1, <1>6, NilAssumption DEF Vacancy
<1>8. \A e \in Entries : holding'[e] = IF e = NewEntry THEN x ELSE holding[e]
  BY <1>1
<1>9. \A e \in Entries : holding'[e] # None <=> e <= n + 1
  <2>1. TAKE e \in Entries
  <2>2. CASE e = n + 1
    BY <1>1, <1>2, <1>8, <2>2
  <2>3. CASE e # n + 1
    <3>1. holding'[e] = holding[e] /\ (e <= n + 1 <=> e <= n)
      BY <1>1, <1>2, <1>8, <2>3
    <3> QED BY <1>2, <3>1
  <2> QED BY <2>2, <2>3
<1>10. (n + 1) + Vacancy' <= 1 + events'
  <2>1. events' \in Int /\ n \in Int /\ Vacancy' \in Int
    BY <1>1, <1>4, <1>7
  <2>2. \A i, v, e \in Int : i + 1 <= 1 + e /\ v = 0 => (i + 1) + v <= 1 + e
    OBVIOUS
  <2> QED BY <1>3, <1>7, <2>1, <2>2, Zenon
<1>11. EntriesInOrder'
  BY <1>5, <1>9, <1>10 DEF EntriesInOrder
<1> QED BY <1>6, <1>7, <1>11

\* Steps after which no more clients compile or are stranded than before,
LEMMA PaidKept ==
    ASSUME Typed, CompilesPaid, Makers' \subseteq Makers, Stranded' \subseteq Stranded,
           events' \in 0 .. MaxEvents,
           \/ /\ compiled' = compiled /\ events' = events /\ Vacancy' <= Vacancy
           \/ /\ events' = events + 1
              /\ compiled' \in {compiled, compiled + 1}
              /\ Vacancy' <= Vacancy \/ compiled' = compiled
    PROVE  CompilesPaid'
<1> DEFINE m == Cardinality(Makers)
           s == Cardinality(Stranded)
           mm == Cardinality(Makers')
           ss == Cardinality(Stranded')
<1>1. /\ compiled \in Nat /\ MaxEvents \in Nat /\ events \in 0 .. MaxEvents
      /\ Vacancy \in {0, 1} /\ Vacancy' \in {0, 1}
  BY CatalogNumbers DEF Typed, RegistryTyped, Vacancy
<1>2. /\ m \in Nat /\ s \in Nat /\ mm \in Nat /\ ss \in Nat /\ mm <= m /\ ss <= s
  BY CountsAreNumbers, FS_Subset
<1>3. /\ Budget(events) \in Nat /\ Cardinality(Clients) \in Nat /\ Cardinality(Clients) >= 1
      /\ (events < MaxEvents => Budget(events + 1) = Budget(events) + Cardinality(Clients))
  BY <1>1, BudgetGrows, CatalogNumbers
<1>4. compiled + m + s + Vacancy <= Budget(events)
  BY DEF CompilesPaid
<1>5. CompilesPaid' <=> compiled' + mm + ss + Vacancy' <= Budget(events')
  BY DEF CompilesPaid, Budget
<1> HIDE DEF m, s, mm, ss
<1>6. CASE compiled' = compiled /\ events' = events /\ Vacancy' <= Vacancy
  BY <1>1, <1>2, <1>3, <1>4, <1>5, <1>6
<1>7. CASE /\ events' = events + 1
           /\ compiled' \in {compiled, compiled + 1}
           /\ Vacancy' <= Vacancy \/ compiled' = compiled
  <2>1. events < MaxEvents /\ Budget(events') = Budget(events) + Cardinality(Clients)
    BY <1>1, <1>3, <1>7
  <2> QED BY <1>1, <1>2, <1>3, <1>4, <1>5, <1>7, <2>1
<1> QED BY <1>6, <1>7

\* and a step that spends what a client, or the vacancy, was counted for.
LEMMA PaidSpent ==
    ASSUME Typed, CompilesPaid, NEW c \in Clients, events' = events,
           Vacancy' <= Vacancy,
           \/ /\ compiled' = compiled + 1
              /\ c \in Makers /\ Makers' \subseteq Makers \ {c} /\ Stranded' \subseteq Stranded
           \/ /\ compiled' = compiled + 1
              /\ c \in Stranded /\ Makers' \subseteq Makers /\ Stranded' \subseteq Stranded \ {c}
           \/ /\ compiled' = compiled
              /\ Makers' \subseteq Makers \cup {c} /\ Stranded' \subseteq Stranded
              /\ Vacancy = 1 /\ Vacancy' = 0
    PROVE  CompilesPaid'
<1> DEFINE m == Cardinality(Makers)
           s == Cardinality(Stranded)
           mm == Cardinality(Makers')
           ss == Cardinality(Stranded')
<1>1. /\ compiled \in Nat /\ Vacancy \in {0, 1} /\ Vacancy' \in {0, 1}
      /\ events \in 0 .. MaxEvents
  BY CatalogNumbers DEF Typed, RegistryTyped, Vacancy
<1>2. /\ m \in Nat /\ s \in Nat /\ mm \in Nat /\ ss \in Nat /\ Budget(events) \in Nat
      /\ IsFiniteSet(Makers) /\ IsFiniteSet(Stranded)
  BY <1>1, CountsAreNumbers, BudgetGrows
<1>3. compiled + m + s + Vacancy <= Budget(events)
  BY DEF CompilesPaid
<1>4. CompilesPaid' <=> compiled' + mm + ss + Vacancy' <= Budget(events)
  BY DEF CompilesPaid, Budget
<1>5. CASE /\ compiled' = compiled + 1
           /\ c \in Makers /\ Makers' \subseteq Makers \ {c} /\ Stranded' \subseteq Stranded
  <2>1. mm <= m - 1 /\ ss <= s
    BY <1>2, <1>5, Removed, FS_Subset
  <2> HIDE DEF m, s, mm, ss
  <2> QED BY <1>1, <1>2, <1>3, <1>4, <1>5, <2>1
<1>6. CASE /\ compiled' = compiled + 1
           /\ c \in Stranded /\ Makers' \subseteq Makers /\ Stranded' \subseteq Stranded \ {c}
  <2>1. mm <= m /\ ss <= s - 1
    BY <1>2, <1>6, Removed, FS_Subset
  <2> HIDE DEF m, s, mm, ss
  <2> QED BY <1>1, <1>2, <1>3, <1>4, <1>6, <2>1
<1>7. CASE /\ compiled' = compiled
           /\ Makers' \subseteq Makers \cup {c} /\ Stranded' \subseteq Stranded
           /\ Vacancy = 1 /\ Vacancy' = 0
  <2>1. mm <= m + 1 /\ ss <= s
    BY <1>2, <1>7, Added, FS_Subset
  <2> HIDE DEF m, s, mm, ss
  <2> QED BY <1>1, <1>2, <1>3, <1>4, <1>7, <2>1
<1> QED BY <1>5, <1>6, <1>7

\* A compile that fails strands the other clients at most.
LEMMA PaidFailure ==
    ASSUME Typed, CompilesPaid, NEW c \in Clients, events < MaxEvents, events' = events + 1,
           compiled' = compiled, c \in Makers, Makers' \subseteq Makers \ {c},
           Stranded' \subseteq Clients \ {c}
    PROVE  CompilesPaid'
<1> DEFINE m == Cardinality(Makers)
           s == Cardinality(Stranded)
           mm == Cardinality(Makers')
           ss == Cardinality(Stranded')
           k == Cardinality(Clients)
<1>1. /\ compiled \in Nat /\ Vacancy \in {0, 1} /\ Vacancy' \in {0, 1}
      /\ events \in 0 .. MaxEvents /\ k \in Nat /\ IsFiniteSet(Clients)
  BY CatalogNumbers, SearchAssumption DEF Typed, RegistryTyped, Vacancy
<1>2. /\ m \in Nat /\ s \in Nat /\ mm \in Nat /\ ss \in Nat /\ Budget(events) \in Nat
      /\ Budget(events + 1) = Budget(events) + k /\ IsFiniteSet(Makers)
  BY <1>1, CountsAreNumbers, BudgetGrows
<1>3. compiled + m + s + Vacancy <= Budget(events)
  BY DEF CompilesPaid
<1>4. CompilesPaid' <=> compiled' + mm + ss + Vacancy' <= Budget(events + 1)
  BY DEF CompilesPaid, Budget
<1>5. mm <= m - 1
  BY <1>2, Removed
<1>6. ss <= k - 1
  BY <1>1, Removed
<1> HIDE DEF m, s, mm, ss, k
<1> QED BY <1>1, <1>2, <1>3, <1>4, <1>5, <1>6

\* An event pays for a vacancy.
LEMMA Falls ==
    ASSUME Vacancy \in {0, 1}, Vacancy' \in {0, 1}, events \in 0 .. MaxEvents,
           events' = events + 1
    PROVE  Vacancy' - Vacancy <= events' - events
<1>1. \A v, w \in {0, 1} : \A d \in Int : w - v <= (d + 1) - d
  OBVIOUS
<1>2. events \in Int
  BY SearchAssumption
<1> QED BY <1>1, <1>2, Zenon

\* A step that leaves what entries hold, but for one that holds a catalog now.
LEMMA StrandsNone ==
    ASSUME client' = client, NEW e, NEW x, x # Failed, holding \in [Entries -> (1 .. compiled) \cup Nils],
           holding' = holding \/ holding' = [holding EXCEPT ![e] = x],
           ClientsTyped
    PROVE  Makers' = Makers /\ Stranded' \subseteq Stranded
<1>1. \A c \in Clients : client[c].pc = "joining" => client[c].at \in Entries
  BY DEF ClientsTyped, RecordOK
<1>2. \A d \in Entries : holding'[d] = Failed => holding[d] = Failed
  OBVIOUS
<1> QED BY <1>1, <1>2 DEF Makers, Stranded

LEMMA RegistryStepCounted ==
    ASSUME IInv, RegistryStep, Typed'
    PROVE  Counted'
<1> USE DEF registryVars
<1>1. /\ Typed /\ RegistryTyped /\ ClientsTyped /\ EntriesInOrder /\ InstalledHolds
      /\ CompilesPaid /\ AwaitedExist /\ MaxEvents \in Nat /\ events \in 0 .. MaxEvents
      /\ holding \in [Entries -> (1 .. compiled) \cup Nils]
      /\ events' \in 0 .. MaxEvents /\ compiled \in Nat
      /\ Vacancy \in {0, 1} /\ Vacancy' \in {0, 1}
  BY SearchAssumption, CatalogNumbers DEF IInv, Counted, Typed, RegistryTyped, Vacancy
<1>2. ASSUME UNCHANGED <<compiled, installed, holding, events, client>>
      PROVE  Counted'
  <2>1. Makers' = Makers /\ Stranded' = Stranded /\ Vacancy' = Vacancy
    BY <1>2 DEF Makers, Stranded, Vacancy
  <2>2. EntriesInOrder'
    BY <1>1, <1>2, <2>1, OrderKept
  <2>3. CompilesPaid'
    BY <1>1, <1>2, <2>1, PaidKept
  <2>4. InstalledHolds' /\ AwaitedExist'
    BY <1>1, <1>2 DEF InstalledHolds, AwaitedExist
  <2> QED BY <2>2, <2>3, <2>4 DEF Counted
<1>w. ASSUME client' = client, \A d \in Entries : holding[d] # None => holding'[d] # None
      PROVE  AwaitedExist'
  <2>1. \A c \in Clients : client[c].pc \in {"compiling", "joining"} => client[c].at \in Entries
    BY <1>1 DEF ClientsTyped, RecordOK
  <2> QED BY <1>1, <1>w, <2>1 DEF AwaitedExist
<1>3. CASE \E i \in Catalogs : BuilderStep(i)
  BY <1>2, <1>3 DEF BuilderStep
<1>4. ASSUME NEW e \in Entries, FinishRefresh(e) PROVE Counted'
  <2>1. /\ events < MaxEvents /\ events' = events + 1 /\ compiled' = NewCatalog
        /\ holding' = [holding EXCEPT ![e] = NewCatalog]
        /\ holding[e] \in Catalogs
        /\ UNCHANGED <<installed, client>>
    BY <1>4 DEF FinishRefresh, Event
  <2>2. NewCatalog \notin Nils /\ NewCatalog = compiled + 1
    BY <1>1, <2>1, CompileIsPaid
  <2>3. NewCatalog # None /\ NewCatalog # Failed /\ holding[e] # None
    BY <2>1, <2>2, NilAssumption DEF Nils
  <2>4. \A d \in Entries : holding'[d] = IF d = e THEN NewCatalog ELSE holding[d]
    BY <1>1, <2>1
  <2>5. Vacancy' = Vacancy
    BY <2>1 DEF Vacancy
  <2>6. EntriesInOrder'
    <3>1. \A d \in Entries : holding'[d] # None <=> holding[d] # None
      BY <2>3, <2>4
    <3>2. Vacancy' - Vacancy <= events' - events
      BY <1>1, <2>1, <2>5
    <3> QED BY <1>1, <3>1, <3>2, OrderKept
  <2>7. Makers' = Makers /\ Stranded' \subseteq Stranded
    BY <1>1, <2>1, <2>3, StrandsNone
  <2>8. CompilesPaid'
    BY <1>1, <2>1, <2>2, <2>5, <2>7, PaidKept
  <2>9. InstalledHolds'
    <3>1. installed # None => installed \in Entries
      BY <1>1 DEF RegistryTyped
    <3> QED BY <1>1, <2>1, <2>3, <2>4, <3>1 DEF InstalledHolds
  <2>10. AwaitedExist'
    BY <1>w, <2>1, <2>3, <2>4
  <2> QED BY <2>6, <2>8, <2>9, <2>10 DEF Counted
<1>5. ASSUME NEW e \in Entries, RefreshStops(e) PROVE Counted'
  BY <1>2, <1>5 DEF RefreshStops
<1>6. CASE RefreshReplaces
  <2>1. /\ events < MaxEvents /\ events' = events + 1 /\ compiled' = NewCatalog
        /\ holding' = [holding EXCEPT ![NewEntry] = NewCatalog]
        /\ installed' = NewEntry /\ client' = client
    BY <1>6 DEF RefreshReplaces, Event, Make
  <2>2. NewCatalog \notin Nils /\ NewCatalog = compiled + 1
    BY <1>1, <2>1, CompileIsPaid
  <2>3. NewCatalog # None /\ NewCatalog # Failed
    BY <2>2 DEF Nils
  <2>4. EntriesInOrder' /\ NewEntry \in Entries /\ Vacancy' = 0
    BY <1>1, <2>1, <2>3, OrderGrows
  <2>5. Makers' = Makers /\ Stranded' \subseteq Stranded
    BY <1>1, <2>1, <2>3, StrandsNone
  <2>6. CompilesPaid'
    <3>1. Vacancy' <= Vacancy
      BY <1>1, <2>4
    <3> QED BY <1>1, <2>1, <2>2, <2>5, <3>1, PaidKept
  <2>7. InstalledHolds'
    <3>1. holding'[installed'] = NewCatalog
      BY <1>1, <2>1, <2>4
    <3> QED BY <2>3, <3>1 DEF InstalledHolds
  <2>8. AwaitedExist'
    <3>1. \A d \in Entries : holding'[d] = IF d = NewEntry THEN NewCatalog ELSE holding[d]
      BY <1>1, <2>1
    <3> QED BY <1>w, <2>1, <2>3, <3>1
  <2> QED BY <2>4, <2>6, <2>7, <2>8 DEF Counted
<1>7. CASE InvalidateComponent
  <2>1. /\ events < MaxEvents /\ events' = events + 1 /\ installed' = None
        /\ UNCHANGED <<compiled, holding, client>>
    BY <1>7 DEF InvalidateComponent, Event
  <2>2. Makers' = Makers /\ Stranded' = Stranded
    BY <2>1 DEF Makers, Stranded
  <2>3. Vacancy' - Vacancy <= events' - events
    BY <1>1, <2>1, Falls
  <2>4. EntriesInOrder'
    BY <1>1, <2>1, <2>3, OrderKept
  <2>5. CompilesPaid'
    BY <1>1, <2>1, <2>2, PaidKept
  <2>6. InstalledHolds' /\ AwaitedExist'
    BY <1>1, <2>1 DEF InstalledHolds, AwaitedExist
  <2> QED BY <2>4, <2>5, <2>6 DEF Counted
<1>8. CASE Close
  BY <1>2, <1>8 DEF Close
<1> QED BY <1>3, <1>4, <1>5, <1>6, <1>7, <1>8 DEF RegistryStep

LEMMA ClientStepCounted ==
    ASSUME IInv, Typed', NEW c \in Clients,
           Begins(c) \/ Settles(c) \/ Compile(c) \/ CompilesAgain(c) \/ CompileFails(c)
    PROVE  Counted'
<1> USE DEF registryVars
<1>1. /\ Typed /\ RegistryTyped /\ ClientsTyped /\ EntriesInOrder /\ InstalledHolds
      /\ CompilesPaid /\ AwaitedExist /\ MaxEvents \in Nat /\ events \in 0 .. MaxEvents
      /\ holding \in [Entries -> (1 .. compiled) \cup Nils]
      /\ client \in [Clients -> ClientRecords]
      /\ events' \in 0 .. MaxEvents /\ compiled \in Nat
      /\ Vacancy \in {0, 1} /\ Vacancy' \in {0, 1}
  BY SearchAssumption, CatalogNumbers
     DEF IInv, Counted, Typed, RegistryTyped, ClientsTyped, Vacancy
<1>2. \A d \in Clients : client[d].pc \in {"joining", "compiling"} => client[d].at \in Entries
  BY <1>1 DEF ClientsTyped, RecordOK
<1>3. ASSUME NEW n, client' = [client EXCEPT ![c] = n]
      PROVE  \A d \in Clients : client'[d] = IF d = c THEN n ELSE client[d]
  BY <1>1, <1>3
<1>4. Begins(c) => Counted'
  <2> SUFFICES ASSUME Begins(c) PROVE Counted'
    OBVIOUS
  <2>1. PICK request : Startable(request) /\ Arrive(c, request)
    BY DEF Begins
  <2>2. CASE installed # None
    <3> DEFINE n == [request EXCEPT !.pc = "joining", !.at = installed]
    <3>1. client' = [client EXCEPT ![c] = n] /\ UNCHANGED <<registryVars, builder>>
      BY <2>1, <2>2 DEF Arrive
    <3>2. installed \in Entries /\ holding[installed] # Failed
      BY <1>1, <2>2 DEF RegistryTyped, InstalledHolds
    <3>3. n.pc = "joining" /\ n.at = installed
      BY <2>1, <3>2, StartedFits
    <3> HIDE DEF n
    <3>4. Makers' \subseteq Makers /\ Stranded' \subseteq Stranded
      BY <1>3, <3>1, <3>2, <3>3 DEF Makers, Stranded
    <3>5. Vacancy' = Vacancy
      BY <3>1 DEF Vacancy
    <3>6. EntriesInOrder'
      BY <1>1, <3>1, <3>5, OrderKept
    <3>7. CompilesPaid'
      BY <1>1, <3>1, <3>4, <3>5, PaidKept
    <3>8. InstalledHolds'
      BY <1>1, <3>1 DEF InstalledHolds
    <3>9. AwaitedExist'
      <4>1. holding' = holding /\ holding[installed] # None
        BY <1>1, <2>2, <3>1 DEF InstalledHolds
      <4> QED BY <1>1, <1>3, <3>1, <3>3, <4>1 DEF AwaitedExist
    <3> QED BY <3>6, <3>7, <3>8, <3>9 DEF Counted
  <2>3. CASE installed = None
    <3> DEFINE n == [request EXCEPT !.pc = "compiling", !.at = NewEntry]
    <3>1. /\ client' = [client EXCEPT ![c] = n] /\ installed' = NewEntry
          /\ holding' = [holding EXCEPT ![NewEntry] = Compiling]
          /\ UNCHANGED <<compiled, superseded, closed, events, builder>>
      BY <2>1, <2>3 DEF Arrive
    <3>2. Compiling # None /\ Compiling # Failed
      BY NilAssumption
    <3>3. EntriesInOrder' /\ NewEntry \in Entries /\ Vacancy' = 0
      BY <1>1, <2>3, <3>1, <3>2, OrderGrows
    <3>4. n.pc = "compiling"
      BY <2>1, <3>3, StartedFits
    <3> HIDE DEF n
    <3>5. Makers' \subseteq Makers \cup {c}
      BY <1>3, <3>1 DEF Makers
    <3>6. Stranded' \subseteq Stranded
      <4>1. \A e \in Entries : holding'[e] = Failed => holding[e] = Failed
        BY <1>1, <3>1, <3>2
      <4>2. \A d \in Clients : client'[d].pc = "joining" => client'[d] = client[d]
        BY <1>3, <3>1, <3>4
      <4> QED BY <1>2, <4>1, <4>2 DEF Stranded
    <3>7. Vacancy = 1
      BY <2>3 DEF Vacancy
    <3>8. CompilesPaid'
      <4>1. Vacancy' <= Vacancy
        BY <3>3, <3>7
      <4> QED BY <1>1, <3>1, <3>3, <3>5, <3>6, <3>7, <4>1, PaidSpent
    <3>9. InstalledHolds'
      <4>1. holding'[installed'] = Compiling
        BY <1>1, <3>1, <3>3
      <4> QED BY <3>2, <4>1 DEF InstalledHolds
    <3>10. AwaitedExist'
      <4>1. n.at = NewEntry
        BY <2>1, <3>3, StartedFits DEF n
      <4>2. \A e \in Entries : holding'[e] = IF e = NewEntry THEN Compiling ELSE holding[e]
        BY <1>1, <3>1
      <4> QED BY <1>1, <1>2, <1>3, <3>1, <3>2, <3>3, <4>1, <4>2 DEF AwaitedExist
    <3> QED BY <3>3, <3>8, <3>9, <3>10 DEF Counted
  <2> QED BY <2>2, <2>3
<1>5. Settles(c) => Counted'
  <2> SUFFICES ASSUME Settles(c) PROVE Counted'
    OBVIOUS
  <2>1. UNCHANGED <<registryVars, builder>>
    BY DEF Settles
  <2>2. PICK n : /\ client' = [client EXCEPT ![c] = n]
                 /\ n.pc = "idle" \/ n.pc = "using"
    BY DEF Settles
  <2>3. Makers' \subseteq Makers /\ Stranded' \subseteq Stranded
    BY <1>3, <2>1, <2>2 DEF Makers, Stranded
  <2>4. Vacancy' = Vacancy
    BY <2>1 DEF Vacancy
  <2>5. EntriesInOrder'
    BY <1>1, <2>1, <2>4, OrderKept
  <2>6. CompilesPaid'
    BY <1>1, <2>1, <2>3, <2>4, PaidKept
  <2>7. InstalledHolds'
    BY <1>1, <2>1 DEF InstalledHolds
  <2>8. AwaitedExist'
    BY <1>1, <1>3, <2>1, <2>2 DEF AwaitedExist
  <2> QED BY <2>5, <2>6, <2>7, <2>8 DEF Counted
<1>6. Compile(c) => Counted'
  <2> SUFFICES ASSUME Compile(c) PROVE Counted'
    OBVIOUS
  <2> DEFINE e == client[c].at
             n == [client[c] EXCEPT !.pc = "using", !.at = NewCatalog]
  <2>1. /\ client[c].pc = "compiling" /\ UseCatalog(c, NewCatalog) /\ compiled' = NewCatalog
        /\ holding' = [holding EXCEPT ![e] = NewCatalog]
        /\ UNCHANGED <<installed, superseded, closed, events>>
    BY DEF Compile, Make
  <2>2. c \in Makers
    BY <2>1 DEF Makers
  <2>3. NewCatalog \in Catalogs /\ NewCatalog \notin Nils /\ NewCatalog = compiled + 1
    BY <1>1, <2>2, CompileIsPaid
  <2>4. client' = [client EXCEPT ![c] = n] /\ n.pc = "using"
    <3>1. client[c] \in ClientRecords
      BY <1>1
    <3>2. n.pc = "using"
      BY <3>1 DEF ClientRecords
    <3> QED BY <1>1, <2>1, <3>2, UseSetsOne
  <2> HIDE DEF n
  <2>5. \A d \in Clients : client'[d].pc \in {"joining", "compiling"} =>
                              d # c /\ client'[d] = client[d]
    BY <1>3, <2>4
  <2>6. \A d \in Entries : holding'[d] = IF d = e THEN NewCatalog ELSE holding[d]
    BY <1>1, <2>1
  <2>7. NewCatalog # None /\ NewCatalog # Failed
    BY <2>3 DEF Nils
  <2>8. Makers' \subseteq Makers \ {c}
    BY <2>5 DEF Makers
  <2>9. Stranded' \subseteq Stranded
    BY <1>2, <2>5, <2>6, <2>7 DEF Stranded
  <2>10. Vacancy' = Vacancy
    BY <2>1 DEF Vacancy
  <2>11. CompilesPaid'
    BY <1>1, <2>1, <2>2, <2>3, <2>8, <2>9, <2>10, PaidSpent
  <2>12. e \in Entries
    BY <1>2, <2>1
  <2>13. InstalledHolds'
    <3>1. installed # None => installed \in Entries
      BY <1>1 DEF RegistryTyped
    <3> QED BY <1>1, <2>1, <2>6, <2>7, <3>1 DEF InstalledHolds
  <2>14. holding[e] # None
    BY <1>1, <2>1 DEF AwaitedExist
  <2>15. EntriesInOrder'
    <3>1. \A d \in Entries : holding'[d] # None <=> holding[d] # None
      BY <2>6, <2>7, <2>14
    <3>2. Vacancy' - Vacancy <= events' - events
      BY <1>1, <2>1, <2>10
    <3> QED BY <1>1, <3>1, <3>2, OrderKept
  <2>16. AwaitedExist'
    BY <1>1, <1>2, <2>5, <2>6, <2>7 DEF AwaitedExist
  <2> QED BY <2>11, <2>13, <2>15, <2>16 DEF Counted
<1>7. CompilesAgain(c) => Counted'
  <2> SUFFICES ASSUME CompilesAgain(c) PROVE Counted'
    OBVIOUS
  <2> DEFINE n == [client[c] EXCEPT !.pc = "using", !.at = NewCatalog]
  <2>1. /\ client[c].pc = "joining" /\ holding[client[c].at] = Failed
        /\ UseCatalog(c, NewCatalog) /\ compiled' = NewCatalog
        /\ UNCHANGED <<superseded, closed, events>>
    BY DEF CompilesAgain, Make
  <2>2. c \in Stranded
    BY <2>1 DEF Stranded
  <2>3. NewCatalog \in Catalogs /\ NewCatalog \notin Nils /\ NewCatalog = compiled + 1
    BY <1>1, <2>2, CompileIsPaid
  <2>4. client' = [client EXCEPT ![c] = n] /\ n.pc = "using"
    <3>1. client[c] \in ClientRecords
      BY <1>1
    <3>2. n.pc = "using"
      BY <3>1 DEF ClientRecords
    <3> QED BY <1>1, <2>1, <3>2, UseSetsOne
  <2> HIDE DEF n
  <2>5. \A d \in Clients : client'[d].pc \in {"joining", "compiling"} =>
                              d # c /\ client'[d] = client[d]
    BY <1>3, <2>4
  <2>6. NewCatalog # None /\ NewCatalog # Failed
    BY <2>3 DEF Nils
  <2>7. Makers' \subseteq Makers
    BY <2>5 DEF Makers
  <2>8. CASE closed \/ installed # None
    <3>1. UNCHANGED <<installed, holding>>
      BY <2>8 DEF CompilesAgain
    <3>2. Stranded' \subseteq Stranded \ {c}
      BY <2>5, <3>1 DEF Stranded
    <3>3. Vacancy' = Vacancy
      BY <3>1 DEF Vacancy
    <3>4. CompilesPaid'
      BY <1>1, <2>1, <2>2, <2>3, <2>7, <3>2, <3>3, PaidSpent
    <3>5. EntriesInOrder'
      BY <1>1, <2>1, <3>1, <3>3, OrderKept
    <3>6. InstalledHolds' /\ AwaitedExist'
      BY <1>1, <2>5, <3>1 DEF InstalledHolds, AwaitedExist
    <3> QED BY <3>4, <3>5, <3>6 DEF Counted
  <2>9. CASE ~(closed \/ installed # None)
    <3>1. /\ installed = None /\ installed' = NewEntry
          /\ holding' = [holding EXCEPT ![NewEntry] = NewCatalog]
      BY <2>9 DEF CompilesAgain
    <3>2. EntriesInOrder' /\ NewEntry \in Entries /\ Vacancy' = 0
      BY <1>1, <2>1, <2>6, <3>1, OrderGrows
    <3>3. \A d \in Entries : holding'[d] = IF d = NewEntry THEN NewCatalog ELSE holding[d]
      BY <1>1, <3>1
    <3>4. Stranded' \subseteq Stranded \ {c}
      BY <1>2, <2>5, <2>6, <3>3 DEF Stranded
    <3>5. Vacancy' <= Vacancy
      BY <1>1, <3>2
    <3>6. CompilesPaid'
      BY <1>1, <2>1, <2>2, <2>3, <2>7, <3>4, <3>5, PaidSpent
    <3>7. InstalledHolds'
      <4>1. holding'[installed'] = NewCatalog
        BY <3>1, <3>2, <3>3
      <4> QED BY <2>6, <4>1 DEF InstalledHolds
    <3>8. AwaitedExist'
      BY <1>1, <1>2, <2>5, <2>6, <3>3 DEF AwaitedExist
    <3> QED BY <3>2, <3>6, <3>7, <3>8 DEF Counted
  <2> QED BY <2>8, <2>9
<1>8. CompileFails(c) => Counted'
  <2> SUFFICES ASSUME CompileFails(c) PROVE Counted'
    OBVIOUS
  <2> DEFINE e == client[c].at
  <2>1. /\ client[c].pc = "compiling" /\ events < MaxEvents /\ events' = events + 1
        /\ End(c) /\ holding' = [holding EXCEPT ![e] = Failed]
        /\ installed' = IF installed = e THEN None ELSE installed
        /\ compiled' = compiled
    BY DEF CompileFails, Event
  <2>2. c \in Makers /\ e \in Entries /\ holding[e] # None
    BY <1>1, <1>2, <2>1 DEF Makers, AwaitedExist
  <2>3. \A d \in Clients : client'[d].pc \in {"joining", "compiling"} =>
                              d # c /\ client'[d] = client[d]
    BY ZenonT(40), <1>3, <2>1, NewRecord DEF End
  <2>4. Failed # None
    BY NilAssumption
  <2>5. \A d \in Entries : holding'[d] = IF d = e THEN Failed ELSE holding[d]
    BY <1>1, <2>1
  <2>6. Makers' \subseteq Makers \ {c} /\ Stranded' \subseteq Clients \ {c}
    BY <2>3 DEF Makers, Stranded
  <2>7. CompilesPaid'
    BY <1>1, <2>1, <2>2, <2>6, PaidFailure
  <2>8. EntriesInOrder'
    <3>1. \A d \in Entries : holding'[d] # None <=> holding[d] # None
      BY <2>2, <2>4, <2>5
    <3>2. Vacancy' - Vacancy <= events' - events
      BY <1>1, <2>1, Falls
    <3> QED BY <1>1, <3>1, <3>2, OrderKept
  <2>9. InstalledHolds'
    <3>1. installed # None => installed \in Entries
      BY <1>1 DEF RegistryTyped
    <3>2. CASE installed = e
      BY <2>1, <3>2 DEF InstalledHolds
    <3>3. CASE installed # e
      BY <1>1, <2>1, <2>5, <3>1, <3>3 DEF InstalledHolds
    <3> QED BY <3>2, <3>3
  <2>10. AwaitedExist'
    BY <1>1, <1>2, <2>3, <2>4, <2>5 DEF AwaitedExist
  <2> QED BY <2>7, <2>8, <2>9, <2>10 DEF Counted
<1> QED BY <1>4, <1>5, <1>6, <1>7, <1>8

----------------------------------------------------------------------------
(* The theorems.                                                           *)

LEMMA InvInit == Init => IInv
<1> SUFFICES ASSUME Init PROVE IInv
  OBVIOUS
<1>1. /\ MaxEvents \in Nat /\ Len(Contents) \in Nat
      /\ None \notin Entries /\ Entries = 1 .. 1 + MaxEvents
  BY SearchAssumption, CatalogNumbers, NilAssumption DEF Entries
<1>2. RegistryTyped
  <2>1. builder \in [Catalogs -> BuilderRecords]
    BY BuildersFit DEF Init
  <2>2. holding \in [Entries -> (1 .. compiled) \cup Nils]
    BY DEF Init, Nils
  <2>3. closed \in BOOLEAN
    <3>1. closed = FALSE
      BY DEF Init
    <3> QED BY <3>1
  <2>4. /\ compiled \in 0 .. Len(Contents) /\ events \in 0 .. MaxEvents
        /\ installed \in Entries \cup {None} /\ superseded \subseteq Entries
    BY <1>1 DEF Init
  <2> QED BY <2>1, <2>2, <2>3, <2>4 DEF RegistryTyped
<1>3. /\ client \in [Clients -> ClientRecords]
      /\ \A c \in Clients : RecordOK(client[c]) /\ client[c].pc = "idle"
  BY NewRecord DEF Init, RecordOK
<1>4. ClientsTyped
  BY <1>3 DEF ClientsTyped
<1>5. Makers = {} /\ Stranded = {} /\ Vacancy = 1 /\ compiled = 0 /\ events = 0
  BY <1>3 DEF Init, Makers, Stranded, Vacancy
<1>6. EntriesInOrder
  <2>1. 0 \in 0 .. 1 + MaxEvents /\ \A e \in Entries : holding[e] # None <=> e <= 0
    BY <1>1 DEF Init
  <2>2. 0 + Vacancy <= 1 + events
    BY <1>5
  <2> QED BY <2>1, <2>2 DEF EntriesInOrder
<1>7. InstalledHolds /\ AwaitedExist
  BY <1>3 DEF Init, InstalledHolds, AwaitedExist
<1>8. CompilesPaid
  <2>1. Cardinality({}) = 0 /\ Cardinality(Clients) \in Nat
    BY FS_EmptySet, CatalogNumbers
  <2>2. Budget(0) = 1
    BY <2>1 DEF Budget
  <2> QED BY <1>5, <2>1, <2>2 DEF CompilesPaid
<1> QED BY <1>2, <1>4, <1>6, <1>7, <1>8 DEF IInv, Typed, Counted

LEMMA InvStep == IInv /\ [Next]_vars => IInv'
<1> SUFFICES ASSUME IInv, [Next]_vars PROVE IInv'
  OBVIOUS
<1>1. CASE UNCHANGED vars
  BY <1>1 DEF vars, IInv, Typed, RegistryTyped, ClientsTyped, Counted, EntriesInOrder,
              InstalledHolds, AwaitedExist, CompilesPaid, Makers, Stranded, Vacancy
<1>2. CASE Next
  <2>1. CASE RegistryStep
    BY <2>1, RegistryStepTyped, RegistryStepCounted DEF IInv
  <2>2. ASSUME NEW c \in Clients,
               Begins(c) \/ Settles(c) \/ Compile(c) \/ CompilesAgain(c) \/ CompileFails(c)
        PROVE  IInv'
    BY <2>2, ClientStepTyped, ClientStepCounted DEF IInv
  <2> QED BY <1>2, <2>1, <2>2, StepKinds DEF IInv
<1> QED BY <1>1, <1>2

LEMMA Invariance == Spec => []IInv
  BY InvInit, InvStep, PTL DEF Spec

\* Every variable keeps its kind of value, and a registry never compiles more
\* catalogs than it had reason to: whoever uses one uses one that was compiled
\* (registry.go Get, finishRefresh and Refresh each hand on what they compiled).
THEOREM TypeCorrect == Spec => []TypeOK
<1>1. IInv => TypeOK
  BY DEF IInv, Typed, RegistryTyped, ClientsTyped, ClientRecords, TypeOK, Nils
<1> QED BY <1>1, Invariance, PTL

\* A client that follows hasMore to the end through the pages of one catalog
\* has seen the whole promoted ranking, each tool once: however the limits of
\* the pages differ, whatever refreshes and retries come between, and although
\* each page is cut from a prefix that was fetched and promoted anew
\* (search.go Search, promoteExactName).
THEOREM WalkFindsAllCorrect == Spec => []WalkFindsAll
<1>1. IInv => WalkFindsAll
  <2> SUFFICES ASSUME IInv, NEW c \in Clients, client[c].answer.kind = "page",
                      ~client[c].answer.hasMore, client[c].of # None
               PROVE  client[c].walk = Shown(client[c].of, Full(client[c].of, client[c].text))
    BY DEF WalkFindsAll, Shown, Full
  <2> DEFINE r == client[c]
             full == Full(r.of, r.text)
  <2>1. RecordOK(r) /\ r \in ClientRecords
    BY DEF IInv, Typed, ClientsTyped, RecordOK
  <2>2. Known(r.of) /\ r.text \in Texts /\ r.walk \in Seq(Hits)
    BY <2>1 DEF RecordOK, ClientRecords, Offered, Known
  <2>3. full \in Seq(DOMAIN r.of.tools)
    BY <2>2, ContentsFit, PromoteFits DEF Full
  <2>4. /\ Len(r.walk) <= Len(full)
        /\ \A k \in 1 .. Len(r.walk) : r.walk[k] = Hit(r.of, full[k])
        /\ ~(Len(r.walk) < Len(full))
    BY <2>1 DEF RecordOK, WalkOK
  <2> HIDE DEF full
  <2>5. Len(r.walk) = Len(full) /\ Len(full) \in Nat
    BY <2>2, <2>3, <2>4, LenProperties
  <2>6. /\ Shown(r.of, full) \in Seq(Hits)
        /\ Len(Shown(r.of, full)) = Len(full)
        /\ \A k \in 1 .. Len(full) : Shown(r.of, full)[k] = Hit(r.of, full[k])
    BY <2>2, <2>3, ShownFits, Zenon
  <2>7. \A k \in 1 .. Len(r.walk) : r.walk[k] = Shown(r.of, full)[k]
    BY <2>4, <2>5, <2>6
  <2>8. r.walk = Shown(r.of, full)
    BY <2>2, <2>5, <2>6, <2>7, SeqEqual
  <2> QED BY <2>8 DEF full
<1> QED BY <1>1, Invariance, PTL

\* What call_tool runs is the tool of the component and with the definition that
\* search_tools showed, whatever refreshes came between (tool_calls.go
\* ResolveToolCall compares the revision, search.go Revision digests both).
THEOREM CallRunsWhatWasFoundCorrect == Spec => []CallRunsWhatWasFound
<1>1. IInv => CallRunsWhatWasFound
  BY DEF IInv, Typed, ClientsTyped, RecordOK, CallRunsWhatWasFound
<1> QED BY <1>1, Invariance, PTL

\* A search whose index is published is told to retry by its timer only: of the
\* two channels that the builder closes, await does not take the wrong one
\* (search.go await, run).
THEOREM PublishedIndexAnswersCorrect == Spec => PublishedIndexAnswers
<1> DEFINE Answered == \A c \in Clients :
              Awaits(c) /\ builder[client[c].at].ready =>
                 Awaits(c)' \/ client'[c].answer.kind # "not_ready"
<1>1. ASSUME IInv, [Next]_vars PROVE Answered
  <2> SUFFICES ASSUME NEW c \in Clients, Awaits(c), builder[client[c].at].ready,
                      ~(Awaits(c)')
               PROVE  client'[c].answer.kind # "not_ready"
    OBVIOUS
  <2>1. /\ client \in [Clients -> ClientRecords] /\ RecordOK(client[c]) /\ ClientsTyped
        /\ client[c].pc = "using" /\ client[c].called = None
        /\ LimitOf(client[c].limit) >= 1
    BY <1>1 DEF IInv, Typed, ClientsTyped, Awaits
  <2>2. client'[c] # client[c]
    BY <2>1 DEF Awaits
  <2>3. \A d \in Clients : \A n : client' = [client EXCEPT ![d] = n] => d = c
    BY <2>1, <2>2
  <2>4. client' # client
    BY <2>2
  <2>5. ASSUME End(c) PROVE client'[c].answer.kind # "not_ready"
    <3>1. client'[c] = NewClient
      BY <2>1, <2>5 DEF End
    <3> QED BY <3>1, NewRecord DEF Answer
  <2>6. ASSUME NEW d \in Clients, NEW request, Arrive(d, request), client[d].pc = "idle"
        PROVE  FALSE
    <3>1. \E n : client' = [client EXCEPT ![d] = n]
      BY <2>6 DEF Arrive
    <3> QED BY <2>1, <2>3, <2>6, <3>1
  <2>7. ASSUME NEW d \in Clients, Uses(d) \/ Finds(d) PROVE client'[c].answer.kind # "not_ready"
    <3>1. CASE Resolves(d)
      <4>1. \E n : client' = [client EXCEPT ![d] = n]
        BY <3>1 DEF Resolves, End
      <4> QED BY <2>1, <2>3, <3>1, <4>1 DEF Resolves
    <3>2. CASE RefusesArguments(d)
      <4>1. \E n : client' = [client EXCEPT ![d] = n]
        BY <3>2 DEF RefusesArguments, End
      <4>2. d = c
        BY <2>3, <4>1
      <4> QED BY <2>5, <3>2, <4>2 DEF RefusesArguments
    <3>3. CASE FindsReady(d)
      <4> DEFINE r == client[d]
                 o == Contents[r.at]
                 found == Search(o, r.text, LimitOf(r.limit), Len(r.walk))
                 n == [r EXCEPT !.pc = "idle", !.at = 0,
                                !.answer = [kind |-> "page", hasMore |-> found.hasMore],
                                !.walk = r.walk \o found.hits,
                                !.of = IF r.walk = <<>> \/ r.of = o THEN o ELSE None]
      <4>1. client' = [client EXCEPT ![d] = n]
        BY <3>3 DEF FindsReady
      <4>2. d = c
        BY <2>3, <4>1
      <4>3. n.answer.kind = "page"
        BY <2>1, <4>2, FoundFits
      <4> HIDE DEF n
      <4> QED BY <2>1, <4>1, <4>2, <4>3
    <3>4. CASE FindsStopped(d)
      <4>1. \E n : client' = [client EXCEPT ![d] = n]
        BY <3>4 DEF FindsStopped, ToldToRetry
      <4>2. d = c
        BY <2>3, <4>1
      <4> QED BY <3>4, <4>2 DEF FindsStopped
    <3>5. CASE Joins(d)
      <4>1. \E n : client' = [client EXCEPT ![d] = n]
        BY <3>5 DEF Joins, UseCatalog
      <4>2. d = c
        BY <2>3, <4>1
      <4> QED BY <2>1, <3>5, <4>2 DEF Joins
    <3> QED BY <2>7, <3>1, <3>2, <3>3, <3>4, <3>5 DEF Uses, Finds
  <2>8. ASSUME NEW d \in Clients, TimesOut(d) \/ Cancels(d)
        PROVE  client'[c].answer.kind # "not_ready"
    <3>1. \E n : client' = [client EXCEPT ![d] = n]
      BY <2>8 DEF TimesOut, ToldToRetry, Cancels, End
    <3>2. d = c
      BY <2>3, <3>1
    <3>3. ASSUME TimesOut(c) PROVE client'[c].answer.kind = "timed_out"
      BY <2>1, <3>3 DEF TimesOut, ToldToRetry, Answer, ClientRecords
    <3> QED BY <2>5, <2>8, <3>2, <3>3 DEF Cancels
  <2>9. ASSUME NEW d \in Clients,
               CompileFails(d) \/ JoinFails(d) \/ Compile(d) \/ CompilesAgain(d)
        PROVE  FALSE
    <3>1. client[d].pc # "using"
      BY <2>9 DEF CompileFails, JoinFails, Compile, CompilesAgain
    <3>2. \E n : client' = [client EXCEPT ![d] = n]
      BY <2>9 DEF CompileFails, JoinFails, Compile, CompilesAgain, End, UseCatalog
    <3> QED BY <2>1, <2>3, <3>1, <3>2
  <2>10. ASSUME RegistryStep PROVE FALSE
    <3>1. client' = client
      BY <2>10 DEF RegistryStep, BuilderStep, FinishRefresh, RefreshStops, RefreshReplaces,
                   InvalidateComponent, Close
    <3> QED BY <2>4, <3>1
  <2>11. \A a \in Asks : ~AskFirst(a)
    BY <2>6, SearchAssumption DEF AskFirst
  <2>12. \A d \in Clients : ~AskAgain(d) /\ \A h : ~Call(d, h)
    BY <2>6 DEF AskAgain, Call
  <2>13. ~UNCHANGED vars
    BY <2>4 DEF vars
  <2> QED BY <1>1, <2>7, <2>8, <2>9, <2>10, <2>11, <2>12, <2>13 DEF Next, RegistryStep
<1>2. IInv /\ [Next]_vars => [Answered]_vars
  BY <1>1
<1> HIDE DEF Answered
<1>3. Spec => [][Answered]_vars
  BY <1>2, Invariance, PTL DEF Spec
<1> QED BY <1>3 DEF PublishedIndexAnswers, Answered

=============================================================================
