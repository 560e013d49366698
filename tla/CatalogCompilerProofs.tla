------------------------ MODULE CatalogCompilerProofs ------------------------
(***************************************************************************)
(* Proofs about CatalogCompiler, for any configurations, answers of the    *)
(* components, numbers of workers and page sizes.                          *)
(*                                                                         *)
(* The first part is about data: a finite set in an order, and what the    *)
(* routes of a compile are. The second follows the workers of a discovery, *)
(* and the third a client through the pages. The last two compare what two *)
(* compiles would show now: of a part of a configuration and of the whole, *)
(* for a call and for reading resources.                                   *)
(***************************************************************************)
EXTENDS CatalogCompiler, FiniteSetTheorems, SequenceTheorems, WellFoundedInduction, TLAPS

----------------------------------------------------------------------------
(* Order.                                                                  *)

StrictOrder(R, S) ==
    /\ \A x \in S : <<x, x>> \notin R
    /\ \A x, y, z \in S : <<x, y>> \in R /\ <<y, z>> \in R => <<x, z>> \in R
    /\ \A x, y \in S : x = y \/ <<x, y>> \in R \/ <<y, x>> \in R

Below(x, R, S) == {y \in S : <<y, x>> \in R}

LEMMA FewerBelow ==
    ASSUME NEW S, IsFiniteSet(S), NEW R, StrictOrder(R, S), NEW x \in S
    PROVE  /\ Cardinality(Below(x, R, S)) \in 0 .. Cardinality(S) - 1
           /\ \A y \in S : <<x, y>> \in R =>
                 Cardinality(Below(x, R, S)) # Cardinality(Below(y, R, S))
<1>1. IsFiniteSet(S \ {x}) /\ Cardinality(S \ {x}) = Cardinality(S) - 1
  BY FS_RemoveElement
<1>2. Below(x, R, S) \in SUBSET (S \ {x})
  BY DEF Below, StrictOrder
<1>3. /\ IsFiniteSet(Below(x, R, S))
      /\ Cardinality(Below(x, R, S)) <= Cardinality(S \ {x})
  BY <1>1, <1>2, FS_Subset, Zenon
<1>4. Cardinality(Below(x, R, S)) \in Nat /\ Cardinality(S) \in Nat
  BY <1>3, FS_CardinalityType
<1>5. Cardinality(Below(x, R, S)) \in 0 .. Cardinality(S) - 1
  BY <1>1, <1>3, <1>4
<1>6. ASSUME NEW y \in S, <<x, y>> \in R
      PROVE  Cardinality(Below(x, R, S)) # Cardinality(Below(y, R, S))
  <2>1. IsFiniteSet(Below(y, R, S))
    BY FS_Subset DEF Below
  <2>2. Below(x, R, S) \in SUBSET Below(y, R, S)
    BY <1>6 DEF Below, StrictOrder
  <2>3. Below(x, R, S) # Below(y, R, S)
    BY <1>6 DEF Below, StrictOrder
  <2> QED BY <2>1, <2>2, <2>3, FS_Subset
<1> QED BY <1>5, <1>6

\* InOrder lists each element of the set once.
LEMMA InOrderLists ==
    ASSUME NEW S, IsFiniteSet(S), NEW R, StrictOrder(R, S)
    PROVE  /\ Cardinality(S) \in Nat
           /\ InOrder(S, R) \in [1 .. Cardinality(S) -> S]
           /\ \A i, j \in 1 .. Cardinality(S) :
                 InOrder(S, R)[i] = InOrder(S, R)[j] => i = j
           /\ \A x \in S : \E i \in 1 .. Cardinality(S) : InOrder(S, R)[i] = x
<1> DEFINE n == Cardinality(S)
           Rank == [x \in S |-> Cardinality(Below(x, R, S))]
<1>1. n \in Nat
  BY FS_CardinalityType
<1>2. Rank \in [S -> 0 .. n - 1]
  BY FewerBelow
<1>3. \A x, y \in S : Rank[x] = Rank[y] => x = y
  <2> SUFFICES ASSUME NEW x \in S, NEW y \in S, x # y PROVE Rank[x] # Rank[y]
    OBVIOUS
  <2>1. <<x, y>> \in R \/ <<y, x>> \in R
    BY DEF StrictOrder
  <2> QED BY <2>1, FewerBelow
<1>4. ASSUME NEW k \in 0 .. n - 1 PROVE \E x \in S : Rank[x] = k
  <2> DEFINE T == (0 .. n - 1) \ {k}
  <2> SUFFICES ASSUME \A x \in S : Rank[x] # k PROVE FALSE
    OBVIOUS
  <2>1. IsFiniteSet(0 .. n - 1) /\ Cardinality(0 .. n - 1) = n
    <3>1. 0 \in Int /\ n - 1 \in Int /\ ~(0 > n - 1) /\ (n - 1) - 0 + 1 = n
      BY <1>1
    <3> QED BY <3>1, FS_Interval
  <2>2. IsFiniteSet(T) /\ Cardinality(T) = n - 1
    <3>1. k \in 0 .. n - 1
      BY <1>4
    <3> HIDE DEF n
    <3> QED BY <2>1, <3>1, FS_RemoveElement
  <2>3. Rank \in [S -> T]
    BY <1>2
  <2>4. Cardinality(T) < n
    BY <1>1, <2>2
  <2> HIDE DEF T, Rank
  <2>5. \E x, y \in S : x # y /\ Rank[x] = Rank[y]
    BY <2>2, <2>3, <2>4, FS_PigeonHole DEF n
  <2> QED BY <1>3, <2>5
<1>5. ASSUME NEW k \in 1 .. n
      PROVE  InOrder(S, R)[k] \in S /\ Rank[InOrder(S, R)[k]] = k - 1
  <2>1. InOrder(S, R)[k] = CHOOSE x \in S : Cardinality(Below(x, R, S)) = k - 1
    BY DEF InOrder, Below
  <2>2. k - 1 \in 0 .. n - 1
    BY <1>1
  <2>3. \E x \in S : Rank[x] = k - 1
    BY <1>4, <2>2
  <2> QED BY <2>1, <2>3
<1>6. InOrder(S, R) \in [1 .. n -> S]
  <2>1. \E op : InOrder(S, R) = [k \in 1 .. n |-> op[k]]
    <3> DEFINE op == [k \in 1 .. n |-> CHOOSE x \in S : Cardinality(Below(x, R, S)) = k - 1]
    <3>1. InOrder(S, R) = op
      BY DEF InOrder, Below
    <3>2. op = [k \in 1 .. n |-> op[k]]
      OBVIOUS
    <3> QED BY <3>1, <3>2
  <2> QED BY <1>5, <2>1
<1>7. ASSUME NEW i \in 1 .. n, NEW j \in 1 .. n, InOrder(S, R)[i] = InOrder(S, R)[j]
      PROVE  i = j
  <2>1. i - 1 = j - 1
    BY <1>5, <1>7
  <2> QED BY <1>1, <2>1
<1>8. ASSUME NEW x \in S PROVE \E i \in 1 .. n : InOrder(S, R)[i] = x
  <2>1. Rank[x] + 1 \in 1 .. n /\ (Rank[x] + 1) - 1 = Rank[x]
    BY <1>1, <1>2
  <2>2. InOrder(S, R)[Rank[x] + 1] \in S /\ Rank[InOrder(S, R)[Rank[x] + 1]] = Rank[x]
    BY <1>5, <2>1
  <2> QED BY <1>3, <2>1, <2>2
<1> QED BY <1>1, <1>6, <1>7, <1>8

Lower(P) == {p \in P \X P : p[1] < p[2]}

LEMMA LowerOrders == ASSUME NEW P \in SUBSET Nat PROVE StrictOrder(Lower(P), P)
<1>1. \A x, y \in P : <<x, y>> \in Lower(P) <=> x < y
  BY DEF Lower
<1> QED BY <1>1 DEF StrictOrder

\* Select takes each of the positions once.
LEMMA Selected ==
    ASSUME NEW X, NEW s \in Seq(X), NEW P \in SUBSET (DOMAIN s)
    PROVE  /\ Select(s, P) \in Seq(X)
           /\ \A k \in DOMAIN Select(s, P) : \E i \in P : Select(s, P)[k] = s[i]
           /\ \A i \in P : \E k \in DOMAIN Select(s, P) : Select(s, P)[k] = s[i]
           /\ \A j, k \in DOMAIN Select(s, P) :
                 (\A i, m \in P : s[i] = s[m] => i = m) /\ Select(s, P)[j] = Select(s, P)[k]
                    => j = k
<1> DEFINE ord == InOrder(P, Lower(P))
           n == Cardinality(P)
<1>1. IsFiniteSet(P) /\ P \in SUBSET Nat
  <2>1. DOMAIN s = 1 .. Len(s) /\ Len(s) \in Nat
    OBVIOUS
  <2>2. IsFiniteSet(1 .. Len(s))
    BY <2>1, FS_Interval
  <2> QED BY <2>1, <2>2, FS_Subset
<1>2. /\ n \in Nat /\ ord \in [1 .. n -> P]
      /\ \A i, j \in 1 .. n : ord[i] = ord[j] => i = j
      /\ \A i \in P : \E k \in 1 .. n : ord[k] = i
  BY <1>1, LowerOrders, InOrderLists
<1>3. Select(s, P) = [k \in DOMAIN ord |-> s[ord[k]]]
  BY DEF Select, Lower
<1> HIDE DEF ord, n
<1>4. DOMAIN ord = 1 .. n /\ \A k \in 1 .. n : ord[k] \in P /\ s[ord[k]] \in X
  BY <1>2
<1>5. DOMAIN Select(s, P) = 1 .. n /\ \A k \in 1 .. n : Select(s, P)[k] = s[ord[k]]
  BY <1>3, <1>4
<1>6. Select(s, P) \in Seq(X)
  BY <1>2, <1>3, <1>4
<1>7. \A i \in P : \E k \in DOMAIN Select(s, P) : Select(s, P)[k] = s[i]
  BY <1>2, <1>5
<1>8. ASSUME NEW j \in 1 .. n, NEW k \in 1 .. n,
             \A i, m \in P : s[i] = s[m] => i = m, Select(s, P)[j] = Select(s, P)[k]
      PROVE  j = k
  BY <1>2, <1>4, <1>5, <1>8
<1> QED BY <1>4, <1>5, <1>6, <1>7, <1>8

LEMMA SelectedNone == ASSUME NEW s PROVE Select(s, {}) = <<>>
<1>1. Cardinality({}) = 0
  BY FS_EmptySet
<1>2. DOMAIN InOrder({}, Lower({})) = {}
  BY <1>1 DEF InOrder
<1> QED BY <1>2 DEF Select, Lower

LEMMA SelectedOne ==
    ASSUME NEW s, NEW i \in Nat
    PROVE  Select(s, {i}) = <<s[i]>>
<1> DEFINE ord == InOrder({i}, Lower({i}))
<1>1. Cardinality({i}) = 1 /\ IsFiniteSet({i})
  BY FS_Singleton
<1>2. ord \in [1 .. 1 -> {i}]
  <2>1. StrictOrder(Lower({i}), {i})
    BY LowerOrders
  <2> QED BY <1>1, <2>1, InOrderLists
<1>3. Select(s, {i}) = [k \in DOMAIN ord |-> s[ord[k]]]
  BY DEF Select, Lower
<1>4. DOMAIN ord = {1} /\ ord[1] = i
  BY <1>2
<1> HIDE DEF ord
<1> QED BY <1>3, <1>4

----------------------------------------------------------------------------
(* Finite sets.                                                            *)

LEMMA ImageIsFinite ==
    ASSUME NEW S, IsFiniteSet(S), NEW g, DOMAIN g = S
    PROVE  IsFiniteSet({g[x] : x \in S})
<1> DEFINE T == {g[x] : x \in S}
           h == [x \in S |-> g[x]]
<1>1. h \in Surjection(S, T)
  BY DEF Surjection
<1> HIDE DEF h
<1> QED BY <1>1, FS_Surjection

LEMMA ToSetIsFinite ==
    ASSUME NEW X, NEW s \in Seq(X) PROVE IsFiniteSet(ToSet(s))
<1>1. DOMAIN s = 1 .. Len(s) /\ Len(s) \in Nat
  OBVIOUS
<1>2. IsFiniteSet(DOMAIN s)
  BY <1>1, FS_Interval
<1> QED BY <1>2, ImageIsFinite DEF ToSet

----------------------------------------------------------------------------
(* The routes of a compile.                                                *)

LEMMA TokensFit ==
    /\ Underscore \in Nat /\ Forbidden \in Nat /\ Wrapper \in Nat /\ Colon \in Nat
    /\ MaxNameLength \in Nat /\ AuthTool \in Texts
    /\ SearchToolName \in Texts /\ CallToolName \in Texts
  BY TokenAssumption

LEMMA PrefixFits ==
    ASSUME NEW cfg, NEW s \in ServerRecords
    PROVE  PrefixIn(cfg, s) \in Texts
  BY DEF PrefixIn, Prefix, ServerRecords, Texts

LEMMA IdentityFits ==
    ASSUME NEW f, NEW prefix \in Texts, NEW local \in Texts
    PROVE  Identity(f, prefix, local) \in Texts
<1>1. Join(prefix, local) \in Texts
  <2>1. <<Underscore, Underscore>> \in Seq(Nat)
    BY TokensFit
  <2>2. prefix \o local \in Seq(Nat) /\ (prefix \o <<Underscore, Underscore>>) \o local \in Seq(Nat)
    BY <2>1 DEF Texts
  <2> QED BY <2>2 DEF Join, Texts
<1>2. Wrap(prefix, local) \in Texts
  <2>1. <<Wrapper>> \in Seq(Nat) /\ <<Colon>> \in Seq(Nat)
    BY TokensFit
  <2>2. ((<<Wrapper>> \o prefix) \o <<Colon>>) \o local \in Seq(Nat)
    BY <2>1 DEF Texts
  <2> QED BY <2>2 DEF Wrap, Texts
<1> QED BY <1>1, <1>2 DEF Identity

LEMMA OverridesFit ==
    ASSUME NEW s \in ServerRecords, NEW f \in Families
    PROVE  s.overrides[f] \in Seq(OverrideRecords)
  BY DEF ServerRecords

LEMMA LocalFits ==
    ASSUME NEW s \in ServerRecords, NEW f \in Families, NEW id \in Texts
    PROVE  Local(s, f, id) \in Texts
<1> DEFINE renamed == {o \in OverridesOf(s, f, id) : o.as # <<>>}
<1>1. \A o \in renamed : o.as \in Texts
  <2>1. s.overrides[f] \in Seq(OverrideRecords)
    BY OverridesFit
  <2>2. \A o \in renamed : \E i \in DOMAIN s.overrides[f] : o = s.overrides[f][i]
    BY DEF OverridesOf, ToSet
  <2>3. \A o \in renamed : o \in OverrideRecords
    BY <2>1, <2>2
  <2> QED BY <2>3 DEF OverrideRecords
<1>2. CASE renamed = {}
  BY <1>2 DEF Local
<1>3. CASE renamed # {}
  <2>1. (CHOOSE o \in renamed : TRUE) \in renamed
    BY <1>3
  <2> QED BY <1>1, <1>3, <2>1 DEF Local
<1> QED BY <1>2, <1>3

LEMMA MappingsFit ==
    ASSUME NEW s \in ServerRecords, NEW f \in Families
    PROVE  Mappings(s, f) \in Seq(Items)
<1> DEFINE overrides == s.overrides[f]
           P == {i \in DOMAIN overrides : overrides[i].enabled}
           enabled == Select(overrides, P)
<1>1. overrides \in Seq(OverrideRecords) /\ P \in SUBSET (DOMAIN overrides)
  BY OverridesFit
<1>2. enabled \in Seq(OverrideRecords)
  BY <1>1, Selected
<1>3. Mappings(s, f) = [i \in DOMAIN enabled |-> [id |-> enabled[i].item, def |-> 0]]
  BY DEF Mappings
<1> HIDE DEF enabled
<1>4. \A i \in DOMAIN enabled : [id |-> enabled[i].item, def |-> 0] \in Items
  <2> TAKE i \in DOMAIN enabled
  <2>1. enabled[i] \in OverrideRecords
    BY <1>2
  <2>2. enabled[i].item \in Texts
    BY <2>1 DEF OverrideRecords
  <2> QED BY <2>2 DEF Items
<1> QED BY <1>2, <1>3, <1>4

LEMMA DiscoveredFits ==
    ASSUME NEW s \in ServerRecords, NEW features \in FeatureRecords, NEW f \in Families
    PROVE  Discovered(s, features, f) \in Seq(Items \cup {Nil})
<1>1. features[f] \in Seq(Items \cup {Nil})
  BY DEF FeatureRecords
<1>2. Mappings(s, f) \in Seq(Items \cup {Nil})
  BY MappingsFit
<1>3. features[f] \o Mappings(s, f) \in Seq(Items \cup {Nil})
  BY <1>1, <1>2, ConcatProperties
<1> QED BY <1>1, <1>3, Zenon DEF Discovered

LEMMA ListedFits ==
    ASSUME NEW s, NEW features \in FeatureRecords
    PROVE  Listed(s, features) \in FeatureRecords
<1>1. \A f \in Families : <<>> \in Seq(Items \cup {Nil}) /\ features[f] \in Seq(Items \cup {Nil})
  BY DEF FeatureRecords
<1> QED BY <1>1 DEF Listed, FeatureRecords

\* The route of one item.
RouteOf(s, prefix, f, item) ==
    [family    |-> f,
     exposed   |-> Identity(f, prefix, Local(s, f, item.id)),
     component |-> s.name,
     prefix    |-> prefix,
     original  |-> item.id,
     def       |-> item.def]

\* The items that a compile shows.
Visible(s, features, f) ==
    {item \in ToSet(Discovered(s, features, f)) : Compiles(s, f) /\ ~Hidden(s, f, item.id)}

LEMMA RoutesAre ==
    ASSUME NEW s, NEW prefix, NEW features
    PROVE  \A r : r \in Routes(s, prefix, features) <=>
              \E f \in Families : \E item \in Visible(s, features, f) :
                 r = RouteOf(s, prefix, f, item)
<1> DEFINE Shows(f) == {item \in ToSet(Discovered(s, features, f)) : ~Hidden(s, f, item.id)}
           Of(f) == {RouteOf(s, prefix, f, item) : item \in Shows(f)}
           Kinds == {f \in Families : Compiles(s, f)}
<1>1. Routes(s, prefix, features) = UNION {Of(f) : f \in Kinds}
  BY DEF Routes, RouteOf
<1>2. \A r : r \in Routes(s, prefix, features) <=> \E f \in Kinds : r \in Of(f)
  BY <1>1
<1>3. \A f : \A r : r \in Of(f) <=> \E item \in Shows(f) : r = RouteOf(s, prefix, f, item)
  OBVIOUS
<1>4. \A f \in Families : \A item : item \in Visible(s, features, f) <=>
         f \in Kinds /\ item \in Shows(f)
  BY DEF Visible
<1> HIDE DEF Of, Shows, Kinds
<1>5. Kinds \in SUBSET Families
  BY DEF Kinds
<1> SUFFICES ASSUME NEW r
             PROVE  r \in Routes(s, prefix, features) <=>
                      \E f \in Families : \E item \in Visible(s, features, f) :
                         r = RouteOf(s, prefix, f, item)
  OBVIOUS
<1>6. ASSUME r \in Routes(s, prefix, features)
      PROVE  \E f \in Families : \E item \in Visible(s, features, f) :
                r = RouteOf(s, prefix, f, item)
  <2>1. PICK f \in Kinds : r \in Of(f)
    BY <1>2, <1>6
  <2>2. PICK item \in Shows(f) : r = RouteOf(s, prefix, f, item)
    BY <1>3, <2>1
  <2>3. f \in Families /\ item \in Visible(s, features, f)
    BY <1>4, <1>5, <2>1, <2>2
  <2> QED BY <2>2, <2>3
<1>7. ASSUME NEW f \in Families, NEW item \in Visible(s, features, f),
             r = RouteOf(s, prefix, f, item)
      PROVE  r \in Routes(s, prefix, features)
  BY <1>2, <1>3, <1>4, <1>7
<1> QED BY <1>6, <1>7

\* Features that compile have no nil items, nor two of one name.
LEMMA ItemsAreProper ==
    ASSUME NEW s \in ServerRecords, NEW prefix, NEW features \in FeatureRecords,
           ~Invalid(s, prefix, features), NEW f \in Families, Compiles(s, f)
    PROVE  /\ \A item \in ToSet(Discovered(s, features, f)) : item \in Items
           /\ \A a, b \in ToSet(Discovered(s, features, f)) : a.id = b.id => a = b
<1> DEFINE items == Discovered(s, features, f)
<1>1. items \in Seq(Items \cup {Nil})
  BY DiscoveredFits
<1>2. /\ Nil \notin ToSet(items)
      /\ \A i, j \in DOMAIN items : items[i].id = items[j].id => i = j
  BY DEF Invalid
<1> HIDE DEF items
<1>3. \A item \in ToSet(items) : item \in Items \cup {Nil}
  BY <1>1 DEF ToSet
<1>4. \A a, b \in ToSet(items) : a.id = b.id => a = b
  BY <1>2 DEF ToSet
<1> QED BY <1>2, <1>3, <1>4 DEF items

LEMMA RoutesFit ==
    ASSUME NEW s \in ServerRecords, NEW prefix \in Texts, NEW features \in FeatureRecords,
           ~Invalid(s, prefix, features)
    PROVE  /\ IsFiniteSet(Routes(s, prefix, features))
           /\ \A r \in Routes(s, prefix, features) :
                 r \in RouteRecords /\ r.component = s.name /\ r.prefix = prefix
<1>1. \A f \in Families : IsFiniteSet({RouteOf(s, prefix, f, item) : item \in Visible(s, features, f)})
  <2> TAKE f \in Families
  <2>1. IsFiniteSet(Visible(s, features, f))
    <3>1. IsFiniteSet(ToSet(Discovered(s, features, f)))
      BY DiscoveredFits, ToSetIsFinite
    <3>2. Visible(s, features, f) \in SUBSET ToSet(Discovered(s, features, f))
      BY DEF Visible
    <3> QED BY <3>1, <3>2, FS_Subset
  <2> DEFINE g == [item \in Visible(s, features, f) |-> RouteOf(s, prefix, f, item)]
  <2>2. {RouteOf(s, prefix, f, item) : item \in Visible(s, features, f)}
           = {g[item] : item \in Visible(s, features, f)}
    OBVIOUS
  <2>3. DOMAIN g = Visible(s, features, f)
    OBVIOUS
  <2> HIDE DEF g
  <2> QED BY <2>1, <2>2, <2>3, ImageIsFinite
<1> DEFINE Of(f) == {RouteOf(s, prefix, f, item) : item \in Visible(s, features, f)}
<1>2. Routes(s, prefix, features)
         \in SUBSET (((Of("tools") \cup Of("prompts")) \cup Of("resources"))
                       \cup Of("resourceTemplates"))
  BY RoutesAre DEF Families
<1>3. IsFiniteSet(((Of("tools") \cup Of("prompts")) \cup Of("resources"))
                    \cup Of("resourceTemplates"))
  <2>1. /\ IsFiniteSet(Of("tools")) /\ IsFiniteSet(Of("prompts"))
        /\ IsFiniteSet(Of("resources")) /\ IsFiniteSet(Of("resourceTemplates"))
    BY <1>1 DEF Families
  <2> HIDE DEF Of
  <2>2. IsFiniteSet(Of("tools") \cup Of("prompts"))
    BY <2>1, FS_Union
  <2>3. IsFiniteSet((Of("tools") \cup Of("prompts")) \cup Of("resources"))
    BY <2>1, <2>2, FS_Union
  <2> QED BY <2>1, <2>3, FS_Union
<1>4. IsFiniteSet(Routes(s, prefix, features))
  <2> HIDE DEF Of
  <2> QED BY <1>2, <1>3, FS_Subset
<1>5. ASSUME NEW r \in Routes(s, prefix, features)
      PROVE  r \in RouteRecords /\ r.component = s.name /\ r.prefix = prefix
  <2>1. PICK f \in Families : \E item \in Visible(s, features, f) : r = RouteOf(s, prefix, f, item)
    BY RoutesAre
  <2>2. PICK item \in Visible(s, features, f) : r = RouteOf(s, prefix, f, item)
    BY <2>1
  <2>3. item \in Items
    BY <2>2, ItemsAreProper DEF Visible
  <2>4. item.id \in Texts /\ item.def \in Nat
    BY <2>3 DEF Items
  <2>5. Identity(f, prefix, Local(s, f, item.id)) \in Texts
    BY <2>4, LocalFits, IdentityFits
  <2>6. s.name \in STRING
    BY DEF ServerRecords
  <2> QED BY <2>2, <2>4, <2>5, <2>6 DEF RouteOf, RouteRecords
<1> QED BY <1>4, <1>5

\* Each component was found to have features that compile.
Sound(cfg, features) ==
    \A i \in DOMAIN cfg.servers :
        /\ features[i] \in FeatureRecords
        /\ ~Invalid(cfg.servers[i], PrefixIn(cfg, cfg.servers[i]), features[i])

\* A catalog's routes are those of its configuration's components, and each
\* name has one.
CatalogFits(cfg, catalog) ==
    /\ IsFiniteSet(catalog.routes) /\ ~Clash(catalog.routes)
    /\ \A r \in catalog.routes :
          /\ r \in RouteRecords
          /\ \E s \in ToSet(cfg.servers) : r.component = s.name /\ r.prefix = PrefixIn(cfg, s)

LEMMA ServersFit ==
    ASSUME NEW cfg \in ConfigRecords
    PROVE  /\ cfg.servers \in Seq(ServerRecords)
           /\ \A i \in DOMAIN cfg.servers :
                 /\ cfg.servers[i] \in ServerRecords
                 /\ cfg.servers[i] \in ToSet(cfg.servers)
                 /\ PrefixIn(cfg, cfg.servers[i]) \in Texts
           /\ IsFiniteSet(DOMAIN cfg.servers)
<1>1. cfg.servers \in Seq(ServerRecords)
  BY DEF ConfigRecords
<1>2. \A i \in DOMAIN cfg.servers :
         cfg.servers[i] \in ServerRecords /\ cfg.servers[i] \in ToSet(cfg.servers)
  BY <1>1 DEF ToSet
<1>3. DOMAIN cfg.servers = 1 .. Len(cfg.servers) /\ Len(cfg.servers) \in Nat
  BY <1>1
<1>4. IsFiniteSet(DOMAIN cfg.servers)
  BY <1>3, FS_Interval
<1> QED BY <1>1, <1>2, <1>4, PrefixFits

LEMMA MergedAre ==
    ASSUME NEW cfg, NEW features
    PROVE  \A r : r \in Merged(cfg, features) <=>
              \E i \in DOMAIN cfg.servers :
                 r \in Routes(cfg.servers[i], PrefixIn(cfg, cfg.servers[i]), features[i])
  BY DEF Merged

LEMMA MergedFits ==
    ASSUME NEW cfg \in ConfigRecords, NEW features, Sound(cfg, features)
    PROVE  /\ IsFiniteSet(Merged(cfg, features))
           /\ \A r \in Merged(cfg, features) :
                 /\ r \in RouteRecords
                 /\ \E s \in ToSet(cfg.servers) :
                       r.component = s.name /\ r.prefix = PrefixIn(cfg, s)
<1> DEFINE Of(i) == Routes(cfg.servers[i], PrefixIn(cfg, cfg.servers[i]), features[i])
           g == [i \in DOMAIN cfg.servers |-> Of(i)]
<1>1. ASSUME NEW i \in DOMAIN cfg.servers
      PROVE  /\ IsFiniteSet(Of(i))
             /\ \A r \in Of(i) : /\ r \in RouteRecords
                                 /\ r.component = cfg.servers[i].name
                                 /\ r.prefix = PrefixIn(cfg, cfg.servers[i])
  BY ServersFit, RoutesFit DEF Sound
<1>2. Merged(cfg, features) = UNION {g[i] : i \in DOMAIN cfg.servers}
  BY DEF Merged
<1>3. DOMAIN g = DOMAIN cfg.servers /\ \A i \in DOMAIN cfg.servers : g[i] = Of(i)
  OBVIOUS
<1> HIDE DEF g, Of
<1>4. IsFiniteSet({g[i] : i \in DOMAIN cfg.servers})
  BY <1>3, ServersFit, ImageIsFinite
<1>5. IsFiniteSet(Merged(cfg, features))
  <2> DEFINE F == {g[i] : i \in DOMAIN cfg.servers}
  <2>1. \A T \in F : IsFiniteSet(T)
    BY <1>1, <1>3
  <2>2. IsFiniteSet(F) /\ Merged(cfg, features) = UNION F
    BY <1>2, <1>4
  <2> HIDE DEF F
  <2> QED BY <2>1, <2>2, FS_UNION
<1>6. ASSUME NEW r \in Merged(cfg, features)
      PROVE  /\ r \in RouteRecords
             /\ \E s \in ToSet(cfg.servers) :
                   r.component = s.name /\ r.prefix = PrefixIn(cfg, s)
  <2>1. PICK i \in DOMAIN cfg.servers : r \in Of(i)
    BY <1>2, <1>3
  <2> QED BY <1>1, <2>1, ServersFit
<1> QED BY <1>5, <1>6

LEMMA CatalogOfFits ==
    ASSUME NEW cfg \in ConfigRecords, NEW features, NEW pending,
           pending = {} => Sound(cfg, features) /\ ~Refused(cfg, features)
    PROVE  CatalogFits(cfg, Catalog(cfg, features, pending))
<1>1. CASE pending = {}
  <2>1. Catalog(cfg, features, pending).routes = Merged(cfg, features)
    BY <1>1 DEF Catalog
  <2>2. ~Clash(Merged(cfg, features))
    BY <1>1 DEF Refused
  <2> QED BY <1>1, <2>1, <2>2, MergedFits DEF CatalogFits
<1>2. CASE pending # {}
  <2>1. Catalog(cfg, features, pending).routes = {}
    BY <1>2 DEF Catalog
  <2> QED BY <2>1, FS_EmptySet DEF CatalogFits, Clash
<1> QED BY <1>1, <1>2

NamesDiffer(cfg) ==
    \A i, j \in DOMAIN cfg.servers : cfg.servers[i].name = cfg.servers[j].name => i = j

\* The merged routes show each thing that is offered, and nothing else.
LEMMA MergedShows ==
    ASSUME NEW cfg \in ConfigRecords, NamesDiffer(cfg), NEW features,
           Sound(cfg, features), ~Clash(Merged(cfg, features)),
           Asked = DOMAIN cfg.servers,
           \A i \in DOMAIN cfg.servers : features[i] = asked[i].features
    PROVE  ShowsWhatIsOffered(cfg, [pending |-> <<>>, search |-> cfg.search,
                                    routes |-> Merged(cfg, features)])
<1> DEFINE catalog == [pending |-> <<>>, search |-> cfg.search, routes |-> Merged(cfg, features)]
           Server(i) == cfg.servers[i]
           PrefixOf(i) == PrefixIn(cfg, cfg.servers[i])
<1>1. catalog.routes = Merged(cfg, features)
  OBVIOUS
<1>2. ASSUME NEW r \in Merged(cfg, features)
      PROVE  \E i \in DOMAIN cfg.servers : \E f \in Families :
                \E item \in Visible(Server(i), features[i], f) :
                   r = RouteOf(Server(i), PrefixOf(i), f, item)
  <2>1. PICK i \in DOMAIN cfg.servers : r \in Routes(Server(i), PrefixOf(i), features[i])
    BY <1>2, MergedAre
  <2> QED BY <2>1, RoutesAre
<1>3. ASSUME NEW i \in DOMAIN cfg.servers, NEW f \in Families,
             NEW item \in Visible(Server(i), features[i], f)
      PROVE  RouteOf(Server(i), PrefixOf(i), f, item) \in Merged(cfg, features)
  <2>1. RouteOf(Server(i), PrefixOf(i), f, item)
           \in Routes(Server(i), PrefixOf(i), features[i])
    BY <1>3, RoutesAre
  <2> QED BY <2>1, MergedAre
<1>4. ASSUME NEW i \in DOMAIN cfg.servers, NEW f \in Families,
             NEW item \in Visible(Server(i), features[i], f)
      PROVE  {r \in Merged(cfg, features) : r.family = f /\ Offers(cfg, i, f, item, r)}
                = {RouteOf(Server(i), PrefixOf(i), f, item)}
  <2> DEFINE mine == RouteOf(Server(i), PrefixOf(i), f, item)
  <2>1. mine.family = f /\ mine.component = Server(i).name /\ mine.original = item.id
    BY DEF RouteOf
  <2>2. Offers(cfg, i, f, item, mine)
    BY <2>1 DEF Offers, Visible
  <2>3. ASSUME NEW r \in Merged(cfg, features), r.family = f, Offers(cfg, i, f, item, r)
        PROVE  r = mine
    <3>1. PICK j \in DOMAIN cfg.servers : \E g \in Families :
             \E other \in Visible(Server(j), features[j], g) :
                r = RouteOf(Server(j), PrefixOf(j), g, other)
      BY <1>2
    <3>2. PICK g \in Families : \E other \in Visible(Server(j), features[j], g) :
             r = RouteOf(Server(j), PrefixOf(j), g, other)
      BY <3>1
    <3>3. PICK other \in Visible(Server(j), features[j], g) :
             r = RouteOf(Server(j), PrefixOf(j), g, other)
      BY <3>2
    <3>4. g = f /\ Server(j).name = Server(i).name /\ other.id = item.id
      BY <2>3, <3>3 DEF RouteOf, Offers
    <3>5. j = i
      BY <3>4 DEF NamesDiffer
    <3>6. /\ Compiles(Server(i), f)
          /\ item \in ToSet(Discovered(Server(i), features[i], f))
          /\ other \in ToSet(Discovered(Server(i), features[i], f))
      BY <3>3, <3>4, <3>5 DEF Visible
    <3>7. /\ Server(i) \in ServerRecords /\ features[i] \in FeatureRecords
          /\ ~Invalid(Server(i), PrefixOf(i), features[i])
      BY ServersFit DEF Sound
    <3> HIDE DEF Server, PrefixOf
    <3>8. other = item
      BY <3>4, <3>6, <3>7, ItemsAreProper
    <3> QED BY <3>3, <3>4, <3>5, <3>8
  <2> HIDE DEF mine
  <2> QED BY <1>3, <2>1, <2>2, <2>3 DEF mine
<1>5. ASSUME NEW i \in Asked, NEW f \in Families,
             NEW item \in ToSet(Discovered(cfg.servers[i], asked[i].features, f)),
             Compiles(cfg.servers[i], f), ~Hidden(cfg.servers[i], f, item.id)
      PROVE  Cardinality({r \in catalog.routes : r.family = f /\ Offers(cfg, i, f, item, r)}) = 1
  <2>1. i \in DOMAIN cfg.servers /\ item \in Visible(Server(i), features[i], f)
    BY <1>5 DEF Visible
  <2>2. {r \in Merged(cfg, features) : r.family = f /\ Offers(cfg, i, f, item, r)}
           = {RouteOf(Server(i), PrefixOf(i), f, item)}
    BY <1>4, <2>1
  <2> QED BY <1>1, <2>2, FS_Singleton, Zenon
<1>6. ASSUME NEW r \in catalog.routes
      PROVE  /\ \E i \in Asked :
                   \E item \in ToSet(Discovered(cfg.servers[i], asked[i].features, r.family)) :
                      Offers(cfg, i, r.family, item, r)
             /\ Cardinality(RouteNamed(catalog, r.family, r.exposed)) = 1
  <2>1. PICK i \in DOMAIN cfg.servers : \E f \in Families :
           \E item \in Visible(Server(i), features[i], f) :
              r = RouteOf(Server(i), PrefixOf(i), f, item)
    BY <1>2
  <2>2. PICK f \in Families : \E item \in Visible(Server(i), features[i], f) :
           r = RouteOf(Server(i), PrefixOf(i), f, item)
    BY <2>1
  <2>3. PICK item \in Visible(Server(i), features[i], f) :
           r = RouteOf(Server(i), PrefixOf(i), f, item)
    BY <2>2
  <2>4. r.family = f /\ r.component = Server(i).name /\ r.original = item.id
    BY <2>3 DEF RouteOf
  <2>5. /\ item \in ToSet(Discovered(Server(i), asked[i].features, r.family))
        /\ Offers(cfg, i, r.family, item, r)
    BY <2>3, <2>4 DEF Visible, Offers
  <2>6. RouteNamed(catalog, r.family, r.exposed) = {r}
    BY <1>1, <1>6 DEF RouteNamed, Clash
  <2> QED BY <2>5, <2>6, FS_Singleton
<1> QED BY <1>5, <1>6 DEF ShowsWhatIsOffered

----------------------------------------------------------------------------
(* The configuration of a request.                                         *)

\* Every component is one of those that there are.
ConfigFits(cfg, names) ==
    /\ cfg \in ConfigRecords
    /\ NamesDiffer(cfg)
    /\ \A s \in ToSet(cfg.servers) : s.name \in names

LEMMA ForMethodServers ==
    ASSUME NEW cfg \in ConfigRecords, NEW m \in Methods
    PROVE  /\ ForMethod(cfg, m) \in ConfigRecords
           /\ ForMethod(cfg, m).scoped = cfg.scoped /\ ForMethod(cfg, m).defer = cfg.defer
           /\ DOMAIN ForMethod(cfg, m).servers = DOMAIN cfg.servers
           /\ \A i \in DOMAIN cfg.servers : ForMethod(cfg, m).servers[i] =
                 IF cfg.scoped THEN [cfg.servers[i] EXCEPT !.method = m] ELSE cfg.servers[i]
<1>1. cfg.servers \in Seq(ServerRecords)
  BY DEF ConfigRecords
<1>2. CASE ~cfg.scoped
  BY <1>2 DEF ForMethod
<1>3. CASE cfg.scoped
  <2> DEFINE servers == [i \in DOMAIN cfg.servers |-> [cfg.servers[i] EXCEPT !.method = m]]
  <2>1. ForMethod(cfg, m) = [cfg EXCEPT !.servers = servers]
    BY <1>3 DEF ForMethod
  <2>2. \A i \in DOMAIN cfg.servers : [cfg.servers[i] EXCEPT !.method = m] \in ServerRecords
    <3> TAKE i \in DOMAIN cfg.servers
    <3>1. cfg.servers[i] \in ServerRecords
      BY <1>1
    <3> QED BY <3>1 DEF ServerRecords
  <2>3. servers \in Seq(ServerRecords)
    BY <1>1, <2>2
  <2>4. /\ DOMAIN servers = DOMAIN cfg.servers
        /\ \A i \in DOMAIN cfg.servers : servers[i] = [cfg.servers[i] EXCEPT !.method = m]
    OBVIOUS
  <2> HIDE DEF servers
  <2>5. [cfg EXCEPT !.servers = servers].servers = servers
        /\ [cfg EXCEPT !.servers = servers].scoped = cfg.scoped
        /\ [cfg EXCEPT !.servers = servers].defer = cfg.defer
        /\ [cfg EXCEPT !.servers = servers] \in ConfigRecords
    BY <2>3 DEF ConfigRecords
  <2> QED BY ZenonT(40), <1>3, <2>1, <2>4, <2>5
<1> QED BY <1>2, <1>3

LEMMA ForMethodFits ==
    ASSUME NEW cfg, NEW names, ConfigFits(cfg, names), NEW m \in Methods
    PROVE  ConfigFits(ForMethod(cfg, m), names)
<1> DEFINE new == ForMethod(cfg, m)
<1>1. /\ cfg \in ConfigRecords /\ cfg.servers \in Seq(ServerRecords)
      /\ new \in ConfigRecords /\ DOMAIN new.servers = DOMAIN cfg.servers
  BY ForMethodServers, ServersFit DEF ConfigFits
<1>2. \A i \in DOMAIN cfg.servers : new.servers[i].name = cfg.servers[i].name
  <2> TAKE i \in DOMAIN cfg.servers
  <2>1. cfg.servers[i] \in ServerRecords
    BY <1>1
  <2>2. new.servers[i] = [cfg.servers[i] EXCEPT !.method = m] \/ new.servers[i] = cfg.servers[i]
    BY <1>1, ForMethodServers
  <2> QED BY <2>1, <2>2 DEF ServerRecords
<1> HIDE DEF new
<1>3. NamesDiffer(new)
  BY <1>1, <1>2 DEF ConfigFits, NamesDiffer
<1>4. \A s \in ToSet(new.servers) : s.name \in names
  BY <1>1, <1>2 DEF ConfigFits, ToSet
<1> QED BY <1>1, <1>3, <1>4 DEF ConfigFits, new

LEMMA PinnedFits ==
    ASSUME NEW s \in ServerRecords, NEW prefix \in Texts
    PROVE  /\ Pinned(s, prefix) \in ServerRecords
           /\ Pinned(s, prefix).name = s.name /\ Pinned(s, prefix).prefix = prefix
           /\ Pinned(s, prefix).label = s.label /\ Pinned(s, prefix).method = s.method
           /\ Pinned(s, prefix).disableTools = s.disableTools
           /\ Pinned(s, prefix).overrides = s.overrides
  BY DEF Pinned, ServerRecords

LEMMA CandidatesAre ==
    ASSUME NEW cfg, NEW names, ConfigFits(cfg, names), NEW name
    PROVE  /\ Candidates(cfg, name) \in Seq(ServerRecords)
           /\ \A k \in DOMAIN Candidates(cfg, name) : \E i \in DOMAIN cfg.servers :
                 /\ Candidate(cfg, cfg.servers[i], name)
                 /\ Candidates(cfg, name)[k] =
                       Pinned(cfg.servers[i], PrefixIn(cfg, cfg.servers[i]))
           /\ \A i \in DOMAIN cfg.servers : Candidate(cfg, cfg.servers[i], name) =>
                 \E k \in DOMAIN Candidates(cfg, name) :
                    Candidates(cfg, name)[k] =
                       Pinned(cfg.servers[i], PrefixIn(cfg, cfg.servers[i]))
           /\ \A j, k \in DOMAIN Candidates(cfg, name) :
                 Candidates(cfg, name)[j].name = Candidates(cfg, name)[k].name => j = k
<1> DEFINE P == {i \in DOMAIN cfg.servers : Candidate(cfg, cfg.servers[i], name)}
           found == Select(cfg.servers, P)
           Pin(s) == Pinned(s, PrefixIn(cfg, s))
<1>1. cfg.servers \in Seq(ServerRecords) /\ NamesDiffer(cfg) /\ cfg \in ConfigRecords
  BY ServersFit DEF ConfigFits
<1>2. P \in SUBSET (DOMAIN cfg.servers)
  OBVIOUS
<1>3. Candidates(cfg, name) = [k \in DOMAIN found |-> Pin(found[k])]
  BY DEF Candidates
<1> HIDE DEF P
<1>4. /\ found \in Seq(ServerRecords)
      /\ \A k \in DOMAIN found : \E i \in P : found[k] = cfg.servers[i]
      /\ \A i \in P : \E k \in DOMAIN found : found[k] = cfg.servers[i]
      /\ \A j, k \in DOMAIN found :
            (\A i, m \in P : cfg.servers[i] = cfg.servers[m] => i = m) /\ found[j] = found[k]
               => j = k
  BY <1>1, <1>2, Selected
<1>5. \A i, m \in P : cfg.servers[i].name = cfg.servers[m].name => i = m
  BY <1>1, <1>2 DEF NamesDiffer
<1>6. ASSUME NEW j \in DOMAIN found, NEW k \in DOMAIN found, found[j].name = found[k].name
      PROVE  j = k
  <2>1. PICK i \in P : found[j] = cfg.servers[i]
    BY <1>4
  <2>2. PICK m \in P : found[k] = cfg.servers[m]
    BY <1>4
  <2>3. found[j] = found[k]
    BY <1>5, <1>6, <2>1, <2>2
  <2>4. \A a, b \in P : cfg.servers[a] = cfg.servers[b] => a = b
    BY <1>5
  <2> QED BY <1>4, <2>3, <2>4
<1> HIDE DEF found
<1>7. \A s \in ServerRecords : Pin(s) \in ServerRecords /\ Pin(s).name = s.name
  BY <1>1, PrefixFits, PinnedFits
<1> HIDE DEF Pin
<1>8. /\ DOMAIN Candidates(cfg, name) = DOMAIN found
      /\ \A k \in DOMAIN found : Candidates(cfg, name)[k] = Pin(found[k])
  BY <1>3
<1>9. \A k \in DOMAIN found : found[k] \in ServerRecords
  BY <1>4
<1>10. Candidates(cfg, name) \in Seq(ServerRecords)
  BY <1>3, <1>4, <1>7, <1>9
<1>11. \A k \in DOMAIN found : \E i \in DOMAIN cfg.servers :
          /\ Candidate(cfg, cfg.servers[i], name)
          /\ Candidates(cfg, name)[k] = Pin(cfg.servers[i])
  BY <1>4, <1>8 DEF P
<1>12. \A i \in DOMAIN cfg.servers : Candidate(cfg, cfg.servers[i], name) =>
          \E k \in DOMAIN found : Candidates(cfg, name)[k] = Pin(cfg.servers[i])
  BY <1>4, <1>8 DEF P
<1>13. \A j, k \in DOMAIN found :
          Candidates(cfg, name)[j].name = Candidates(cfg, name)[k].name => j = k
  BY <1>6, <1>7, <1>8, <1>9
<1> QED BY <1>8, <1>10, <1>11, <1>12, <1>13 DEF Pin

\* The part of a configuration that a call may need.
Part(cfg, name) ==
    IF Candidates(cfg, name) = <<>> THEN cfg
    ELSE [cfg EXCEPT !.servers = Candidates(cfg, name)]

LEMMA PartFits ==
    ASSUME NEW cfg, NEW names, ConfigFits(cfg, names), NEW name
    PROVE  ConfigFits(Part(cfg, name), names)
<1> DEFINE found == Candidates(cfg, name)
           new == [cfg EXCEPT !.servers = found]
<1>1. /\ found \in Seq(ServerRecords)
      /\ \A j, k \in DOMAIN found : found[j].name = found[k].name => j = k
      /\ \A k \in DOMAIN found : \E i \in DOMAIN cfg.servers :
            found[k] = Pinned(cfg.servers[i], PrefixIn(cfg, cfg.servers[i]))
  BY CandidatesAre
<1> HIDE DEF found
<1>2. cfg \in ConfigRecords
  BY DEF ConfigFits
<1>3. new \in ConfigRecords /\ new.servers = found
  BY <1>1, <1>2 DEF ConfigRecords
<1> HIDE DEF new
<1>4. \A s \in ToSet(found) : s.name \in names
  <2> SUFFICES ASSUME NEW k \in DOMAIN found PROVE found[k].name \in names
    BY DEF ToSet
  <2>1. PICK i \in DOMAIN cfg.servers :
           found[k] = Pinned(cfg.servers[i], PrefixIn(cfg, cfg.servers[i]))
    BY <1>1
  <2>2. /\ cfg.servers[i] \in ServerRecords /\ cfg.servers[i] \in ToSet(cfg.servers)
        /\ PrefixIn(cfg, cfg.servers[i]) \in Texts
    BY <1>2, ServersFit
  <2>3. found[k].name = cfg.servers[i].name
    BY <2>1, <2>2, PinnedFits
  <2> QED BY <2>2, <2>3 DEF ConfigFits
<1>5. ConfigFits(new, names)
  BY <1>1, <1>3, <1>4 DEF ConfigFits, NamesDiffer
<1> QED BY <1>5 DEF Part, new, found

\* The configuration with the one component that owns the name.
OwnedBy(selected, all, owner) ==
    [selected EXCEPT !.servers =
        <<Pinned(CHOOSE s \in ToSet(all.servers) : s.name = owner.component, owner.prefix)>>]

LEMMA OwnedByFits ==
    ASSUME NEW selected, NEW all, NEW names, ConfigFits(selected, names),
           ConfigFits(all, names), NEW owner, owner.prefix \in Texts,
           \E s \in ToSet(all.servers) : s.name = owner.component
    PROVE  ConfigFits(OwnedBy(selected, all, owner), names)
<1> DEFINE s == CHOOSE s \in ToSet(all.servers) : s.name = owner.component
           one == Pinned(s, owner.prefix)
<1>1. s \in ToSet(all.servers)
  OBVIOUS
<1>2. s \in ServerRecords /\ s.name \in names
  <2>1. all.servers \in Seq(ServerRecords)
    BY ServersFit DEF ConfigFits
  <2> QED BY <1>1, <2>1 DEF ConfigFits, ToSet
<1> HIDE DEF s
<1>3. one \in ServerRecords /\ one.name \in names
  BY <1>2, PinnedFits
<1> HIDE DEF one
<1> DEFINE new == [selected EXCEPT !.servers = <<one>>]
<1>4. new \in ConfigRecords /\ new.servers = <<one>>
  <2>1. <<one>> \in Seq(ServerRecords)
    BY <1>3
  <2>2. selected \in ConfigRecords
    BY DEF ConfigFits
  <2> QED BY <2>1, <2>2 DEF ConfigRecords
<1> HIDE DEF new
<1>5. NamesDiffer(new) /\ ToSet(<<one>>) = {one}
  BY <1>4 DEF NamesDiffer, ToSet
<1>6. ConfigFits(new, names)
  BY <1>3, <1>4, <1>5 DEF ConfigFits
<1> QED BY <1>6 DEF OwnedBy, new, one, s

\* What the registry's catalogs say of a name.
OwnersIn(cache, cfg, name) ==
    IF cfg \in DOMAIN cache THEN RouteNamed(cache[cfg], "tools", name) ELSE {}

LEMMA OwningIs ==
    ASSUME NEW all, NEW tool, NEW cache
    PROVE  LET selected == Part(all, tool)
               owners   == IF OwnersIn(cache, all, tool) # {} THEN OwnersIn(cache, all, tool)
                           ELSE OwnersIn(cache, selected, tool)
           IN  \/ Owning(all, tool, cache) = selected
               \/ \E owner \in owners : Owning(all, tool, cache) = OwnedBy(selected, all, owner)
<1> DEFINE selected == Part(all, tool)
           owners == IF OwnersIn(cache, all, tool) # {} THEN OwnersIn(cache, all, tool)
                     ELSE OwnersIn(cache, selected, tool)
           owner == CHOOSE r \in owners : TRUE
<1>1. Owning(all, tool, cache) =
         IF owners = {} THEN selected ELSE OwnedBy(selected, all, owner)
  BY Zenon DEF Owning, Part, OwnersIn, OwnedBy
<1>2. owners # {} => owner \in owners
  OBVIOUS
<1> HIDE DEF selected, owners, owner
<1>3. \/ Owning(all, tool, cache) = selected
      \/ \E o \in owners : Owning(all, tool, cache) = OwnedBy(selected, all, o)
  BY <1>1, <1>2
<1> QED BY <1>3 DEF selected, owners

LEMMA NarrowIs ==
    ASSUME NEW cfg, NEW name, NEW named, NEW cache
    PROVE  LET all  == ForMethod(cfg, "tools")
               tool == Sought(cfg, name, named)
           IN  \/ ~cfg.scoped /\ Narrow(cfg, name, named, cache) = cfg
               \/ Narrow(cfg, name, named, cache) = all
               \/ Narrow(cfg, name, named, cache) = Owning(all, tool, cache)
               \/ /\ tool = Nil
                  /\ Narrow(cfg, name, named, cache) = [all EXCEPT !.servers = <<>>]
<1> DEFINE all == ForMethod(cfg, "tools")
           tool == Sought(cfg, name, named)
           none == [all EXCEPT !.servers = <<>>]
<1>1. Narrow(cfg, name, named, cache) =
         CASE ~cfg.scoped                  -> cfg
           [] cfg.scoped /\ cfg.defer      -> all
           [] cfg.scoped /\ ~cfg.defer /\ tool # Nil -> Owning(all, tool, cache)
           [] OTHER -> IF name = CallToolName THEN none ELSE all
  BY Zenon DEF Narrow
<1> HIDE DEF all, tool, none
<1>2. \/ ~cfg.scoped /\ Narrow(cfg, name, named, cache) = cfg
      \/ Narrow(cfg, name, named, cache) = all
      \/ Narrow(cfg, name, named, cache) = Owning(all, tool, cache)
      \/ tool = Nil /\ Narrow(cfg, name, named, cache) = none
  BY <1>1
<1> QED BY <1>2 DEF all, tool, none

LEMMA PartServers ==
    ASSUME NEW cfg, NEW names, ConfigFits(cfg, names), NEW name,
           NEW s \in ToSet(Part(cfg, name).servers)
    PROVE  \E t \in ToSet(cfg.servers) :
              s.name = t.name /\ (s = t \/ s = Pinned(t, PrefixIn(cfg, t)))
<1>1. cfg \in ConfigRecords
  BY DEF ConfigFits
<1>2. CASE Candidates(cfg, name) = <<>>
  BY <1>2 DEF Part
<1>3. CASE Candidates(cfg, name) # <<>>
  <2>1. Part(cfg, name).servers = Candidates(cfg, name)
    BY <1>1, <1>3 DEF Part, ConfigRecords
  <2>2. PICK k \in DOMAIN Candidates(cfg, name) : s = Candidates(cfg, name)[k]
    BY <2>1 DEF ToSet
  <2>3. PICK i \in DOMAIN cfg.servers :
           Candidates(cfg, name)[k] = Pinned(cfg.servers[i], PrefixIn(cfg, cfg.servers[i]))
    BY CandidatesAre
  <2>4. /\ cfg.servers[i] \in ServerRecords /\ cfg.servers[i] \in ToSet(cfg.servers)
        /\ PrefixIn(cfg, cfg.servers[i]) \in Texts
    BY <1>1, ServersFit
  <2>5. s.name = cfg.servers[i].name
    BY <2>2, <2>3, <2>4, PinnedFits
  <2> QED BY <2>2, <2>3, <2>4, <2>5
<1> QED BY <1>2, <1>3

\* Whatever the registry has cached, a call runs with a configuration of the
\* components that there are.
LEMMA NarrowFits ==
    ASSUME NEW cfg, NEW names, ConfigFits(cfg, names), NEW name, NEW named, NEW cache,
           \A c \in DOMAIN cache : CatalogFits(c, cache[c])
    PROVE  ConfigFits(Narrow(cfg, name, named, cache), names)
<1> DEFINE all == ForMethod(cfg, "tools")
           tool == Sought(cfg, name, named)
           selected == Part(all, tool)
           owners == IF OwnersIn(cache, all, tool) # {} THEN OwnersIn(cache, all, tool)
                     ELSE OwnersIn(cache, selected, tool)
           none == [all EXCEPT !.servers = <<>>]
<1>1. ConfigFits(all, names)
  <2>1. "tools" \in Methods
    BY DEF Methods
  <2> QED BY <2>1, ForMethodFits
<1> HIDE DEF tool
<1>2. ConfigFits(selected, names)
  BY <1>1, PartFits
<1>3. ASSUME NEW owner \in owners PROVE ConfigFits(OwnedBy(selected, all, owner), names)
  <2>1. \E c \in {all, selected} : owner \in OwnersIn(cache, c, tool)
    BY <1>3
  <2>2. PICK c \in {all, selected} : owner \in OwnersIn(cache, c, tool)
    BY <2>1
  <2>3. c \in DOMAIN cache /\ owner \in cache[c].routes
    BY <2>2 DEF OwnersIn, RouteNamed
  <2>4. CatalogFits(c, cache[c])
    BY <2>3
  <2>5. /\ owner.prefix \in Texts
        /\ \E s \in ToSet(c.servers) : owner.component = s.name
    BY <2>3, <2>4 DEF CatalogFits, RouteRecords
  <2>6. \E s \in ToSet(all.servers) : s.name = owner.component
    BY <1>1, <2>2, <2>5, PartServers
  <2> HIDE DEF all, selected
  <2> QED BY <1>1, <1>2, <2>5, <2>6, OwnedByFits
<1>4. \/ Owning(all, tool, cache) = selected
      \/ \E owner \in owners : Owning(all, tool, cache) = OwnedBy(selected, all, owner)
  BY OwningIs
<1>5. ConfigFits(none, names)
  <2>1. all \in ConfigRecords /\ <<>> \in Seq(ServerRecords)
    BY <1>1 DEF ConfigFits
  <2> HIDE DEF all
  <2>2. none \in ConfigRecords /\ none.servers = <<>>
    BY <2>1 DEF ConfigRecords
  <2> HIDE DEF none
  <2>3. ToSet(<<>>) = {} /\ DOMAIN <<>> = {}
    BY DEF ToSet
  <2> QED BY <2>2, <2>3 DEF ConfigFits, NamesDiffer
<1> HIDE DEF selected, owners
<1>6. ConfigFits(Owning(all, tool, cache), names)
  BY <1>2, <1>3, <1>4
<1>7. \/ Narrow(cfg, name, named, cache) \in {cfg, all, none}
      \/ Narrow(cfg, name, named, cache) = Owning(all, tool, cache)
  BY NarrowIs DEF tool
<1> HIDE DEF all, none
<1> QED BY <1>1, <1>5, <1>6, <1>7

----------------------------------------------------------------------------
(* The invariant.                                                          *)

Components == DOMAIN upstream

World ==
    /\ config \in Configs
    /\ Components = {s.name : s \in ToSet(config.servers)}
    /\ \A s \in Components : upstream[s] \in Answers[s]
    /\ changes \in 0 .. MaxChanges

Requested ==
    /\ stage \in {"idle", "discovering", "answered"}
    /\ stage = "idle" => request = Idle
    /\ stage # "idle" => request.op \in {"list", "call"} /\ ConfigFits(request.cfg, Components)

CachedFit ==
    \A cfg \in DOMAIN cached :
        CatalogFits(cfg, cached[cfg]) /\ cached[cfg].pending = <<>>

Resting ==
    /\ asked = <<>> /\ at = <<>> /\ results = <<>> /\ cause = None
    /\ outcome = NoOutcome

\* What an answer of server i of cfg is, and comes to.
Good(cfg, i, answer) ==
    /\ answer.kind = "features"
    /\ ~Invalid(cfg.servers[i], PrefixIn(cfg, cfg.servers[i]), answer.features)
Bad(cfg, i, answer) ==
    answer.kind \notin {"challenge", "canceled"} /\ ~Good(cfg, i, answer)
Result(cfg, i, answer) ==
    IF answer = None THEN None
    ELSE IF answer.kind = "challenge"
         THEN [features |-> NoFeatures, pending |-> TRUE, err |-> ~cfg.defer]
         ELSE IF Good(cfg, i, answer)
              THEN [features |-> answer.features, pending |-> FALSE, err |-> FALSE]
              ELSE None

\* The servers are taken in order, each by one worker, and each gives one answer.
Taken ==
    /\ at \in [WorkersOf(request.cfg) -> {Free, Stopped} \cup DOMAIN Servers]
    /\ next \in 1 .. Len(Servers) + 1
    /\ asked \in [DOMAIN Servers -> AnswerRecords \cup {None}]
    /\ \A w \in DOMAIN at : at[w] \in DOMAIN Servers =>
          /\ at[w] < next /\ asked[at[w]] = None
          /\ \A v \in DOMAIN at : at[v] = at[w] => v = w
    /\ \A i \in DOMAIN Servers :
          /\ i < next => asked[i] # None \/ \E w \in DOMAIN at : at[w] = i
          /\ asked[i] # None => i < next

\* Results and cause are what the answers come to; workers stop when the queue
\* is empty or there is a cause.
Concluded ==
    /\ results \in [DOMAIN Servers -> ResultRecords \cup {None}]
    /\ cause \in CauseRecords \cup {None}
    /\ \A i \in DOMAIN Servers :
          /\ results[i] = Result(request.cfg, i, asked[i])
          /\ asked[i] # None /\ (asked[i].kind = "canceled" \/ Bad(request.cfg, i, asked[i]))
                => cause # None
    /\ cause # None =>
          \/ cause.kind = "canceled" /\ cause.server = 0
          \/ /\ cause.server \in DOMAIN Servers /\ asked[cause.server] # None
             /\ Bad(request.cfg, cause.server, asked[cause.server])
             /\ cause.kind = asked[cause.server].kind
    /\ \A w \in DOMAIN at : at[w] = Stopped => cause # None \/ next > Len(Servers)

Answered ==
    /\ \A w \in DOMAIN at : at[w] = Stopped
    /\ \A i \in DOMAIN results : results[i] \in ResultRecords \cup {None}
    /\ cause # None => cause.kind \in AnswerKinds /\ cause.server \in Position
    /\ outcome.kind \in OutcomeKinds
    /\ outcome.kind = "catalog" => CatalogFits(request.cfg, outcome.catalog)

Progress ==
    /\ stage = "idle" => Resting
    /\ stage = "discovering" => Taken /\ Concluded /\ outcome = NoOutcome
    /\ stage = "answered" => Answered

\* A client that has a cursor has read what the first catalog listed up to it.
Entries == [name : Texts, def : Nat]
Unlike(all) == \A i, j \in DOMAIN all : all[i].name = all[j].name => i = j
WalkFits ==
    \/ walk = FreshWalk
    \/ /\ walk.complete = TRUE /\ walk.cursor = NoCursor
       /\ walk.from \in Seq(Entries) /\ walk.items = walk.from
    \/ /\ walk.complete = FALSE /\ walk.cursor # NoCursor
       /\ walk.cursor.id.shown[Walked] = walk.from
       /\ walk.from \in Seq(Entries) /\ Unlike(walk.from)
       /\ \E k \in 1 .. Len(walk.from) :
             walk.cursor.after = walk.from[k].name /\ walk.items = SubSeq(walk.from, 1, k)

IInv ==
    /\ World /\ Requested /\ CachedFit /\ Progress /\ WalkFits
    /\ OutcomeMatchesAnswers

LEMMA ConfigsFit ==
    ASSUME World PROVE ConfigFits(config, Components)
<1>1. config \in ConfigRecords /\ NamesDiffer(config)
  BY CompilerAssumption DEF World, NamesDiffer
<1>2. \A s \in ToSet(config.servers) : s.name \in Components
  BY DEF World
<1> QED BY <1>1, <1>2 DEF ConfigFits

LEMMA RecordsDiffer ==
    /\ \A a \in AnswerRecords : a # None /\ a.kind \in AnswerKinds /\ a.features \in FeatureRecords
    /\ \A r \in ResultRecords : r # None
    /\ \A r \in CauseRecords : r # None
    /\ NoFeatures \in FeatureRecords
<1>1. /\ \A a \in AnswerRecords : a # None
      /\ \A r \in ResultRecords : r # None
      /\ \A r \in CauseRecords : r # None
  BY CompilerAssumption
<1>2. \A a \in AnswerRecords : a.kind \in AnswerKinds /\ a.features \in FeatureRecords
  BY DEF AnswerRecords
<1>3. NoFeatures \in FeatureRecords
  <2>1. <<>> \in Seq(Items \cup {Nil})
    OBVIOUS
  <2> QED BY <2>1 DEF NoFeatures, FeatureRecords
<1> QED BY <1>1, <1>2, <1>3

LEMMA InvInit == Init => IInv
<1> SUFFICES ASSUME Init PROVE IInv
  OBVIOUS
<1>1. World
  <2>1. DOMAIN AnswersOf(config) = {s.name : s \in ToSet(config.servers)}
    BY DEF AnswersOf
  <2>2. DOMAIN upstream = DOMAIN AnswersOf(config) /\ \A s \in DOMAIN upstream : upstream[s] \in Answers[s]
    BY DEF Init
  <2>3. config \in Configs /\ changes = 0 /\ 0 \in 0 .. MaxChanges
    BY CompilerAssumption DEF Init
  <2> QED BY <2>1, <2>2, <2>3 DEF World, Components
<1>2. Requested /\ Progress /\ WalkFits
  BY DEF Init, Requested, Progress, Resting, WalkFits
<1>3. CachedFit
  BY DEF Init, CachedFit
<1>4. OutcomeMatchesAnswers
  BY DEF Init, OutcomeMatchesAnswers
<1> QED BY <1>1, <1>2, <1>3, <1>4 DEF IInv

----------------------------------------------------------------------------
(* What each step leaves alone.                                            *)

LEMMA WorldKept ==
    ASSUME World, UNCHANGED <<config, upstream, changes>> PROVE World' /\ Components' = Components
  BY DEF World, Components

LEMMA RequestedKept ==
    ASSUME Requested, UNCHANGED <<stage, request>>, Components' = Components PROVE Requested'
  BY DEF Requested

LEMMA ProgressKept ==
    ASSUME Progress, UNCHANGED <<stage, request, discovery, outcome>> PROVE Progress'
<1>1. UNCHANGED <<at, next, results, cause, asked>>
  BY DEF discovery
<1>2. (stage = "idle" => Resting)'
  BY <1>1 DEF Progress, Resting
<1>3. (stage = "discovering" => Taken /\ Concluded /\ outcome = NoOutcome)'
  BY <1>1 DEF Progress, Taken, Concluded, Servers
<1>4. (stage = "answered" => Answered)'
  BY <1>1 DEF Progress, Answered, Servers, Position
<1> QED BY <1>2, <1>3, <1>4 DEF Progress

LEMMA OutcomeKept ==
    ASSUME OutcomeMatchesAnswers, UNCHANGED <<stage, request, asked, outcome>>
    PROVE  OutcomeMatchesAnswers'
<1>1. /\ Asked' = Asked /\ Challenges' = Challenges
      /\ \A i : Genuine(i)' <=> Genuine(i)
      /\ \A s, a : Acceptable(s, a)' <=> Acceptable(s, a)
      /\ Servers' = Servers
  BY DEF Asked, Challenges, Genuine, Acceptable, Servers
<1>2. Broken' = Broken
  BY <1>1 DEF Broken
<1>3. \A cfg, catalog : ShowsWhatIsOffered(cfg, catalog)' <=> ShowsWhatIsOffered(cfg, catalog)
  BY <1>1 DEF ShowsWhatIsOffered, Offers
<1> QED BY <1>1, <1>2, <1>3 DEF OutcomeMatchesAnswers

LEMMA WalkKept == ASSUME WalkFits, walk' = walk PROVE WalkFits'
  BY DEF WalkFits

\* While a request is not answered there is nothing to compare.
LEMMA NotAnswered == ASSUME stage # "answered" PROVE OutcomeMatchesAnswers
  BY DEF OutcomeMatchesAnswers

LEMMA UpstreamStep ==
    ASSUME IInv, NEW s \in DOMAIN upstream, UpstreamChanges(s) PROVE IInv'
<1>1. /\ World /\ Requested /\ CachedFit /\ Progress /\ WalkFits /\ OutcomeMatchesAnswers
  BY DEF IInv
<1>2. PICK a \in Answers[s] : upstream' = [upstream EXCEPT ![s] = a]
  BY DEF UpstreamChanges
<1>3. Components' = Components /\ \A t \in Components : upstream'[t] \in Answers[t]
  BY <1>1, <1>2 DEF World, Components
<1>4. changes' \in 0 .. MaxChanges
  BY <1>1, CompilerAssumption DEF World, UpstreamChanges
<1>5. World'
  BY <1>1, <1>3, <1>4 DEF World, UpstreamChanges
<1>6. UNCHANGED <<cached, request, stage, discovery, outcome, walk, asked>>
  BY DEF UpstreamChanges, discovery
<1>7. CachedFit'
  BY <1>1, <1>6 DEF CachedFit
<1> QED BY <1>1, <1>3, <1>5, <1>6, <1>7, RequestedKept, ProgressKept, OutcomeKept, WalkKept DEF IInv

LEMMA EvictStep ==
    ASSUME IInv, NEW cfg \in DOMAIN cached, Evict(cfg) PROVE IInv'
<1>1. /\ World /\ Requested /\ CachedFit /\ Progress /\ WalkFits /\ OutcomeMatchesAnswers
  BY DEF IInv
<1>2. UNCHANGED <<config, upstream, changes, request, stage, discovery, outcome, walk, asked>>
  BY DEF Evict, discovery
<1>3. CachedFit'
  BY <1>1 DEF CachedFit, Evict
<1>4. World' /\ Components' = Components
  BY <1>1, <1>2, WorldKept
<1> QED BY <1>1, <1>2, <1>3, <1>4, RequestedKept, ProgressKept, OutcomeKept, WalkKept DEF IInv

LEMMA CancelStep == ASSUME IInv, CancelRequest PROVE IInv'
<1>1. /\ World /\ Requested /\ CachedFit /\ Progress /\ WalkFits
      /\ Taken /\ Concluded /\ stage = "discovering" /\ outcome = NoOutcome
  BY DEF IInv, CancelRequest, Progress
<1>2. /\ UNCHANGED <<config, upstream, changes, cached, request, stage, at, next, results,
                     asked, outcome, walk>>
      /\ cause' = [kind |-> "canceled", server |-> 0]
  BY DEF CancelRequest
<1>3. World' /\ Components' = Components
  BY <1>1, <1>2, WorldKept
<1>4. CachedFit'
  BY <1>1, <1>2 DEF CachedFit
<1>5. Taken'
  BY <1>1, <1>2 DEF Taken, Servers
<1>6. cause' \in CauseRecords /\ cause'.kind = "canceled" /\ cause'.server = 0 /\ cause' # None
  BY <1>2, RecordsDiffer DEF CauseRecords, AnswerKinds
<1>7. Concluded'
  BY <1>1, <1>2, <1>6 DEF Concluded, Servers
<1>8. Progress' /\ OutcomeMatchesAnswers'
  BY <1>1, <1>2, <1>5, <1>7 DEF Progress, OutcomeMatchesAnswers
<1> QED BY <1>1, <1>2, <1>3, <1>4, <1>8, RequestedKept, WalkKept DEF IInv


----------------------------------------------------------------------------
(* A request begins.                                                       *)

\* The positions of a configuration are numbers, and a worker's states are not.
LEMMA PositionsAre ==
    ASSUME NEW cfg \in ConfigRecords
    PROVE  /\ Len(cfg.servers) \in Nat /\ DOMAIN cfg.servers = 1 .. Len(cfg.servers)
           /\ DOMAIN cfg.servers \in SUBSET Nat
           /\ Free \notin DOMAIN cfg.servers /\ Stopped \notin DOMAIN cfg.servers
           /\ Free # Stopped
<1>1. Len(cfg.servers) \in Nat /\ DOMAIN cfg.servers = 1 .. Len(cfg.servers)
  BY ServersFit
<1>2. Free \notin Nat /\ Stopped \notin Nat /\ Free # Stopped
  BY CompilerAssumption
<1> QED BY <1>1, <1>2

LEMMA StartFits ==
    ASSUME NEW op, NEW name, NEW cfg \in ConfigRecords, StartDiscovery(op, name, cfg)
    PROVE  Taken' /\ Concluded'
<1>1. request'.cfg = cfg /\ Servers' = cfg.servers
  BY DEF StartDiscovery, Servers
<1>2. /\ Len(cfg.servers) \in Nat /\ DOMAIN cfg.servers = 1 .. Len(cfg.servers)
      /\ Free \notin DOMAIN cfg.servers /\ Stopped # Free
  BY PositionsAre
<1>3. /\ at' = [w \in WorkersOf(cfg) |-> Free] /\ next' = 1
      /\ results' = [i \in DOMAIN cfg.servers |-> None]
      /\ cause' = None /\ asked' = [i \in DOMAIN cfg.servers |-> None]
  BY DEF StartDiscovery
<1>4. Taken'
  BY <1>1, <1>2, <1>3 DEF Taken
<1>5. Concluded'
  BY <1>1, <1>2, <1>3 DEF Concluded, Result
<1> QED BY <1>4, <1>5

LEMMA BeginStep ==
    ASSUME IInv, NEW op \in {"list", "call"}, NEW name, NEW cfg, ConfigFits(cfg, Components),
           Begin(op, name, cfg)
    PROVE  IInv'
<1>1. /\ World /\ CachedFit /\ WalkFits /\ stage = "idle" /\ Resting
  BY DEF IInv, Begin, Progress
<1>2. /\ UNCHANGED <<config, upstream, changes, cached, walk>>
      /\ FindCatalog(op, name, cfg) \/ RefusePrefixes(op, name, cfg) \/ StartDiscovery(op, name, cfg)
  BY DEF Begin
<1>3. World' /\ Components' = Components /\ WalkFits'
  BY <1>1, <1>2, WorldKept, WalkKept
<1>4. CachedFit'
  BY <1>1, <1>2 DEF CachedFit
<1>5. request' = [op |-> op, name |-> name, cfg |-> cfg] /\ stage' \in {"answered", "discovering"}
  BY <1>2 DEF FindCatalog, RefusePrefixes, StartDiscovery
<1>6. request'.op = op /\ request'.cfg = cfg
  BY <1>5
<1>7. Requested'
  BY <1>3, <1>5, <1>6 DEF Requested
<1>8. CASE FindCatalog(op, name, cfg)
  <2>1. UNCHANGED <<at, next, results, cause, asked>>
    BY <1>8 DEF FindCatalog, discovery
  <2>2. outcome'.kind = "catalog" /\ outcome'.catalog = cached[cfg] /\ stage' = "answered"
    BY <1>8 DEF FindCatalog
  <2>3. CatalogFits(cfg, cached[cfg])
    BY <1>1, <1>8 DEF CachedFit, FindCatalog
  <2>4. Answered'
    BY <1>1, <1>6, <2>1, <2>2, <2>3 DEF Answered, Resting, OutcomeKinds
  <2>5. Progress' /\ OutcomeMatchesAnswers'
    BY <1>1, <2>1, <2>2, <2>4 DEF Progress, Resting, OutcomeMatchesAnswers
  <2> QED BY <1>3, <1>4, <1>7, <2>5 DEF IInv
<1>9. CASE RefusePrefixes(op, name, cfg)
  <2>1. UNCHANGED <<at, next, results, cause, asked>>
    BY <1>9 DEF RefusePrefixes, discovery
  <2>2. outcome'.kind = "prefix" /\ stage' = "answered"
    BY <1>9 DEF RefusePrefixes
  <2>3. Answered'
    BY <1>1, <2>1, <2>2 DEF Answered, Resting, OutcomeKinds
  <2>4. Progress' /\ OutcomeMatchesAnswers'
    BY <1>1, <2>1, <2>2, <2>3 DEF Progress, Resting, OutcomeMatchesAnswers
  <2> QED BY <1>3, <1>4, <1>7, <2>4 DEF IInv
<1>10. CASE StartDiscovery(op, name, cfg)
  <2>1. Taken' /\ Concluded'
    BY <1>10, StartFits DEF ConfigFits
  <2>2. stage' = "discovering" /\ outcome' = NoOutcome
    BY <1>10 DEF StartDiscovery
  <2>3. Progress' /\ OutcomeMatchesAnswers'
    BY <2>1, <2>2 DEF Progress, OutcomeMatchesAnswers
  <2> QED BY <1>3, <1>4, <1>7, <2>3 DEF IInv
<1> QED BY <1>2, <1>8, <1>9, <1>10

LEMMA ListItemsStep == ASSUME IInv, ListItems PROVE IInv'
<1>1. ConfigFits(config, Components)
  BY ConfigsFit DEF IInv
<1>2. MethodOf(Walked) \in Methods
  BY CompilerAssumption DEF MethodOf, Methods, Families
<1>3. ConfigFits(ForMethod(config, MethodOf(Walked)), Components)
  BY <1>1, <1>2, ForMethodFits
<1> QED BY <1>3, BeginStep DEF ListItems

LEMMA CallToolStep == ASSUME IInv, NEW name, NEW named, CallTool(name, named) PROVE IInv'
<1>1. ConfigFits(config, Components)
  BY ConfigsFit DEF IInv
<1>2. \A c \in DOMAIN cached : CatalogFits(c, cached[c])
  BY DEF IInv, CachedFit
<1>3. ConfigFits(Narrow(config, name, named, cached), Components)
  BY <1>1, <1>2, NarrowFits
<1> QED BY <1>3, BeginStep DEF CallTool

----------------------------------------------------------------------------
(* The workers.                                                            *)

\* In a discovery.
LEMMA Discovering ==
    ASSUME IInv, stage = "discovering"
    PROVE  /\ World /\ Requested /\ CachedFit /\ WalkFits /\ Taken /\ Concluded
           /\ ConfigFits(request.cfg, Components) /\ request.cfg \in ConfigRecords
           /\ Len(Servers) \in Nat /\ DOMAIN Servers = 1 .. Len(Servers)
           /\ Free \notin DOMAIN Servers /\ Stopped \notin DOMAIN Servers /\ Free # Stopped
<1>1. /\ World /\ Requested /\ CachedFit /\ WalkFits /\ Taken /\ Concluded
      /\ ConfigFits(request.cfg, Components)
  BY DEF IInv, Progress, Requested
<1>2. request.cfg \in ConfigRecords
  BY <1>1 DEF ConfigFits
<1> QED BY <1>1, <1>2, PositionsAre DEF Servers

\* A step of a worker leaves the rest alone.
LEMMA WorkerStep ==
    ASSUME IInv, stage = "discovering",
           UNCHANGED <<config, upstream, changes, cached, request, stage, outcome, walk>>,
           Taken', Concluded'
    PROVE  IInv'
<1>1. /\ World /\ Requested /\ CachedFit /\ WalkFits /\ outcome = NoOutcome
  BY DEF IInv, Progress
<1>2. World' /\ Components' = Components
  BY <1>1, WorldKept
<1>3. CachedFit'
  BY <1>1 DEF CachedFit
<1>4. Progress' /\ OutcomeMatchesAnswers'
  BY <1>1 DEF Progress, OutcomeMatchesAnswers
<1>5. Requested' /\ WalkFits'
  BY <1>1, <1>2, RequestedKept, WalkKept
<1> QED BY <1>2, <1>3, <1>4, <1>5 DEF IInv

LEMMA TakeStep == ASSUME IInv, NEW w \in DOMAIN at, Take(w) PROVE IInv'
<1>1. /\ stage = "discovering" /\ at[w] = Free /\ cause = None /\ next <= Len(Servers)
      /\ at' = [at EXCEPT ![w] = next] /\ next' = next + 1
      /\ UNCHANGED <<config, upstream, changes, cached, request, stage, results, cause,
                     asked, outcome, walk>>
  BY DEF Take
<1>2. /\ Taken /\ Concluded /\ Len(Servers) \in Nat /\ DOMAIN Servers = 1 .. Len(Servers)
      /\ Free \notin DOMAIN Servers /\ Stopped \notin DOMAIN Servers /\ Free # Stopped
  BY <1>1, Discovering
<1>3. Servers' = Servers /\ WorkersOf(request'.cfg) = WorkersOf(request.cfg)
  BY <1>1 DEF Servers
<1>4. /\ next \in DOMAIN Servers /\ asked[next] = None
      /\ at \in [WorkersOf(request.cfg) -> {Free, Stopped} \cup DOMAIN Servers]
      /\ \A v \in DOMAIN at : at[v] \in DOMAIN Servers => at[v] < next
  BY <1>1, <1>2 DEF Taken
<1>5. /\ at'[w] = next /\ DOMAIN at' = DOMAIN at
      /\ \A v \in DOMAIN at : v # w => at'[v] = at[v]
      /\ at' \in [WorkersOf(request.cfg) -> {Free, Stopped} \cup DOMAIN Servers]
  BY <1>1, <1>4
<1>6. ASSUME NEW v \in DOMAIN at, at'[v] \in DOMAIN Servers
      PROVE  /\ at'[v] < next + 1 /\ asked[at'[v]] = None
             /\ \A u \in DOMAIN at : at'[u] = at'[v] => u = v
  BY <1>2, <1>4, <1>5, <1>6 DEF Taken
<1>7. ASSUME NEW i \in DOMAIN Servers
      PROVE  /\ i < next + 1 => asked[i] # None \/ \E v \in DOMAIN at : at'[v] = i
             /\ asked[i] # None => i < next + 1
  <2>1. /\ i < next => asked[i] # None \/ \E v \in DOMAIN at : at[v] = i
        /\ asked[i] # None => i < next
    BY <1>2 DEF Taken
  <2>2. i < next + 1 => i < next \/ i = next
    BY <1>2, <1>4
  <2>3. \A v \in DOMAIN at : at[v] = i => v # w
    BY <1>1, <1>2
  <2> QED BY <1>2, <1>4, <1>5, <2>1, <2>2, <2>3
<1>8. next' \in 1 .. Len(Servers) + 1 /\ asked \in [DOMAIN Servers -> AnswerRecords \cup {None}]
  BY <1>1, <1>2, <1>4 DEF Taken
<1>9. Taken'
  BY <1>1, <1>3, <1>5, <1>6, <1>7, <1>8 DEF Taken
<1>10. \A v \in DOMAIN at : at'[v] = Stopped => at[v] = Stopped
  BY <1>2, <1>4, <1>5
<1>11. \A v \in DOMAIN at : at[v] # Stopped
  BY <1>1, <1>2, <1>4 DEF Concluded
<1>12. Concluded'
  BY <1>1, <1>2, <1>3, <1>5, <1>10, <1>11 DEF Concluded
<1> QED BY <1>1, <1>9, <1>12, WorkerStep

LEMMA StopStep == ASSUME IInv, NEW w \in DOMAIN at, Stop(w) PROVE IInv'
<1>1. /\ stage = "discovering" /\ at[w] = Free
      /\ cause # None \/ next > Len(Servers)
      /\ at' = [at EXCEPT ![w] = Stopped]
      /\ UNCHANGED <<config, upstream, changes, cached, request, stage, next, results, cause,
                     asked, outcome, walk>>
  BY DEF Stop
<1>2. /\ Taken /\ Concluded /\ Len(Servers) \in Nat /\ DOMAIN Servers = 1 .. Len(Servers)
      /\ Free \notin DOMAIN Servers /\ Stopped \notin DOMAIN Servers /\ Free # Stopped
  BY <1>1, Discovering
<1>3. Servers' = Servers /\ WorkersOf(request'.cfg) = WorkersOf(request.cfg)
  BY <1>1 DEF Servers
<1>4. at \in [WorkersOf(request.cfg) -> {Free, Stopped} \cup DOMAIN Servers]
  BY <1>2 DEF Taken
<1>5. /\ at'[w] = Stopped /\ DOMAIN at' = DOMAIN at
      /\ \A v \in DOMAIN at : v # w => at'[v] = at[v]
      /\ at' \in [WorkersOf(request.cfg) -> {Free, Stopped} \cup DOMAIN Servers]
  BY <1>1, <1>4
<1>6. \A v \in DOMAIN at, i \in DOMAIN Servers : at'[v] = i <=> at[v] = i
  BY <1>1, <1>2, <1>5
<1>7. Taken'
  BY <1>1, <1>2, <1>3, <1>5, <1>6 DEF Taken
<1>8. Concluded'
  BY <1>1, <1>2, <1>3, <1>5 DEF Concluded
<1> QED BY <1>1, <1>7, <1>8, WorkerStep

LEMMA ReturnedFits ==
    ASSUME World, NEW s, s.name \in Components, NEW answer \in Returned(s)
    PROVE  answer \in AnswerRecords /\ (answer.kind = "canceled" => cause # None)
<1> DEFINE given == upstream[s.name]
<1>1. given \in AnswerRecords /\ given.kind # "canceled"
  <2>1. PICK t \in ToSet(config.servers) : s.name = t.name
    BY DEF World
  <2>2. config \in Configs /\ s.name \in DOMAIN Answers /\ given \in Answers[s.name]
    BY <2>1, CompilerAssumption DEF World
  <2> QED BY <2>2, CompilerAssumption
<1> DEFINE seen == [kind |-> "features", features |-> Listed(s, given.features)]
           stopped == [kind |-> "canceled", features |-> NoFeatures]
<1>2. seen \in AnswerRecords /\ seen.kind = "features"
  <2>1. Listed(s, given.features) \in FeatureRecords
    BY <1>1, RecordsDiffer, ListedFits
  <2> QED BY <2>1 DEF AnswerRecords, AnswerKinds
<1>3. stopped \in AnswerRecords /\ stopped.kind = "canceled"
  BY RecordsDiffer DEF AnswerRecords, AnswerKinds
<1>4. answer \in {given, seen} \/ (answer = stopped /\ cause # None)
  BY DEF Returned
<1> HIDE DEF given, seen, stopped
<1> QED BY <1>1, <1>2, <1>3, <1>4

\* What an answer does to the results, the cause and the worker.
LEMMA AnswerTells ==
    ASSUME IInv, NEW w \in DOMAIN at, Discover(w)
    PROVE  \E i \in DOMAIN Servers : \E answer \in AnswerRecords :
              /\ at[w] = i /\ asked' = [asked EXCEPT ![i] = answer]
              /\ results' \in [DOMAIN Servers -> ResultRecords \cup {None}]
              /\ results'[i] = Result(request.cfg, i, answer)
              /\ \A j \in DOMAIN Servers : j # i => results'[j] = results[j]
              /\ cause # None => cause' = cause
              /\ cause = None =>
                    \/ cause' = None
                    \/ /\ cause' = [kind |-> answer.kind, server |-> i]
                       /\ Bad(request.cfg, i, answer)
              /\ answer.kind = "canceled" \/ Bad(request.cfg, i, answer) => cause' # None
              /\ \/ at' = [at EXCEPT ![w] = Free]
                 \/ at' = [at EXCEPT ![w] = Stopped] /\ cause' # None
<1> DEFINE i == at[w]
<1>1. /\ World /\ Taken /\ Concluded /\ Len(Servers) \in Nat /\ DOMAIN Servers = 1 .. Len(Servers)
      /\ ConfigFits(request.cfg, Components) /\ at[w] \in Nat
      /\ UNCHANGED <<config, upstream, changes, cached, request, stage, next, outcome, walk>>
  BY Discovering DEF Discover
<1>2. PICK answer \in Returned(Servers[i]) :
         /\ asked' = [asked EXCEPT ![i] = answer]
         /\ \/ answer.kind = "challenge" /\ Challenged(w, i)
            \/ Acceptable(Servers[i], answer) /\ Succeeded(w, i, answer)
            \/ /\ answer.kind # "challenge" /\ ~Acceptable(Servers[i], answer)
               /\ Failed(w, i, answer)
  BY DEF Discover
<1>3. i \in DOMAIN Servers
  <2>1. at[w] \in {Free, Stopped} \cup DOMAIN Servers
    BY <1>1 DEF Taken
  <2>2. Free \notin Nat /\ Stopped \notin Nat
    BY CompilerAssumption
  <2> QED BY <1>1, <2>1, <2>2
<1>4. answer \in AnswerRecords /\ (answer.kind = "canceled" => cause # None)
  <2>1. Servers[i].name \in Components
    BY <1>1, <1>3 DEF ConfigFits, ToSet, Servers
  <2> QED BY <1>1, <2>1, ReturnedFits
<1>5. answer # None /\ answer.kind \in AnswerKinds /\ answer.features \in FeatureRecords
  BY <1>4, RecordsDiffer
<1>6. Acceptable(Servers[i], answer) <=> Good(request.cfg, i, answer)
  BY DEF Acceptable, Good, Servers
<1>7. /\ results \in [DOMAIN Servers -> ResultRecords \cup {None}]
      /\ results[i] = None
      /\ request.cfg.defer \in BOOLEAN
  <2>1. asked[i] = None
    BY <1>1, <1>3 DEF Taken
  <2>2. request.cfg.defer \in BOOLEAN
    BY <1>1 DEF ConfigFits, ConfigRecords
  <2> QED BY <1>1, <1>3, <2>1, <2>2 DEF Concluded, Result
<1> HIDE DEF i
<1>8. CASE answer.kind = "challenge" /\ Challenged(w, i)
  <2> DEFINE new == [features |-> NoFeatures, pending |-> TRUE, err |-> ~request.cfg.defer]
  <2>1. new \in ResultRecords
    BY <1>7, RecordsDiffer DEF ResultRecords
  <2>2. Result(request.cfg, i, answer) = new
    BY <1>5, <1>8 DEF Result
  <2>3. results' = [results EXCEPT ![i] = new] /\ at' = [at EXCEPT ![w] = Free] /\ cause' = cause
    BY <1>8 DEF Challenged
  <2> HIDE DEF new
  <2>4. ~Bad(request.cfg, i, answer) /\ answer.kind # "canceled"
    BY <1>8 DEF Bad
  <2> QED BY <1>2, <1>3, <1>4, <1>7, <2>1, <2>2, <2>3, <2>4 DEF i
<1>9. CASE Acceptable(Servers[i], answer) /\ Succeeded(w, i, answer)
  <2> DEFINE new == [features |-> answer.features, pending |-> FALSE, err |-> FALSE]
  <2>1. new \in ResultRecords
    BY <1>5 DEF ResultRecords
  <2>2. answer.kind = "features"
    BY <1>9 DEF Acceptable
  <2>3. Result(request.cfg, i, answer) = new
    BY <1>5, <1>6, <1>9, <2>2 DEF Result
  <2>4. results' = [results EXCEPT ![i] = new] /\ at' = [at EXCEPT ![w] = Free] /\ cause' = cause
    BY <1>9 DEF Succeeded
  <2> HIDE DEF new
  <2>5. ~Bad(request.cfg, i, answer) /\ answer.kind # "canceled"
    BY <1>6, <1>9, <2>2 DEF Bad
  <2> QED BY <1>2, <1>3, <1>4, <1>7, <2>1, <2>3, <2>4, <2>5 DEF i
<1>10. CASE /\ answer.kind # "challenge" /\ ~Acceptable(Servers[i], answer)
            /\ Failed(w, i, answer)
  <2>1. Result(request.cfg, i, answer) = None
    BY <1>5, <1>6, <1>10 DEF Result
  <2>2. results' = results /\ at' = [at EXCEPT ![w] = Stopped]
    BY <1>10 DEF Failed
  <2>3. answer.kind = "canceled" \/ Bad(request.cfg, i, answer)
    BY <1>6, <1>10 DEF Bad
  <2>4. CASE cause # None
    <3>1. cause' = cause
      BY <1>10, <2>4 DEF Failed
    <3> QED BY <1>2, <1>3, <1>4, <1>7, <2>1, <2>2, <2>4, <3>1 DEF i
  <2>5. CASE cause = None
    <3>1. cause' = [kind |-> answer.kind, server |-> i]
      BY <1>10, <2>5 DEF Failed
    <3>2. cause' \in CauseRecords
      BY <1>1, <1>3, <1>5, <3>1 DEF CauseRecords
    <3>3. cause' # None /\ Bad(request.cfg, i, answer)
      BY <1>4, <2>3, <2>5, <3>2, RecordsDiffer
    <3> QED BY <1>2, <1>3, <1>4, <1>7, <2>1, <2>2, <2>5, <3>1, <3>3 DEF i
  <2> QED BY <2>4, <2>5
<1> QED BY <1>2, <1>8, <1>9, <1>10

LEMMA DiscoverStep == ASSUME IInv, NEW w \in DOMAIN at, Discover(w) PROVE IInv'
<1>1. /\ stage = "discovering"
      /\ UNCHANGED <<config, upstream, changes, cached, request, stage, next, outcome, walk>>
  BY DEF Discover
<1>2. /\ Taken /\ Concluded /\ Len(Servers) \in Nat /\ DOMAIN Servers = 1 .. Len(Servers)
      /\ Free \notin DOMAIN Servers /\ Stopped \notin DOMAIN Servers /\ Free # Stopped
  BY <1>1, Discovering
<1>3. Servers' = Servers /\ WorkersOf(request'.cfg) = WorkersOf(request.cfg)
  BY <1>1 DEF Servers
<1>4. PICK i \in DOMAIN Servers : \E answer \in AnswerRecords :
         /\ at[w] = i /\ asked' = [asked EXCEPT ![i] = answer]
         /\ results' \in [DOMAIN Servers -> ResultRecords \cup {None}]
         /\ results'[i] = Result(request.cfg, i, answer)
         /\ \A j \in DOMAIN Servers : j # i => results'[j] = results[j]
         /\ cause # None => cause' = cause
         /\ cause = None =>
               \/ cause' = None
               \/ /\ cause' = [kind |-> answer.kind, server |-> i]
                  /\ Bad(request.cfg, i, answer)
         /\ answer.kind = "canceled" \/ Bad(request.cfg, i, answer) => cause' # None
         /\ \/ at' = [at EXCEPT ![w] = Free]
            \/ at' = [at EXCEPT ![w] = Stopped] /\ cause' # None
  BY AnswerTells
<1>5. PICK answer \in AnswerRecords :
         /\ at[w] = i /\ asked' = [asked EXCEPT ![i] = answer]
         /\ results' \in [DOMAIN Servers -> ResultRecords \cup {None}]
         /\ results'[i] = Result(request.cfg, i, answer)
         /\ \A j \in DOMAIN Servers : j # i => results'[j] = results[j]
         /\ cause # None => cause' = cause
         /\ cause = None =>
               \/ cause' = None
               \/ /\ cause' = [kind |-> answer.kind, server |-> i]
                  /\ Bad(request.cfg, i, answer)
         /\ answer.kind = "canceled" \/ Bad(request.cfg, i, answer) => cause' # None
         /\ \/ at' = [at EXCEPT ![w] = Free]
            \/ at' = [at EXCEPT ![w] = Stopped] /\ cause' # None
  BY <1>4
<1>6. /\ asked \in [DOMAIN Servers -> AnswerRecords \cup {None}]
      /\ at \in [WorkersOf(request.cfg) -> {Free, Stopped} \cup DOMAIN Servers]
      /\ next \in 1 .. Len(Servers) + 1
      /\ i < next /\ asked[i] = None
      /\ \A v \in DOMAIN at : at[v] = i => v = w
  BY <1>2, <1>5 DEF Taken
<1>7. /\ asked' \in [DOMAIN Servers -> AnswerRecords \cup {None}]
      /\ asked'[i] = answer /\ answer # None
      /\ \A j \in DOMAIN Servers : j # i => asked'[j] = asked[j]
  BY <1>5, <1>6, RecordsDiffer
<1>8. /\ at' \in [WorkersOf(request.cfg) -> {Free, Stopped} \cup DOMAIN Servers]
      /\ DOMAIN at' = DOMAIN at
      /\ at'[w] = Free \/ (at'[w] = Stopped /\ cause' # None)
      /\ \A v \in DOMAIN at : v # w => at'[v] = at[v]
  BY <1>5, <1>6
<1>9. ASSUME NEW v \in DOMAIN at, at'[v] \in DOMAIN Servers
      PROVE  /\ at'[v] < next /\ asked'[at'[v]] = None
             /\ \A u \in DOMAIN at : at'[u] = at'[v] => u = v
  <2>1. v # w /\ at'[v] = at[v] /\ at[v] # i
    BY <1>2, <1>6, <1>8, <1>9
  <2>2. /\ at[v] < next /\ asked[at[v]] = None
        /\ \A u \in DOMAIN at : at[u] = at[v] => u = v
    BY <1>2, <1>9, <2>1 DEF Taken
  <2> QED BY <1>2, <1>7, <1>8, <1>9, <2>1, <2>2
<1>10. ASSUME NEW j \in DOMAIN Servers
       PROVE  /\ j < next => asked'[j] # None \/ \E v \in DOMAIN at : at'[v] = j
              /\ asked'[j] # None => j < next
  <2>1. /\ j < next => asked[j] # None \/ \E v \in DOMAIN at : at[v] = j
        /\ asked[j] # None => j < next
    BY <1>2 DEF Taken
  <2>2. CASE j = i
    BY <1>6, <1>7, <2>2
  <2>3. CASE j # i
    BY <1>5, <1>7, <1>8, <2>1, <2>3
  <2> QED BY <2>2, <2>3
<1>11. Taken'
  BY <1>1, <1>3, <1>6, <1>7, <1>8, <1>9, <1>10 DEF Taken
<1>12. cause' \in CauseRecords \cup {None}
  <2>1. cause \in CauseRecords \cup {None}
    BY <1>2 DEF Concluded
  <2>2. i \in Nat /\ answer.kind \in AnswerKinds
    BY <1>2, RecordsDiffer
  <2>3. [kind |-> answer.kind, server |-> i] \in CauseRecords
    BY <2>2 DEF CauseRecords
  <2> QED BY <1>5, <2>1, <2>3
<1>13. ASSUME NEW j \in DOMAIN Servers
       PROVE  /\ results'[j] = Result(request.cfg, j, asked'[j])
              /\ asked'[j] # None /\ (asked'[j].kind = "canceled" \/ Bad(request.cfg, j, asked'[j]))
                    => cause' # None
  <2>1. CASE j = i
    BY <1>5, <1>7, <2>1
  <2>2. CASE j # i
    BY <1>2, <1>5, <1>7, <2>2 DEF Concluded
  <2> QED BY <2>1, <2>2
<1>14. ASSUME cause' # None
       PROVE  \/ cause'.kind = "canceled" /\ cause'.server = 0
              \/ /\ cause'.server \in DOMAIN Servers /\ asked'[cause'.server] # None
                 /\ Bad(request.cfg, cause'.server, asked'[cause'.server])
                 /\ cause'.kind = asked'[cause'.server].kind
  <2>1. CASE cause # None
    BY <1>2, <1>5, <1>6, <1>7, <2>1 DEF Concluded
  <2>2. CASE cause = None
    <3>1. cause'.kind = answer.kind /\ cause'.server = i /\ Bad(request.cfg, i, answer)
      BY <1>5, <1>14, <2>2
    <3> QED BY <1>7, <3>1
  <2> QED BY <2>1, <2>2
<1>15. \A v \in DOMAIN at : at'[v] = Stopped => cause' # None \/ next > Len(Servers)
  BY <1>2, <1>5, <1>8 DEF Concluded
<1>16. Concluded'
  BY <1>1, <1>3, <1>5, <1>8, <1>12, <1>13, <1>14, <1>15 DEF Concluded
<1> QED BY <1>1, <1>11, <1>16, WorkerStep

----------------------------------------------------------------------------
(* The end of a discovery.                                                 *)

LEMMA NamesOfNone == ASSUME NEW cfg PROVE NamesAt(cfg, {}) = <<>>
  BY SelectedNone DEF NamesAt

LEMMA NamesOfOne ==
    ASSUME NEW cfg, NEW i \in Nat PROVE NamesAt(cfg, {i}) = <<cfg.servers[i].name>>
  BY SelectedOne DEF NamesAt

\* When nothing canceled the discovery, every server was asked and none failed.
LEMMA AllAnswered ==
    ASSUME IInv, stage = "discovering", \A w \in DOMAIN at : at[w] = Stopped, cause = None
    PROVE  /\ DOMAIN results = DOMAIN Servers
           /\ Asked = DOMAIN Servers /\ Broken = {}
           /\ \A i \in DOMAIN Servers :
                 /\ asked[i] \in AnswerRecords
                 /\ asked[i].kind = "challenge" =>
                       results[i] = [features |-> NoFeatures, pending |-> TRUE,
                                     err |-> ~request.cfg.defer]
                 /\ asked[i].kind # "challenge" =>
                       /\ Good(request.cfg, i, asked[i])
                       /\ results[i] = [features |-> asked[i].features, pending |-> FALSE,
                                        err |-> FALSE]
<1>1. /\ Taken /\ Concluded /\ Len(Servers) \in Nat /\ DOMAIN Servers = 1 .. Len(Servers)
      /\ Stopped \notin DOMAIN Servers
  BY Discovering
<1>2. ASSUME NEW i \in DOMAIN Servers PROVE asked[i] # None
  <2>1. 1 \in WorkersOf(request.cfg)
    <3>1. MaxParallel \in Nat /\ 1 <= MaxParallel /\ 1 <= Len(Servers)
      BY <1>1, CompilerAssumption
    <3> QED BY <1>1, <3>1 DEF WorkersOf, Servers
  <2>2. at[1] = Stopped
    BY <1>1, <2>1 DEF Taken
  <2>3. next > Len(Servers) /\ next \in Nat
    BY <1>1, <2>1, <2>2 DEF Taken, Concluded
  <2>4. i < next
    BY <1>1, <2>3
  <2>5. asked[i] # None \/ \E w \in DOMAIN at : at[w] = i
    BY <1>1, <2>4 DEF Taken
  <2> QED BY <1>1, <2>5
<1>3. ASSUME NEW i \in DOMAIN Servers
      PROVE  /\ asked[i] \in AnswerRecords /\ asked[i].kind # "canceled"
             /\ ~Bad(request.cfg, i, asked[i])
             /\ results[i] = Result(request.cfg, i, asked[i])
  BY <1>1, <1>2 DEF Taken, Concluded
<1>4. Asked = DOMAIN Servers /\ DOMAIN results = DOMAIN Servers
  BY <1>1, <1>2 DEF Asked, Taken, Concluded
<1>5. Broken = {}
  BY <1>3, <1>4 DEF Broken, Bad, Good, Genuine, Acceptable, Servers
<1>6. ASSUME NEW i \in DOMAIN Servers, asked[i].kind = "challenge"
      PROVE  results[i] = [features |-> NoFeatures, pending |-> TRUE,
                           err |-> ~request.cfg.defer]
  BY <1>2, <1>3, <1>6 DEF Result
<1>7. ASSUME NEW i \in DOMAIN Servers, asked[i].kind # "challenge"
      PROVE  /\ Good(request.cfg, i, asked[i])
             /\ results[i] = [features |-> asked[i].features, pending |-> FALSE, err |-> FALSE]
  <2>1. Good(request.cfg, i, asked[i])
    BY <1>3, <1>7 DEF Bad
  <2> QED BY <1>2, <1>3, <1>7, <2>1 DEF Result
<1> QED BY <1>3, <1>4, <1>5, <1>6, <1>7

\* What a compile may return, given the answers.
CallsFor(o) ==
    \/ /\ o.kind \in {"failure", "nil", "features"}
       /\ \E i \in Broken : asked[i].kind = o.kind /\ o.names = <<Servers[i].name>>
    \/ o.kind = "canceled" /\ o.names = <<>>
    \/ /\ o.kind = "challenge"
       /\ Asked = DOMAIN Servers /\ Broken = {} /\ ~request.cfg.defer
       /\ o.names = NamesAt(request.cfg, Challenges)
    \/ o.kind = "collision" /\ Asked = DOMAIN Servers /\ Broken = {}
    \/ /\ o.kind = "catalog"
       /\ Asked = DOMAIN Servers /\ Broken = {}
       /\ o.catalog.pending = NamesAt(request.cfg, Challenges)
       /\ Challenges = {} => ShowsWhatIsOffered(request.cfg, o.catalog)
       /\ CatalogFits(request.cfg, o.catalog)

LEMMA CompiledCanceled ==
    ASSUME IInv, stage = "discovering", cause # None
    PROVE  CallsFor(Compiled(request.cfg))
<1> DEFINE o == [kind |-> cause.kind, names |-> NamesAt(request.cfg, {cause.server} \ {0}),
                 catalog |-> None]
<1>1. /\ Taken /\ Concluded /\ Len(Servers) \in Nat /\ DOMAIN Servers = 1 .. Len(Servers)
  BY Discovering
<1>2. Compiled(request.cfg) = o
  BY DEF Compiled
<1>3. CASE cause.kind = "canceled" /\ cause.server = 0
  <2>1. {cause.server} \ {0} = {}
    BY <1>3
  <2>2. o.kind = "canceled" /\ o.names = <<>>
    BY <1>3, <2>1, NamesOfNone
  <2> QED BY <1>2, <2>2 DEF CallsFor
<1>4. CASE /\ cause.server \in DOMAIN Servers /\ asked[cause.server] # None
           /\ Bad(request.cfg, cause.server, asked[cause.server])
           /\ cause.kind = asked[cause.server].kind
  <2> DEFINE i == cause.server
  <2>1. i \in Nat /\ {i} \ {0} = {i}
    BY <1>1, <1>4
  <2>2. o.kind = asked[i].kind /\ o.names = <<Servers[i].name>>
    BY <1>4, <2>1, NamesOfOne DEF Servers
  <2>3. asked[i] \in AnswerRecords /\ i \in DOMAIN asked
    BY <1>1, <1>4 DEF Taken
  <2>4. i \in Broken
    BY <1>4, <2>3 DEF Broken, Asked, Genuine, Bad, Good, Acceptable, Servers
  <2>5. o.kind \in {"failure", "nil", "features"}
    BY <1>4, <2>2, <2>3, RecordsDiffer DEF Bad, AnswerKinds
  <2> HIDE DEF o
  <2> QED BY <1>2, <2>2, <2>4, <2>5 DEF CallsFor
<1> QED BY <1>1, <1>3, <1>4 DEF Concluded

LEMMA CompiledInFull ==
    ASSUME IInv, stage = "discovering", \A w \in DOMAIN at : at[w] = Stopped, cause = None
    PROVE  CallsFor(Compiled(request.cfg))
<1> DEFINE cfg == request.cfg
<1>1. /\ cfg \in ConfigRecords /\ NamesDiffer(cfg) /\ Servers = cfg.servers
  BY Discovering DEF ConfigFits, Servers
<1>2. /\ DOMAIN results = DOMAIN Servers
      /\ Asked = DOMAIN Servers /\ Broken = {}
      /\ \A i \in DOMAIN Servers :
            /\ asked[i] \in AnswerRecords
            /\ asked[i].kind = "challenge" =>
                  results[i] = [features |-> NoFeatures, pending |-> TRUE, err |-> ~cfg.defer]
            /\ asked[i].kind # "challenge" =>
                  /\ Good(cfg, i, asked[i])
                  /\ results[i] = [features |-> asked[i].features, pending |-> FALSE,
                                   err |-> FALSE]
  BY AllAnswered
<1>3. \A i \in DOMAIN Servers :
         /\ results[i].pending <=> asked[i].kind = "challenge"
         /\ results[i].err <=> (asked[i].kind = "challenge" /\ ~cfg.defer)
         /\ asked[i].kind # "challenge" => results[i].features = asked[i].features
  <2> TAKE i \in DOMAIN Servers
  <2>1. CASE asked[i].kind = "challenge"
    <3>1. results[i] = [features |-> NoFeatures, pending |-> TRUE, err |-> ~cfg.defer]
      BY <1>2, <2>1
    <3>2. results[i].pending = TRUE /\ results[i].err = ~cfg.defer
      BY <3>1
    <3> QED BY <2>1, <3>2
  <2>2. CASE asked[i].kind # "challenge"
    <3>1. results[i] = [features |-> asked[i].features, pending |-> FALSE, err |-> FALSE]
      BY <1>2, <2>2
    <3>2. /\ results[i].pending = FALSE /\ results[i].err = FALSE
          /\ results[i].features = asked[i].features
      BY <3>1
    <3> QED BY <2>2, <3>2
  <2> QED BY <2>1, <2>2
<1>4. Where("pending") = Challenges
  BY <1>2, <1>3 DEF Where, Challenges
<1>5. Where("err") = IF cfg.defer THEN {} ELSE Challenges
  BY <1>2, <1>3 DEF Where, Challenges
<1>6. CASE Where("err") # {}
  <2>1. Compiled(cfg) = [kind |-> "challenge", names |-> NamesAt(cfg, Where("err")), catalog |-> None]
    BY <1>6 DEF Compiled
  <2>2. ~cfg.defer /\ Where("err") = Challenges
    BY <1>5, <1>6
  <2> QED BY <1>2, <2>1, <2>2 DEF CallsFor
<1>7. CASE Where("err") = {} /\ Refused(cfg, Found)
  <2>1. Compiled(cfg).kind = "collision"
    BY <1>7 DEF Compiled
  <2> QED BY <1>2, <2>1 DEF CallsFor
<1>8. CASE Where("err") = {} /\ ~Refused(cfg, Found)
  <2> DEFINE catalog == Catalog(cfg, Found, Challenges)
  <2>1. Compiled(cfg).kind = "catalog" /\ Compiled(cfg).catalog = catalog
    BY <1>4, <1>8 DEF Compiled
  <2>2. catalog.pending = NamesAt(cfg, Challenges)
    BY NamesOfNone DEF Catalog
  <2>3. ASSUME Challenges = {} PROVE Sound(cfg, Found) /\ ShowsWhatIsOffered(cfg, catalog)
    <3>1. ASSUME NEW i \in DOMAIN cfg.servers
          PROVE  /\ Found[i] = asked[i].features /\ asked[i].features \in FeatureRecords
                 /\ Good(cfg, i, asked[i])
      <4>1. i \in DOMAIN Servers /\ asked[i].kind # "challenge"
        BY <1>1, <1>2, <2>3 DEF Challenges
      <4> QED BY <1>2, <1>3, <4>1, RecordsDiffer DEF Found
    <3>2. Sound(cfg, Found)
      BY <3>1 DEF Sound, Good
    <3>3. catalog = [pending |-> <<>>, search |-> cfg.search, routes |-> Merged(cfg, Found)]
      BY <2>3 DEF Catalog
    <3>4. ~Clash(Merged(cfg, Found))
      BY <1>8 DEF Refused
    <3> HIDE DEF catalog
    <3>5. ShowsWhatIsOffered(cfg, [pending |-> <<>>, search |-> cfg.search, routes |-> Merged(cfg, Found)])
      BY <1>1, <1>2, <3>1, <3>2, <3>4, MergedShows
    <3> QED BY <3>2, <3>3, <3>5
  <2>4. CatalogFits(cfg, catalog)
    BY <1>1, <1>8, <2>3, CatalogOfFits
  <2> HIDE DEF catalog
  <2> QED BY <1>2, <2>1, <2>2, <2>3, <2>4 DEF CallsFor
<1> QED BY <1>6, <1>7, <1>8

LEMMA FinishStep == ASSUME IInv, Finish PROVE IInv'
<1> DEFINE cfg == request.cfg
           o == Compiled(cfg)
<1>1. /\ stage = "discovering" /\ \A w \in DOMAIN at : at[w] = Stopped
      /\ outcome' = o /\ stage' = "answered"
      /\ cached' = IF outcome'.kind = "catalog" /\ outcome'.catalog.pending = <<>>
                   THEN [c \in DOMAIN cached \cup {cfg} |->
                            IF c = cfg THEN outcome'.catalog ELSE cached[c]]
                   ELSE cached
      /\ UNCHANGED <<config, upstream, changes, request, at, next, results, cause, asked, walk>>
  BY DEF Finish, discovery
<1>2. /\ World /\ Requested /\ CachedFit /\ WalkFits /\ Taken /\ Concluded
      /\ Len(Servers) \in Nat /\ DOMAIN Servers = 1 .. Len(Servers)
  BY <1>1, Discovering
<1>3. CallsFor(o)
  BY <1>1, CompiledCanceled, CompiledInFull
<1> HIDE DEF o
<1>4. World' /\ Components' = Components /\ WalkFits'
  BY <1>1, <1>2, WorldKept, WalkKept
<1>5. Requested'
  BY <1>1, <1>2, <1>4 DEF Requested
<1>6. o.kind = "catalog" => CatalogFits(cfg, o.catalog)
  BY <1>3 DEF CallsFor
<1>7. CachedFit'
  <2>1. CASE o.kind = "catalog" /\ o.catalog.pending = <<>>
    <3>1. cached' = [c \in DOMAIN cached \cup {cfg} |->
                        IF c = cfg THEN o.catalog ELSE cached[c]]
      BY <1>1, <2>1
    <3>2. /\ DOMAIN cached' = DOMAIN cached \cup {cfg} /\ cached'[cfg] = o.catalog
          /\ \A c \in DOMAIN cached : c # cfg => cached'[c] = cached[c]
      BY <3>1
    <3> QED BY <1>2, <1>6, <2>1, <3>2 DEF CachedFit
  <2>2. CASE ~(o.kind = "catalog" /\ o.catalog.pending = <<>>)
    <3>1. cached' = cached
      BY <1>1, <2>2
    <3> QED BY <1>2, <3>1 DEF CachedFit
  <2> QED BY <2>1, <2>2
<1>8. Answered'
  <2>1. o.kind \in OutcomeKinds
    BY <1>3 DEF CallsFor, OutcomeKinds, AnswerKinds
  <2>2. \A i \in DOMAIN results : results[i] \in ResultRecords \cup {None}
    BY <1>2 DEF Concluded
  <2>3. cause # None => cause.kind \in AnswerKinds /\ cause.server \in Position
    BY <1>2, RecordsDiffer DEF Concluded, CauseRecords, Position
  <2>4. Position' = Position
    BY <1>1 DEF Position, Servers
  <2> QED BY <1>1, <1>6, <2>1, <2>2, <2>3, <2>4 DEF Answered
<1>9. Progress'
  BY <1>1, <1>8 DEF Progress
<1>10. /\ Servers' = Servers /\ Asked' = Asked /\ Broken' = Broken /\ Challenges' = Challenges
       /\ \A catalog : ShowsWhatIsOffered(cfg, catalog)' <=> ShowsWhatIsOffered(cfg, catalog)
  BY <1>1 DEF Servers, Asked, Broken, Challenges, Genuine, Acceptable, ShowsWhatIsOffered, Offers
<1>11. OutcomeMatchesAnswers'
  <2>1. outcome' = o /\ asked' = asked /\ request' = request
    BY <1>1
  <2>2. CASE /\ o.kind \in {"failure", "nil", "features"}
             /\ \E i \in Broken : asked[i].kind = o.kind /\ o.names = <<Servers[i].name>>
    BY <1>10, <2>1, <2>2 DEF OutcomeMatchesAnswers
  <2>3. CASE o.kind = "canceled" /\ o.names = <<>>
    BY <1>10, <2>1, <2>3 DEF OutcomeMatchesAnswers
  <2>4. CASE /\ o.kind = "challenge"
             /\ Asked = DOMAIN Servers /\ Broken = {} /\ ~cfg.defer
             /\ o.names = NamesAt(cfg, Challenges)
    BY <1>10, <2>1, <2>4 DEF OutcomeMatchesAnswers
  <2>5. CASE o.kind = "collision" /\ Asked = DOMAIN Servers /\ Broken = {}
    BY <1>10, <2>1, <2>5 DEF OutcomeMatchesAnswers
  <2>6. CASE /\ o.kind = "catalog"
             /\ Asked = DOMAIN Servers /\ Broken = {}
             /\ o.catalog.pending = NamesAt(cfg, Challenges)
             /\ Challenges = {} => ShowsWhatIsOffered(cfg, o.catalog)
    BY <1>10, <2>1, <2>6 DEF OutcomeMatchesAnswers
  <2> QED BY <1>3, <2>2, <2>3, <2>4, <2>5, <2>6 DEF CallsFor
<1> QED BY <1>4, <1>5, <1>7, <1>9, <1>11 DEF IInv

----------------------------------------------------------------------------
(* The order of names.                                                     *)

\* Two texts are alike up to n, where one ends or the lesser token stands.
Agree(a, b, n) == n <= Len(a) /\ n <= Len(b) /\ \A j \in 1 .. n : a[j] = b[j]
Parts(a, b, n) ==
    /\ n < Len(b)
    /\ n = Len(a) \/ (n < Len(a) /\ a[n + 1] < b[n + 1])

LEMMA SameText ==
    ASSUME NEW a \in Texts, NEW b \in Texts, Len(a) = Len(b),
           \A j \in 1 .. Len(a) : a[j] = b[j]
    PROVE  a = b
<1>1. a \in Seq(Nat) /\ b \in Seq(Nat)
  BY DEF Texts
<1> QED BY <1>1

LEMMA PrecedesIs ==
    ASSUME NEW a \in Texts, NEW b \in Texts
    PROVE  Precedes(a, b) <=> \E n \in Nat : Agree(a, b, n) /\ Parts(a, b, n)
<1>1. /\ a \in Seq(Nat) /\ b \in Seq(Nat) /\ Len(a) \in Nat /\ Len(b) \in Nat
      /\ DOMAIN a = 1 .. Len(a) /\ DOMAIN b = 1 .. Len(b)
  BY DEF Texts
<1>2. IsStrictPrefix(a, b) <=> Len(a) < Len(b) /\ \A j \in 1 .. Len(a) : a[j] = b[j]
  <2>1. IsPrefix(a, b) <=> Len(a) <= Len(b) /\ \A j \in 1 .. Len(a) : a[j] = b[j]
    BY <1>1 DEF IsPrefix
  <2>2. (Len(a) = Len(b) /\ \A j \in 1 .. Len(a) : a[j] = b[j]) => a = b
    BY SameText
  <2>3. (Len(a) <= Len(b) /\ ~(Len(a) < Len(b))) => Len(a) = Len(b)
    <3>1. Len(a) \in Nat /\ Len(b) \in Nat
      BY <1>1
    <3> QED BY <3>1
  <2>4. Len(a) < Len(b) => Len(a) <= Len(b) /\ a # b
    BY <1>1
  <2> QED BY <2>1, <2>2, <2>3, <2>4 DEF IsStrictPrefix
<1>3. ASSUME IsStrictPrefix(a, b)
      PROVE  \E n \in Nat : Agree(a, b, n) /\ Parts(a, b, n)
  <2>1. Len(a) < Len(b) /\ \A j \in 1 .. Len(a) : a[j] = b[j]
    BY <1>2, <1>3
  <2>2. Agree(a, b, Len(a)) /\ Parts(a, b, Len(a))
    BY <1>1, <2>1 DEF Agree, Parts
  <2> QED BY <1>1, <2>2
<1>4. ASSUME NEW i \in DOMAIN a \cap DOMAIN b, a[i] < b[i],
             \A j \in 1 .. (i - 1) : a[j] = b[j]
      PROVE  \E n \in Nat : Agree(a, b, n) /\ Parts(a, b, n)
  <2>1. /\ i - 1 \in Nat /\ (i - 1) + 1 = i /\ i - 1 < Len(a) /\ i - 1 < Len(b)
    BY <1>1
  <2>2. Agree(a, b, i - 1) /\ Parts(a, b, i - 1)
    BY <1>1, <1>4, <2>1 DEF Agree, Parts
  <2> QED BY <2>1, <2>2
<1>5. ASSUME NEW n \in Nat, Agree(a, b, n), Parts(a, b, n)
      PROVE  Precedes(a, b)
  <2>1. CASE n = Len(a)
    BY <1>2, <1>5, <2>1 DEF Agree, Parts, Precedes
  <2>2. CASE n < Len(a) /\ a[n + 1] < b[n + 1]
    <3>1. n < Len(a) /\ n < Len(b)
      BY <1>5, <2>2 DEF Parts
    <3>2. n + 1 \in 1 .. Len(a) /\ n + 1 \in 1 .. Len(b) /\ (n + 1) - 1 = n
      BY <1>1, <3>1
    <3>3. n + 1 \in DOMAIN a \cap DOMAIN b
      BY <1>1, <3>2
    <3> QED BY <1>5, <2>2, <3>2, <3>3 DEF Agree, Precedes
  <2> QED BY <1>5, <2>1, <2>2 DEF Parts
<1> QED BY <1>3, <1>4, <1>5 DEF Precedes

LEMMA PrecedesOrders ==
    ASSUME NEW a \in Texts, NEW b \in Texts, NEW c \in Texts
    PROVE  /\ ~Precedes(a, a)
           /\ Precedes(a, b) /\ Precedes(b, c) => Precedes(a, c)
           /\ a = b \/ Precedes(a, b) \/ Precedes(b, a)
<1>1. /\ a \in Seq(Nat) /\ b \in Seq(Nat) /\ c \in Seq(Nat)
      /\ Len(a) \in Nat /\ Len(b) \in Nat /\ Len(c) \in Nat
      /\ \A j \in 1 .. Len(a) : a[j] \in Nat
      /\ \A j \in 1 .. Len(b) : b[j] \in Nat
      /\ \A j \in 1 .. Len(c) : c[j] \in Nat
  BY DEF Texts
<1>2. ~Precedes(a, a)
  <2> SUFFICES ASSUME NEW n \in Nat, Parts(a, a, n) PROVE FALSE
    BY PrecedesIs
  <2>1. n < Len(a) /\ a[n + 1] < a[n + 1]
    BY <1>1 DEF Parts
  <2>2. n + 1 \in 1 .. Len(a)
    BY <1>1, <2>1
  <2> QED BY <1>1, <2>1, <2>2
<1>3. ASSUME Precedes(a, b), Precedes(b, c) PROVE Precedes(a, c)
  <2>1. PICK n \in Nat : Agree(a, b, n) /\ Parts(a, b, n)
    BY <1>3, PrecedesIs
  <2>2. PICK m \in Nat : Agree(b, c, m) /\ Parts(b, c, m)
    BY <1>3, PrecedesIs
  <2>3. CASE n < m
    <3>1. n + 1 \in 1 .. m /\ b[n + 1] = c[n + 1]
      BY <2>2, <2>3 DEF Agree
    <3>2. Agree(a, c, n) /\ Parts(a, c, n)
      BY SMTT(30), <1>1, <2>1, <2>2, <2>3, <3>1 DEF Agree, Parts
    <3> QED BY <3>2, PrecedesIs
  <2>4. CASE m < n
    <3>1. m + 1 \in 1 .. n /\ a[m + 1] = b[m + 1] /\ m < Len(a) /\ m < Len(b)
      BY <1>1, <2>1, <2>4 DEF Agree
    <3>2. m < Len(c) /\ b[m + 1] < c[m + 1]
      BY <1>1, <2>2, <3>1 DEF Parts
    <3>3. Agree(a, c, m)
      <4>1. m <= Len(a) /\ m <= Len(c)
        BY SMTT(30), <1>1, <3>1, <3>2
      <4>2. \A j \in 1 .. m : b[j] = c[j]
        BY <2>2 DEF Agree
      <4>3. \A j \in 1 .. m : a[j] = b[j]
        BY <2>1, <2>4 DEF Agree
      <4> QED BY <4>1, <4>2, <4>3 DEF Agree
    <3>4. Parts(a, c, m)
      BY <3>1, <3>2 DEF Parts
    <3> QED BY <3>3, <3>4, PrecedesIs
  <2>5. CASE m = n
    <3>1. n < Len(b) /\ b[n + 1] < c[n + 1] /\ n < Len(c)
      BY <1>1, <2>1, <2>2, <2>5 DEF Parts
    <3>2. n + 1 \in 1 .. Len(b) /\ n + 1 \in 1 .. Len(c)
      BY <1>1, <3>1
    <3>3. n < Len(a) => a[n + 1] < c[n + 1]
      <4> SUFFICES ASSUME n < Len(a) PROVE a[n + 1] < c[n + 1]
        OBVIOUS
      <4>1. n + 1 \in 1 .. Len(a) /\ a[n + 1] < b[n + 1]
        BY <1>1, <2>1 DEF Parts
      <4> QED BY SMTT(30), <1>1, <3>1, <3>2, <4>1
    <3>4. Agree(a, c, n)
      BY <1>1, <2>1, <2>2, <2>5 DEF Agree
    <3>5. Parts(a, c, n)
      BY <1>1, <3>1, <3>3, <3>4 DEF Agree, Parts
    <3> QED BY <3>4, <3>5, PrecedesIs
  <2> QED BY <2>3, <2>4, <2>5
<1>4. ASSUME a # b PROVE Precedes(a, b) \/ Precedes(b, a)
  <2> DEFINE Ends == {k \in Nat : k >= Len(a) \/ k >= Len(b) \/ a[k + 1] # b[k + 1]}
  <2>1. PICK n \in Ends : \A k \in Ends : ~(k < n)
    <3>1. Ends \subseteq Nat /\ Ends # {}
      <4>1. Len(a) \in Ends
        BY <1>1
      <4> QED BY <4>1
    <3> HIDE DEF Ends
    <3>2. PICK n \in Ends : \A k \in Ends : <<k, n>> \notin OpToRel(<, Nat)
      BY <3>1, NatLessThanWellFounded, WFMin, Zenon
    <3> QED BY <3>1, <3>2 DEF OpToRel
  <2>2a. n \in Nat /\ (n >= Len(a) \/ n >= Len(b) \/ a[n + 1] # b[n + 1])
    BY <2>1
  <2>2. ASSUME NEW k \in Nat, k < n
        PROVE  k < Len(a) /\ k < Len(b) /\ a[k + 1] = b[k + 1]
    <3>1. k \notin Ends
      BY <2>1, <2>2
    <3>2. ~(k >= Len(a)) /\ ~(k >= Len(b)) /\ a[k + 1] = b[k + 1]
      BY <3>1
    <3>3. Len(a) \in Nat /\ Len(b) \in Nat
      BY <1>1
    <3> QED BY <3>2, <3>3
  <2>3. n <= Len(a) /\ n <= Len(b)
    <3>1. CASE n = 0
      BY <1>1, <3>1
    <3>2. CASE n # 0
      <4>1. n - 1 \in Nat /\ n - 1 < n
        BY <2>2a, <3>2
      <4>2. n - 1 < Len(a) /\ n - 1 < Len(b)
        BY <2>2, <4>1
      <4> QED BY <1>1, <2>2a, <4>2
    <3> QED BY <3>1, <3>2
  <2>4. ASSUME NEW j \in 1 .. n PROVE a[j] = b[j]
    <3>1. j - 1 \in Nat /\ j - 1 < n /\ (j - 1) + 1 = j
      BY <2>2a
    <3> QED BY <2>2, <3>1
  <2>5. Agree(a, b, n) /\ Agree(b, a, n) /\ n \in Nat
    BY <2>2a, <2>3, <2>4 DEF Agree
  <2>6. CASE n = Len(a)
    <3>1. ASSUME n = Len(b) PROVE FALSE
      <4>1. Len(a) = Len(b) /\ \A j \in 1 .. Len(a) : a[j] = b[j]
        BY <2>4, <2>6, <3>1
      <4>2. a = b
        BY <4>1, SameText
      <4> QED BY <1>4, <4>2
    <3>2. Parts(a, b, n)
      BY <1>1, <2>2a, <2>3, <2>6, <3>1 DEF Parts
    <3> QED BY <2>5, <3>2, PrecedesIs
  <2>7. CASE n = Len(b) /\ n # Len(a)
    <3>1. Parts(b, a, n)
      BY <1>1, <2>2a, <2>3, <2>7 DEF Parts
    <3> QED BY <2>5, <3>1, PrecedesIs
  <2>8. CASE n # Len(b) /\ n # Len(a)
    <3>1. n < Len(a) /\ n < Len(b) /\ a[n + 1] # b[n + 1]
      BY <1>1, <2>2a, <2>3, <2>8
    <3>2. n + 1 \in 1 .. Len(a) /\ n + 1 \in 1 .. Len(b)
      BY <1>1, <2>2a, <3>1
    <3>3. a[n + 1] < b[n + 1] \/ b[n + 1] < a[n + 1]
      BY <1>1, <3>1, <3>2
    <3>4. Parts(a, b, n) \/ Parts(b, a, n)
      BY <3>1, <3>3 DEF Parts
    <3> QED BY <2>5, <3>4, PrecedesIs
  <2> QED BY <2>6, <2>7, <2>8
<1> QED BY <1>2, <1>3, <1>4

----------------------------------------------------------------------------
(* Pages.                                                                  *)

\* A set of entries of which no two have one name, in order.
LEMMA SortedFits ==
    ASSUME NEW shown, IsFiniteSet(shown), \A x \in shown : x \in Entries,
           \A x, y \in shown : x.name = y.name => x = y
    PROVE  LET sorted == InOrder(shown, {p \in shown \X shown : Precedes(p[1].name, p[2].name)})
           IN  sorted \in Seq(Entries) /\ Unlike(sorted)
<1> DEFINE R == {p \in shown \X shown : Precedes(p[1].name, p[2].name)}
           all == InOrder(shown, R)
           n == Cardinality(shown)
<1>1. \A x \in shown : x \in Entries /\ x.name \in Texts
  BY DEF Entries
<1>2. \A x, y \in shown : <<x, y>> \in R <=> Precedes(x.name, y.name)
  OBVIOUS
<1> HIDE DEF R
<1>3. StrictOrder(R, shown)
  BY <1>1, <1>2, PrecedesOrders DEF StrictOrder
<1>4. /\ n \in Nat /\ all \in [1 .. n -> shown]
      /\ \A i, j \in 1 .. n : all[i] = all[j] => i = j
  BY <1>3, InOrderLists
<1> HIDE DEF all, n
<1>5. all \in Seq(Entries)
  BY <1>1, <1>4
<1>6. Unlike(all)
  BY <1>4 DEF Unlike
<1> QED BY <1>5, <1>6 DEF all, R

LEMMA ExposedFits ==
    ASSUME NEW cfg, NEW catalog, CatalogFits(cfg, catalog), NEW f
    PROVE  /\ IsFiniteSet(Exposed(catalog, f))
           /\ \A x \in Exposed(catalog, f) : x \in Entries
           /\ \A x, y \in Exposed(catalog, f) : x.name = y.name => x = y
<1> DEFINE mine == {s \in catalog.routes : s.family = f}
           shown == Exposed(catalog, f)
<1>1. shown = {[name |-> r.exposed, def |-> r.def] : r \in mine}
  BY DEF Exposed
<1>2. IsFiniteSet(shown)
  <2> DEFINE g == [r \in mine |-> [name |-> r.exposed, def |-> r.def]]
  <2>1. IsFiniteSet(mine)
    <3>1. IsFiniteSet(catalog.routes) /\ mine \in SUBSET catalog.routes
      BY DEF CatalogFits
    <3> HIDE DEF mine
    <3> QED BY <3>1, FS_Subset
  <2>2. shown = {g[r] : r \in mine} /\ DOMAIN g = mine
    BY <1>1
  <2> HIDE DEF g, shown, mine
  <2> QED BY <2>1, <2>2, ImageIsFinite
<1>3. ASSUME NEW x \in shown
      PROVE  \E r \in mine : x = [name |-> r.exposed, def |-> r.def] /\ x \in Entries
  <2>1. PICK r \in mine : x = [name |-> r.exposed, def |-> r.def]
    BY <1>1
  <2>2. r.exposed \in Texts /\ r.def \in Nat
    BY DEF CatalogFits, RouteRecords
  <2> QED BY <2>1, <2>2 DEF Entries
<1>4. ASSUME NEW x \in shown, NEW y \in shown, x.name = y.name PROVE x = y
  <2>1. PICK r \in mine : x = [name |-> r.exposed, def |-> r.def]
    BY <1>3
  <2>2. PICK s \in mine : y = [name |-> s.exposed, def |-> s.def]
    BY <1>3
  <2>3. r.exposed = s.exposed /\ r.family = s.family
    BY <1>4, <2>1, <2>2
  <2>4. r = s
    BY <2>3 DEF CatalogFits, Clash
  <2> QED BY <2>1, <2>2, <2>4
<1> QED BY <1>2, <1>3, <1>4

LEMMA SearchToolsFit ==
    /\ IsFiniteSet(SearchTools)
    /\ \A x \in SearchTools : x \in Entries
    /\ \A x, y \in SearchTools : x.name = y.name => x = y
<1> DEFINE entry(tool) == [name |-> tool, def |-> 0]
<1>1. SearchTools = {entry(SearchToolName)} \cup {entry(CallToolName)}
  BY DEF SearchTools
<1>2. IsFiniteSet(SearchTools)
  <2>1. IsFiniteSet({entry(SearchToolName)}) /\ IsFiniteSet({entry(CallToolName)})
    BY FS_Singleton
  <2> HIDE DEF entry
  <2> QED BY <1>1, <2>1, FS_Union
<1>3. entry(SearchToolName) \in Entries /\ entry(CallToolName) \in Entries
  BY TokensFit DEF Entries
<1> QED BY <1>1, <1>2, <1>3

\* A catalog lists each name once.
LEMMA ListingFits ==
    ASSUME NEW cfg, NEW catalog, CatalogFits(cfg, catalog), NEW f
    PROVE  Listing(catalog, f) \in Seq(Entries) /\ Unlike(Listing(catalog, f))
<1>1. CASE catalog.pending # <<>>
  <2> DEFINE auth == [name |-> AuthTool, def |-> 0]
  <2>1. auth \in Entries
    BY TokensFit DEF Entries
  <2>2. Listing(catalog, f) = <<auth>> \/ Listing(catalog, f) = <<>>
    BY <1>1 DEF Listing
  <2> HIDE DEF auth
  <2>3. <<auth>> \in Seq(Entries) /\ Unlike(<<auth>>)
    BY <2>1 DEF Unlike
  <2>4. <<>> \in Seq(Entries) /\ Unlike(<<>>)
    BY DEF Unlike
  <2> QED BY <2>2, <2>3, <2>4
<1>2. CASE ~(catalog.pending # <<>>)
  <2> DEFINE shown == IF f = "tools" /\ catalog.search THEN SearchTools
                      ELSE Exposed(catalog, f)
             sorted == InOrder(shown, {p \in shown \X shown : Precedes(p[1].name, p[2].name)})
  <2>1. Listing(catalog, f) = sorted
    BY <1>2 DEF Listing
  <2>2. /\ IsFiniteSet(shown)
        /\ \A x \in shown : x \in Entries
        /\ \A x, y \in shown : x.name = y.name => x = y
    BY ExposedFits, SearchToolsFit
  <2>3. sorted \in Seq(Entries) /\ Unlike(sorted)
    <3> HIDE DEF shown
    <3> QED BY <2>2, SortedFits
  <2> QED BY <2>1, <2>3
<1> QED BY <1>1, <1>2

\* A page of what is listed: from behind the cursor to the next one.
PageOf(all, f, cursor, page, first, end) ==
    /\ first <= end /\ end <= Len(all)
    /\ cursor = NoCursor => first = 0
    /\ cursor # NoCursor =>
          cursor.id.shown[f] = all /\ first >= 1 /\ all[first].name = cursor.after
    /\ page.expired = FALSE /\ page.items = SubSeq(all, first + 1, end)
    /\ \/ page.next = NoCursor /\ end = Len(all)
       \/ /\ page.next # NoCursor /\ end >= 1
          /\ page.next.id.shown[f] = all /\ page.next.after = all[end].name

LEMMA PageIs ==
    ASSUME NEW catalog, NEW f \in Families, NEW cursor, NEW size \in Nat,
           Listing(catalog, f) \in Seq(Entries)
    PROVE  \/ Page(catalog, f, cursor, size) = Expired
           \/ \E first, end \in Nat :
                 PageOf(Listing(catalog, f), f, cursor, Page(catalog, f, cursor, size), first, end)
<1> DEFINE all == Listing(catalog, f)
           places == {i \in DOMAIN all : all[i].name = cursor.after}
           first == IF cursor = NoCursor THEN 0 ELSE CHOOSE i \in places : TRUE
           end == IF size = 0 \/ first + size > Len(all) THEN Len(all) ELSE first + size
           following == [id |-> IdOf(catalog), family |-> f, after |-> all[end].name]
           page == [items   |-> SubSeq(all, first + 1, end),
                    next    |-> IF end < Len(all) THEN following ELSE NoCursor,
                    expired |-> FALSE]
           refused == cursor # NoCursor /\ (places = {} \/ ~Fits(catalog, f, cursor))
<1>1. Page(catalog, f, cursor, size) = IF refused THEN Expired ELSE page
  BY DEF Page
<1>2. CASE refused
  BY <1>1, <1>2
<1>3. CASE ~refused
  <2>1. Len(all) \in Nat /\ DOMAIN all = 1 .. Len(all)
    OBVIOUS
  <2>2. /\ first \in Nat /\ first <= Len(all)
        /\ cursor = NoCursor => first = 0
        /\ cursor # NoCursor =>
              cursor.id.shown[f] = all /\ first >= 1 /\ all[first].name = cursor.after
    <3>1. CASE cursor = NoCursor
      BY <2>1, <3>1
    <3>2. CASE cursor # NoCursor
      <4>1. places # {} /\ cursor.id = IdOf(catalog)
        BY <1>3, <3>2 DEF Fits
      <4>2. first \in places
        BY <3>2, <4>1
      <4>3. IdOf(catalog).shown[f] = all
        BY DEF IdOf
      <4>4. first \in 1 .. Len(all) /\ all[first].name = cursor.after
        BY <2>1, <4>2
      <4> HIDE DEF first, all
      <4> QED BY <2>1, <3>2, <4>1, <4>3, <4>4
    <3> QED BY <3>1, <3>2
  <2> HIDE DEF first
  <2>3. /\ end \in Nat /\ first <= end /\ end <= Len(all)
        /\ end < Len(all) => end >= 1
    BY <2>1, <2>2
  <2> HIDE DEF end
  <2>4. following # NoCursor /\ following.id.shown[f] = all /\ following.after = all[end].name
    BY DEF NoCursor, Families, IdOf
  <2> HIDE DEF following
  <2>5. /\ page.expired = FALSE /\ page.items = SubSeq(all, first + 1, end)
        /\ page.next = IF end < Len(all) THEN following ELSE NoCursor
    OBVIOUS
  <2> HIDE DEF page, all, refused
  <2>6. Page(catalog, f, cursor, size) = page
    BY <1>1, <1>3
  <2>7. \/ page.next = NoCursor /\ end = Len(all)
        \/ /\ page.next # NoCursor /\ end >= 1
           /\ page.next.id.shown[f] = all /\ page.next.after = all[end].name
    <3>1. CASE end < Len(all)
      <4>1. page.next = following /\ end >= 1
        BY <2>3, <2>5, <3>1
      <4> QED BY <2>4, <4>1
    <3>2. CASE ~(end < Len(all))
      <4>1. end = Len(all)
        <5>1. Len(all) \in Nat /\ end \in Nat /\ end <= Len(all)
          BY <2>1, <2>3
        <5> QED BY <3>2, <5>1
      <4> QED BY <2>5, <3>2, <4>1
    <3> QED BY <3>1, <3>2
  <2>8. PageOf(all, f, cursor, page, first, end)
    BY <2>2, <2>3, <2>5, <2>7 DEF PageOf
  <2> QED BY <2>2, <2>3, <2>6, <2>8 DEF all
<1> QED BY <1>2, <1>3

LEMMA PagesJoin ==
    ASSUME NEW X, NEW s \in Seq(X), NEW k \in Nat, NEW e \in Nat, k <= e, e <= Len(s)
    PROVE  SubSeq(s, 1, k) \o SubSeq(s, k + 1, e) = SubSeq(s, 1, e)
<1> DEFINE a == SubSeq(s, 1, k)
           b == SubSeq(s, k + 1, e)
           c == SubSeq(s, 1, e)
<1>1. /\ a \in Seq(X) /\ Len(a) = k /\ \A i \in 1 .. k : a[i] = s[i]
      /\ b \in Seq(X) /\ Len(b) = e - k /\ \A i \in 1 .. e - k : b[i] = s[k + i]
      /\ c \in Seq(X) /\ Len(c) = e /\ \A i \in 1 .. e : c[i] = s[i]
  BY SubSeqProperties
<1> HIDE DEF a, b, c
<1>2. /\ a \o b \in Seq(X) /\ Len(a \o b) = e
      /\ \A i \in 1 .. e : i <= k => (a \o b)[i] = a[i]
      /\ \A i \in 1 .. e : i > k => (a \o b)[i] = b[i - k]
  <2>1. /\ a \o b \in Seq(X) /\ Len(a \o b) = k + (e - k)
        /\ \A i \in 1 .. k + (e - k) :
              (a \o b)[i] = IF i <= k THEN a[i] ELSE b[i - k]
    <3>1. /\ a \o b \in Seq(X) /\ Len(a \o b) = Len(a) + Len(b)
          /\ \A i \in 1 .. Len(a) + Len(b) :
                (a \o b)[i] = IF i <= Len(a) THEN a[i] ELSE b[i - Len(a)]
      <4>1. a \in Seq(X) /\ b \in Seq(X)
        BY <1>1
      <4> QED BY <4>1, ConcatProperties, Zenon
    <3>2. Len(a) = k /\ Len(b) = e - k
      BY <1>1
    <3> QED BY <3>1, <3>2, Zenon
  <2>2. k + (e - k) = e
    OBVIOUS
  <2>3. \A i \in 1 .. e : (a \o b)[i] = IF i <= k THEN a[i] ELSE b[i - k]
    BY <2>1, <2>2
  <2>4. \A i \in 1 .. e : i > k => ~(i <= k)
    OBVIOUS
  <2> QED BY <2>1, <2>2, <2>3, <2>4
<1>3. ASSUME NEW i \in 1 .. e PROVE (a \o b)[i] = c[i]
  <2>1. CASE i <= k
    <3>1. i \in 1 .. k
      BY <2>1
    <3> QED BY <1>1, <1>2, <2>1, <3>1
  <2>2. CASE i > k
    <3>1. i - k \in 1 .. e - k /\ k + (i - k) = i
      BY <2>2
    <3> QED BY ZenonT(40), <1>1, <1>2, <2>2, <3>1
  <2>3. i <= k \/ i > k
    OBVIOUS
  <2> QED BY <2>1, <2>2, <2>3
<1>4. a \o b = c
  <2>1. /\ a \o b \in Seq(X) /\ c \in Seq(X)
        /\ Len(a \o b) = Len(c) /\ \A i \in 1 .. Len(c) : (a \o b)[i] = c[i]
    BY <1>1, <1>2, <1>3
  <2> QED BY <2>1, SeqEqual
<1> QED BY <1>4 DEF a, b, c

----------------------------------------------------------------------------
(* A request ends.                                                         *)

LEMMA DoneStep ==
    ASSUME IInv, Done, WalkFits' PROVE IInv'
<1>1. World /\ Requested /\ CachedFit /\ UNCHANGED <<config, upstream, changes, cached>>
  BY DEF IInv, Done
<1>2. World' /\ Components' = Components
  BY <1>1, WorldKept
<1>3. CachedFit'
  BY <1>1 DEF CachedFit
<1>4. Requested'
  BY DEF Done, Requested
<1>5. Progress' /\ OutcomeMatchesAnswers'
  BY DEF Done, Progress, Resting, OutcomeMatchesAnswers
<1> QED BY <1>2, <1>3, <1>4, <1>5 DEF IInv

LEMMA AnswerOtherStep == ASSUME IInv, AnswerOther PROVE IInv'
<1>1. WalkFits'
  BY WalkKept DEF IInv, AnswerOther
<1> QED BY <1>1, DoneStep DEF AnswerOther

LEMMA AnswerListStep == ASSUME IInv, AnswerList PROVE IInv'
<1> DEFINE catalog == outcome.catalog
           all == Listing(catalog, Walked)
           page == Page(catalog, Walked, walk.cursor, PageSize)
           new == [items    |-> IF walk.cursor = NoCursor THEN page.items
                                ELSE walk.items \o page.items,
                   cursor   |-> page.next,
                   from     |-> IF walk.cursor = NoCursor THEN all ELSE walk.from,
                   complete |-> page.next = NoCursor]
<1>1. /\ outcome.kind = "catalog" /\ Done
      /\ walk' = IF page.expired THEN FreshWalk ELSE new
  BY DEF AnswerList
<1>2. CatalogFits(request.cfg, catalog) /\ WalkFits
  BY <1>1 DEF IInv, Progress, Answered, Done
<1>3. all \in Seq(Entries) /\ Unlike(all) /\ Walked \in Families /\ PageSize \in Nat
  BY <1>2, ListingFits, CompilerAssumption
<1>4. CASE page = Expired
  <2>1. walk' = FreshWalk
    BY <1>1, <1>4 DEF Expired
  <2>2. WalkFits'
    BY <2>1 DEF WalkFits
  <2> QED BY <1>1, <2>2, DoneStep
<1>5. CASE page # Expired
  <2>1. PICK first, end \in Nat : PageOf(all, Walked, walk.cursor, page, first, end)
    BY <1>3, <1>5, PageIs
  <2> HIDE DEF page, all
  <2>2. /\ first <= end /\ end <= Len(all)
        /\ walk.cursor = NoCursor => first = 0
        /\ walk.cursor # NoCursor =>
              /\ walk.cursor.id.shown[Walked] = all
              /\ first >= 1 /\ all[first].name = walk.cursor.after
        /\ page.expired = FALSE /\ page.items = SubSeq(all, first + 1, end)
        /\ \/ page.next = NoCursor /\ end = Len(all)
           \/ /\ page.next # NoCursor /\ end >= 1
              /\ page.next.id.shown[Walked] = all /\ page.next.after = all[end].name
    BY <2>1 DEF PageOf
  <2>3. /\ walk' = new /\ walk'.cursor = page.next
        /\ walk'.items = IF walk.cursor = NoCursor THEN page.items
                         ELSE walk.items \o page.items
        /\ walk'.from = IF walk.cursor = NoCursor THEN all ELSE walk.from
        /\ page.next = NoCursor => walk'.complete = TRUE
        /\ page.next # NoCursor => walk'.complete = FALSE
    BY <1>1, <2>2
  <2> HIDE DEF new
  <2>4. walk'.from = all /\ walk'.items = SubSeq(all, 1, end)
    <3>1. CASE walk.cursor = NoCursor
      BY <2>2, <2>3, <3>1
    <3>2. CASE walk.cursor # NoCursor
      <4>1. PICK k \in 1 .. Len(walk.from) :
               walk.cursor.after = walk.from[k].name /\ walk.items = SubSeq(walk.from, 1, k)
        BY <1>2, <3>2 DEF WalkFits, FreshWalk
      <4>2. walk.from = all
        BY <1>2, <2>2, <3>2 DEF WalkFits, FreshWalk
      <4>3. k \in DOMAIN all /\ first \in DOMAIN all /\ Len(all) \in Nat
        BY <1>3, <2>2, <3>2, <4>1, <4>2
      <4>4. k = first
        BY <1>3, <2>2, <3>2, <4>1, <4>2, <4>3 DEF Unlike
      <4>5. SubSeq(all, 1, first) \o SubSeq(all, first + 1, end) = SubSeq(all, 1, end)
        BY <1>3, <2>2, PagesJoin
      <4> QED BY <2>2, <2>3, <3>2, <4>1, <4>2, <4>4, <4>5
    <3> QED BY <3>1, <3>2
  <2>5. CASE page.next = NoCursor /\ end = Len(all)
    <3>1. SubSeq(all, 1, Len(all)) = all
      BY <1>3
    <3>2. WalkFits'
      BY <1>3, <2>3, <2>4, <2>5, <3>1 DEF WalkFits
    <3> QED BY <1>1, <3>2, DoneStep
  <2>6. CASE /\ page.next # NoCursor /\ end >= 1
             /\ page.next.id.shown[Walked] = all /\ page.next.after = all[end].name
    <3>1. end \in 1 .. Len(all)
      BY <1>3, <2>2, <2>6
    <3>2. WalkFits'
      BY <1>3, <2>3, <2>4, <2>6, <3>1 DEF WalkFits
    <3> QED BY <1>1, <3>2, DoneStep
  <2> QED BY <2>2, <2>5, <2>6
<1> QED BY <1>4, <1>5

----------------------------------------------------------------------------
(* Narrowing.                                                              *)

\* What a compile finds does not depend on how a component's prefix is set,
\* once it is known.
Alike(t, s) ==
    /\ t.name = s.name /\ t.method = s.method
    /\ t.disableTools = s.disableTools /\ t.overrides = s.overrides

MappingsIn(overrides) ==
    LET enabled == Select(overrides, {i \in DOMAIN overrides : overrides[i].enabled})
    IN  [i \in DOMAIN enabled |-> [id |-> enabled[i].item, def |-> 0]]
LocalIn(overrides, id) ==
    LET renamed == {o \in overrides : o.as # <<>>}
    IN  IF renamed = {} THEN id ELSE (CHOOSE o \in renamed : TRUE).as

LEMMA AlikeParts ==
    ASSUME NEW t, NEW s, Alike(t, s), NEW f, NEW features
    PROVE  /\ Listed(t, features) = Listed(s, features)
           /\ Discovered(t, features, f) = Discovered(s, features, f)
           /\ Compiles(t, f) <=> Compiles(s, f)
           /\ \A id : Hidden(t, f, id) <=> Hidden(s, f, id)
           /\ \A id : Local(t, f, id) = Local(s, f, id)
<1>1. /\ t.name = s.name /\ t.method = s.method
      /\ t.disableTools = s.disableTools /\ t.overrides = s.overrides
  BY DEF Alike
<1>2. Listed(t, features) = Listed(s, features)
  BY <1>1 DEF Listed
<1>3. Mappings(t, f) = Mappings(s, f)
  <2>1. Mappings(t, f) = MappingsIn(t.overrides[f]) /\ Mappings(s, f) = MappingsIn(s.overrides[f])
    BY DEF Mappings, MappingsIn
  <2> QED BY <1>1, <2>1
<1>4. Discovered(t, features, f) = Discovered(s, features, f)
  BY <1>1, <1>3 DEF Discovered
<1>5. Compiles(t, f) <=> Compiles(s, f)
  BY <1>1 DEF Compiles
<1>6. \A id : OverridesOf(t, f, id) = OverridesOf(s, f, id)
  BY <1>1 DEF OverridesOf
<1>7. \A id : Hidden(t, f, id) <=> Hidden(s, f, id)
  BY <1>1, <1>6 DEF Hidden
<1>8. \A id : Local(t, f, id) = Local(s, f, id)
  <2>1. \A id : /\ Local(t, f, id) = LocalIn(OverridesOf(t, f, id), id)
                /\ Local(s, f, id) = LocalIn(OverridesOf(s, f, id), id)
    BY DEF Local, LocalIn
  <2> QED BY <1>6, <2>1
<1> QED BY <1>2, <1>4, <1>5, <1>7, <1>8

LEMMA AlikeRoutes ==
    ASSUME NEW t, NEW s, Alike(t, s), NEW prefix, NEW features
    PROVE  /\ Routes(t, prefix, features) = Routes(s, prefix, features)
           /\ Invalid(t, prefix, features) => Invalid(s, prefix, features)
<1>1. /\ \A f : Discovered(t, features, f) = Discovered(s, features, f)
      /\ \A f : Compiles(t, f) <=> Compiles(s, f)
      /\ \A f, id : Hidden(t, f, id) <=> Hidden(s, f, id)
      /\ \A f, id : Local(t, f, id) = Local(s, f, id)
  BY AlikeParts
<1>2. \A f : Visible(t, features, f) = Visible(s, features, f)
  BY <1>1 DEF Visible
<1>3. \A f, item : RouteOf(t, prefix, f, item) = RouteOf(s, prefix, f, item)
  BY <1>1 DEF RouteOf, Alike
<1>4. \A r : r \in Routes(t, prefix, features) <=> r \in Routes(s, prefix, features)
  <2>1. \A r : r \in Routes(t, prefix, features) <=>
           \E f \in Families : \E item \in Visible(t, features, f) :
              r = RouteOf(t, prefix, f, item)
    BY RoutesAre
  <2>2. \A r : r \in Routes(s, prefix, features) <=>
           \E f \in Families : \E item \in Visible(s, features, f) :
              r = RouteOf(s, prefix, f, item)
    BY RoutesAre
  <2> QED BY <1>2, <1>3, <2>1, <2>2
<1>5. Routes(t, prefix, features) = Routes(s, prefix, features)
  BY <1>4
<1>6. ASSUME Invalid(t, prefix, features) PROVE Invalid(s, prefix, features)
  <2>1. t.overrides = s.overrides
    BY DEF Alike
  <2> QED BY ZenonT(40), <1>1, <1>5, <1>6, <2>1 DEF Invalid
<1> QED BY <1>5, <1>6

\* What the components would be found to have now, and whether a catalog would
\* come of it.
FoundNow(cfg) ==
    [i \in DOMAIN cfg.servers |->
        Listed(cfg.servers[i], upstream[cfg.servers[i].name].features)]
Serves(cfg) ==
    /\ ~Unprefixed(cfg)
    /\ \A i \in DOMAIN cfg.servers : upstream[cfg.servers[i].name].kind = "features"
    /\ \A i \in DOMAIN cfg.servers :
          ~Invalid(cfg.servers[i], PrefixIn(cfg, cfg.servers[i]), FoundNow(cfg)[i])
    /\ ~Refused(cfg, FoundNow(cfg))

LEMMA NowIs ==
    ASSUME NEW cfg
    PROVE  /\ ~Serves(cfg) => Now(cfg) = None
           /\ Serves(cfg) => Now(cfg) = [pending |-> <<>>, search |-> cfg.search,
                                          routes |-> Merged(cfg, FoundNow(cfg))]
<1> DEFINE listed(s) == Listed(s, upstream[s.name].features)
           found == [i \in DOMAIN cfg.servers |-> listed(cfg.servers[i])]
           none == \/ Unprefixed(cfg)
                   \/ \E s \in ToSet(cfg.servers) : upstream[s.name].kind # "features"
           bad == \/ \E s \in ToSet(cfg.servers) : Invalid(s, PrefixIn(cfg, s), listed(s))
                  \/ Refused(cfg, found)
<1>1. Now(cfg) = IF none THEN None ELSE IF bad THEN None ELSE Catalog(cfg, found, {})
  BY DEF Now
<1>2. found = FoundNow(cfg) /\ \A i \in DOMAIN cfg.servers : FoundNow(cfg)[i] = listed(cfg.servers[i])
  BY DEF FoundNow
<1> HIDE DEF found, listed
<1>3. none <=> \/ Unprefixed(cfg)
               \/ \E i \in DOMAIN cfg.servers : upstream[cfg.servers[i].name].kind # "features"
  BY DEF ToSet
<1>4. bad <=> \/ \E i \in DOMAIN cfg.servers :
                    Invalid(cfg.servers[i], PrefixIn(cfg, cfg.servers[i]), FoundNow(cfg)[i])
              \/ Refused(cfg, FoundNow(cfg))
  BY <1>2 DEF ToSet
<1> HIDE DEF none, bad
<1>5. Serves(cfg) <=> ~none /\ ~bad
  BY <1>3, <1>4 DEF Serves
<1>6. Catalog(cfg, FoundNow(cfg), {}) = [pending |-> <<>>, search |-> cfg.search,
                                         routes |-> Merged(cfg, FoundNow(cfg))]
  BY DEF Catalog
<1> QED BY <1>1, <1>2, <1>5, <1>6

\* Part of a configuration: some of its components, each with its prefix.
Within(part, all) ==
    /\ part.defer = all.defer /\ ~Unprefixed(part)
    /\ \A k \in DOMAIN part.servers : \E i \in DOMAIN all.servers :
          /\ Alike(part.servers[k], all.servers[i])
          /\ PrefixIn(part, part.servers[k]) = PrefixIn(all, all.servers[i])

LEMMA PartFinds ==
    ASSUME NEW part, NEW all, Within(part, all), NEW k \in DOMAIN part.servers
    PROVE  \E i \in DOMAIN all.servers :
              /\ part.servers[k].name = all.servers[i].name
              /\ FoundNow(part)[k] = FoundNow(all)[i]
              /\ Routes(part.servers[k], PrefixIn(part, part.servers[k]), FoundNow(part)[k])
                    = Routes(all.servers[i], PrefixIn(all, all.servers[i]), FoundNow(all)[i])
              /\ Invalid(part.servers[k], PrefixIn(part, part.servers[k]), FoundNow(part)[k])
                    => Invalid(all.servers[i], PrefixIn(all, all.servers[i]), FoundNow(all)[i])
<1>1. PICK i \in DOMAIN all.servers :
         /\ Alike(part.servers[k], all.servers[i])
         /\ PrefixIn(part, part.servers[k]) = PrefixIn(all, all.servers[i])
  BY DEF Within
<1>2. part.servers[k].name = all.servers[i].name
  BY <1>1 DEF Alike
<1>3. FoundNow(part)[k] = FoundNow(all)[i]
  <2>1. /\ FoundNow(part)[k] = Listed(part.servers[k], upstream[part.servers[k].name].features)
        /\ FoundNow(all)[i] = Listed(all.servers[i], upstream[all.servers[i].name].features)
    BY DEF FoundNow
  <2> QED BY <1>1, <1>2, <2>1, AlikeParts
<1> QED BY <1>1, <1>2, <1>3, AlikeRoutes

LEMMA PartServes ==
    ASSUME NEW part, NEW all, Within(part, all), NamesDiffer(all), Serves(all)
    PROVE  /\ Serves(part)
           /\ \A r \in Merged(part, FoundNow(part)) : r \in Merged(all, FoundNow(all))
           /\ \A r \in Merged(all, FoundNow(all)) :
                 (\E k \in DOMAIN part.servers : r.component = part.servers[k].name) =>
                    r \in Merged(part, FoundNow(part))
<1>1. ASSUME NEW r \in Merged(part, FoundNow(part)) PROVE r \in Merged(all, FoundNow(all))
  <2>1. PICK k \in DOMAIN part.servers :
           r \in Routes(part.servers[k], PrefixIn(part, part.servers[k]), FoundNow(part)[k])
    BY MergedAre
  <2>2. PICK i \in DOMAIN all.servers :
           r \in Routes(all.servers[i], PrefixIn(all, all.servers[i]), FoundNow(all)[i])
    BY <2>1, PartFinds
  <2> QED BY <2>2, MergedAre
<1>2. ASSUME NEW r \in Merged(all, FoundNow(all)),
             NEW k \in DOMAIN part.servers, r.component = part.servers[k].name
      PROVE  r \in Merged(part, FoundNow(part))
  <2>1. PICK i \in DOMAIN all.servers :
           r \in Routes(all.servers[i], PrefixIn(all, all.servers[i]), FoundNow(all)[i])
    BY MergedAre
  <2>2. r.component = all.servers[i].name
    <3>1. PICK f \in Families : \E item \in Visible(all.servers[i], FoundNow(all)[i], f) :
             r = RouteOf(all.servers[i], PrefixIn(all, all.servers[i]), f, item)
      BY <2>1, RoutesAre
    <3> QED BY <3>1 DEF RouteOf
  <2>3. PICK j \in DOMAIN all.servers :
           /\ part.servers[k].name = all.servers[j].name
           /\ Routes(part.servers[k], PrefixIn(part, part.servers[k]), FoundNow(part)[k])
                 = Routes(all.servers[j], PrefixIn(all, all.servers[j]), FoundNow(all)[j])
    BY PartFinds
  <2>4. i = j
    BY <1>2, <2>2, <2>3 DEF NamesDiffer
  <2> QED BY <2>1, <2>3, <2>4, MergedAre
<1>3. \A k \in DOMAIN part.servers : upstream[part.servers[k].name].kind = "features"
  BY PartFinds DEF Serves
<1>4. \A k \in DOMAIN part.servers :
         ~Invalid(part.servers[k], PrefixIn(part, part.servers[k]), FoundNow(part)[k])
  BY PartFinds DEF Serves
<1>5. ~Refused(part, FoundNow(part))
  <2>1. ~Refused(all, FoundNow(all)) /\ part.defer = all.defer
    BY DEF Serves, Within
  <2> QED BY <1>1, <2>1 DEF Refused, Clash
<1>6. Serves(part)
  BY <1>3, <1>4, <1>5 DEF Serves, Within
<1> QED BY <1>1, <1>2, <1>6

LEMMA FoundFits ==
    ASSUME World, NEW cfg, ConfigFits(cfg, Components), NEW i \in DOMAIN cfg.servers
    PROVE  FoundNow(cfg)[i] \in FeatureRecords
<1>1. cfg.servers[i].name \in Components
  BY DEF ConfigFits, ToSet
<1>2. PICK t \in ToSet(config.servers) : cfg.servers[i].name = t.name
  BY <1>1 DEF World
<1>3. /\ config \in Configs /\ cfg.servers[i].name \in DOMAIN Answers
      /\ upstream[cfg.servers[i].name] \in Answers[cfg.servers[i].name]
  BY <1>1, <1>2, CompilerAssumption DEF World
<1>4. upstream[cfg.servers[i].name] \in AnswerRecords
  BY <1>3, CompilerAssumption
<1> QED BY <1>4, RecordsDiffer, ListedFits DEF FoundNow

\* Where a whole and a part that has the components of a name lead.
LEMMA PartLeads ==
    ASSUME World, NEW part, NEW all, NEW name, Within(part, all),
           ConfigFits(part, Components), ConfigFits(all, Components), Serves(all),
           \A r \in Merged(all, FoundNow(all)) : r.family = "tools" /\ r.exposed = name =>
              \E k \in DOMAIN part.servers : r.component = part.servers[k].name
    PROVE  Destinations(Now(part), name) = Destinations(Now(all), name)
<1>1. ASSUME NEW cfg, ConfigFits(cfg, Components), Serves(cfg)
      PROVE  Now(cfg) # None /\ Now(cfg).routes = Merged(cfg, FoundNow(cfg))
  <2>1. Now(cfg) = [pending |-> <<>>, search |-> cfg.search,
                    routes |-> Merged(cfg, FoundNow(cfg))]
    BY <1>1, NowIs
  <2>2. Sound(cfg, FoundNow(cfg))
    BY <1>1, FoundFits DEF Sound, Serves
  <2>3. Merged(cfg, FoundNow(cfg)) \in SUBSET RouteRecords
    <3>1. cfg \in ConfigRecords
      BY <1>1 DEF ConfigFits
    <3> QED BY <2>2, <3>1, MergedFits
  <2>4. <<>> \in Seq(STRING) /\ cfg.search \in BOOLEAN
    BY <1>1 DEF ConfigFits, ConfigRecords
  <2>5. Now(cfg) \in CatalogRecords
    BY <2>1, <2>3, <2>4 DEF CatalogRecords
  <2>6. Now(cfg) # None
    BY <2>5, CompilerAssumption
  <2> QED BY <2>1, <2>6
<1>2. /\ Serves(part)
      /\ \A r \in Merged(part, FoundNow(part)) : r \in Merged(all, FoundNow(all))
      /\ \A r \in Merged(all, FoundNow(all)) :
            (\E k \in DOMAIN part.servers : r.component = part.servers[k].name) =>
               r \in Merged(part, FoundNow(part))
  BY PartServes DEF ConfigFits
<1>3. RouteNamed(Now(part), "tools", name) = RouteNamed(Now(all), "tools", name)
  BY <1>1, <1>2 DEF RouteNamed
<1> QED BY <1>1, <1>2, <1>3 DEF Destinations

\* A server with its prefix written down has that prefix in any configuration
\* that is no larger.
LEMMA PinnedPrefix ==
    ASSUME NEW all \in ConfigRecords, ~Unprefixed(all), NEW i \in DOMAIN all.servers,
           NEW part, NEW n \in Nat, Len(part.servers) = n, Len(all.servers) <= 1 => n <= 1
    PROVE  LET s == all.servers[i]
               t == Pinned(s, PrefixIn(all, s))
           IN  /\ Alike(t, s) /\ PrefixIn(part, t) = PrefixIn(all, s)
               /\ Len(part.servers) > 1 \/ t.prefix # <<>> => ValidPart(Prefix(t))
<1> DEFINE s == all.servers[i]
           p == PrefixIn(all, s)
           t == Pinned(s, p)
<1>1. s \in ServerRecords /\ s \in ToSet(all.servers) /\ p \in Texts /\ Len(all.servers) \in Nat
  BY ServersFit
<1>2. Len(all.servers) > 1 \/ s.prefix # <<>> => ValidPart(Prefix(s))
  BY <1>1 DEF Unprefixed
<1>3. p = IF Len(all.servers) <= 1 /\ s.prefix = <<>> THEN <<>> ELSE Prefix(s)
  BY DEF PrefixIn
<1>4. p # <<>> => ValidPart(p)
  BY <1>1, <1>2, <1>3
<1>5. p = <<>> => Len(all.servers) <= 1
  BY <1>1, <1>2, <1>3 DEF ValidPart
<1> HIDE DEF s, p
<1>6. /\ t.name = s.name /\ t.prefix = p /\ t.method = s.method
      /\ t.disableTools = s.disableTools /\ t.overrides = s.overrides
  BY <1>1, PinnedFits
<1> HIDE DEF t
<1>7. Alike(t, s)
  BY <1>6 DEF Alike
<1>8. CASE p = <<>>
  <2>1. n <= 1
    BY <1>5, <1>8
  <2>2. PrefixIn(part, t) = p
    BY <1>6, <1>8, <2>1 DEF PrefixIn
  <2>3. ~(n > 1) /\ ~(t.prefix # <<>>)
    BY <1>6, <1>8, <2>1
  <2> QED BY <1>7, <2>2, <2>3 DEF s, p, t
<1>9. CASE p # <<>>
  <2>1. Prefix(t) = p
    BY <1>6, <1>9 DEF Prefix
  <2>2. PrefixIn(part, t) = p
    BY <1>6, <1>9, <2>1 DEF PrefixIn
  <2> QED BY <1>4, <1>7, <1>9, <2>1, <2>2 DEF s, p, t
<1> QED BY <1>8, <1>9

LEMMA AlikeItself == ASSUME NEW s PROVE Alike(s, s)
  BY DEF Alike

\* The candidates for a name are part of the configuration.
LEMMA PartIsWithin ==
    ASSUME NEW all, NEW names, ConfigFits(all, names), ~Unprefixed(all), NEW name
    PROVE  /\ Within(Part(all, name), all)
           /\ Part(all, name).defer = all.defer
<1>1. all \in ConfigRecords
  BY DEF ConfigFits
<1>2. CASE Candidates(all, name) = <<>>
  <2>1. Part(all, name) = all
    BY <1>2 DEF Part
  <2> QED BY <2>1, AlikeItself DEF Within
<1>3. CASE Candidates(all, name) # <<>>
  <2> DEFINE part == Part(all, name)
             found == Candidates(all, name)
  <2>1. /\ found \in Seq(ServerRecords)
        /\ \A k \in DOMAIN found : \E i \in DOMAIN all.servers :
              found[k] = Pinned(all.servers[i], PrefixIn(all, all.servers[i]))
        /\ \A j, k \in DOMAIN found : found[j].name = found[k].name => j = k
    BY CandidatesAre
  <2>2. part.servers = found /\ part.defer = all.defer
    BY <1>1, <1>3 DEF Part, ConfigRecords
  <2> HIDE DEF part, found
  <2>3. Len(found) \in Nat /\ DOMAIN found = 1 .. Len(found)
    BY <2>1
  <2>4. Len(all.servers) <= 1 => Len(found) <= 1
    <3> SUFFICES ASSUME Len(all.servers) <= 1, Len(found) > 1 PROVE FALSE
      BY <2>3
    <3>1. 1 \in DOMAIN found /\ 2 \in DOMAIN found
      BY <2>3
    <3>2. PICK i \in DOMAIN all.servers :
             found[1] = Pinned(all.servers[i], PrefixIn(all, all.servers[i]))
      BY <2>1, <3>1
    <3>3. PICK j \in DOMAIN all.servers :
             found[2] = Pinned(all.servers[j], PrefixIn(all, all.servers[j]))
      BY <2>1, <3>1
    <3>4. i = j
      <4>1. Len(all.servers) \in Nat /\ DOMAIN all.servers = 1 .. Len(all.servers)
        BY <1>1, PositionsAre
      <4> QED BY <4>1
    <3>5. found[1] = found[2]
      BY <3>2, <3>3, <3>4
    <3>6. found[1].name = found[2].name
      BY <3>5
    <3> QED BY <2>1, <3>1, <3>6
  <2>5. ASSUME NEW k \in DOMAIN part.servers
        PROVE  /\ \E i \in DOMAIN all.servers :
                     /\ Alike(part.servers[k], all.servers[i])
                     /\ PrefixIn(part, part.servers[k]) = PrefixIn(all, all.servers[i])
               /\ Len(part.servers) > 1 \/ part.servers[k].prefix # <<>> =>
                     ValidPart(Prefix(part.servers[k]))
    <3>1. PICK i \in DOMAIN all.servers :
             part.servers[k] = Pinned(all.servers[i], PrefixIn(all, all.servers[i]))
      BY <2>1, <2>2
    <3>2. Len(part.servers) \in Nat /\ (Len(all.servers) <= 1 => Len(part.servers) <= 1)
      BY <2>2, <2>3, <2>4
    <3>3. LET s == all.servers[i]
              t == Pinned(s, PrefixIn(all, s))
          IN  /\ Alike(t, s) /\ PrefixIn(part, t) = PrefixIn(all, s)
              /\ Len(part.servers) > 1 \/ t.prefix # <<>> => ValidPart(Prefix(t))
      BY <1>1, <3>2, PinnedPrefix
    <3> QED BY <3>1, <3>3
  <2>6. ~Unprefixed(part)
    BY <2>5 DEF Unprefixed, ToSet
  <2> QED BY <2>2, <2>5, <2>6 DEF Within, part
<1> QED BY <1>2, <1>3

\* The one component that owns a name, with the prefix it has, is part of the
\* configuration.
LEMMA OwnedIsWithin ==
    ASSUME NEW all, NEW names, ConfigFits(all, names), ~Unprefixed(all),
           NEW selected, selected \in ConfigRecords, selected.defer = all.defer, NEW owner,
           NEW i \in DOMAIN all.servers, owner.component = all.servers[i].name,
           owner.prefix = PrefixIn(all, all.servers[i])
    PROVE  /\ Within(OwnedBy(selected, all, owner), all)
           /\ 1 \in DOMAIN OwnedBy(selected, all, owner).servers
           /\ OwnedBy(selected, all, owner).servers[1].name = owner.component
<1> DEFINE s == all.servers[i]
           one == Pinned(s, PrefixIn(all, s))
           part == OwnedBy(selected, all, owner)
<1>1. all \in ConfigRecords /\ NamesDiffer(all)
  BY DEF ConfigFits
<1>2. (CHOOSE x \in ToSet(all.servers) : x.name = owner.component) = s
  <2>1. s \in ToSet(all.servers) /\ s.name = owner.component
    BY <1>1, ServersFit
  <2>2. \A x \in ToSet(all.servers) : x.name = owner.component => x = s
    BY <1>1 DEF NamesDiffer, ToSet
  <2> HIDE DEF s
  <2> QED BY <2>1, <2>2
<1>3. part.servers = <<one>> /\ part.defer = all.defer
  <2>1. part = [selected EXCEPT !.servers = <<one>>]
    BY <1>2 DEF OwnedBy
  <2> HIDE DEF part, one
  <2> QED BY <2>1 DEF ConfigRecords
<1> HIDE DEF part
<1>4. Len(part.servers) = 1 /\ 1 \in Nat /\ DOMAIN part.servers = {1} /\ part.servers[1] = one
  <2> HIDE DEF one
  <2> QED BY <1>3
<1>5. LET x == all.servers[i]
          t == Pinned(x, PrefixIn(all, x))
      IN  /\ Alike(t, x) /\ PrefixIn(part, t) = PrefixIn(all, x)
          /\ Len(part.servers) > 1 \/ t.prefix # <<>> => ValidPart(Prefix(t))
  <2>1. /\ Len(part.servers) \in Nat /\ (Len(all.servers) <= 1 => Len(part.servers) <= 1)
    BY <1>4
  <2> HIDE DEF s, one
  <2> QED BY <1>1, <2>1, PinnedPrefix
<1>6. ~Unprefixed(part)
  BY <1>4, <1>5 DEF Unprefixed, ToSet
<1>7. Within(part, all)
  BY <1>3, <1>4, <1>5, <1>6 DEF Within
<1>8. one.name = owner.component
  BY <1>5 DEF Alike
<1> QED BY <1>4, <1>7, <1>8 DEF part

\* A name that a component exposes has the component's prefix.
LEMMA JoinIs ==
    ASSUME NEW prefix \in Texts, NEW local \in Texts
    PROVE  /\ Join(prefix, <<>>) \in Texts
           /\ prefix = <<>> \/ Join(prefix, local) = Join(prefix, <<>>) \o local
<1>1. prefix \in Seq(Nat) /\ local \in Seq(Nat) /\ <<>> \in Seq(Nat)
      /\ <<Underscore, Underscore>> \in Seq(Nat)
  BY TokensFit DEF Texts
<1>2. /\ prefix \o <<Underscore, Underscore>> \in Seq(Nat)
      /\ prefix \o <<>> = prefix
      /\ (prefix \o <<Underscore, Underscore>>) \o <<>> = prefix \o <<Underscore, Underscore>>
  BY <1>1, ConcatEmptySeq, ConcatProperties
<1>3. CASE prefix = <<>>
  BY <1>1, <1>3 DEF Join, Texts
<1>4. CASE prefix # <<>> /\ Last(prefix) = Underscore
  <2>1. Join(prefix, <<>>) = prefix /\ Join(prefix, local) = prefix \o local
    BY <1>2, <1>4 DEF Join
  <2> QED BY <1>1, <2>1 DEF Texts
<1>5. CASE prefix # <<>> /\ Last(prefix) # Underscore
  <2>1. /\ Join(prefix, <<>>) = prefix \o <<Underscore, Underscore>>
        /\ Join(prefix, local) = (prefix \o <<Underscore, Underscore>>) \o local
    BY <1>2, <1>5 DEF Join
  <2> QED BY <1>2, <2>1 DEF Texts
<1> QED BY <1>3, <1>4, <1>5

LEMMA PrefixOfConcat ==
    ASSUME NEW a \in Texts, NEW b \in Texts PROVE IsPrefix(a, a \o b)
<1>1. /\ a \in Seq(Nat) /\ b \in Seq(Nat) /\ Len(a) \in Nat /\ Len(b) \in Nat
  BY DEF Texts
<1>2. /\ a \o b \in Seq(Nat) /\ Len(a \o b) = Len(a) + Len(b)
      /\ \A i \in 1 .. Len(a) : (a \o b)[i] = a[i]
  <2>1. /\ a \o b \in Seq(Nat) /\ Len(a \o b) = Len(a) + Len(b)
        /\ \A i \in 1 .. Len(a) + Len(b) :
              (a \o b)[i] = IF i <= Len(a) THEN a[i] ELSE b[i - Len(a)]
    BY <1>1, ConcatProperties
  <2>2. \A i \in 1 .. Len(a) : i \in 1 .. Len(a) + Len(b) /\ i <= Len(a)
    BY <1>1
  <2> QED BY <2>1, <2>2
<1> DEFINE c == a \o b
<1> HIDE DEF c
<1>3. /\ c \in Seq(Nat) /\ Len(a) <= Len(c) /\ \A i \in 1 .. Len(a) : c[i] = a[i]
  BY <1>1, <1>2 DEF c
<1>4. SubSeq(a, 1, Len(a)) = SubSeq(c, 1, Len(a))
  BY <1>1, <1>3
<1> QED BY <1>3, <1>4 DEF IsPrefix, c

LEMMA OwnerIsCandidate ==
    ASSUME World, NEW all, ConfigFits(all, Components), Serves(all),
           NEW r \in Merged(all, FoundNow(all)), r.family = "tools"
    PROVE  \E i \in DOMAIN all.servers :
              /\ r.component = all.servers[i].name
              /\ Candidate(all, all.servers[i], r.exposed)
<1>1. PICK i \in DOMAIN all.servers :
         r \in Routes(all.servers[i], PrefixIn(all, all.servers[i]), FoundNow(all)[i])
  BY MergedAre
<1> DEFINE s == all.servers[i]
           p == PrefixIn(all, s)
           features == FoundNow(all)[i]
<1>2. PICK f \in Families : \E item \in Visible(s, features, f) : r = RouteOf(s, p, f, item)
  BY <1>1, RoutesAre
<1>3. PICK item \in Visible(s, features, f) : r = RouteOf(s, p, f, item)
  BY <1>2
<1>4. /\ f = "tools" /\ r.component = s.name
      /\ r.exposed = Identity("tools", p, Local(s, "tools", item.id))
  BY <1>3 DEF RouteOf
<1>5. r.exposed = Join(p, Local(s, "tools", item.id))
  BY <1>4 DEF Identity, Named
<1>6. s \in ServerRecords /\ p \in Texts /\ ~Invalid(s, p, features)
  BY ServersFit DEF ConfigFits, Serves
<1>7. features \in FeatureRecords
  BY FoundFits
<1> HIDE DEF s, p, features
<1>8. /\ Compiles(s, "tools") /\ item \in ToSet(Discovered(s, features, "tools"))
      /\ ~Hidden(s, "tools", item.id)
  BY <1>3, <1>4 DEF Visible
<1>9. item \in Items
  BY <1>6, <1>7, <1>8, ItemsAreProper DEF Families
<1> DEFINE local == Local(s, "tools", item.id)
<1>10. local \in Texts
  <2>1. item.id \in Texts
    BY <1>9 DEF Items
  <2> QED BY <1>6, <2>1, LocalFits DEF Families
<1>11. Nameable("tools", p, local)
  <2>1. PICK j \in DOMAIN Discovered(s, features, "tools") :
           item = Discovered(s, features, "tools")[j]
    BY <1>8 DEF ToSet
  <2> QED BY <1>6, <1>8, <2>1 DEF Invalid, Families
<1> HIDE DEF local
<1>12. /\ p = <<>> \/ ValidPart(p)
       /\ local # <<>> /\ Len(Join(p, local)) <= MaxNameLength
  BY <1>11 DEF Nameable, Named, ValidPart
<1>13. CASE p = <<>>
  <2>1. s \in ToSet(all.servers)
    BY DEF s, ToSet
  <2>2. Len(all.servers) <= 1 /\ s.prefix = <<>>
    <3> SUFFICES ASSUME ~(Len(all.servers) <= 1 /\ s.prefix = <<>>) PROVE FALSE
      OBVIOUS
    <3>1. Prefix(s) = <<>>
      BY <1>13 DEF p, PrefixIn
    <3>2. ~ValidPart(Prefix(s))
      BY <3>1 DEF ValidPart
    <3>3. Len(all.servers) > 1 \/ s.prefix # <<>>
      <4>1. Len(all.servers) \in Nat
        BY ServersFit DEF ConfigFits
      <4> QED BY <4>1
    <3> QED BY <2>1, <3>2, <3>3 DEF Serves, Unprefixed
  <2> QED BY <1>4, <2>2 DEF Candidate, s
<1>14. CASE p # <<>>
  <2>1. Join(p, <<>>) \in Texts /\ Join(p, local) = Join(p, <<>>) \o local
    BY <1>6, <1>10, <1>14, JoinIs
  <2>2. IsPrefix(Join(p, <<>>), r.exposed)
    BY <1>5, <1>10, <2>1, PrefixOfConcat DEF local
  <2>3. Len(Join(p, <<>>)) < MaxNameLength
    <3>1. /\ Len(Join(p, <<>>)) \in Nat /\ Len(local) \in Nat /\ Len(local) > 0
          /\ Len(Join(p, local)) = Len(Join(p, <<>>)) + Len(local)
      BY <1>10, <1>12, <2>1 DEF Texts
    <3> QED BY <1>12, <3>1, TokensFit
  <2>4. Candidate(all, s, r.exposed)
    BY <1>12, <1>14, <2>2, <2>3 DEF Candidate, p
  <2> QED BY <1>4, <2>4 DEF s
<1> QED BY <1>13, <1>14

\* Given a catalog of the whole, and cached owners that still own the name, the
\* narrowed configuration leads where the whole leads.
LEMMA OwningLeads ==
    ASSUME World, CachedFit, NEW name, NEW all, all = ForMethod(config, "tools"),
           Now(all) # None,
           \A c \in DOMAIN cached : \A r \in RouteNamed(cached[c], "tools", name) :
              <<r.component, r.original>> \in Destinations(Now(all), name)
    PROVE  Destinations(Now(Owning(all, name, cached)), name) = Destinations(Now(all), name)
<1> DEFINE selected == Part(all, name)
           owners == IF OwnersIn(cached, all, name) # {} THEN OwnersIn(cached, all, name)
                     ELSE OwnersIn(cached, selected, name)
           routes == Merged(all, FoundNow(all))
<1>1. ConfigFits(all, Components) /\ ConfigFits(selected, Components)
  BY ConfigsFit, ForMethodFits, PartFits DEF Methods
<1>2. Serves(all) /\ Now(all).routes = routes
  BY NowIs
<1>3. ~Unprefixed(all) /\ ~Clash(routes)
  BY <1>2 DEF Serves, Refused
<1>4. Within(selected, all) /\ selected.defer = all.defer
  BY <1>1, <1>3, PartIsWithin
<1>5. ASSUME NEW r \in routes, r.family = "tools", r.exposed = name
      PROVE  \E k \in DOMAIN selected.servers : r.component = selected.servers[k].name
  <2>1. PICK i \in DOMAIN all.servers :
           r.component = all.servers[i].name /\ Candidate(all, all.servers[i], name)
    BY <1>1, <1>2, <1>5, OwnerIsCandidate
  <2>2. PICK k \in DOMAIN Candidates(all, name) :
           Candidates(all, name)[k] = Pinned(all.servers[i], PrefixIn(all, all.servers[i]))
    <3>1. \A j \in DOMAIN all.servers : Candidate(all, all.servers[j], name) =>
             \E k \in DOMAIN Candidates(all, name) : Candidates(all, name)[k] =
                Pinned(all.servers[j], PrefixIn(all, all.servers[j]))
      <4>1. ConfigFits(all, Components)
        BY <1>1
      <4> QED BY <4>1, CandidatesAre
    <3> QED BY <2>1, <3>1
  <2>3. selected.servers = Candidates(all, name)
    <3>1. Candidates(all, name) # <<>>
      BY <2>2
    <3>2. all \in ConfigRecords
      BY <1>1 DEF ConfigFits
    <3> QED BY <3>1, <3>2 DEF Part, ConfigRecords
  <2>4. Candidates(all, name)[k].name = all.servers[i].name
    BY <1>1, <2>2, ServersFit, PinnedFits DEF ConfigFits
  <2> QED BY <2>1, <2>2, <2>3, <2>4
<1>6. Destinations(Now(selected), name) = Destinations(Now(all), name)
  BY <1>1, <1>2, <1>4, <1>5, PartLeads
<1>7. ASSUME NEW owner \in owners
      PROVE  Destinations(Now(OwnedBy(selected, all, owner)), name) = Destinations(Now(all), name)
  <2>1. PICK c \in {all, selected} :
           c \in DOMAIN cached /\ owner \in RouteNamed(cached[c], "tools", name)
    <3>1. \E c \in {all, selected} : owner \in OwnersIn(cached, c, name)
      BY <1>7
    <3>2. PICK c \in {all, selected} : owner \in OwnersIn(cached, c, name)
      BY <3>1
    <3> QED BY <3>2 DEF OwnersIn
  <2>2. PICK r \in routes : /\ r.family = "tools" /\ r.exposed = name
                            /\ r.component = owner.component
    <3>1. <<owner.component, owner.original>> \in Destinations(Now(all), name)
      BY <2>1
    <3>2. PICK r \in RouteNamed(Now(all), "tools", name) :
             <<owner.component, owner.original>> = <<r.component, r.original>>
      BY <3>1 DEF Destinations
    <3> QED BY <1>2, <3>2 DEF RouteNamed
  <2>3. \E i \in DOMAIN all.servers :
           owner.component = all.servers[i].name /\ owner.prefix = PrefixIn(all, all.servers[i])
    <3>1. owner \in cached[c].routes /\ CatalogFits(c, cached[c])
      BY <2>1 DEF RouteNamed, CachedFit
    <3>2. PICK k \in DOMAIN c.servers :
             owner.component = c.servers[k].name /\ owner.prefix = PrefixIn(c, c.servers[k])
      BY <3>1 DEF CatalogFits, ToSet
    <3>3. CASE c = all
      BY <3>2, <3>3
    <3>4. CASE c = selected
      BY <1>4, <3>2, <3>4 DEF Within, Alike
    <3> HIDE DEF selected
    <3> QED BY <2>1, <3>3, <3>4
  <2>4. owner.prefix \in Texts
    BY <2>1 DEF RouteNamed, CachedFit, CatalogFits, RouteRecords
  <2> HIDE DEF selected, owners
  <2>5. PICK i \in DOMAIN all.servers :
           owner.component = all.servers[i].name /\ owner.prefix = PrefixIn(all, all.servers[i])
    BY <2>3
  <2> DEFINE part == OwnedBy(selected, all, owner)
  <2>6. /\ Within(part, all) /\ 1 \in DOMAIN part.servers
        /\ part.servers[1].name = owner.component
    <3>1. selected \in ConfigRecords
      BY <1>1 DEF ConfigFits
    <3> QED BY <1>1, <1>3, <1>4, <2>5, <3>1, OwnedIsWithin
  <2>7. ConfigFits(part, Components)
    <3>1. \E s \in ToSet(all.servers) : s.name = owner.component
      BY <2>5 DEF ToSet
    <3> QED BY <1>1, <2>4, <3>1, OwnedByFits
  <2> HIDE DEF part
  <2>8. \A x \in routes : x.family = "tools" /\ x.exposed = name =>
           \E k \in DOMAIN part.servers : x.component = part.servers[k].name
    <3>1. \A x \in routes : x.family = "tools" /\ x.exposed = name => x = r
      BY <1>3, <2>2 DEF Clash
    <3> QED BY <2>2, <2>6, <3>1
  <2>9. Destinations(Now(part), name) = Destinations(Now(all), name)
    BY <1>1, <1>2, <2>6, <2>7, <2>8, PartLeads
  <2> QED BY <2>9 DEF part
<1>8. \/ Owning(all, name, cached) = selected
      \/ \E owner \in owners : Owning(all, name, cached) = OwnedBy(selected, all, owner)
  BY OwningIs
<1> HIDE DEF selected, owners
<1> QED BY <1>6, <1>7, <1>8

LEMMA NarrowLeads ==
    ASSUME World, CachedFit, NEW name, NEW named, NEW all, all = ForMethod(config, "tools"),
           NEW tool, tool = Sought(config, name, named),
           Now(all) # None,
           \A c \in DOMAIN cached : \A r \in RouteNamed(cached[c], "tools", tool) :
              <<r.component, r.original>> \in Destinations(Now(all), tool)
    PROVE  Destinations(Now(Narrow(config, name, named, cached)), tool)
              = Destinations(Now(all), tool)
<1>1. CASE tool = Nil
  BY <1>1 DEF Destinations
<1>2. CASE tool # Nil
  <2>1. Destinations(Now(Owning(all, tool, cached)), tool) = Destinations(Now(all), tool)
    BY OwningLeads
  <2>2. \/ ~config.scoped /\ Narrow(config, name, named, cached) = config
        \/ Narrow(config, name, named, cached) = all
        \/ Narrow(config, name, named, cached) = Owning(all, tool, cached)
    BY <1>2, NarrowIs
  <2>3. ~config.scoped => all = config
    BY DEF ForMethod
  <2> QED BY <2>1, <2>2, <2>3
<1> QED BY <1>1, <1>2

----------------------------------------------------------------------------
(* Links.                                                                  *)

Located == {"resources", "resourceTemplates"}

\* A URI is its front and its last token, and so is what a template makes of it.
LEMMA FrontAndLast ==
    ASSUME NEW u \in Texts, u # <<>>
    PROVE  /\ Front(u) \in Texts /\ Last(u) \in Nat
           /\ u = Append(Front(u), Last(u))
<1>1. u \in Seq(Nat) /\ Len(u) \in Nat \ {0}
  BY DEF Texts
<1>2. Last(u) \in Nat /\ Last(u) = u[Len(u)]
  BY <1>1 DEF Last
<1>3. Front(u) = SubSeq(u, 1, Len(u) - 1)
  BY DEF Front
<1>4. SubSeq(u, 1, Len(u) - 1) \in Seq(Nat)
  BY <1>1
<1>5. Append(SubSeq(u, 1, Len(u) - 1), u[Len(u)]) = u
  BY <1>1
<1> QED BY <1>2, <1>3, <1>4, <1>5 DEF Texts

LEMMA FrontOfAppend ==
    ASSUME NEW t \in Texts, NEW x \in Nat
    PROVE  /\ Append(t, x) \in Texts /\ Append(t, x) # <<>>
           /\ Front(Append(t, x)) = t /\ Last(Append(t, x)) = x
<1>1. t \in Seq(Nat)
  BY DEF Texts
<1>2. /\ Append(t, x) \in Seq(Nat) /\ Len(Append(t, x)) = Len(t) + 1
      /\ Append(t, x)[Len(t) + 1] = x
  BY <1>1
<1>3. SubSeq(Append(t, x), 1, Len(t)) = t
  BY <1>1
<1>4. (Len(t) + 1) - 1 = Len(t)
  BY <1>1
<1> QED BY <1>2, <1>3, <1>4 DEF Texts, Front, Last

\* What wraps a URI wraps its front.
LEMMA WrapsFront ==
    ASSUME NEW p \in Texts, NEW u \in Texts, u # <<>>
    PROVE  Append(Wrap(p, Front(u)), Last(u)) = Wrap(p, u)
<1>1. Front(u) \in Seq(Nat) /\ Last(u) \in Nat /\ u = Append(Front(u), Last(u))
  BY FrontAndLast DEF Texts
<1>2. CASE p = <<>>
  BY <1>1, <1>2 DEF Wrap
<1>3. CASE p # <<>>
  <2> DEFINE w == <<Wrapper>> \o p \o <<Colon>>
  <2>1. w \in Seq(Nat)
    BY TokensFit DEF Texts
  <2>2. Wrap(p, Front(u)) = w \o Front(u) /\ Wrap(p, u) = w \o u
    BY <1>3 DEF Wrap
  <2> HIDE DEF w
  <2>3. ASSUME NEW t \in Seq(Nat), NEW x \in Nat
        PROVE  Append(w \o t, x) = w \o Append(t, x)
    <3>1. <<x>> \in Seq(Nat)
      OBVIOUS
    <3>2. Append(w \o t, x) = (w \o t) \o <<x>> /\ Append(t, x) = t \o <<x>>
      BY <2>1, AppendIsConcat, ConcatProperties
    <3> QED BY <2>1, <3>1, <3>2, ConcatAssociative
  <2> QED BY <1>1, <2>2, <2>3
<1> QED BY <1>2, <1>3

\* Without overrides an item keeps its name; an override that is not enabled
\* hides what it names.
LEMMA Unnamed ==
    ASSUME NEW s, NEW f \in Located, NEW id, ~Hidden(s, f, id),
           \A o \in ToSet(s.overrides[f]) : o.item = id => ~o.enabled
    PROVE  Local(s, f, id) = id
<1>1. f # "tools"
  BY DEF Located
<1>2. \A o \in OverridesOf(s, f, id) : o.enabled
  BY <1>1 DEF Hidden
<1>3. OverridesOf(s, f, id) = {}
  BY <1>2 DEF OverridesOf
<1>4. {o \in OverridesOf(s, f, id) : o.as # <<>>} = {}
  BY <1>3
<1> QED BY <1>4 DEF Local

\* The mappings of a server are its enabled overrides.
LEMMA MappingsAre ==
    ASSUME NEW s \in ServerRecords, NEW f \in Families
    PROVE  /\ \A m \in ToSet(Mappings(s, f)) : \E o \in ToSet(s.overrides[f]) :
                 o.enabled /\ m.id = o.item
           /\ \A o \in ToSet(s.overrides[f]) : o.enabled =>
                 \E m \in ToSet(Mappings(s, f)) : m.id = o.item
<1> DEFINE overrides == s.overrides[f]
           P == {i \in DOMAIN overrides : overrides[i].enabled}
           enabled == Select(overrides, P)
<1>1. overrides \in Seq(OverrideRecords) /\ P \in SUBSET (DOMAIN overrides)
  BY OverridesFit
<1>2. /\ enabled \in Seq(OverrideRecords)
      /\ \A k \in DOMAIN enabled : \E i \in P : enabled[k] = overrides[i]
      /\ \A i \in P : \E k \in DOMAIN enabled : enabled[k] = overrides[i]
  BY <1>1, Selected
<1>3. Mappings(s, f) = [i \in DOMAIN enabled |-> [id |-> enabled[i].item, def |-> 0]]
  BY DEF Mappings
<1> HIDE DEF enabled
<1>4. /\ \A m \in ToSet(Mappings(s, f)) : \E k \in DOMAIN enabled : m.id = enabled[k].item
      /\ \A k \in DOMAIN enabled : \E m \in ToSet(Mappings(s, f)) : m.id = enabled[k].item
  BY <1>3 DEF ToSet
<1>5. ASSUME NEW m \in ToSet(Mappings(s, f))
      PROVE  \E o \in ToSet(overrides) : o.enabled /\ m.id = o.item
  <2>1. PICK k \in DOMAIN enabled : m.id = enabled[k].item
    BY <1>4
  <2>2. PICK i \in P : enabled[k] = overrides[i]
    BY <1>2
  <2>3. overrides[i] \in ToSet(overrides) /\ overrides[i].enabled
    BY DEF ToSet
  <2> QED BY <2>1, <2>2, <2>3
<1>6. ASSUME NEW o \in ToSet(overrides), o.enabled
      PROVE  \E m \in ToSet(Mappings(s, f)) : m.id = o.item
  <2>1. PICK i \in DOMAIN overrides : o = overrides[i]
    BY DEF ToSet
  <2>2. i \in P
    BY <1>6, <2>1
  <2>3. PICK k \in DOMAIN enabled : enabled[k] = overrides[i]
    BY <1>2, <2>2
  <2> QED BY <1>4, <2>1, <2>3
<1> QED BY <1>5, <1>6
LEMMA ConcatShows ==
    ASSUME NEW X, NEW a \in Seq(X), NEW b \in Seq(X)
    PROVE  \A x : x \in ToSet(a \o b) <=> x \in ToSet(a) \/ x \in ToSet(b)
<1>1. /\ a \o b \in Seq(X) /\ Len(a) \in Nat /\ Len(b) \in Nat
      /\ Len(a \o b) = Len(a) + Len(b)
      /\ \A i \in 1 .. Len(a) : (a \o b)[i] = a[i]
      /\ \A i \in 1 .. Len(b) : (a \o b)[Len(a) + i] = b[i]
  BY ConcatProperties
<1>2. /\ DOMAIN a = 1 .. Len(a) /\ DOMAIN b = 1 .. Len(b)
      /\ DOMAIN (a \o b) = 1 .. Len(a) + Len(b)
  BY <1>1
<1> SUFFICES ASSUME NEW x PROVE x \in ToSet(a \o b) <=> x \in ToSet(a) \/ x \in ToSet(b)
  OBVIOUS
<1>3. ASSUME x \in ToSet(a \o b) PROVE x \in ToSet(a) \/ x \in ToSet(b)
  <2>1. PICK i \in 1 .. Len(a) + Len(b) : x = (a \o b)[i]
    BY <1>2, <1>3 DEF ToSet
  <2>2. CASE i <= Len(a)
    <3>1. i \in 1 .. Len(a)
      BY <1>1, <2>2
    <3> QED BY <1>1, <1>2, <2>1, <3>1 DEF ToSet
  <2>3. CASE ~(i <= Len(a))
    <3>1. i - Len(a) \in 1 .. Len(b) /\ i = Len(a) + (i - Len(a))
      BY <1>1, <2>3
    <3>2. (a \o b)[i] = b[i - Len(a)]
      BY <1>1, <3>1
    <3> QED BY <1>2, <2>1, <3>1, <3>2 DEF ToSet
  <2> QED BY <2>2, <2>3
<1>4. ASSUME x \in ToSet(a) PROVE x \in ToSet(a \o b)
  <2>1. PICK i \in 1 .. Len(a) : x = a[i]
    BY <1>2, <1>4 DEF ToSet
  <2>2. i \in 1 .. Len(a) + Len(b)
    BY <1>1
  <2> QED BY <1>1, <1>2, <2>1, <2>2 DEF ToSet
<1>5. ASSUME x \in ToSet(b) PROVE x \in ToSet(a \o b)
  <2>1. PICK i \in 1 .. Len(b) : x = b[i]
    BY <1>2, <1>5 DEF ToSet
  <2>2. Len(a) + i \in 1 .. Len(a) + Len(b)
    BY <1>1
  <2> QED BY <1>1, <1>2, <2>1, <2>2 DEF ToSet
<1> QED BY <1>3, <1>4, <1>5

\* What was discovered of a server: what was listed, and its mappings where it
\* was not to be.
LEMMA DiscoveredAre ==
    ASSUME NEW s \in ServerRecords, NEW features \in FeatureRecords, NEW f \in Located
    PROVE  /\ \A item \in ToSet(Discovered(s, features, f)) :
                 item \in ToSet(features[f]) \/ item \in ToSet(Mappings(s, f))
           /\ \A item \in ToSet(features[f]) : item \in ToSet(Discovered(s, features, f))
           /\ s.method = "tools" => \A m \in ToSet(Mappings(s, f)) :
                 m \in ToSet(Discovered(s, features, f))
<1>1. f \in Families /\ f \notin Named
  BY DEF Located, Families, Named
<1>2. features[f] \in Seq(Items \cup {Nil})
  BY <1>1 DEF FeatureRecords
<1>3. Mappings(s, f) \in Seq(Items \cup {Nil})
  <2>1. Mappings(s, f) \in Seq(Items)
    BY <1>1, MappingsFit
  <2> QED BY <2>1
<1>4. \/ Discovered(s, features, f) = features[f] /\ s.method # "tools"
      \/ Discovered(s, features, f) = features[f] \o Mappings(s, f)
  BY <1>1 DEF Discovered
<1>5. CASE Discovered(s, features, f) = features[f] /\ s.method # "tools"
  BY <1>5
<1>6. CASE Discovered(s, features, f) = features[f] \o Mappings(s, f)
  BY <1>2, <1>3, <1>6, ConcatShows
<1> QED BY <1>4, <1>5, <1>6

\* The configurations that list resources and that call tools differ only in
\* their discovery methods.
LEMMA ReadAndCalled ==
    ASSUME World
    PROVE  /\ ConfigFits(ForReading, Components) /\ ConfigFits(ForCalling, Components)
           /\ DOMAIN ForCalling.servers = DOMAIN ForReading.servers
           /\ \A i \in DOMAIN ForReading.servers :
                 LET s == ForReading.servers[i]
                     c == ForCalling.servers[i]
                 IN  /\ c.name = s.name /\ c.overrides = s.overrides
                     /\ PrefixIn(ForReading, s) = PrefixIn(config, s)
                     /\ PrefixIn(ForCalling, c) = PrefixIn(config, s)
           /\ \/ ForCalling = ForReading
              \/ \A i \in DOMAIN ForReading.servers :
                    /\ ForReading.servers[i].method = "resources"
                    /\ ForCalling.servers[i].method = "tools"
<1>1. ConfigFits(config, Components) /\ config \in ConfigRecords
  BY ConfigsFit DEF ConfigFits
<1>2. "resources" \in Methods /\ "tools" \in Methods
  BY DEF Methods
<1>3. ConfigFits(ForReading, Components) /\ ConfigFits(ForCalling, Components)
  BY <1>1, <1>2, ForMethodFits DEF ForReading, ForCalling
<1>4. /\ DOMAIN ForReading.servers = DOMAIN config.servers
      /\ DOMAIN ForCalling.servers = DOMAIN config.servers
      /\ \A i \in DOMAIN config.servers :
            /\ ForReading.servers[i] =
                  IF config.scoped THEN [config.servers[i] EXCEPT !.method = "resources"]
                  ELSE config.servers[i]
            /\ ForCalling.servers[i] =
                  IF config.scoped THEN [config.servers[i] EXCEPT !.method = "tools"]
                  ELSE config.servers[i]
  BY <1>1, <1>2, ForMethodServers DEF ForReading, ForCalling
<1>5. /\ Len(ForReading.servers) = Len(config.servers)
      /\ Len(ForCalling.servers) = Len(config.servers)
  <2>1. /\ ForReading.servers \in Seq(ServerRecords) /\ ForCalling.servers \in Seq(ServerRecords)
        /\ config.servers \in Seq(ServerRecords)
    BY <1>1, <1>3 DEF ConfigFits, ConfigRecords
  <2> QED BY <1>4, <2>1
<1>6. \A i \in DOMAIN config.servers : config.servers[i] \in ServerRecords
  BY <1>1, ServersFit
<1>7. ASSUME NEW i \in DOMAIN config.servers
      PROVE  /\ ForCalling.servers[i].name = ForReading.servers[i].name
             /\ ForCalling.servers[i].overrides = ForReading.servers[i].overrides
             /\ ForCalling.servers[i].prefix = ForReading.servers[i].prefix
             /\ ForCalling.servers[i].label = ForReading.servers[i].label
             /\ config.scoped => /\ ForReading.servers[i].method = "resources"
                                 /\ ForCalling.servers[i].method = "tools"
  <2>1. \A s \in ServerRecords : \A m \in Methods :
           LET t == [s EXCEPT !.method = m]
           IN  /\ t.name = s.name /\ t.overrides = s.overrides /\ t.prefix = s.prefix
               /\ t.label = s.label /\ t.method = m
    BY DEF ServerRecords
  <2>2. config.servers[i] \in ServerRecords
    BY <1>6
  <2>3. CASE config.scoped
    <3>1. /\ ForReading.servers[i] = [config.servers[i] EXCEPT !.method = "resources"]
          /\ ForCalling.servers[i] = [config.servers[i] EXCEPT !.method = "tools"]
      BY <1>4, <2>3
    <3> QED BY <1>2, <2>1, <2>2, <3>1
  <2>4. CASE ~config.scoped
    <3>1. /\ ForReading.servers[i] = config.servers[i]
          /\ ForCalling.servers[i] = config.servers[i]
      BY <1>4, <2>4
    <3> QED BY <2>4, <3>1
  <2> QED BY <2>3, <2>4
<1>8. ~config.scoped => ForCalling = ForReading
  BY DEF ForReading, ForCalling, ForMethod
<1>9. ASSUME NEW i \in DOMAIN config.servers
      PROVE  /\ PrefixIn(ForReading, ForReading.servers[i])
                   = PrefixIn(config, ForReading.servers[i])
             /\ PrefixIn(ForCalling, ForCalling.servers[i])
                   = PrefixIn(config, ForReading.servers[i])
  BY <1>5, <1>7 DEF PrefixIn, Prefix
<1> QED BY <1>3, <1>4, <1>7, <1>8, <1>9

\* The items of server i that are listed for reading and not hidden, and those
\* that a call has.
ReadAt(i, f) ==
    {item \in ToSet(FoundNow(ForReading)[i][f]) : ~Hidden(ForReading.servers[i], f, item.id)}
CalledAt(i, f) == Visible(ForCalling.servers[i], FoundNow(ForCalling)[i], f)

\* What is listed of a server at all is listed of all its located families.
LEMMA ReadsAll ==
    ASSUME World, NEW i \in DOMAIN ForReading.servers, NEW f \in Located, ReadAt(i, f) # {},
           NEW g \in Located
    PROVE  FoundNow(ForReading)[i][g] = upstream[ForReading.servers[i].name].features[g]
<1> DEFINE s == ForReading.servers[i]
           features == upstream[s.name].features
<1>1. FoundNow(ForReading)[i] = Listed(s, features)
  BY DEF FoundNow
<1>2. s.method \in Methods
  <2>1. s \in ServerRecords
    BY ReadAndCalled, ServersFit DEF ConfigFits
  <2> QED BY <2>1 DEF ServerRecords
<1>3. f \in Families /\ g \in Families /\ f # "tools" /\ g # "tools"
  BY DEF Located, Families
<1> HIDE DEF s, features
<1>4. \A h \in Located : Listed(s, features)[h] =
         IF s.method \notin {"", h} /\ ~(s.method = "resources" /\ h = "resourceTemplates")
         THEN <<>> ELSE features[h]
  BY DEF Listed, Located, Families
<1>5. Listed(s, features)[f] # <<>>
  <2>1. FoundNow(ForReading)[i][f] # <<>>
    BY DEF ReadAt, ToSet
  <2> QED BY <1>1, <2>1
<1>6. s.method \in {"", "resources"}
  BY <1>2, <1>4, <1>5 DEF Located, Methods
<1>7. Listed(s, features)[g] = features[g]
  BY <1>4, <1>6 DEF Located
<1> QED BY <1>1, <1>7 DEF s, features

\* What a call has of a server is read or stands for an enabled override, and
\* what is read and has an enabled override the call has as well.
LEMMA CalledIsRead ==
    ASSUME World, NEW i \in DOMAIN ForReading.servers, NEW f \in Located
    PROVE  LET s == ForReading.servers[i]
           IN  /\ \A item \in CalledAt(i, f) :
                     /\ ~Hidden(s, f, item.id)
                     /\ \/ item \in ReadAt(i, f)
                        \/ \E o \in ToSet(s.overrides[f]) : o.enabled /\ o.item = item.id
               /\ \A item \in ReadAt(i, f) : \A o \in ToSet(s.overrides[f]) :
                     o.enabled /\ o.item = item.id =>
                        \E called \in CalledAt(i, f) : called.id = item.id
<1> DEFINE s == ForReading.servers[i]
           c == ForCalling.servers[i]
           read == FoundNow(ForReading)[i]
           found == FoundNow(ForCalling)[i]
<1>1. /\ c.overrides = s.overrides /\ i \in DOMAIN ForCalling.servers
      /\ c \in ServerRecords /\ found \in FeatureRecords
      /\ \/ found = read
         \/ s.method = "resources" /\ c.method = "tools"
  BY ReadAndCalled, ServersFit, FoundFits DEF ConfigFits
<1>2. f \in Families /\ f # "tools" /\ f # "" /\ Compiles(c, f)
  BY DEF Located, Families, Compiles
<1>3. \A id : Hidden(c, f, id) <=> Hidden(s, f, id)
  BY <1>1 DEF Hidden, OverridesOf
<1>4. found = read \/ (c.method = "tools" /\ found[f] = <<>>)
  <2>1. found = Listed(c, upstream[c.name].features)
    BY <1>1 DEF FoundNow
  <2>2. c.method = "tools" => Listed(c, upstream[c.name].features)[f] = <<>>
    BY <1>2 DEF Listed
  <2> QED BY <1>1, <2>1, <2>2
<1>5. /\ \A item \in ToSet(Discovered(c, found, f)) :
            item \in ToSet(found[f]) \/ item \in ToSet(Mappings(c, f))
      /\ \A item \in ToSet(found[f]) : item \in ToSet(Discovered(c, found, f))
      /\ c.method = "tools" => \A m \in ToSet(Mappings(c, f)) :
            m \in ToSet(Discovered(c, found, f))
  BY <1>1, DiscoveredAre
<1>6. /\ \A m \in ToSet(Mappings(c, f)) : \E o \in ToSet(s.overrides[f]) :
            o.enabled /\ m.id = o.item
      /\ \A o \in ToSet(s.overrides[f]) : o.enabled =>
            \E m \in ToSet(Mappings(c, f)) : m.id = o.item
  <2>1. \A g \in Families : c.overrides[g] = s.overrides[g]
    BY <1>1
  <2>2. /\ \A m \in ToSet(Mappings(c, f)) : \E o \in ToSet(c.overrides[f]) :
              o.enabled /\ m.id = o.item
        /\ \A o \in ToSet(c.overrides[f]) : o.enabled =>
              \E m \in ToSet(Mappings(c, f)) : m.id = o.item
    <3> HIDE DEF c
    <3> QED BY <1>1, <1>2, MappingsAre
  <2> QED BY <1>2, <2>1, <2>2
<1>7. \A item : /\ item \in CalledAt(i, f) <=>
                      item \in ToSet(Discovered(c, found, f)) /\ ~Hidden(s, f, item.id)
                /\ item \in ReadAt(i, f) <=> item \in ToSet(read[f]) /\ ~Hidden(s, f, item.id)
  BY <1>2, <1>3 DEF CalledAt, ReadAt, Visible
<1>8. ~ \E item : item \in ToSet(<<>>)
  BY DEF ToSet
<1> HIDE DEF s, c, read, found
<1>9. ASSUME NEW item \in CalledAt(i, f)
      PROVE  /\ ~Hidden(s, f, item.id)
             /\ \/ item \in ReadAt(i, f)
                \/ \E o \in ToSet(s.overrides[f]) : o.enabled /\ o.item = item.id
  <2>1. CASE item \in ToSet(found[f])
    BY <1>4, <1>7, <1>8, <1>9, <2>1
  <2>2. CASE item \in ToSet(Mappings(c, f))
    BY <1>6, <1>7, <1>9, <2>2
  <2> QED BY <1>5, <1>7, <1>9, <2>1, <2>2
<1>10. ASSUME NEW item \in ReadAt(i, f), NEW o \in ToSet(s.overrides[f]),
              o.enabled, o.item = item.id
       PROVE  \E called \in CalledAt(i, f) : called.id = item.id
  <2>1. CASE found = read
    BY <1>5, <1>7, <1>10, <2>1
  <2>2. CASE c.method = "tools"
    <3>1. PICK m \in ToSet(Mappings(c, f)) : m.id = item.id
      BY <1>6, <1>10
    <3>2. m \in ToSet(Discovered(c, found, f)) /\ ~Hidden(s, f, m.id)
      BY <1>5, <1>7, <1>10, <2>2, <3>1
    <3> QED BY <1>7, <3>1, <3>2
  <2> QED BY <1>4, <2>1, <2>2
<1> QED BY <1>9, <1>10 DEF s

\* The routes of the catalog that a compile would give now.
LEMMA NowRoutes ==
    ASSUME NEW cfg, Now(cfg) # None
    PROVE  /\ Serves(cfg) /\ ~Clash(Now(cfg).routes)
           /\ \A r \in Now(cfg).routes : \E i \in DOMAIN cfg.servers : \E f \in Families :
                 \E item \in Visible(cfg.servers[i], FoundNow(cfg)[i], f) :
                    r = RouteOf(cfg.servers[i], PrefixIn(cfg, cfg.servers[i]), f, item)
           /\ \A i \in DOMAIN cfg.servers : \A f \in Families :
                 \A item \in Visible(cfg.servers[i], FoundNow(cfg)[i], f) :
                    RouteOf(cfg.servers[i], PrefixIn(cfg, cfg.servers[i]), f, item)
                       \in Now(cfg).routes
<1>1. Serves(cfg) /\ Now(cfg).routes = Merged(cfg, FoundNow(cfg))
  BY NowIs
<1>2. ~Clash(Now(cfg).routes)
  BY <1>1 DEF Serves, Refused
<1>3. ASSUME NEW r \in Now(cfg).routes
      PROVE  \E i \in DOMAIN cfg.servers : \E f \in Families :
                \E item \in Visible(cfg.servers[i], FoundNow(cfg)[i], f) :
                   r = RouteOf(cfg.servers[i], PrefixIn(cfg, cfg.servers[i]), f, item)
  <2>1. PICK i \in DOMAIN cfg.servers :
           r \in Routes(cfg.servers[i], PrefixIn(cfg, cfg.servers[i]), FoundNow(cfg)[i])
    BY <1>1, <1>3, MergedAre
  <2> QED BY <2>1, RoutesAre
<1>4. ASSUME NEW i \in DOMAIN cfg.servers, NEW f \in Families,
             NEW item \in Visible(cfg.servers[i], FoundNow(cfg)[i], f)
      PROVE  RouteOf(cfg.servers[i], PrefixIn(cfg, cfg.servers[i]), f, item)
                \in Now(cfg).routes
  <2>1. RouteOf(cfg.servers[i], PrefixIn(cfg, cfg.servers[i]), f, item)
           \in Routes(cfg.servers[i], PrefixIn(cfg, cfg.servers[i]), FoundNow(cfg)[i])
    BY <1>4, RoutesAre
  <2> QED BY <1>1, <2>1, MergedAre
<1> QED BY <1>1, <1>2, <1>3, <1>4

\* What reading shows of an item.
ShownAs(i, f, id) ==
    Wrap(PrefixIn(config, ForReading.servers[i]), Local(ForReading.servers[i], f, id))

\* What is read has a route, under the name that reading shows.
LEMMA ReadHasRoute ==
    ASSUME World, Now(ForReading) # None, NEW i \in DOMAIN ForReading.servers,
           NEW f \in Located, NEW item \in ReadAt(i, f)
    PROVE  \E r \in Now(ForReading).routes :
              /\ r.family = f /\ r.exposed = ShownAs(i, f, item.id)
              /\ r.component = ForReading.servers[i].name /\ r.original = item.id
<1> DEFINE s == ForReading.servers[i]
           read == FoundNow(ForReading)[i]
           p == PrefixIn(ForReading, s)
<1>1. s \in ServerRecords /\ read \in FeatureRecords /\ p = PrefixIn(config, s)
  BY ReadAndCalled, ServersFit, FoundFits DEF ConfigFits
<1>2. f \in Families /\ f \notin Named /\ Compiles(s, f)
  BY DEF Located, Families, Named, Compiles
<1>3. item \in ToSet(Discovered(s, read, f)) /\ ~Hidden(s, f, item.id)
  BY <1>1, DiscoveredAre DEF ReadAt
<1> HIDE DEF s, read, p
<1>4. item \in Visible(s, read, f)
  BY <1>2, <1>3 DEF Visible
<1>5. RouteOf(s, p, f, item) \in Now(ForReading).routes
  BY <1>2, <1>4, NowRoutes DEF s, read, p
<1>6. /\ RouteOf(s, p, f, item).family = f /\ RouteOf(s, p, f, item).component = s.name
      /\ RouteOf(s, p, f, item).original = item.id
      /\ RouteOf(s, p, f, item).exposed = Wrap(p, Local(s, f, item.id))
  BY <1>2 DEF RouteOf, Identity
<1> QED BY <1>1, <1>5, <1>6 DEF ShownAs, s

\* A resource is read under the name that reading shows.
LEMMA ReadExactly ==
    ASSUME World, Now(ForReading) # None, NEW i \in DOMAIN ForReading.servers,
           NEW item \in ReadAt(i, "resources")
    PROVE  RouteResource(Now(ForReading), ShownAs(i, "resources", item.id))
              = {[component |-> ForReading.servers[i].name, uri |-> item.id]}
<1> DEFINE catalog == Now(ForReading)
           link == ShownAs(i, "resources", item.id)
           exact == RouteNamed(catalog, "resources", link)
<1>1. PICK r \in catalog.routes :
         /\ r.family = "resources" /\ r.exposed = link
         /\ r.component = ForReading.servers[i].name /\ r.original = item.id
  BY ReadHasRoute DEF Located
<1>2. ~Clash(catalog.routes)
  BY NowRoutes
<1>3. exact = {r}
  BY <1>1, <1>2 DEF Clash, RouteNamed
<1>4. RouteResource(catalog, link) = {[component |-> x.component, uri |-> x.original] : x \in exact}
  BY <1>3 DEF RouteResource
<1> HIDE DEF catalog, link, exact
<1>5. {[component |-> x.component, uri |-> x.original] : x \in {r}}
         = {[component |-> r.component, uri |-> r.original]}
  OBVIOUS
<1> QED BY <1>1, <1>3, <1>4, <1>5 DEF catalog, link

\* A URI that a template covers is read under the name that reading shows of
\* the template, with the variable of the URI.
LEMMA ReadByTemplate ==
    ASSUME World, Now(ForReading) # None, Unambiguous(Now(ForReading)),
           NEW i \in DOMAIN ForReading.servers, NEW item \in ReadAt(i, "resourceTemplates"),
           NEW u \in Texts, Matches(item.id, u)
    PROVE  RouteResource(Now(ForReading),
                         Expand(ShownAs(i, "resourceTemplates", item.id), u))
              = {[component |-> ForReading.servers[i].name, uri |-> u]}
<1> DEFINE catalog == Now(ForReading)
           shown == ShownAs(i, "resourceTemplates", item.id)
           link == Expand(shown, u)
           home == [component |-> ForReading.servers[i].name, uri |-> u]
           exact == RouteNamed(catalog, "resources", link)
           template == {r \in catalog.routes :
                           r.family = "resourceTemplates" /\ Matches(r.exposed, link)}
<1>1. PICK t \in catalog.routes :
         /\ t.family = "resourceTemplates" /\ t.exposed = shown
         /\ t.component = ForReading.servers[i].name /\ t.original = item.id
  BY ReadHasRoute DEF Located
<1>2. ~Clash(catalog.routes)
  BY NowRoutes
<1>3. /\ u # <<>> /\ Front(u) = item.id /\ item.id \in Texts
      /\ Last(u) \in Nat /\ u = Append(item.id, Last(u))
  BY FrontAndLast DEF Matches
<1>4. shown \in Texts
  <2>1. ForReading.servers[i] \in ServerRecords
    BY ReadAndCalled, ServersFit DEF ConfigFits
  <2>2. Local(ForReading.servers[i], "resourceTemplates", item.id) \in Texts
    BY <1>3, <2>1, LocalFits DEF Families
  <2>3. PrefixIn(config, ForReading.servers[i]) \in Texts
    BY <2>1, PrefixFits
  <2>4. Identity("resourceTemplates", PrefixIn(config, ForReading.servers[i]),
                 Local(ForReading.servers[i], "resourceTemplates", item.id)) \in Texts
    BY <2>2, <2>3, IdentityFits
  <2> QED BY <2>4 DEF Identity, Named, ShownAs
<1> HIDE DEF shown
<1>5. link # <<>> /\ Front(link) = shown /\ Last(link) = Last(u)
  BY <1>3, <1>4, FrontOfAppend DEF Expand
<1>6. Expand(item.id, link) = u
  BY <1>3, <1>5 DEF Expand
<1> HIDE DEF link, catalog
<1>7. template = {t}
  BY <1>1, <1>2, <1>5 DEF Matches, Clash
<1>8. \A r \in exact : r.component = home.component /\ r.original = u
  <2>1. ASSUME NEW r \in exact PROVE r.component = home.component /\ r.original = u
    <3>1. r \in catalog.routes /\ r.family = "resources" /\ r.exposed = link
      BY <2>1 DEF RouteNamed
    <3>2. Matches(t.exposed, r.exposed)
      BY <1>1, <1>5, <3>1 DEF Matches
    <3>3. r.component = t.component /\ Expand(t.original, r.exposed) = r.original
      BY <1>1, <3>1, <3>2 DEF Unambiguous, catalog
    <3> QED BY <1>1, <1>6, <3>1, <3>3
  <2> QED BY <2>1
<1>9. CASE exact # {}
  <2>1. RouteResource(catalog, link)
           = {[component |-> r.component, uri |-> r.original] : r \in exact}
    BY <1>9 DEF RouteResource
  <2> HIDE DEF exact
  <2>2. \A r \in exact : [component |-> r.component, uri |-> r.original] = home
    BY <1>8
  <2> HIDE DEF home
  <2>3. {[component |-> r.component, uri |-> r.original] : r \in exact} = {home}
    BY <1>9, <2>2
  <2> QED BY <2>1, <2>3 DEF home, link, catalog, shown
<1>10. CASE exact = {}
  <2>1. RouteResource(catalog, link)
           = {[component |-> r.component, uri |-> Expand(r.original, link)] : r \in template}
    BY <1>10 DEF RouteResource
  <2> HIDE DEF template
  <2>2. {[component |-> r.component, uri |-> Expand(r.original, link)] : r \in {t}}
           = {[component |-> t.component, uri |-> Expand(t.original, link)]}
    OBVIOUS
  <2>3. [component |-> t.component, uri |-> Expand(t.original, link)] = home
    BY <1>1, <1>6
  <2> QED BY <1>7, <2>1, <2>2, <2>3 DEF home, link, catalog, shown
<1> QED BY <1>9, <1>10

\* The routes of a call under the prefix of a server that has its prefix alone.
LEMMA CalledRoutes ==
    ASSUME World, Now(ForCalling) # None, NEW i \in DOMAIN ForReading.servers,
           PrefixIsUnique(ForReading, ForReading.servers[i]), NEW f \in Located
    PROVE  LET p == PrefixIn(config, ForReading.servers[i])
           IN  /\ \A r \in Now(ForCalling).routes : r.prefix = p /\ r.family = f =>
                     \E item \in CalledAt(i, f) :
                        r.original = item.id /\ r.exposed = ShownAs(i, f, item.id)
               /\ \A item \in CalledAt(i, f) : \E r \in Now(ForCalling).routes :
                     r.prefix = p /\ r.family = f /\ r.original = item.id
<1> DEFINE s == ForReading.servers[i]
           c(k) == ForCalling.servers[k]
           p == PrefixIn(config, s)
<1>1. /\ DOMAIN ForCalling.servers = DOMAIN ForReading.servers
      /\ NamesDiffer(ForReading)
      /\ c(i).overrides = s.overrides
      /\ PrefixIn(ForReading, s) = p /\ PrefixIn(ForCalling, c(i)) = p
  BY ReadAndCalled DEF ConfigFits
<1>2. f \in Families /\ f \notin Named
  BY DEF Located, Families, Named
<1>3. \A id : Local(c(i), f, id) = Local(s, f, id)
  BY <1>1 DEF Local, OverridesOf
<1>4. ASSUME NEW r \in Now(ForCalling).routes, r.prefix = p, r.family = f
      PROVE  \E item \in CalledAt(i, f) :
                r.original = item.id /\ r.exposed = ShownAs(i, f, item.id)
  <2>1. PICK k \in DOMAIN ForCalling.servers : \E g \in Families :
           \E item \in Visible(c(k), FoundNow(ForCalling)[k], g) :
              r = RouteOf(c(k), PrefixIn(ForCalling, c(k)), g, item)
    BY NowRoutes
  <2>2. PICK g \in Families : \E item \in Visible(c(k), FoundNow(ForCalling)[k], g) :
           r = RouteOf(c(k), PrefixIn(ForCalling, c(k)), g, item)
    BY <2>1
  <2>3. PICK item \in Visible(c(k), FoundNow(ForCalling)[k], g) :
           r = RouteOf(c(k), PrefixIn(ForCalling, c(k)), g, item)
    BY <2>2
  <2>4. /\ g = f /\ PrefixIn(ForCalling, c(k)) = p /\ r.original = item.id
        /\ r.exposed = Identity(f, PrefixIn(ForCalling, c(k)), Local(c(k), f, item.id))
    BY <1>4, <2>3 DEF RouteOf
  <2>5. k = i
    <3>1. PrefixIn(ForReading, ForReading.servers[k]) = PrefixIn(ForReading, s)
      BY <1>1, <2>4, ReadAndCalled
    <3>2. ForReading.servers[k] \in ToSet(ForReading.servers)
      BY <1>1 DEF ToSet
    <3>3. ForReading.servers[k] = s
      BY <3>1, <3>2 DEF PrefixIsUnique
    <3> QED BY <1>1, <3>3 DEF NamesDiffer
  <2>6. r.exposed = ShownAs(i, f, item.id)
    BY <1>2, <1>3, <2>4, <2>5 DEF Identity, ShownAs
  <2> QED BY <2>3, <2>4, <2>5, <2>6 DEF CalledAt
<1>5. ASSUME NEW item \in CalledAt(i, f)
      PROVE  \E r \in Now(ForCalling).routes :
                r.prefix = p /\ r.family = f /\ r.original = item.id
  <2>1. RouteOf(c(i), p, f, item) \in Now(ForCalling).routes
    BY <1>1, <1>2, <1>5, NowRoutes DEF CalledAt
  <2> QED BY <2>1 DEF RouteOf
<1> QED BY <1>4, <1>5

\* Where a call leaves a URI that reading covers as it is, but for the prefix,
\* no override names what covers it.
LEMMA NotCalled ==
    ASSUME World, Now(ForCalling) # None, NEW i \in DOMAIN ForReading.servers,
           PrefixIsUnique(ForReading, ForReading.servers[i]), NEW f \in Located,
           NEW item \in ReadAt(i, f),
           \A r \in Now(ForCalling).routes :
              ~ (/\ r.prefix = PrefixIn(config, ForReading.servers[i])
                 /\ r.family = f /\ r.original = item.id)
    PROVE  ShownAs(i, f, item.id) = Wrap(PrefixIn(config, ForReading.servers[i]), item.id)
<1> DEFINE s == ForReading.servers[i]
<1>1. ~ \E called \in CalledAt(i, f) : called.id = item.id
  BY CalledRoutes
<1>2. \A o \in ToSet(s.overrides[f]) : o.item = item.id => ~o.enabled
  BY <1>1, CalledIsRead
<1>3. ~Hidden(s, f, item.id)
  BY DEF ReadAt
<1>4. Local(s, f, item.id) = item.id
  BY <1>2, <1>3, Unnamed
<1> QED BY <1>4 DEF ShownAs

\* A link that a call makes of a URI leads reading back to it.
LEMMA LinkReturns ==
    ASSUME World, Now(ForReading) # None, Now(ForCalling) # None,
           Unambiguous(Now(ForReading)), NEW i \in DOMAIN ForReading.servers,
           PrefixIsUnique(ForReading, ForReading.servers[i]),
           TemplatesAreListed(ForReading.servers[i]),
           NEW u \in Shown(ForReading.servers[i], URIs),
           NEW link \in CompositeURI(Now(ForCalling),
                                     PrefixIn(config, ForReading.servers[i]), u)
    PROVE  RouteResource(Now(ForReading), link)
              = {[component |-> ForReading.servers[i].name, uri |-> u]}
<1> DEFINE s == ForReading.servers[i]
           p == PrefixIn(config, s)
           own == {r \in Now(ForCalling).routes : r.prefix = p}
           exact == {r \in own : r.family = "resources" /\ r.original = u}
           template == {r \in own : r.family = "resourceTemplates" /\ Matches(r.original, u)}
           home == {[component |-> s.name, uri |-> u]}
<1>1. u \in Texts
  BY CompilerAssumption DEF Shown
<1>2. \/ \E item \in ReadAt(i, "resources") : item.id = u
      \/ /\ \E item \in ReadAt(i, "resourceTemplates") : Matches(item.id, u)
         /\ OverridesOf(s, "resources", u) = {}
  BY DEF Shown, ReadAt, FoundNow
<1>3. \E f \in Located : ReadAt(i, f) # {}
  BY <1>2 DEF Located
<1>4. \A g \in Located : FoundNow(ForReading)[i][g] = upstream[s.name].features[g]
  BY <1>3, ReadsAll
<1>5. "resources" \in Located /\ "resourceTemplates" \in Located
  BY DEF Located
<1> HIDE DEF s, p, home
<1>6. CASE exact # {}
  <2>1. PICK r \in exact : link = r.exposed
    BY <1>6 DEF CompositeURI, s, p
  <2>2. PICK item \in CalledAt(i, "resources") :
           u = item.id /\ link = ShownAs(i, "resources", item.id)
    BY <1>5, <2>1, CalledRoutes DEF s, p
  <2>3. \/ item \in ReadAt(i, "resources")
        \/ \E o \in ToSet(s.overrides["resources"]) : o.item = u
    BY <1>5, <2>2, CalledIsRead DEF s
  <2>4. \E x \in ReadAt(i, "resources") : x.id = u
    BY <1>2, <2>2, <2>3 DEF OverridesOf
  <2> QED BY <2>2, <2>4, ReadExactly DEF home, s
<1>7. CASE exact = {} /\ template # {}
  <2>1. PICK r \in template : link = Expand(r.exposed, u)
    BY <1>7 DEF CompositeURI, s, p
  <2>2. PICK called \in CalledAt(i, "resourceTemplates") :
           /\ r.original = called.id
           /\ r.exposed = ShownAs(i, "resourceTemplates", called.id)
    BY <1>5, <2>1, CalledRoutes DEF s, p
  <2>3. /\ ~Hidden(s, "resourceTemplates", called.id)
        /\ \/ called \in ReadAt(i, "resourceTemplates")
           \/ \E o \in ToSet(s.overrides["resourceTemplates"]) :
                 o.enabled /\ o.item = called.id
    BY <1>5, <2>2, CalledIsRead DEF s
  <2>4. \E item \in ReadAt(i, "resourceTemplates") : item.id = called.id
    <3>1. CASE called \in ReadAt(i, "resourceTemplates")
      BY <3>1
    <3>2. CASE \E o \in ToSet(s.overrides["resourceTemplates"]) : o.item = called.id
      <4>1. PICK o \in ToSet(s.overrides["resourceTemplates"]) : o.item = called.id
        BY <3>2
      <4>2. PICK t \in ToSet(upstream[s.name].features["resourceTemplates"]) : t.id = o.item
        BY <4>1 DEF TemplatesAreListed, s
      <4>3. t \in ToSet(FoundNow(ForReading)[i]["resourceTemplates"])
        BY <1>4, <1>5, <4>2
      <4>4. t \in ReadAt(i, "resourceTemplates")
        BY <2>3, <4>1, <4>2, <4>3 DEF ReadAt, s
      <4> QED BY <4>1, <4>2, <4>4
    <3> QED BY <2>3, <3>1, <3>2
  <2>5. PICK item \in ReadAt(i, "resourceTemplates") : item.id = called.id
    BY <2>4
  <2>6. Matches(item.id, u) /\ link = Expand(ShownAs(i, "resourceTemplates", item.id), u)
    BY <2>1, <2>2, <2>5
  <2> QED BY <1>1, <2>5, <2>6, ReadByTemplate DEF home, s
<1>8. CASE exact = {} /\ template = {}
  <2>1. link = Wrap(p, u)
    BY <1>8 DEF CompositeURI, s, p
  <2>2. CASE \E item \in ReadAt(i, "resources") : item.id = u
    <3>1. PICK item \in ReadAt(i, "resources") : item.id = u
      BY <2>2
    <3>2. ShownAs(i, "resources", item.id) = Wrap(p, item.id)
      BY <1>5, <1>8, <3>1, NotCalled DEF s, p
    <3> QED BY <2>1, <3>1, <3>2, ReadExactly DEF home, s
  <2>3. CASE \E item \in ReadAt(i, "resourceTemplates") : Matches(item.id, u)
    <3>1. PICK item \in ReadAt(i, "resourceTemplates") : Matches(item.id, u)
      BY <2>3
    <3>2. ShownAs(i, "resourceTemplates", item.id) = Wrap(p, item.id)
      BY <1>5, <1>8, <3>1, NotCalled DEF s, p
    <3>3. Expand(Wrap(p, item.id), u) = Wrap(p, u)
      <4>1. p \in Texts
        BY ReadAndCalled, ServersFit, PrefixFits DEF ConfigFits, s, p
      <4>2. u # <<>> /\ Front(u) = item.id
        BY <3>1 DEF Matches
      <4> QED BY <1>1, <4>1, <4>2, WrapsFront DEF Expand
    <3>4. link = Expand(ShownAs(i, "resourceTemplates", item.id), u)
      BY <2>1, <3>2, <3>3
    <3> QED BY <1>1, <3>1, <3>4, ReadByTemplate DEF home, s
  <2> QED BY <1>2, <2>2, <2>3
<1> QED BY <1>6, <1>7, <1>8 DEF home, s

----------------------------------------------------------------------------
(* The theorems.                                                           *)

LEMMA InvNext == ASSUME IInv, [Next]_vars PROVE IInv'
<1>1. CASE \E s \in DOMAIN upstream : UpstreamChanges(s)
  BY <1>1, UpstreamStep
<1>2. CASE \E cfg \in DOMAIN cached : Evict(cfg)
  BY <1>2, EvictStep
<1>3. CASE CancelRequest
  BY <1>3, CancelStep
<1>4. CASE ListItems
  BY <1>4, ListItemsStep
<1>5. CASE \E name \in Names, named \in Names \cup {Nil} : CallTool(name, named)
  BY <1>5, CallToolStep
<1>6. CASE \E w \in DOMAIN at : Take(w) \/ Stop(w) \/ Discover(w)
  BY <1>6, TakeStep, StopStep, DiscoverStep
<1>7. CASE Finish
  BY <1>7, FinishStep
<1>8. CASE AnswerList
  BY <1>8, AnswerListStep
<1>9. CASE AnswerOther
  BY <1>9, AnswerOtherStep
<1>10. CASE UNCHANGED vars
  <2>1. UNCHANGED <<config, upstream, changes, cached, request, stage, discovery, outcome,
                    walk, asked>>
    BY <1>10 DEF vars, discovery
  <2>2. /\ World /\ Requested /\ CachedFit /\ Progress /\ WalkFits /\ OutcomeMatchesAnswers
    BY DEF IInv
  <2>3. World' /\ Components' = Components
    BY <2>1, <2>2, WorldKept
  <2>4. CachedFit'
    BY <2>1, <2>2 DEF CachedFit
  <2> QED BY <2>1, <2>2, <2>3, <2>4, RequestedKept, ProgressKept, OutcomeKept, WalkKept DEF IInv
<1> QED BY <1>1, <1>2, <1>3, <1>4, <1>5, <1>6, <1>7, <1>8, <1>9, <1>10 DEF Next

THEOREM InvCorrect == Spec => []IInv
<1> QED BY InvInit, InvNext, PTL DEF Spec

\* Types: a worker holds a position of the configuration, what is known of a
\* server is a result, and what the registry keeps awaits nobody.
THEOREM TypeCorrect == Spec => []TypeOK
<1>1. IInv => TypeOK
  <2> SUFFICES ASSUME IInv PROVE TypeOK
    OBVIOUS
  <2>1. /\ World /\ Requested /\ CachedFit /\ Progress /\ WalkFits
    BY DEF IInv
  <2>2. /\ config \in Configs /\ (\A s \in DOMAIN upstream : upstream[s] \in Answers[s])
        /\ changes \in 0 .. MaxChanges
        /\ \A cfg \in DOMAIN cached : cached[cfg].pending = <<>>
    BY <2>1 DEF World, Components, CachedFit
  <2>3. request.op \in {"none", "list", "call"} /\ stage \in {"idle", "discovering", "answered"}
    BY <2>1 DEF Requested, Idle
  <2>4. walk.complete \in BOOLEAN
    <3>1. FreshWalk.complete = FALSE
      BY DEF FreshWalk
    <3>2. walk.complete = TRUE \/ walk.complete = FALSE
      BY <2>1, <3>1, Zenon DEF WalkFits
    <3>3. CASE walk.complete = TRUE
      BY <3>3
    <3>4. CASE walk.complete = FALSE
      BY <3>4
    <3> QED BY <3>2, <3>3, <3>4
  <2>5. /\ \A w \in DOMAIN at : at[w] \in {Free, Stopped} \cup DOMAIN Servers
        /\ \A i \in DOMAIN results : results[i] \in ResultRecords \cup {None}
        /\ cause = None \/ (cause.kind \in AnswerKinds /\ cause.server \in Position)
        /\ outcome.kind \in OutcomeKinds
    <3>1. CASE stage = "idle"
      BY <2>1, <3>1 DEF Progress, Resting, NoOutcome, OutcomeKinds
    <3>2. CASE stage = "discovering"
      <4>1. Taken /\ Concluded /\ outcome.kind = "none"
        BY <2>1, <3>2 DEF Progress, NoOutcome
      <4>2. Len(Servers) \in Nat /\ DOMAIN Servers = 1 .. Len(Servers)
        BY <3>2, Discovering
      <4>3. cause = None \/ (cause.kind \in AnswerKinds /\ cause.server \in Position)
        BY <4>1, <4>2 DEF Concluded, CauseRecords, Position
      <4> QED BY <4>1, <4>3 DEF Taken, Concluded, OutcomeKinds
    <3>3. CASE stage = "answered"
      BY <2>1, <3>3 DEF Progress, Answered
    <3> QED BY <2>3, <3>1, <3>2, <3>3
  <2>6. \A i \in DOMAIN results : results[i] = None \/ results[i].pending \in BOOLEAN
    BY <2>5 DEF ResultRecords
  <2> QED BY <2>2, <2>3, <2>4, <2>5, <2>6 DEF TypeOK
<1> QED BY <1>1, InvCorrect, PTL

\* A compile returns what the answers of the servers call for, however its
\* workers interleave: the failure of a server that failed, the challenges of
\* all that challenged, or a catalog of all that is offered (compile,
\* discoverComponents).
THEOREM OutcomeMatchesAnswersCorrect == Spec => []OutcomeMatchesAnswers
<1>1. IInv => OutcomeMatchesAnswers
  BY DEF IInv
<1> QED BY <1>1, InvCorrect, PTL

\* What a client has read through pages is how the catalog of its first page
\* begins, and all of it at the end (page, decodeCursor).
THEOREM PagesListOneCatalogCorrect == Spec => []PagesListOneCatalog
<1>1. IInv => PagesListOneCatalog
  <2> SUFFICES ASSUME WalkFits PROVE PagesListOneCatalog
    BY DEF IInv
  <2>1. CASE walk = FreshWalk
    <3>1. walk.items = <<>> /\ walk.from = <<>>
      BY <2>1 DEF FreshWalk
    <3> QED BY <3>1 DEF PagesListOneCatalog, IsPrefix
  <2>2. CASE walk.from \in Seq(Entries) /\ walk.items = walk.from
    BY <2>2 DEF PagesListOneCatalog, IsPrefix
  <2>3. CASE /\ walk.complete = FALSE /\ walk.from \in Seq(Entries)
             /\ \E k \in 1 .. Len(walk.from) : walk.items = SubSeq(walk.from, 1, k)
    <3>1. PICK k \in 1 .. Len(walk.from) : walk.items = SubSeq(walk.from, 1, k)
      BY <2>3
    <3>2. /\ Len(walk.from) \in Nat /\ walk.items \in Seq(Entries) /\ Len(walk.items) = k
      BY <2>3, <3>1
    <3>3. SubSeq(walk.items, 1, k) = walk.items
      BY <3>2
    <3>4. IsPrefix(walk.items, walk.from)
      BY <3>1, <3>2, <3>3 DEF IsPrefix
    <3> QED BY <2>3, <3>4 DEF PagesListOneCatalog
  <2> QED BY <2>1, <2>2, <2>3 DEF WalkFits
<1> QED BY <1>1, InvCorrect, PTL

\* Where all components answer, a call that runs with part of a configuration
\* goes where it would go with the whole, unless a cached owner has lost the
\* tool (requestCatalogConfig).
THEOREM NarrowingAgreesCorrect == Spec => []NarrowingAgrees
<1>1. IInv => NarrowingAgrees
  <2> SUFFICES ASSUME World, CachedFit PROVE NarrowingAgrees
    BY DEF IInv
  <2> DEFINE all == ForMethod(config, "tools")
             tool(name, named) == Sought(config, name, named)
             narrow(name, named) == Narrow(config, name, named, cached)
             owned(t) ==
                {r \in UNION {RouteNamed(cached[c], "tools", t) : c \in DOMAIN cached} :
                    <<r.component, r.original>> \notin Destinations(Now(all), t)}
  <2>1. ASSUME NEW name \in Names, NEW named \in Names \cup {Nil}, Now(all) # None,
               owned(tool(name, named)) = {}
        PROVE  Destinations(Now(narrow(name, named)), tool(name, named))
                  = Destinations(Now(all), tool(name, named))
    <3>1. \A c \in DOMAIN cached : \A r \in RouteNamed(cached[c], "tools", tool(name, named)) :
             <<r.component, r.original>> \in Destinations(Now(all), tool(name, named))
      BY <2>1
    <3> QED BY <2>1, <3>1, NarrowLeads
  <2> QED BY <2>1 DEF NarrowingAgrees
<1> QED BY <1>1, InvCorrect, PTL

\* A link in the result of a call leads, where resources are read, back to the
\* component it came from and to the URI the component gave it
\* (toCompositeURI, RouteResource).
THEOREM LinksReturnHomeCorrect == Spec => []LinksReturnHome
<1>1. IInv => LinksReturnHome
  <2> SUFFICES ASSUME World, Now(ForReading) # None, Now(ForCalling) # None,
                      Unambiguous(Now(ForReading)),
                      NEW s \in ToSet(ForReading.servers),
                      PrefixIsUnique(ForReading, s), TemplatesAreListed(s),
                      NEW u \in Shown(s, URIs),
                      NEW link \in CompositeURI(Now(ForCalling), PrefixIn(config, s), u)
               PROVE  RouteResource(Now(ForReading), link) = {[component |-> s.name, uri |-> u]}
    BY DEF IInv, LinksReturnHome, Rewritten
  <2>1. PICK i \in DOMAIN ForReading.servers : s = ForReading.servers[i]
    BY DEF ToSet
  <2> QED BY <2>1, LinkReturns
<1> QED BY <1>1, InvCorrect, PTL
=============================================================================
