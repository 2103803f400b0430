---------------------------- MODULE CompileProofs ----------------------------
(***************************************************************************)
(* Proofs about Compile, for every set of samples a browser or curl may    *)
(* yield, any number of them, and any versions of the harvester.           *)
(***************************************************************************)
EXTENDS Compile, Lemmas

(***************************************************************************)
(* Sorting.  All the proofs need of it is that it rearranges.              *)
(***************************************************************************)

\* Of two places, the one whose key comes first, or the first of two equal ones.
Comes(keys, j, i) == Before(keys[j], keys[i]) \/ (~Before(keys[i], keys[j]) /\ j <= i)

LEMMA ComesOrders ==
    ASSUME NEW keys \in Seq(Nat)
    PROVE  /\ \A i \in DOMAIN keys : Comes(keys, i, i)
           /\ \A i, j \in DOMAIN keys : Comes(keys, i, j) \/ Comes(keys, j, i)
           /\ \A i, j \in DOMAIN keys : Comes(keys, i, j) /\ Comes(keys, j, i) => i = j
           /\ \A i, j, k \in DOMAIN keys :
                 Comes(keys, i, j) /\ Comes(keys, j, k) => Comes(keys, i, k)
<1>1. \A i \in DOMAIN keys : i \in Nat /\ keys[i] \in Nat
  OBVIOUS
<1> QED BY <1>1 DEF Comes, Before

\* The order sorted() makes is a permutation of the places.
LEMMA SortOrderPermutes ==
    ASSUME NEW keys \in Seq(Nat)
    PROVE  /\ Len(keys) \in Nat /\ Permutes(SortOrder(keys), Len(keys))
           /\ \A k \in 1..Len(keys) : Cardinality(NoLater(keys, SortOrder(keys)[k])) = k
<1> DEFINE n == Len(keys)
           rank == [i \in 1..n |-> Cardinality(NoLater(keys, i))]
<1>0. n \in Nat /\ DOMAIN keys = 1..n
  OBVIOUS
<1> HIDE DEF n
<1>1. \A i, j \in 1..n : j \in NoLater(keys, i) <=> Comes(keys, j, i)
  BY <1>0 DEF NoLater, Comes
<1>2. \A i \in 1..n : NoLater(keys, i) \in SUBSET (1..n) /\ i \in NoLater(keys, i)
  <2>1. \A i \in 1..n : Comes(keys, i, i)
    BY <1>0, ComesOrders
  <2> QED BY <1>0, <1>1, <2>1 DEF NoLater
<1>3. IsFiniteSet(1..n) /\ Cardinality(1..n) = n
  BY <1>0, FS_Interval
<1>4. ASSUME NEW i \in 1..n
      PROVE  IsFiniteSet(NoLater(keys, i)) /\ Cardinality(NoLater(keys, i)) \in 1..n
  <2>1. IsFiniteSet(NoLater(keys, i)) /\ Cardinality(NoLater(keys, i)) <= n
    BY <1>2, <1>3, FS_Subset
  <2>2. Cardinality(NoLater(keys, i)) \in Nat
    BY <2>1, FS_CardinalityType
  <2>3. Cardinality(NoLater(keys, i)) # 0
    BY <1>2, <2>1, FS_EmptySet
  <2> QED BY <1>0, <2>1, <2>2, <2>3
<1>5. ASSUME NEW i \in 1..n, NEW j \in 1..n, i # j, Comes(keys, i, j)
      PROVE  Cardinality(NoLater(keys, i)) < Cardinality(NoLater(keys, j))
  <2>1. NoLater(keys, i) \in SUBSET NoLater(keys, j)
    <3>1. \A k \in 1..n : Comes(keys, k, i) => Comes(keys, k, j)
      BY <1>0, <1>5, ComesOrders
    <3> QED BY <1>1, <1>2, <3>1
  <2>2. j \notin NoLater(keys, i) /\ j \in NoLater(keys, j)
    <3>1. ~ Comes(keys, j, i)
      BY <1>0, <1>5, ComesOrders
    <3> QED BY <1>1, <1>2, <3>1
  <2>3. /\ Cardinality(NoLater(keys, i)) <= Cardinality(NoLater(keys, j))
        /\ Cardinality(NoLater(keys, i)) # Cardinality(NoLater(keys, j))
    BY <1>4, <2>1, <2>2, FS_Subset
  <2>4. Cardinality(NoLater(keys, i)) \in Nat /\ Cardinality(NoLater(keys, j)) \in Nat
    BY <1>0, <1>4
  <2> QED BY <2>3, <2>4
<1>6. rank \in [1..n -> 1..n]
  BY <1>4
<1>7. \A i, j \in 1..n : rank[i] = rank[j] => i = j
  <2> SUFFICES ASSUME NEW i \in 1..n, NEW j \in 1..n, i # j PROVE rank[i] # rank[j]
    OBVIOUS
  <2>1. Comes(keys, i, j) \/ Comes(keys, j, i)
    BY <1>0, ComesOrders
  <2>2. rank[i] = Cardinality(NoLater(keys, i)) /\ rank[j] = Cardinality(NoLater(keys, j))
    OBVIOUS
  <2>3. rank[i] \in Nat /\ rank[j] \in Nat
    BY <1>0, <1>6
  <2> HIDE DEF rank
  <2>4. rank[i] < rank[j] \/ rank[j] < rank[i]
    BY <1>5, <2>1, <2>2
  <2> QED BY <2>3, <2>4
<1>8. SortOrder(keys) = Undoing(rank, n)
  BY <1>0 DEF SortOrder, Undoing
<1>9. \A i \in 1..n : rank[i] = Cardinality(NoLater(keys, i))
  OBVIOUS
<1> HIDE DEF rank
<1>10. Permutes(rank, n)
  BY <1>0, <1>6, <1>7, OneToOne
<1>11. Permutes(Undoing(rank, n), n) /\ \A k \in 1..n : rank[Undoing(rank, n)[k]] = k
  BY <1>0, <1>10, Undone
<1>12. \A k \in 1..n : Cardinality(NoLater(keys, SortOrder(keys)[k])) = k
  BY <1>8, <1>9, <1>11 DEF Permutes
<1> QED BY <1>0, <1>8, <1>11, <1>12 DEF n

\* Lists that are sorted to one list have the same entries.
LEMMA SortedAlike ==
    ASSUME NEW S, NEW a \in Seq(S), NEW b \in Seq(S), NEW k \in Seq(Nat), NEW l \in Seq(Nat),
           Len(k) = Len(a), Len(l) = Len(b), Arranged(a, k) = Arranged(b, l)
    PROVE  /\ Len(a) = Len(b) /\ Len(a) \in Nat
           /\ \E p : Permutes(p, Len(a)) /\ \A i \in 1..Len(a) : a[i] = b[p[i]]
<1> DEFINE n == Len(a)  f == SortOrder(k)  g == SortOrder(l)
<1>1. n \in Nat /\ DOMAIN a = 1..n /\ Len(b) \in Nat /\ DOMAIN b = 1..Len(b)
  OBVIOUS
<1>2. /\ Arranged(a, k) = [i \in 1..n |-> a[f[i]]]
      /\ Arranged(b, l) = [i \in 1..Len(b) |-> b[g[i]]]
  BY <1>1 DEF Arranged
<1>3. Permutes(f, n) /\ Permutes(g, Len(b))
  BY SortOrderPermutes
<1> HIDE DEF n, f, g
<1>4. Len(b) = n
  <2>1. 1..n = 1..Len(b)
    BY <1>2
  <2> QED BY <1>1, <2>1
<1>5. \A i \in 1..n : a[f[i]] = b[g[i]]
  <2>1. [i \in 1..n |-> a[f[i]]] = [i \in 1..n |-> b[g[i]]]
    BY <1>2, <1>4
  <2> QED BY <2>1
<1>6. PICK p : Permutes(p, n) /\ \A i \in 1..n : p[f[i]] = g[i]
  BY <1>1, <1>3, <1>4, Carried
<1>7. ASSUME NEW i \in 1..n PROVE a[i] = b[p[i]]
  <2>1. PICK j \in 1..n : f[j] = i
    BY <1>3 DEF Permutes
  <2> QED BY <1>5, <1>6, <2>1
<1> QED BY <1>1, <1>4, <1>6, <1>7 DEF n

-----------------------------------------------------------------------------
(***************************************************************************)
(* Rearranged: lists with as many entries of each class.                   *)
(***************************************************************************)

\* The places of the entries that c puts in the class of x.
OfClass(c, s, x) == {i \in DOMAIN s : c[s[i]] = c[x]}

\* c tells for each entry what class it is in.
Like(c, s, t) ==
    \A x \in ToSet(s) \cup ToSet(t) : Cardinality(OfClass(c, s, x)) = Cardinality(OfClass(c, t, x))

LEMMA ClassIs ==
    ASSUME NEW D, NEW c, NEW s \in Seq(D), NEW x
    PROVE  /\ OfClass(c, s, x) \in SUBSET (1..Len(s)) /\ Len(s) \in Nat
           /\ Cardinality(OfClass(c, s, x)) # 0 <=> \E y \in ToSet(s) : c[y] = c[x]
           /\ \A y : c[y] = c[x] => OfClass(c, s, y) = OfClass(c, s, x)
<1>1. Len(s) \in Nat /\ DOMAIN s = 1..Len(s)
  OBVIOUS
<1>2. OfClass(c, s, x) \in SUBSET (1..Len(s))
  BY <1>1 DEF OfClass
<1>3. IsFiniteSet(OfClass(c, s, x))
  <2>1. IsFiniteSet(1..Len(s))
    BY <1>1, FS_Interval
  <2> QED BY <1>2, <2>1, FS_Subset
<1>4. OfClass(c, s, x) # {} <=> \E y \in ToSet(s) : c[y] = c[x]
  BY <1>1 DEF OfClass, ToSet
<1>5. Cardinality(OfClass(c, s, x)) # 0 <=> OfClass(c, s, x) # {}
  BY <1>3, FS_EmptySet
<1>6. \A y : c[y] = c[x] => OfClass(c, s, y) = OfClass(c, s, x)
  BY DEF OfClass
<1> QED BY <1>1, <1>2, <1>4, <1>5, <1>6

LEMMA LikeIsEquivalence ==
    ASSUME NEW D, NEW c, NEW s \in Seq(D), NEW t \in Seq(D), NEW u \in Seq(D), Like(c, s, t)
    PROVE  Like(c, t, s) /\ (Like(c, t, u) => Like(c, s, u))
<1>1. \A x \in ToSet(s) \cup ToSet(t) :
         Cardinality(OfClass(c, s, x)) = Cardinality(OfClass(c, t, x))
  BY DEF Like
<1>2. Like(c, t, s)
  BY <1>1 DEF Like
<1>3. ASSUME Like(c, t, u), NEW x \in ToSet(s) \cup ToSet(u)
      PROVE  Cardinality(OfClass(c, s, x)) = Cardinality(OfClass(c, u, x))
  <2>1. \A y \in ToSet(t) \cup ToSet(u) :
           Cardinality(OfClass(c, t, y)) = Cardinality(OfClass(c, u, y))
    BY <1>3 DEF Like
  <2>2. PICK y \in ToSet(t) : c[y] = c[x]
    <3>1. CASE x \in ToSet(s)
      <4>1. Cardinality(OfClass(c, s, x)) # 0
        <5>1. \E y \in ToSet(s) : c[y] = c[x]
          BY <3>1
        <5> QED BY <5>1, ClassIs
      <4>2. Cardinality(OfClass(c, t, x)) # 0
        BY <1>1, <3>1, <4>1
      <4> QED BY <4>2, ClassIs
    <3>2. CASE x \in ToSet(u)
      <4>1. Cardinality(OfClass(c, u, x)) # 0
        <5>1. \E y \in ToSet(u) : c[y] = c[x]
          BY <3>2
        <5> QED BY <5>1, ClassIs
      <4>2. Cardinality(OfClass(c, t, x)) # 0
        BY <2>1, <3>2, <4>1
      <4> QED BY <4>2, ClassIs
    <3> QED BY <1>3, <3>1, <3>2
  <2>3. /\ Cardinality(OfClass(c, s, y)) = Cardinality(OfClass(c, t, y))
        /\ Cardinality(OfClass(c, t, y)) = Cardinality(OfClass(c, u, y))
    BY <1>1, <2>1
  <2>4. OfClass(c, s, y) = OfClass(c, s, x) /\ OfClass(c, u, y) = OfClass(c, u, x)
    BY <2>2, ClassIs
  <2> QED BY <2>3, <2>4
<1> QED BY <1>2, <1>3 DEF Like

\* A permutation that keeps classes rearranges.
LEMMA PermutedIsLike ==
    ASSUME NEW D, NEW c, NEW s \in Seq(D), NEW t \in Seq(D), Len(s) = Len(t),
           NEW p, Permutes(p, Len(s)), \A i \in 1..Len(s) : c[s[i]] = c[t[p[i]]]
    PROVE  Like(c, s, t)
<1>1. SUFFICES ASSUME NEW x
               PROVE  Cardinality(OfClass(c, s, x)) = Cardinality(OfClass(c, t, x))
  BY DEF Like
<1>2. /\ Len(s) \in Nat
      /\ OfClass(c, s, x) \in SUBSET (1..Len(s)) /\ OfClass(c, t, x) \in SUBSET (1..Len(s))
  BY ClassIs
<1>3. \A i \in 1..Len(s) : i \in OfClass(c, s, x) <=> p[i] \in OfClass(c, t, x)
  <2>1. DOMAIN s = 1..Len(s) /\ DOMAIN t = 1..Len(s) /\ \A i \in 1..Len(s) : p[i] \in 1..Len(s)
    BY DEF Permutes
  <2> QED BY <2>1 DEF OfClass
<1> QED BY <1>2, <1>3, SameCount

-----------------------------------------------------------------------------
(***************************************************************************)
(* What normalising keeps: samples with the same stable view are alike.    *)
(***************************************************************************)

LEMMA GreaseIs ==
    /\ GREASE \in GreaseCodepoints /\ GREASE \in Nat
    /\ {15, 17, 57, 12583, 51764, 65037} \cap GreaseCodepoints = {}
<1>1. GREASE = 2570 + 4112 * 0 /\ 0 \in 0..15
  BY DEF GREASE
<1>2. GREASE \in GreaseCodepoints
  BY <1>1 DEF GreaseCodepoints
<1>3. ASSUME NEW k \in 0..15
      PROVE  2570 + 4112 * k \notin {15, 17, 57, 12583, 51764, 65037}
  OBVIOUS
<1> QED BY <1>1, <1>2, <1>3 DEF GreaseCodepoints

LEMMA SameValueIs ==
    \A x, y : SameValue(x, y) <=> normalize_tls_grease(x) = normalize_tls_grease(y)
BY GreaseIs DEF SameValue, normalize_tls_grease

Itself == [x \in Nat |-> x]
Drawn  == [x \in Nat |-> normalize_tls_grease(x)]

LEMMA EntriesAre ==
    ASSUME NEW S, NEW s \in Seq(S)
    PROVE  /\ Len(s) \in Nat /\ DOMAIN s = 1..Len(s)
           /\ \A i \in DOMAIN s : s[i] \in S /\ s[i] \in ToSet(s)
           /\ \A x \in ToSet(s) : x \in S /\ \E i \in DOMAIN s : s[i] = x
BY DEF ToSet

LEMMA ListOf ==
    ASSUME NEW S, NEW n \in Nat, NEW f \in [1..n -> S]
    PROVE  f \in Seq(S) /\ Len(f) = n /\ DOMAIN f = 1..n
OBVIOUS

LEMMA RearrangedIs ==
    ASSUME NEW s \in Seq(Nat), NEW t \in Seq(Nat)
    PROVE  /\ SameAnchors(s, t) <=> Like(Itself, s, t)
           /\ SameVersions(s, t) <=> Like(Drawn, s, t)
<1>1. /\ \A i \in DOMAIN s : s[i] \in Nat
      /\ \A i \in DOMAIN t : t[i] \in Nat
      /\ \A x \in ToSet(s) \cup ToSet(t) : x \in Nat
  BY EntriesAre
<1>2. ASSUME NEW x \in ToSet(s) \cup ToSet(t)
      PROVE  /\ {i \in DOMAIN s : s[i] = x} = OfClass(Itself, s, x)
             /\ {i \in DOMAIN t : t[i] = x} = OfClass(Itself, t, x)
             /\ {i \in DOMAIN s : SameValue(s[i], x)} = OfClass(Drawn, s, x)
             /\ {i \in DOMAIN t : SameValue(t[i], x)} = OfClass(Drawn, t, x)
  BY <1>1, SameValueIs DEF OfClass, Itself, Drawn
<1> QED BY <1>2 DEF SameAnchors, SameVersions, Rearranged, Like

LEMMA SameLength ==
    ASSUME NEW m \in Nat, NEW n \in Nat, 1..m = 1..n
    PROVE  m = n
<1>1. m # 0 => m \in 1..n
  <2>1. m # 0 => m \in 1..m
    OBVIOUS
  <2> QED BY <2>1
<1>2. n # 0 => n \in 1..m
  <2>1. n # 0 => n \in 1..n
    OBVIOUS
  <2> QED BY <2>1
<1> QED BY <1>1, <1>2

\* Entry by entry, what normalising makes equal is the same but for GREASE.
LEMMA SameListIs ==
    ASSUME NEW s \in Seq(Nat), NEW t \in Seq(Nat)
    PROVE  SameList(s, t) <=> NormalizeAll(s) = NormalizeAll(t)
<1>1. /\ Len(s) \in Nat /\ DOMAIN s = 1..Len(s)
      /\ Len(t) \in Nat /\ DOMAIN t = 1..Len(t)
  OBVIOUS
<1>2. ASSUME SameList(s, t) PROVE NormalizeAll(s) = NormalizeAll(t)
  <2>1. Len(s) = Len(t) /\ \A i \in 1..Len(s) : SameValue(s[i], t[i])
    BY <1>1, <1>2 DEF SameList
  <2> QED BY <1>1, <2>1, SameValueIs DEF NormalizeAll
<1>3. ASSUME NormalizeAll(s) = NormalizeAll(t) PROVE SameList(s, t)
  <2>1. [i \in 1..Len(s) |-> normalize_tls_grease(s[i])]
        = [i \in 1..Len(t) |-> normalize_tls_grease(t[i])]
    BY <1>1, <1>3 DEF NormalizeAll
  <2>2. 1..Len(s) = 1..Len(t)
    BY <2>1
  <2>3. Len(s) = Len(t)
    BY <1>1, <2>2, SameLength
  <2>4. \A i \in 1..Len(s) : normalize_tls_grease(s[i]) = normalize_tls_grease(t[i])
    BY <2>1, <2>3
  <2> QED BY <1>1, <2>3, <2>4, SameValueIs DEF SameList
<1> QED BY <1>2, <1>3

\* Values that are sorted to one list are rearranged, whatever tells them apart.
LEMMA SortedValues ==
    ASSUME NEW s \in Seq(Nat), NEW t \in Seq(Nat)
    PROVE  /\ Sorted(s) = Sorted(t) => SameAnchors(s, t)
           /\ Sorted(NormalizeAll(s)) = Sorted(NormalizeAll(t)) => SameVersions(s, t)
<1>1. ASSUME Sorted(s) = Sorted(t) PROVE SameAnchors(s, t)
  <2>1. Len(s) = Len(t)
        /\ \E p : Permutes(p, Len(s)) /\ \A i \in 1..Len(s) : s[i] = t[p[i]]
    BY <1>1, SortedAlike DEF Sorted
  <2>2. PICK p : Permutes(p, Len(s)) /\ \A i \in 1..Len(s) : s[i] = t[p[i]]
    BY <2>1
  <2>3. \A i \in 1..Len(s) : Itself[s[i]] = Itself[t[p[i]]]
    BY <2>2
  <2>4. Like(Itself, s, t)
    BY <2>1, <2>2, <2>3, PermutedIsLike
  <2> QED BY <2>4, RearrangedIs
<1>2. ASSUME Sorted(NormalizeAll(s)) = Sorted(NormalizeAll(t)) PROVE SameVersions(s, t)
  <2> DEFINE a == NormalizeAll(s)  b == NormalizeAll(t)
  <2>1. /\ Len(s) \in Nat /\ DOMAIN s = 1..Len(s) /\ \A i \in 1..Len(s) : s[i] \in Nat
        /\ Len(t) \in Nat /\ DOMAIN t = 1..Len(t) /\ \A i \in 1..Len(t) : t[i] \in Nat
    OBVIOUS
  <2>2. /\ a \in [1..Len(s) -> Nat] /\ \A i \in 1..Len(s) : a[i] = Drawn[s[i]]
        /\ b \in [1..Len(t) -> Nat] /\ \A i \in 1..Len(t) : b[i] = Drawn[t[i]]
    BY <2>1, GreaseIs DEF NormalizeAll, normalize_tls_grease, Drawn
  <2> HIDE DEF a, b
  <2>3. a \in Seq(Nat) /\ b \in Seq(Nat) /\ Len(a) = Len(s) /\ Len(b) = Len(t)
    BY <2>1, <2>2, ListOf
  <2>4. Len(a) = Len(b) /\ \E p : Permutes(p, Len(a)) /\ \A i \in 1..Len(a) : a[i] = b[p[i]]
    <3>1. Arranged(a, a) = Arranged(b, b)
      BY <1>2 DEF Sorted, a, b
    <3> QED BY <2>3, <3>1, SortedAlike
  <2>5. PICK p : Permutes(p, Len(s)) /\ \A i \in 1..Len(s) : a[i] = b[p[i]]
    BY <2>3, <2>4
  <2>6. Len(s) = Len(t)
    BY <2>3, <2>4
  <2>7. \A i \in 1..Len(s) : Drawn[s[i]] = Drawn[t[p[i]]]
    <3>1. \A i \in 1..Len(s) : p[i] \in 1..Len(s)
      BY <2>5 DEF Permutes
    <3> QED BY <2>2, <2>5, <2>6, <3>1
  <2>8. Like(Drawn, s, t)
    BY <2>5, <2>6, <2>7, PermutedIsLike
  <2> QED BY <2>8, RearrangedIs
<1> QED BY <1>1, <1>2

LEMMA RearrangedIsEquivalence ==
    ASSUME NEW s \in Seq(Nat), NEW t \in Seq(Nat), NEW u \in Seq(Nat)
    PROVE  /\ SameAnchors(s, s) /\ SameVersions(s, s)
           /\ SameAnchors(s, t) => SameAnchors(t, s)
           /\ SameVersions(s, t) => SameVersions(t, s)
           /\ SameAnchors(s, t) /\ SameAnchors(t, u)
                 => SameAnchors(s, u)
           /\ SameVersions(s, t) /\ SameVersions(t, u)
                 => SameVersions(s, u)
<1>1. \A c : Like(c, s, s)
  BY DEF Like
<1>2. \A c : Like(c, s, t) => Like(c, t, s) /\ (Like(c, t, u) => Like(c, s, u))
  BY LikeIsEquivalence
<1>3. /\ SameAnchors(s, s) <=> Like(Itself, s, s)
      /\ SameAnchors(s, t) <=> Like(Itself, s, t)
      /\ SameAnchors(t, s) <=> Like(Itself, t, s)
      /\ SameAnchors(t, u) <=> Like(Itself, t, u)
      /\ SameAnchors(s, u) <=> Like(Itself, s, u)
  BY RearrangedIs
<1>4. /\ SameVersions(s, s) <=> Like(Drawn, s, s)
      /\ SameVersions(s, t) <=> Like(Drawn, s, t)
      /\ SameVersions(t, s) <=> Like(Drawn, t, s)
      /\ SameVersions(t, u) <=> Like(Drawn, t, u)
      /\ SameVersions(s, u) <=> Like(Drawn, s, u)
  BY RearrangedIs
<1> QED BY <1>1, <1>2, <1>3, <1>4

\* The ids of which the normaliser makes an exception keep what they are.
LEMMA IdIs ==
    ASSUME NEW x, NEW y, normalize_tls_grease(x) = normalize_tls_grease(y)
    PROVE  \/ x \in GreaseCodepoints /\ y \in GreaseCodepoints
           \/ x = y /\ x \notin GreaseCodepoints /\ normalize_tls_grease(x) = x
BY GreaseIs DEF normalize_tls_grease

LEMMA SameExtensionIsEquivalence ==
    ASSUME NEW quic, NEW e \in RawItems, NEW f \in RawItems, NEW g \in RawItems
    PROVE  /\ SameExtension(e, e, quic)
           /\ SameExtension(e, f, quic) => SameExtension(f, e, quic)
           /\ SameExtension(e, f, quic) /\ SameExtension(f, g, quic) => SameExtension(e, g, quic)
<1>1. /\ e.values \in Seq(Nat) /\ f.values \in Seq(Nat) /\ g.values \in Seq(Nat)
  BY DEF RawItems
<1>2. /\ SameList(e.values, e.values)
      /\ SameList(e.values, f.values) => SameList(f.values, e.values)
      /\ SameList(e.values, f.values) /\ SameList(f.values, g.values)
            => SameList(e.values, g.values)
  <2>1. /\ SameList(e.values, e.values) <=> NormalizeAll(e.values) = NormalizeAll(e.values)
        /\ SameList(e.values, f.values) <=> NormalizeAll(e.values) = NormalizeAll(f.values)
        /\ SameList(f.values, e.values) <=> NormalizeAll(f.values) = NormalizeAll(e.values)
        /\ SameList(f.values, g.values) <=> NormalizeAll(f.values) = NormalizeAll(g.values)
        /\ SameList(e.values, g.values) <=> NormalizeAll(e.values) = NormalizeAll(g.values)
    BY <1>1, SameListIs
  <2> QED BY <2>1
<1>3. /\ SameAnchors(e.values, e.values)
      /\ SameAnchors(e.values, f.values)
            => SameAnchors(f.values, e.values)
      /\ /\ SameAnchors(e.values, f.values)
         /\ SameAnchors(f.values, g.values)
         => SameAnchors(e.values, g.values)
  BY <1>1, RearrangedIsEquivalence
<1> DEFINE R(a, b) == SameAnchors(a.values, b.values)
           L(a, b) == SameList(a.values, b.values)
           Same(a, b) ==
              \/ a.id \in GreaseCodepoints /\ b.id \in GreaseCodepoints
              \/ a.id = b.id /\ \/ a.id = 51764 /\ R(a, b)
                                \/ a.id # 51764 /\ a.id = 65037 /\ ~quic
                                \/ a.id # 51764 /\ ~ (a.id = 65037 /\ ~quic) /\ L(a, b)
<1>4. /\ SameExtension(e, e, quic) <=> Same(e, e)
      /\ SameExtension(e, f, quic) <=> Same(e, f)
      /\ SameExtension(f, e, quic) <=> Same(f, e)
      /\ SameExtension(f, g, quic) <=> Same(f, g)
      /\ SameExtension(e, g, quic) <=> Same(e, g)
  BY DEF SameExtension
<1>5. /\ R(e, e) /\ L(e, e) /\ (R(e, f) => R(f, e)) /\ (L(e, f) => L(f, e))
      /\ (R(e, f) /\ R(f, g) => R(e, g)) /\ (L(e, f) /\ L(f, g) => L(e, g))
  BY <1>2, <1>3
<1> HIDE DEF R, L
<1>6. /\ Same(e, e) /\ (Same(e, f) => Same(f, e))
      /\ (Same(e, f) /\ Same(f, g) => Same(e, g))
  BY <1>5
<1> QED BY <1>4, <1>6

\* What is left of an extension tells all that does not change.
LEMMA ExtensionAlike ==
    ASSUME NEW quic, NEW e \in RawItems, NEW f \in RawItems,
           e.id = 57 => e.values = <<>>, f.id = 57 => f.values = <<>>,
           normalize_extension(e, quic) = normalize_extension(f, quic)
    PROVE  SameExtension(e, f, quic)
<1>1. e.values \in Seq(Nat) /\ f.values \in Seq(Nat)
  BY DEF RawItems
<1> DEFINE id(x) == normalize_tls_grease(x.id)
           kept(x) == IF id(x) = 51764 THEN normalize_trust_anchors(x.values)
                      ELSE IF id(x) \in {GREASE, 57} \/ (id(x) = 65037 /\ ~quic) THEN <<>>
                      ELSE NormalizeAll(x.values)
<1>2. id(e) = id(f) /\ kept(e) = kept(f)
  <2>1. /\ normalize_extension(e, quic) = [id |-> id(e), values |-> kept(e)]
        /\ normalize_extension(f, quic) = [id |-> id(f), values |-> kept(f)]
    BY DEF normalize_extension
  <2> HIDE DEF id, kept
  <2>2. [id |-> id(e), values |-> kept(e)] = [id |-> id(f), values |-> kept(f)]
    BY <2>1
  <2>3. [id |-> id(e), values |-> kept(e)].id = [id |-> id(f), values |-> kept(f)].id
    BY <2>2
  <2>4. [id |-> id(e), values |-> kept(e)].values = [id |-> id(f), values |-> kept(f)].values
    BY <2>2
  <2> QED BY <2>3, <2>4
<1>3. CASE e.id \in GreaseCodepoints /\ f.id \in GreaseCodepoints
  BY <1>3 DEF SameExtension
<1>4. CASE e.id = f.id /\ e.id \notin GreaseCodepoints /\ id(e) = e.id
  <2>1. id(f) = e.id /\ e.id # GREASE
    BY <1>2, <1>4, GreaseIs
  <2>2. CASE e.id = 51764
    <3>1. Sorted(e.values) = Sorted(f.values)
      BY <1>2, <1>4, <2>1, <2>2 DEF normalize_trust_anchors
    <3>2. SameAnchors(e.values, f.values)
      BY <1>1, <3>1, SortedValues
    <3> QED BY <1>4, <2>2, <3>2 DEF SameExtension
  <2>3. CASE e.id = 57
    <3>1. SameList(<<>>, <<>>)
      BY DEF SameList
    <3> QED BY <1>4, <2>3, <3>1 DEF SameExtension
  <2>4. CASE e.id = 65037 /\ ~quic
    BY <1>4, <2>4 DEF SameExtension
  <2>5. CASE e.id \notin {51764, 57} /\ ~ (e.id = 65037 /\ ~quic)
    <3>1. NormalizeAll(e.values) = NormalizeAll(f.values)
      BY <1>2, <1>4, <2>1, <2>5
    <3>2. SameList(e.values, f.values)
      BY <1>1, <3>1, SameListIs
    <3> QED BY <1>4, <2>5, <3>2 DEF SameExtension
  <2> QED BY <2>2, <2>3, <2>4, <2>5
<1> QED BY <1>2, <1>3, <1>4, IdIs

LEMMA SameParameterIsEquivalence ==
    ASSUME NEW p \in RawItems, NEW q \in RawItems, NEW r \in RawItems
    PROVE  /\ SameParameter(p, p)
           /\ SameParameter(p, q) => SameParameter(q, p)
           /\ SameParameter(p, q) /\ SameParameter(q, r) => SameParameter(p, r)
<1>1. /\ p.values \in Seq(Nat) /\ q.values \in Seq(Nat) /\ r.values \in Seq(Nat)
  BY DEF RawItems
<1>2. /\ SameVersions(p.values, p.values)
      /\ SameVersions(p.values, q.values) => SameVersions(q.values, p.values)
      /\ SameVersions(p.values, q.values) /\ SameVersions(q.values, r.values)
            => SameVersions(p.values, r.values)
  BY <1>1, RearrangedIsEquivalence
<1> QED BY <1>2 DEF SameParameter

\* What is left of a transport parameter tells all that does not change.
LEMMA ParameterAlike ==
    ASSUME NEW p \in RawItems, NEW q \in RawItems, p.id # GREASE, q.id # GREASE,
           normalize_parameter(p) = normalize_parameter(q)
    PROVE  SameParameter(p, q)
<1>1. p.values \in Seq(Nat) /\ q.values \in Seq(Nat)
  BY DEF RawItems
<1>2. CASE IsGreaseParameter(p.id) /\ IsGreaseParameter(q.id)
  BY <1>2 DEF SameParameter
<1>3. CASE ~ (IsGreaseParameter(p.id) /\ IsGreaseParameter(q.id))
  <2> DEFINE kept(x) == CASE x.id = 15 -> <<>>
                          [] x.id = 17 -> Sorted(NormalizeAll(x.values))
                          [] OTHER     -> x.values
             made(x) == IF IsGreaseParameter(x.id) THEN [id |-> GREASE, values |-> <<>>]
                        ELSE [id |-> x.id, values |-> kept(x)]
  <2>1. made(p) = made(q)
    BY DEF normalize_parameter
  <2> HIDE DEF kept
  <2>2. made(p).id = made(q).id /\ made(p).values = made(q).values
    BY <2>1
  <2>3. ~ IsGreaseParameter(p.id) /\ ~ IsGreaseParameter(q.id)
    BY <1>3, <2>2
  <2>4. p.id = q.id /\ kept(p) = kept(q)
    BY <2>2, <2>3
  <2>5. CASE p.id = 17
    <3>1. Sorted(NormalizeAll(p.values)) = Sorted(NormalizeAll(q.values))
      BY <2>4, <2>5 DEF kept
    <3>2. SameVersions(p.values, q.values)
      BY <1>1, <3>1, SortedValues
    <3> QED BY <2>4, <2>5, <3>2 DEF SameParameter
  <2>6. CASE p.id # 17
    <3>1. p.id = 15 \/ p.values = q.values
      BY <2>4, <2>6 DEF kept
    <3> QED BY <2>4, <2>6, <3>1 DEF SameParameter
  <2> QED BY <2>5, <2>6
<1> QED BY <1>2, <1>3

-----------------------------------------------------------------------------
\* The classes of extensions and of parameters.
Kin(quic) == [e \in RawItems |-> {f \in RawItems : SameExtension(e, f, quic)}]
Kind      == [p \in RawItems |-> {q \in RawItems : SameParameter(p, q)}]

LEMMA KinIs ==
    ASSUME NEW quic, NEW e \in RawItems, NEW f \in RawItems
    PROVE  /\ SameExtension(e, f, quic) <=> Kin(quic)[e] = Kin(quic)[f]
           /\ SameParameter(e, f) <=> Kind[e] = Kind[f]
<1>1. \A a, b, c \in RawItems :
         /\ SameExtension(a, a, quic)
         /\ SameExtension(a, b, quic) => SameExtension(b, a, quic)
         /\ SameExtension(a, b, quic) /\ SameExtension(b, c, quic) => SameExtension(a, c, quic)
  BY SameExtensionIsEquivalence
<1>2. \A a, b, c \in RawItems :
         /\ SameParameter(a, a)
         /\ SameParameter(a, b) => SameParameter(b, a)
         /\ SameParameter(a, b) /\ SameParameter(b, c) => SameParameter(a, c)
  BY SameParameterIsEquivalence
<1>3. SameExtension(e, f, quic) <=> Kin(quic)[e] = Kin(quic)[f]
  BY <1>1 DEF Kin
<1>4. SameParameter(e, f) <=> Kind[e] = Kind[f]
  BY <1>2 DEF Kind
<1> QED BY <1>3, <1>4

LEMMA ItemsRearranged ==
    ASSUME NEW quic, NEW s \in Seq(RawItems), NEW t \in Seq(RawItems)
    PROVE  /\ SameExtensions(s, t, quic) <=> Like(Kin(quic), s, t)
           /\ SameParameters(s, t) <=> Like(Kind, s, t)
<1>1. /\ \A i \in DOMAIN s : s[i] \in RawItems
      /\ \A i \in DOMAIN t : t[i] \in RawItems
      /\ \A x \in ToSet(s) \cup ToSet(t) : x \in RawItems
  BY EntriesAre
<1>2. ASSUME NEW x \in ToSet(s) \cup ToSet(t)
      PROVE  /\ {i \in DOMAIN s : SameExtension(s[i], x, quic)} = OfClass(Kin(quic), s, x)
             /\ {i \in DOMAIN t : SameExtension(t[i], x, quic)} = OfClass(Kin(quic), t, x)
             /\ {i \in DOMAIN s : SameParameter(s[i], x)} = OfClass(Kind, s, x)
             /\ {i \in DOMAIN t : SameParameter(t[i], x)} = OfClass(Kind, t, x)
  BY <1>1, KinIs DEF OfClass
<1> QED BY <1>2 DEF SameExtensions, SameParameters, Rearranged, Like

\* Lists whose entries are made equal by the sort are carried into each other.
LEMMA ExtensionsAlike ==
    ASSUME NEW quic, NEW s \in Seq(RawItems), NEW t \in Seq(RawItems),
           \A e \in ToSet(s) \cup ToSet(t) : e.id = 57 => e.values = <<>>,
           SortedById([i \in DOMAIN s |-> normalize_extension(s[i], quic)])
             = SortedById([i \in DOMAIN t |-> normalize_extension(t[i], quic)])
    PROVE  SameExtensions(s, t, quic)
<1> DEFINE Made == {normalize_extension(e, quic) : e \in RawItems}
           a == [i \in DOMAIN s |-> normalize_extension(s[i], quic)]
           b == [i \in DOMAIN t |-> normalize_extension(t[i], quic)]
<1>1. /\ Len(s) \in Nat /\ DOMAIN s = 1..Len(s)
      /\ \A i \in DOMAIN s : s[i] \in RawItems /\ s[i] \in ToSet(s)
      /\ Len(t) \in Nat /\ DOMAIN t = 1..Len(t)
      /\ \A i \in DOMAIN t : t[i] \in RawItems /\ t[i] \in ToSet(t)
  BY EntriesAre
<1>2. a \in [1..Len(s) -> Made] /\ b \in [1..Len(t) -> Made]
  BY <1>1
<1>3. \A m \in Made : m.id \in Nat
  <2>1. ASSUME NEW e \in RawItems PROVE normalize_extension(e, quic).id \in Nat
    <3>1. e.id \in Nat
      BY DEF RawItems
    <3> QED BY <3>1, GreaseIs DEF normalize_extension, normalize_tls_grease
  <2> QED BY <2>1
<1>4. /\ \A i \in 1..Len(s) : a[i] = normalize_extension(s[i], quic)
      /\ \A i \in 1..Len(t) : b[i] = normalize_extension(t[i], quic)
  BY <1>1
<1>5. SortedById(a) = SortedById(b)
  OBVIOUS
<1> HIDE DEF a, b, Made
<1>6. a \in Seq(Made) /\ Len(a) = Len(s) /\ b \in Seq(Made) /\ Len(b) = Len(t)
  BY <1>1, <1>2, ListOf
<1>7. /\ Ids(a) \in Seq(Nat) /\ Len(Ids(a)) = Len(a)
      /\ Ids(b) \in Seq(Nat) /\ Len(Ids(b)) = Len(b)
  <2>1. Ids(a) \in [1..Len(s) -> Nat] /\ Ids(b) \in [1..Len(t) -> Nat]
    BY <1>2, <1>3 DEF Ids
  <2> QED BY <1>1, <1>6, <2>1, ListOf
<1>8. Len(s) = Len(t) /\ \E p : Permutes(p, Len(s)) /\ \A i \in 1..Len(s) : a[i] = b[p[i]]
  <2>1. Arranged(a, Ids(a)) = Arranged(b, Ids(b))
    BY <1>5 DEF SortedById
  <2> QED BY <1>6, <1>7, <2>1, SortedAlike
<1>9. PICK p : Permutes(p, Len(s)) /\ \A i \in 1..Len(s) : a[i] = b[p[i]]
  BY <1>8
<1>10. ASSUME NEW i \in 1..Len(s) PROVE Kin(quic)[s[i]] = Kin(quic)[t[p[i]]]
  <2>1. p[i] \in 1..Len(t)
    BY <1>8, <1>9 DEF Permutes
  <2>2. normalize_extension(s[i], quic) = normalize_extension(t[p[i]], quic)
    BY <1>4, <1>9, <2>1
  <2>3. SameExtension(s[i], t[p[i]], quic)
    BY <1>1, <2>1, <2>2, ExtensionAlike
  <2> QED BY <1>1, <2>1, <2>3, KinIs
<1>11. Like(Kin(quic), s, t)
  BY <1>8, <1>9, <1>10, PermutedIsLike
<1> QED BY <1>11, ItemsRearranged

LEMMA ParametersAlike ==
    ASSUME NEW s \in Seq(RawItems), NEW t \in Seq(RawItems),
           \A p \in ToSet(s) \cup ToSet(t) : p.id # GREASE,
           SortedById([i \in DOMAIN s |-> normalize_parameter(s[i])])
             = SortedById([i \in DOMAIN t |-> normalize_parameter(t[i])])
    PROVE  SameParameters(s, t)
<1> DEFINE Made == {normalize_parameter(e) : e \in RawItems}
           a == [i \in DOMAIN s |-> normalize_parameter(s[i])]
           b == [i \in DOMAIN t |-> normalize_parameter(t[i])]
<1>1. /\ Len(s) \in Nat /\ DOMAIN s = 1..Len(s)
      /\ \A i \in DOMAIN s : s[i] \in RawItems /\ s[i] \in ToSet(s)
      /\ Len(t) \in Nat /\ DOMAIN t = 1..Len(t)
      /\ \A i \in DOMAIN t : t[i] \in RawItems /\ t[i] \in ToSet(t)
  BY EntriesAre
<1>2. a \in [1..Len(s) -> Made] /\ b \in [1..Len(t) -> Made]
  BY <1>1
<1>3. \A m \in Made : m.id \in Nat
  <2>1. ASSUME NEW e \in RawItems PROVE normalize_parameter(e).id \in Nat
    <3>1. e.id \in Nat
      BY DEF RawItems
    <3> QED BY <3>1, GreaseIs DEF normalize_parameter
  <2> QED BY <2>1
<1>4. /\ \A i \in 1..Len(s) : a[i] = normalize_parameter(s[i])
      /\ \A i \in 1..Len(t) : b[i] = normalize_parameter(t[i])
  BY <1>1
<1>5. SortedById(a) = SortedById(b)
  OBVIOUS
<1> HIDE DEF a, b, Made
<1>6. a \in Seq(Made) /\ Len(a) = Len(s) /\ b \in Seq(Made) /\ Len(b) = Len(t)
  BY <1>1, <1>2, ListOf
<1>7. /\ Ids(a) \in Seq(Nat) /\ Len(Ids(a)) = Len(a)
      /\ Ids(b) \in Seq(Nat) /\ Len(Ids(b)) = Len(b)
  <2>1. Ids(a) \in [1..Len(s) -> Nat] /\ Ids(b) \in [1..Len(t) -> Nat]
    BY <1>2, <1>3 DEF Ids
  <2> QED BY <1>1, <1>6, <2>1, ListOf
<1>8. Len(s) = Len(t) /\ \E p : Permutes(p, Len(s)) /\ \A i \in 1..Len(s) : a[i] = b[p[i]]
  <2>1. Arranged(a, Ids(a)) = Arranged(b, Ids(b))
    BY <1>5 DEF SortedById
  <2> QED BY <1>6, <1>7, <2>1, SortedAlike
<1>9. PICK p : Permutes(p, Len(s)) /\ \A i \in 1..Len(s) : a[i] = b[p[i]]
  BY <1>8
<1>10. ASSUME NEW i \in 1..Len(s) PROVE Kind[s[i]] = Kind[t[p[i]]]
  <2>1. p[i] \in 1..Len(t)
    BY <1>8, <1>9 DEF Permutes
  <2>2. normalize_parameter(s[i]) = normalize_parameter(t[p[i]])
    BY <1>4, <1>9, <2>1
  <2>3. SameParameter(s[i], t[p[i]])
    BY <1>1, <2>1, <2>2, ParameterAlike
  <2> QED BY <1>1, <2>1, <2>3, KinIs
<1>11. Like(Kind, s, t)
  BY <1>8, <1>9, <1>10, PermutedIsLike
<1> QED BY <1>11, ItemsRearranged

\* Only lasting parameters are kept, and they are entries of the list.
LEMMA LastingIs ==
    ASSUME NEW s \in Seq(RawItems)
    PROVE  /\ Lasting(s) = Stable(s) /\ Lasting(s) \in Seq(RawItems)
           /\ ToSet(Lasting(s)) \subseteq ToSet(s)
<1> DEFINE P == {i \in DOMAIN s : s[i].id # 12583}
<1>1. Lasting(s) = At(s, P) /\ Stable(s) = At(s, P) /\ P \in SUBSET DOMAIN s
  BY DEF Lasting, Stable, VOLATILE_QUIC_TRANSPORT_PARAMETER_IDS
<1> HIDE DEF P
<1>2. /\ At(s, P) = [k \in 1..Cardinality(P) |-> s[Nth(P, k)]] /\ At(s, P) \in Seq(RawItems)
  BY <1>1, SublistIs
<1>3. \A k \in 1..Cardinality(P) : Nth(P, k) \in DOMAIN s
  <2>1. Len(s) \in Nat /\ P \in SUBSET (1..Len(s)) /\ DOMAIN s = 1..Len(s)
    BY <1>1, EntriesAre
  <2> QED BY <2>1, InPlace
<1>4. ToSet(At(s, P)) \subseteq ToSet(s)
  BY <1>2, <1>3 DEF ToSet
<1> QED BY <1>1, <1>2, <1>4

-----------------------------------------------------------------------------
(***************************************************************************)
(* Samples.  A sound one is what a collector may have reported, or what is *)
(* left of it when there was no second collector.                          *)
(***************************************************************************)
SoundHellos ==
    {h \in RawHellos : /\ \A e \in ToSet(h.extensions) : e.id = 57 => e.values = <<>>
                       /\ \A p \in ToSet(h.parameters) : p.id # GREASE
                       /\ ExtensionsOnce(h.extensions) /\ ParametersOnce(h.parameters)}

Takings == {Taken(s, http3) : s \in Captures \cup Answers, http3 \in BOOLEAN}

LEMMA TakenIs ==
    ASSUME NEW s, NEW http3 \in BOOLEAN
    PROVE  /\ http3 => Taken(s, http3) = s
           /\ ~http3 /\ s \in RawSamples =>
                Taken(s, http3) = [mode |-> s.mode, tcp |-> s.tcp, http2 |-> s.http2,
                                   protocol |-> "none", quic |-> NoHello, http3 |-> NoHttp3]
<1>1. CASE http3
  BY <1>1 DEF Taken
<1>2. CASE ~http3
  <2>1. Taken(s, http3)
        = [[[s EXCEPT !.protocol = "none"] EXCEPT !.quic = NoHello] EXCEPT !.http3 = NoHttp3]
    BY <1>2 DEF Taken
  <2>2. s \in RawSamples =>
           s = [mode |-> s.mode, tcp |-> s.tcp, http2 |-> s.http2, protocol |-> s.protocol,
                quic |-> s.quic, http3 |-> s.http3]
    BY DEF RawSamples
  <2> QED BY <1>2, <2>1, <2>2
<1> QED BY <1>1, <1>2

LEMMA TakingsAre ==
    ASSUME NEW s \in Takings
    PROVE  /\ s.tcp \in SoundHellos /\ s.quic \in SoundHellos
           /\ s.http3.settings \in Seq(Nat) /\ GREASE \notin ToSet(s.http3.settings)
           /\ s.protocol = "none" => s.quic = NoHello
           /\ s.http2 = [settings |-> s.http2.settings, pseudo |-> s.http2.pseudo,
                         headers |-> s.http2.headers, priority |-> s.http2.priority,
                         other |-> s.http2.other]
           /\ s.http3 = [settings |-> s.http3.settings, pseudo |-> s.http3.pseudo,
                         headers |-> s.http3.headers, cids |-> s.http3.cids]
<1>1. PICK r \in Captures \cup Answers, http3 \in BOOLEAN : s = Taken(r, http3)
  BY DEF Takings
<1>2. /\ r \in RawSamples /\ r.tcp \in SoundHellos /\ r.quic \in SoundHellos
      /\ GREASE \notin ToSet(r.http3.settings) /\ r.protocol # "none"
  <2>1. r \in RawSamples /\ r.tcp \in RawHellos /\ r.quic \in RawHellos
    BY SampleAssumption DEF RawSamples
  <2> QED BY <2>1, SampleAssumption DEF SoundHellos
<1>3. /\ r.http2 = [settings |-> r.http2.settings, pseudo |-> r.http2.pseudo,
                    headers |-> r.http2.headers, priority |-> r.http2.priority,
                    other |-> r.http2.other]
      /\ r.http3 = [settings |-> r.http3.settings, pseudo |-> r.http3.pseudo,
                    headers |-> r.http3.headers, cids |-> r.http3.cids]
      /\ r.http3.settings \in Seq(Nat)
  BY <1>2 DEF RawSamples
<1>4. CASE http3
  BY <1>1, <1>2, <1>3, <1>4, TakenIs
<1>5. CASE ~http3
  <2>1. s = [mode |-> r.mode, tcp |-> r.tcp, http2 |-> r.http2,
             protocol |-> "none", quic |-> NoHello, http3 |-> NoHttp3]
    BY <1>1, <1>2, <1>5, TakenIs
  <2>2. ToSet(<<>>) = {}
    BY DEF ToSet
  <2>3. NoHello \in SoundHellos
    <3>1. NoHello \in RawHellos /\ NoHello.extensions = <<>> /\ NoHello.parameters = <<>>
      BY DEF NoHello, RawHellos
    <3>2. ExtensionsOnce(<<>>) /\ ParametersOnce(<<>>)
      BY DEF ExtensionsOnce, ParametersOnce
    <3> QED BY <2>2, <3>1, <3>2 DEF SoundHellos
  <2>4. NoHttp3.settings = <<>> /\ <<>> \in Seq(Nat)
    BY DEF NoHttp3
  <2>5. NoHttp3 = [settings |-> NoHttp3.settings, pseudo |-> NoHttp3.pseudo,
                   headers |-> NoHttp3.headers, cids |-> NoHttp3.cids]
    BY DEF NoHttp3
  <2> QED BY <1>2, <1>3, <2>1, <2>2, <2>3, <2>4, <2>5
<1> QED BY <1>4, <1>5

\* The views, field by field.
LEMMA WithoutOrdersIs ==
    ASSUME NEW r, r = [ciphers |-> r.ciphers, extension_order |-> r.extension_order,
                       extensions |-> r.extensions, id_order |-> r.id_order,
                       parameter_order |-> r.parameter_order, parameters |-> r.parameters]
    PROVE  WithoutOrders(r)
           = [ciphers |-> r.ciphers, extension_order |-> <<>>, extensions |-> r.extensions,
              id_order |-> <<>>, parameter_order |-> <<>>, parameters |-> r.parameters]
<1>1. WithoutOrders(r)
      = [[[r EXCEPT !.extension_order = <<>>] EXCEPT !.id_order = <<>>]
            EXCEPT !.parameter_order = <<>>]
  BY DEF WithoutOrders
<1> QED BY <1>1

LEMMA StableViewIs ==
    ASSUME NEW a, NEW b, NEW c, NEW d, NEW e, NEW f
    PROVE  stable_view([mode |-> a, tcp |-> b, http2 |-> c,
                        protocol |-> d, quic |-> e, http3 |-> f])
           = [mode |-> "any", tcp |-> WithoutOrders(b), http2 |-> c,
              protocol |-> d, quic |-> WithoutOrders(e), http3 |-> f]
<1> DEFINE r == [mode |-> a, tcp |-> b, http2 |-> c, protocol |-> d, quic |-> e, http3 |-> f]
<1>1. stable_view(r)
      = [[[r EXCEPT !.mode = "any"] EXCEPT !.tcp = WithoutOrders(b)]
            EXCEPT !.quic = WithoutOrders(e)]
  BY DEF stable_view
<1> QED BY <1>1

LEMMA Http3Is ==
    ASSUME NEW a, NEW b, NEW c, NEW d
    PROVE  normalize_http3([settings |-> a, pseudo |-> b, headers |-> c, cids |-> d])
           = [settings |-> [i \in DOMAIN a |-> IF IsGreaseSetting(a[i]) THEN GREASE ELSE a[i]],
              pseudo |-> b, headers |-> normalize_headers(c), cids |-> d]
<1> DEFINE r == [settings |-> a, pseudo |-> b, headers |-> c, cids |-> d]
<1>1. normalize_http3(r)
      = [[r EXCEPT !.headers = normalize_headers(c)]
            EXCEPT !.settings = [i \in DOMAIN a |-> IF IsGreaseSetting(a[i]) THEN GREASE ELSE a[i]]]
  BY DEF normalize_http3
<1> QED BY <1>1

\* A ClientHello that is normalised alike, orders apart, is the same.
LEMMA HelloAlike ==
    ASSUME NEW quic, NEW h \in SoundHellos, NEW k \in SoundHellos,
           WithoutOrders(NormalizeHello(h, quic)) = WithoutOrders(NormalizeHello(k, quic))
    PROVE  SameHello(h, k, quic)
<1>1. /\ h \in RawHellos /\ k \in RawHellos
      /\ \A e \in ToSet(h.extensions) \cup ToSet(k.extensions) : e.id = 57 => e.values = <<>>
      /\ \A p \in ToSet(h.parameters) \cup ToSet(k.parameters) : p.id # GREASE
  BY DEF SoundHellos
<1>2. /\ h.ciphers \in Seq(Nat) /\ k.ciphers \in Seq(Nat)
      /\ h.extensions \in Seq(RawItems) /\ k.extensions \in Seq(RawItems)
      /\ h.parameters \in Seq(RawItems) /\ k.parameters \in Seq(RawItems)
  BY <1>1 DEF RawHellos
<1> DEFINE x(g) == [i \in DOMAIN g.extensions |-> normalize_extension(g.extensions[i], quic)]
           p(g) == normalize_transport_parameters(g.parameters)
<1>3. /\ NormalizeAll(h.ciphers) = NormalizeAll(k.ciphers)
      /\ SortedById(x(h)) = SortedById(x(k)) /\ SortedById(p(h)) = SortedById(p(k))
  <2>1. ASSUME NEW g
        PROVE  WithoutOrders(NormalizeHello(g, quic))
               = [ciphers         |-> NormalizeAll(g.ciphers),
                  extension_order |-> <<>>,
                  extensions      |-> SortedById(x(g)),
                  id_order        |-> <<>>,
                  parameter_order |-> <<>>,
                  parameters      |-> SortedById(p(g))]
    <3>1. NormalizeHello(g, quic)
          = [ciphers         |-> NormalizeAll(g.ciphers),
             extension_order |-> Ids(x(g)),
             extensions      |-> SortedById(x(g)),
             id_order        |-> AnchorOrder(g),
             parameter_order |-> Ids(p(g)),
             parameters      |-> SortedById(p(g))]
      BY DEF NormalizeHello
    <3> HIDE DEF x, p
    <3> QED BY <3>1, WithoutOrdersIs
  <2> HIDE DEF x, p
  <2> QED BY <2>1
<1>4. SameList(h.ciphers, k.ciphers)
  BY <1>2, <1>3, SameListIs
<1>5. SameExtensions(h.extensions, k.extensions, quic)
  BY <1>1, <1>2, <1>3, ExtensionsAlike
<1>6. SameParameters(Lasting(h.parameters), Lasting(k.parameters))
  <2>1. /\ Lasting(h.parameters) = Stable(h.parameters)
        /\ Lasting(h.parameters) \in Seq(RawItems)
        /\ ToSet(Lasting(h.parameters)) \subseteq ToSet(h.parameters)
        /\ Lasting(k.parameters) = Stable(k.parameters)
        /\ Lasting(k.parameters) \in Seq(RawItems)
        /\ ToSet(Lasting(k.parameters)) \subseteq ToSet(k.parameters)
    BY <1>2, LastingIs
  <2>2. ASSUME NEW g, Lasting(g.parameters) = Stable(g.parameters)
        PROVE  p(g) = [i \in DOMAIN Lasting(g.parameters) |->
                          normalize_parameter(Lasting(g.parameters)[i])]
    BY <2>2 DEF normalize_transport_parameters
  <2>3. \A q \in ToSet(Lasting(h.parameters)) \cup ToSet(Lasting(k.parameters)) : q.id # GREASE
    BY <1>1, <2>1
  <2> HIDE DEF p
  <2>4. p(h) = [i \in DOMAIN Lasting(h.parameters) |->
                  normalize_parameter(Lasting(h.parameters)[i])]
    BY <2>1, <2>2
  <2>5. p(k) = [i \in DOMAIN Lasting(k.parameters) |->
                  normalize_parameter(Lasting(k.parameters)[i])]
    BY <2>1, <2>2
  <2> QED BY <1>3, <2>1, <2>3, <2>4, <2>5, ParametersAlike
<1> QED BY <1>4, <1>5, <1>6 DEF SameHello

LEMMA SettingIs ==
    ASSUME NEW x \in Nat, NEW y \in Nat, x # GREASE, y # GREASE,
           (IF IsGreaseSetting(x) THEN GREASE ELSE x) = (IF IsGreaseSetting(y) THEN GREASE ELSE y)
    PROVE  SameSetting(x, y)
BY DEF SameSetting

LEMMA SampleViewIs ==
    ASSUME NEW u
    PROVE  stable_view(normalize_sample(u))
           = [mode     |-> "any",
              tcp      |-> WithoutOrders(NormalizeHello(u.tcp, FALSE)),
              http2    |-> normalize_http2(u.http2),
              protocol |-> u.protocol,
              quic     |-> WithoutOrders(NormalizeHello(u.quic, TRUE)),
              http3    |-> normalize_http3(u.http3)]
<1> DEFINE tcp == NormalizeHello(u.tcp, FALSE)  quic == NormalizeHello(u.quic, TRUE)
<1>1. normalize_sample(u)
      = [mode |-> u.mode, tcp |-> tcp, http2 |-> normalize_http2(u.http2),
         protocol |-> u.protocol, quic |-> quic, http3 |-> normalize_http3(u.http3)]
  BY DEF normalize_sample
<1> HIDE DEF tcp, quic
<1>2. stable_view([mode |-> u.mode, tcp |-> tcp, http2 |-> normalize_http2(u.http2),
                   protocol |-> u.protocol, quic |-> quic,
                   http3 |-> normalize_http3(u.http3)])
      = [mode |-> "any", tcp |-> WithoutOrders(tcp),
         http2 |-> normalize_http2(u.http2), protocol |-> u.protocol,
         quic |-> WithoutOrders(quic), http3 |-> normalize_http3(u.http3)]
  BY StableViewIs
<1>3. stable_view(normalize_sample(u))
      = [mode |-> "any", tcp |-> WithoutOrders(tcp),
         http2 |-> normalize_http2(u.http2), protocol |-> u.protocol,
         quic |-> WithoutOrders(quic), http3 |-> normalize_http3(u.http3)]
  BY <1>1, <1>2
<1> QED BY <1>3 DEF tcp, quic

\* Normalising loses nothing but what a browser draws for each connection.
LEMMA StableMeansAlike ==
    ASSUME NEW s \in Takings, NEW t \in Takings,
           stable_view(normalize_sample(s)) = stable_view(normalize_sample(t))
    PROVE  Alike(s, t)
<1> DEFINE view(u) == [mode     |-> "any",
                       tcp      |-> WithoutOrders(NormalizeHello(u.tcp, FALSE)),
                       http2    |-> normalize_http2(u.http2),
                       protocol |-> u.protocol,
                       quic     |-> WithoutOrders(NormalizeHello(u.quic, TRUE)),
                       http3    |-> normalize_http3(u.http3)]
<1>1. \A u : stable_view(normalize_sample(u)) = view(u)
  BY SampleViewIs
<1>2. /\ WithoutOrders(NormalizeHello(s.tcp, FALSE)) = WithoutOrders(NormalizeHello(t.tcp, FALSE))
      /\ WithoutOrders(NormalizeHello(s.quic, TRUE)) = WithoutOrders(NormalizeHello(t.quic, TRUE))
      /\ normalize_http2(s.http2) = normalize_http2(t.http2)
      /\ normalize_http3(s.http3) = normalize_http3(t.http3)
      /\ s.protocol = t.protocol
  <2>1. view(s) = view(t)
    BY <1>1
  <2> QED BY <2>1
<1>3. /\ s.tcp \in SoundHellos /\ s.quic \in SoundHellos
      /\ t.tcp \in SoundHellos /\ t.quic \in SoundHellos
      /\ GREASE \notin ToSet(s.http3.settings) /\ GREASE \notin ToSet(t.http3.settings)
      /\ s.http3.settings \in Seq(Nat) /\ t.http3.settings \in Seq(Nat)
  BY TakingsAre
<1>4. SameHello(s.tcp, t.tcp, FALSE) /\ SameHello(s.quic, t.quic, TRUE)
  BY <1>2, <1>3, HelloAlike
<1>5. /\ SameHeaders(s.http2.headers, t.http2.headers)
      /\ [s.http2 EXCEPT !.headers = <<>>] = [t.http2 EXCEPT !.headers = <<>>]
  <2>1. ASSUME NEW u \in Takings
        PROVE  u.http2 = [settings |-> u.http2.settings, pseudo |-> u.http2.pseudo,
                          headers |-> u.http2.headers, priority |-> u.http2.priority,
                          other |-> u.http2.other]
    BY TakingsAre
  <2>2. /\ normalize_headers(s.http2.headers) = normalize_headers(t.http2.headers)
        /\ s.http2.settings = t.http2.settings /\ s.http2.pseudo = t.http2.pseudo
        /\ s.http2.priority = t.http2.priority /\ s.http2.other = t.http2.other
    BY <1>2, <1>3, <2>1 DEF normalize_http2
  <2> QED BY <1>3, <2>1, <2>2 DEF SameHeaders, normalize_headers
<1> DEFINE set(u) == [i \in DOMAIN u.http3.settings |->
                         IF IsGreaseSetting(u.http3.settings[i]) THEN GREASE
                         ELSE u.http3.settings[i]]
<1>6. ASSUME NEW u \in Takings
      PROVE  u.http3 = [settings |-> u.http3.settings, pseudo |-> u.http3.pseudo,
                        headers |-> u.http3.headers, cids |-> u.http3.cids]
  BY TakingsAre
<1>7. /\ normalize_headers(s.http3.headers) = normalize_headers(t.http3.headers)
      /\ s.http3.pseudo = t.http3.pseudo /\ s.http3.cids = t.http3.cids
      /\ set(s) = set(t)
  <2>1. ASSUME NEW u \in Takings
        PROVE  normalize_http3(u.http3)
               = [settings |-> set(u), pseudo |-> u.http3.pseudo,
                  headers |-> normalize_headers(u.http3.headers), cids |-> u.http3.cids]
    <3>1. normalize_http3([settings |-> u.http3.settings, pseudo |-> u.http3.pseudo,
                           headers |-> u.http3.headers, cids |-> u.http3.cids])
          = [settings |-> set(u), pseudo |-> u.http3.pseudo,
             headers |-> normalize_headers(u.http3.headers), cids |-> u.http3.cids]
      BY Http3Is
    <3> HIDE DEF set
    <3> QED BY <1>6, <2>1, <3>1
  <2> HIDE DEF set
  <2>2. [settings |-> set(s), pseudo |-> s.http3.pseudo,
         headers |-> normalize_headers(s.http3.headers), cids |-> s.http3.cids]
        = [settings |-> set(t), pseudo |-> t.http3.pseudo,
           headers |-> normalize_headers(t.http3.headers), cids |-> t.http3.cids]
    BY <1>2, <1>3, <2>1
  <2> QED BY <2>2
<1>8. /\ SameHeaders(s.http3.headers, t.http3.headers)
      /\ [s.http3 EXCEPT !.settings = <<>>, !.headers = <<>>]
         = [t.http3 EXCEPT !.settings = <<>>, !.headers = <<>>]
  BY <1>3, <1>6, <1>7 DEF SameHeaders, normalize_headers
<1>9. /\ Len(s.http3.settings) = Len(t.http3.settings)
      /\ \A i \in DOMAIN s.http3.settings : SameSetting(s.http3.settings[i], t.http3.settings[i])
  <2> DEFINE a == s.http3.settings  b == t.http3.settings
  <2>1. a \in Seq(Nat) /\ b \in Seq(Nat)
    BY <1>3
  <2>2. /\ set(s) = [i \in DOMAIN a |-> IF IsGreaseSetting(a[i]) THEN GREASE ELSE a[i]]
        /\ set(t) = [i \in DOMAIN b |-> IF IsGreaseSetting(b[i]) THEN GREASE ELSE b[i]]
    OBVIOUS
  <2>3. GREASE \notin ToSet(a) /\ GREASE \notin ToSet(b)
    BY <1>3
  <2> HIDE DEF a, b, set
  <2>4. /\ Len(a) \in Nat /\ DOMAIN a = 1..Len(a) /\ Len(b) \in Nat /\ DOMAIN b = 1..Len(b)
        /\ \A i \in DOMAIN a : a[i] \in Nat /\ a[i] \in ToSet(a)
        /\ \A i \in DOMAIN b : b[i] \in Nat /\ b[i] \in ToSet(b)
    BY <2>1, EntriesAre
  <2>5. DOMAIN a = DOMAIN b
    BY <1>7, <2>2
  <2>6. Len(a) = Len(b)
    BY <2>4, <2>5, SameLength
  <2>7. ASSUME NEW i \in DOMAIN a PROVE SameSetting(a[i], b[i])
    <3>1. /\ a[i] \in Nat /\ b[i] \in Nat /\ a[i] # GREASE /\ b[i] # GREASE
      BY <2>3, <2>4, <2>5
    <3>2. (IF IsGreaseSetting(a[i]) THEN GREASE ELSE a[i])
          = (IF IsGreaseSetting(b[i]) THEN GREASE ELSE b[i])
      BY <1>7, <2>2, <2>5
    <3> QED BY <3>1, <3>2, SettingIs
  <2> QED BY <2>6, <2>7 DEF a, b
<1> QED BY <1>2, <1>4, <1>5, <1>8, <1>9 DEF Alike

-----------------------------------------------------------------------------
(***************************************************************************)
(* Orders.                                                                 *)
(***************************************************************************)

\* The values a list takes: one, just when all its entries are equal.
LEMMA ValuesOfList ==
    ASSUME NEW n \in Nat, n # 0, NEW f, DOMAIN f = 1..n
    PROVE  /\ Cardinality(ToSet(f)) \in Nat /\ Cardinality(ToSet(f)) # 0
           /\ Cardinality(ToSet(f)) = 1 <=> \A i, j \in 1..n : f[i] = f[j]
<1>1. ToSet(f) = {f[i] : i \in 1..n}
  BY DEF ToSet
<1> DEFINE g == [i \in 1..n |-> f[i]]
<1>2. g \in Surjection(1..n, ToSet(f))
  BY <1>1 DEF Surjection
<1>3. IsFiniteSet(1..n)
  BY FS_Interval
<1>4. IsFiniteSet(ToSet(f))
  BY <1>2, <1>3, FS_Surjection
<1>5. 1 \in 1..n /\ f[1] \in ToSet(f)
  BY <1>1
<1>6. Cardinality(ToSet(f)) \in Nat /\ Cardinality(ToSet(f)) # 0
  BY <1>4, <1>5, FS_CardinalityType, FS_EmptySet
<1>7. Cardinality(ToSet(f)) = 1 <=> \E x : ToSet(f) = {x}
  BY <1>4, FS_Singleton
<1>8. (\E x : ToSet(f) = {x}) <=> \A i, j \in 1..n : f[i] = f[j]
  <2>1. ASSUME NEW x, ToSet(f) = {x} PROVE \A i, j \in 1..n : f[i] = f[j]
    BY <1>1, <2>1
  <2>2. ASSUME \A i, j \in 1..n : f[i] = f[j] PROVE ToSet(f) = {f[1]}
    BY <1>1, <1>5, <2>2
  <2> QED BY <2>1, <2>2
<1> QED BY <1>6, <1>7, <1>8

\* The mode of an order tells how many orders were seen.
LEMMA ObservationIs ==
    ASSUME NEW n \in Nat, n >= 2, NEW f, f \in Seq(ToSet(f)), Len(f) = n
    PROVE  /\ order_observation(f).observed = f
           /\ order_observation(f).mode \in {"fixed", "permuted"}
           /\ order_observation(f).mode = "permuted" <=> Cardinality(ToSet(f)) > 1
           /\ order_observation(f).mode = "fixed" <=> Cardinality(ToSet(f)) = 1
           /\ order_observation(f).mode = "fixed" =>
                 \A i \in 1..n : f[i] = f[1] /\ ToSet(f) = {f[1]}
<1>1. DOMAIN f = 1..n /\ n # 0 /\ 1 \in 1..n
  OBVIOUS
<1>2. /\ Cardinality(ToSet(f)) \in Nat /\ Cardinality(ToSet(f)) # 0
      /\ Cardinality(ToSet(f)) = 1 <=> \A i, j \in 1..n : f[i] = f[j]
  BY <1>1, ValuesOfList
<1>3. /\ order_observation(f).observed = f
      /\ order_observation(f).mode = IF Cardinality(ToSet(f)) = 1 THEN "fixed" ELSE "permuted"
  BY DEF order_observation
<1>4. (\A i, j \in 1..n : f[i] = f[j]) =>
         /\ \A i \in 1..n : f[i] = f[1]
         /\ ToSet(f) = {f[1]}
  BY <1>1 DEF ToSet
<1> QED BY <1>2, <1>3, <1>4

\* Two orders compare equal just when both permute, or both are fixed and the same.
LEMMA OrdersCompare ==
    ASSUME NEW m \in Nat, m >= 2, NEW f, f \in Seq(ToSet(f)), Len(f) = m,
           NEW n \in Nat, n >= 2, NEW g, g \in Seq(ToSet(g)), Len(g) = n,
           comparison_order(order_observation(f)) = comparison_order(order_observation(g))
    PROVE  SameOrders(ToSet(f), ToSet(g))
<1> DEFINE x == order_observation(f)  y == order_observation(g)
<1>1. /\ x.observed = f /\ x.mode \in {"fixed", "permuted"}
      /\ x.mode = "permuted" <=> Cardinality(ToSet(f)) > 1
  BY ObservationIs
<1>2. /\ y.observed = g
      /\ y.mode = "permuted" <=> Cardinality(ToSet(g)) > 1
  BY ObservationIs
<1> HIDE DEF x, y
<1>3. comparison_order(x) = comparison_order(y)
  BY DEF x, y
<1>4. /\ x.mode = y.mode
      /\ x.mode # "permuted" => ToSet(x.observed) = ToSet(y.observed)
  BY <1>3 DEF comparison_order
<1> QED BY <1>1, <1>2, <1>4 DEF SameOrders

\* Normalising writes down the orders that a sample shows.
LEMMA OrdersAre ==
    ASSUME NEW quic, NEW h \in SoundHellos
    PROVE  /\ NormalizeHello(h, quic).extension_order = ExtensionOrder(h)
           /\ NormalizeHello(h, quic).parameter_order = ParameterOrder(h)
<1>1. /\ h.extensions \in Seq(RawItems) /\ h.parameters \in Seq(RawItems)
  BY DEF SoundHellos, RawHellos
<1> DEFINE x == [i \in DOMAIN h.extensions |-> normalize_extension(h.extensions[i], quic)]
           p == normalize_transport_parameters(h.parameters)
           last == Lasting(h.parameters)
<1>2. /\ NormalizeHello(h, quic).extension_order = Ids(x)
      /\ NormalizeHello(h, quic).parameter_order = Ids(p)
  BY DEF NormalizeHello
<1>3. Ids(x) = ExtensionOrder(h)
  <2>1. \A e : normalize_extension(e, quic).id = normalize_tls_grease(e.id)
    BY DEF normalize_extension
  <2> QED BY <2>1 DEF Ids, ExtensionOrder
<1>4. p = [i \in DOMAIN last |-> normalize_parameter(last[i])]
  BY <1>1, LastingIs DEF normalize_transport_parameters
<1>5. Ids(p) = ParameterOrder(h)
  <2>1. \A q : normalize_parameter(q).id = IF IsGreaseParameter(q.id) THEN GREASE ELSE q.id
    BY DEF normalize_parameter
  <2>2. ParameterOrder(h) = [i \in DOMAIN last |->
                               IF IsGreaseParameter(last[i].id) THEN GREASE ELSE last[i].id]
    BY DEF ParameterOrder
  <2> HIDE DEF last, p
  <2> QED BY <1>4, <2>1, <2>2 DEF Ids
<1> QED BY <1>2, <1>3, <1>5

-----------------------------------------------------------------------------
(***************************************************************************)
(* Profiles.                                                               *)
(***************************************************************************)

\* What stable_view leaves of each sample.
Views(list) == [i \in DOMAIN list |-> stable_view(list[i])]

LEMMA VariantCountIs ==
    ASSUME NEW list
    PROVE  /\ build_profile(list).variant_count = Cardinality(ToSet(Views(list)))
           /\ build_profile(list).sample_count = Len(list)
<1>1. ToSet(Views(list)) = {stable_view(list[i]) : i \in DOMAIN list}
  BY DEF ToSet, Views
<1> QED BY <1>1 DEF build_profile

\* Where there is one variant, every sample is of it.
LEMMA EverySampleIsChosen ==
    ASSUME NEW n \in Nat, n # 0, NEW list, list \in Seq(ToSet(list)), Len(list) = n,
           build_profile(list).variant_count = 1
    PROVE  /\ \A i, j \in 1..n : stable_view(list[i]) = stable_view(list[j])
           /\ Chosen(list) = [k \in 1..n |-> k]
<1> DEFINE v == Views(list)
<1>1. DOMAIN list = 1..n /\ DOMAIN v = 1..n /\ \A i \in 1..n : v[i] = stable_view(list[i])
  BY DEF Views
<1>2. Cardinality(ToSet(v)) = 1
  BY VariantCountIs
<1> HIDE DEF v
<1>3. \A i, j \in 1..n : v[i] = v[j]
  BY <1>1, <1>2, ValuesOfList
<1>4. Selected(v) = 1..n
  <2> DEFINE Count(i) == Cardinality({j \in DOMAIN v : v[j] = v[i]})
             most     == {i \in DOMAIN v : \A j \in DOMAIN v : Count(j) <= Count(i)}
             first    == CHOOSE i \in most : \A j \in most : i <= j
  <2>1. Selected(v) = {i \in DOMAIN v : v[i] = v[first]}
    BY DEF Selected
  <2>2. ASSUME NEW i \in 1..n PROVE {j \in DOMAIN v : v[j] = v[i]} = 1..n
    BY <1>1, <1>3
  <2>3. Cardinality(1..n) = n
    BY FS_Interval
  <2>4. \A i \in 1..n : Count(i) = n
    BY <2>2, <2>3
  <2> HIDE DEF Count
  <2>5. most = 1..n
    BY <1>1, <2>4
  <2> HIDE DEF most
  <2>6. most \in SUBSET Nat /\ most # {}
    <3>1. 1 \in 1..n /\ 1..n \subseteq Nat
      OBVIOUS
    <3> QED BY <2>5, <3>1
  <2>7. first \in most
    BY <2>6, Least
  <2> HIDE DEF first
  <2> QED BY <1>1, <1>3, <2>1, <2>5, <2>7
<1>5. Chosen(list) = [k \in 1..Cardinality(1..n) |-> Nth(1..n, k)]
  BY <1>4 DEF Chosen, v, Views
<1>6. Cardinality(1..n) = n /\ \A k \in 1..n : Nth(1..n, k) = k
  BY AllPlaces
<1>7. \A i, j \in 1..n : stable_view(list[i]) = stable_view(list[j])
  BY <1>1, <1>3
<1> QED BY <1>5, <1>6, <1>7

\* The ClientHello of a fingerprint, of those of the samples: what the first one sends, and
\* what was observed of its orders.
LEMMA ObservedIs ==
    ASSUME NEW hellos, NEW a, NEW b, NEW c, NEW d, NEW e, NEW f,
           hellos[1] = [ciphers |-> a, extension_order |-> b, extensions |-> c,
                        id_order |-> d, parameter_order |-> e, parameters |-> f]
    PROVE  Observed(hellos)
           = [ciphers         |-> a,
              extension_order |-> order_observation([i \in DOMAIN hellos |-> hellos[i].extension_order]),
              extensions      |-> c,
              id_order        |-> order_observation([i \in DOMAIN hellos |-> hellos[i].id_order]),
              parameter_order |-> order_observation([i \in DOMAIN hellos |-> hellos[i].parameter_order]),
              parameters      |-> f]
<1> DEFINE x == order_observation([i \in DOMAIN hellos |-> hellos[i].extension_order])
           y == order_observation([i \in DOMAIN hellos |-> hellos[i].id_order])
           z == order_observation([i \in DOMAIN hellos |-> hellos[i].parameter_order])
           r == hellos[1]
<1>1. Observed(hellos)
      = [[[r EXCEPT !.extension_order = x] EXCEPT !.id_order = y] EXCEPT !.parameter_order = z]
  BY DEF Observed
<1>r. r = [ciphers |-> a, extension_order |-> b, extensions |-> c,
           id_order |-> d, parameter_order |-> e, parameters |-> f]
  OBVIOUS
<1> HIDE DEF x, y, z, r
<1> DEFINE s == [r EXCEPT !.extension_order = x]
           t == [s EXCEPT !.id_order = y]
<1>2. s = [ciphers |-> a, extension_order |-> x, extensions |-> c,
           id_order |-> d, parameter_order |-> e, parameters |-> f]
  BY <1>r
<1> HIDE DEF s
<1>3. t = [ciphers |-> a, extension_order |-> x, extensions |-> c,
           id_order |-> y, parameter_order |-> e, parameters |-> f]
  BY <1>2
<1>o. Observed(hellos) = [t EXCEPT !.parameter_order = z]
  BY <1>1 DEF s
<1> HIDE DEF t
<1>4. Observed(hellos)
      = [ciphers |-> a, extension_order |-> x, extensions |-> c,
         id_order |-> y, parameter_order |-> z, parameters |-> f]
  BY <1>3, <1>o
<1> QED BY <1>4 DEF x, y, z

\* The samples normalised, the ClientHellos of them, and the orders they show.
Normals(list)     == [i \in DOMAIN list |-> normalize_sample(list[i])]
TcpOf(list)       == [i \in DOMAIN list |-> list[i].tcp]
QuicOf(list)      == [i \in DOMAIN list |-> list[i].quic]
TcpSeen(list)     == [i \in DOMAIN list |-> ExtensionOrder(list[i].tcp)]
QuicSeen(list)    == [i \in DOMAIN list |-> ExtensionOrder(list[i].quic)]
ParameterSeen(list) == [i \in DOMAIN list |-> ParameterOrder(list[i].quic)]

LEMMA FingerprintIs ==
    ASSUME NEW n \in Nat, n # 0, NEW list, list \in Seq(ToSet(list)), Len(list) = n,
           build_profile(list).variant_count = 1,
           NEW a, NEW b, NEW c, NEW d, NEW e, NEW f,
           list[1] = [mode |-> a, tcp |-> b, http2 |-> c,
                      protocol |-> d, quic |-> e, http3 |-> f]
    PROVE  /\ build_profile(list).fingerprint
              = [mode |-> "any", tcp |-> Observed(TcpOf(list)), http2 |-> c,
                 protocol |-> d, quic |-> Observed(QuicOf(list)), http3 |-> f]
           /\ build_profile(list).selected_sample_count = n
<1> DEFINE chosen == Chosen(list)
           x == Observed([i \in DOMAIN chosen |-> list[chosen[i]].tcp])
           y == Observed([i \in DOMAIN chosen |-> list[chosen[i]].quic])
           r == list[chosen[1]]
<1>1. /\ build_profile(list).fingerprint
         = [[[r EXCEPT !.mode = "any"] EXCEPT !.tcp = x] EXCEPT !.quic = y]
      /\ build_profile(list).selected_sample_count = Len(chosen)
  BY DEF build_profile
<1>2. chosen = [k \in 1..n |-> k]
  BY EverySampleIsChosen
<1> HIDE DEF chosen
<1>3. DOMAIN list = 1..n /\ 1 \in 1..n /\ Len(chosen) = n /\ chosen[1] = 1
  BY <1>2
<1>4. x = Observed(TcpOf(list)) /\ y = Observed(QuicOf(list))
  <2>1. /\ [i \in DOMAIN chosen |-> list[chosen[i]].tcp] = TcpOf(list)
        /\ [i \in DOMAIN chosen |-> list[chosen[i]].quic] = QuicOf(list)
    BY <1>2, <1>3 DEF TcpOf, QuicOf
  <2> QED BY <2>1
<1>5. r = [mode |-> a, tcp |-> b, http2 |-> c, protocol |-> d, quic |-> e, http3 |-> f]
  BY <1>3
<1> HIDE DEF x, y, r
<1> DEFINE s == [r EXCEPT !.mode = "any"]
           t == [s EXCEPT !.tcp = x]
<1>6. s = [mode |-> "any", tcp |-> b, http2 |-> c, protocol |-> d, quic |-> e, http3 |-> f]
  BY <1>5
<1>7. build_profile(list).fingerprint = [t EXCEPT !.quic = y]
  BY <1>1
<1> HIDE DEF s
<1>8. t = [mode |-> "any", tcp |-> x, http2 |-> c, protocol |-> d, quic |-> e, http3 |-> f]
  BY <1>6
<1> HIDE DEF t
<1>9. build_profile(list).fingerprint
      = [mode |-> "any", tcp |-> x, http2 |-> c, protocol |-> d, quic |-> y, http3 |-> f]
  BY <1>7, <1>8
<1> QED BY <1>1, <1>3, <1>4, <1>9

LEMMA SampleFields ==
    ASSUME NEW s
    PROVE  /\ normalize_sample(s).tcp = NormalizeHello(s.tcp, FALSE)
           /\ normalize_sample(s).quic = NormalizeHello(s.quic, TRUE)
           /\ normalize_sample(s).mode = s.mode
           /\ normalize_sample(s).protocol = s.protocol
BY DEF normalize_sample

LEMMA HelloIs ==
    ASSUME NEW h, NEW quic
    PROVE  NormalizeHello(h, quic)
           = [ciphers         |-> NormalizeHello(h, quic).ciphers,
              extension_order |-> NormalizeHello(h, quic).extension_order,
              extensions      |-> NormalizeHello(h, quic).extensions,
              id_order        |-> NormalizeHello(h, quic).id_order,
              parameter_order |-> NormalizeHello(h, quic).parameter_order,
              parameters      |-> NormalizeHello(h, quic).parameters]
BY DEF NormalizeHello

\* Of samples that are of one variant: they are alike, and the fingerprint has what the first
\* one shows and what was observed of the orders of all.
LEMMA ProfileIs ==
    ASSUME NEW S \in Seq(Takings), Len(S) >= 2, build_profile(Normals(S)).variant_count = 1
    PROVE  LET f == build_profile(Normals(S)).fingerprint
               t == NormalizeHello(S[1].tcp, FALSE)
               q == NormalizeHello(S[1].quic, TRUE)
           IN  /\ \A i, j \in DOMAIN S : stable_view(normalize_sample(S[i]))
                                         = stable_view(normalize_sample(S[j]))
               /\ build_profile(Normals(S)).selected_sample_count = Len(S)
               /\ f = [mode |-> "any", tcp |-> f.tcp, http2 |-> normalize_http2(S[1].http2),
                       protocol |-> S[1].protocol, quic |-> f.quic,
                       http3 |-> normalize_http3(S[1].http3)]
               /\ f.tcp = [ciphers         |-> t.ciphers,
                           extension_order |-> order_observation(TcpSeen(S)),
                           extensions      |-> t.extensions,
                           id_order        |-> f.tcp.id_order,
                           parameter_order |-> f.tcp.parameter_order,
                           parameters      |-> t.parameters]
               /\ f.quic = [ciphers         |-> q.ciphers,
                            extension_order |-> order_observation(QuicSeen(S)),
                            extensions      |-> q.extensions,
                            id_order        |-> f.quic.id_order,
                            parameter_order |-> order_observation(ParameterSeen(S)),
                            parameters      |-> q.parameters]
<1> DEFINE n == Len(S)  list == Normals(S)  f == build_profile(list).fingerprint
           t == NormalizeHello(S[1].tcp, FALSE)
           q == NormalizeHello(S[1].quic, TRUE)
<1>1. /\ n \in Nat /\ n # 0 /\ DOMAIN S = 1..n /\ 1 \in 1..n
      /\ \A i \in 1..n : S[i] \in Takings
  OBVIOUS
<1>2. /\ list \in Seq(ToSet(list)) /\ Len(list) = n /\ DOMAIN list = 1..n
      /\ \A i \in 1..n : list[i] = normalize_sample(S[i])
  <2>1. list = [i \in 1..n |-> normalize_sample(S[i])]
    BY <1>1 DEF Normals
  <2> HIDE DEF list
  <2>2. list \in [1..n -> ToSet(list)]
    BY <2>1 DEF ToSet
  <2> QED BY <1>1, <2>1, <2>2, ListOf
<1>3. list[1] = [mode |-> S[1].mode, tcp |-> t, http2 |-> normalize_http2(S[1].http2),
                 protocol |-> S[1].protocol, quic |-> q, http3 |-> normalize_http3(S[1].http3)]
  BY <1>1, <1>2 DEF normalize_sample
<1> HIDE DEF n, list
<1>v. build_profile(list).variant_count = 1
  BY DEF list
<1>4. \A i, j \in 1..n : stable_view(list[i]) = stable_view(list[j])
  BY <1>1, <1>2, <1>v, EverySampleIsChosen
<1>5. /\ f = [mode |-> "any", tcp |-> Observed(TcpOf(list)),
              http2 |-> normalize_http2(S[1].http2), protocol |-> S[1].protocol,
              quic |-> Observed(QuicOf(list)), http3 |-> normalize_http3(S[1].http3)]
      /\ build_profile(list).selected_sample_count = n
  <2> HIDE DEF t, q
  <2> QED BY <1>1, <1>2, <1>3, <1>v, FingerprintIs
<1>6. /\ TcpOf(list) = [i \in 1..n |-> NormalizeHello(S[i].tcp, FALSE)]
      /\ QuicOf(list) = [i \in 1..n |-> NormalizeHello(S[i].quic, TRUE)]
  <2>1. \A i \in 1..n : /\ list[i].tcp = NormalizeHello(S[i].tcp, FALSE)
                        /\ list[i].quic = NormalizeHello(S[i].quic, TRUE)
    BY <1>2, SampleFields
  <2> QED BY <1>2, <2>1 DEF TcpOf, QuicOf
<1>7. /\ t = [ciphers |-> t.ciphers, extension_order |-> t.extension_order,
              extensions |-> t.extensions, id_order |-> t.id_order,
              parameter_order |-> t.parameter_order, parameters |-> t.parameters]
      /\ q = [ciphers |-> q.ciphers, extension_order |-> q.extension_order,
              extensions |-> q.extensions, id_order |-> q.id_order,
              parameter_order |-> q.parameter_order, parameters |-> q.parameters]
  BY HelloIs
<1>8. \A i \in 1..n :
         /\ NormalizeHello(S[i].tcp, FALSE).extension_order = ExtensionOrder(S[i].tcp)
         /\ NormalizeHello(S[i].quic, TRUE).extension_order = ExtensionOrder(S[i].quic)
         /\ NormalizeHello(S[i].quic, TRUE).parameter_order = ParameterOrder(S[i].quic)
  BY <1>1, TakingsAre, OrdersAre
<1>9. /\ TcpOf(list)[1] = t /\ QuicOf(list)[1] = q
      /\ DOMAIN TcpOf(list) = 1..n /\ DOMAIN QuicOf(list) = 1..n
      /\ [i \in 1..n |-> TcpOf(list)[i].extension_order] = TcpSeen(S)
      /\ [i \in 1..n |-> QuicOf(list)[i].extension_order] = QuicSeen(S)
      /\ [i \in 1..n |-> QuicOf(list)[i].parameter_order] = ParameterSeen(S)
  BY <1>1, <1>6, <1>8 DEF TcpSeen, QuicSeen, ParameterSeen, n
<1> HIDE DEF t, q
<1>10. PICK a, b : Observed(TcpOf(list))
         = [ciphers         |-> t.ciphers,
            extension_order |-> order_observation(TcpSeen(S)),
            extensions      |-> t.extensions,
            id_order        |-> a,
            parameter_order |-> b,
            parameters      |-> t.parameters]
  <2> DEFINE h == TcpOf(list)
  <2>1. /\ h[1] = [ciphers |-> t.ciphers, extension_order |-> t.extension_order,
                   extensions |-> t.extensions, id_order |-> t.id_order,
                   parameter_order |-> t.parameter_order, parameters |-> t.parameters]
        /\ [i \in DOMAIN h |-> h[i].extension_order] = TcpSeen(S)
    BY <1>7, <1>9
  <2> HIDE DEF h
  <2>2. Observed(h)
        = [ciphers         |-> t.ciphers,
           extension_order |-> order_observation([i \in DOMAIN h |-> h[i].extension_order]),
           extensions      |-> t.extensions,
           id_order        |-> order_observation([i \in DOMAIN h |-> h[i].id_order]),
           parameter_order |-> order_observation([i \in DOMAIN h |-> h[i].parameter_order]),
           parameters      |-> t.parameters]
    BY <2>1, ObservedIs
  <2> QED BY <2>1, <2>2 DEF h
<1>11. PICK c : Observed(QuicOf(list))
         = [ciphers         |-> q.ciphers,
            extension_order |-> order_observation(QuicSeen(S)),
            extensions      |-> q.extensions,
            id_order        |-> c,
            parameter_order |-> order_observation(ParameterSeen(S)),
            parameters      |-> q.parameters]
  <2> DEFINE h == QuicOf(list)
  <2>1. /\ h[1] = [ciphers |-> q.ciphers, extension_order |-> q.extension_order,
                   extensions |-> q.extensions, id_order |-> q.id_order,
                   parameter_order |-> q.parameter_order, parameters |-> q.parameters]
        /\ [i \in DOMAIN h |-> h[i].extension_order] = QuicSeen(S)
        /\ [i \in DOMAIN h |-> h[i].parameter_order] = ParameterSeen(S)
    BY <1>7, <1>9
  <2> HIDE DEF h
  <2>2. Observed(h)
        = [ciphers         |-> q.ciphers,
           extension_order |-> order_observation([i \in DOMAIN h |-> h[i].extension_order]),
           extensions      |-> q.extensions,
           id_order        |-> order_observation([i \in DOMAIN h |-> h[i].id_order]),
           parameter_order |-> order_observation([i \in DOMAIN h |-> h[i].parameter_order]),
           parameters      |-> q.parameters]
    BY <2>1, ObservedIs
  <2> QED BY <2>1, <2>2 DEF h
<1>12. f.tcp = Observed(TcpOf(list)) /\ f.quic = Observed(QuicOf(list))
  BY <1>5
<1>13. \A i, j \in 1..n : stable_view(normalize_sample(S[i])) = stable_view(normalize_sample(S[j]))
  BY <1>2, <1>4
<1> HIDE DEF f
<1>14. /\ f = [mode |-> "any", tcp |-> f.tcp, http2 |-> normalize_http2(S[1].http2),
               protocol |-> S[1].protocol, quic |-> f.quic,
               http3 |-> normalize_http3(S[1].http3)]
       /\ build_profile(list).selected_sample_count = n
  BY <1>5, <1>12 DEF f
<1>15. /\ f.tcp = [ciphers |-> t.ciphers, extension_order |-> order_observation(TcpSeen(S)),
                   extensions |-> t.extensions, id_order |-> f.tcp.id_order,
                   parameter_order |-> f.tcp.parameter_order, parameters |-> t.parameters]
       /\ f.quic = [ciphers |-> q.ciphers, extension_order |-> order_observation(QuicSeen(S)),
                    extensions |-> q.extensions, id_order |-> f.quic.id_order,
                    parameter_order |-> order_observation(ParameterSeen(S)),
                    parameters |-> q.parameters]
  BY <1>10, <1>11, <1>12
<1> QED BY <1>1, <1>13, <1>14, <1>15 DEF n, list, t, q, f

-----------------------------------------------------------------------------
(***************************************************************************)
(* The inductive invariant.                                                *)
(***************************************************************************)
Replaying == phase \in {"tls", "http3", "compare"} \/ outcome = "matches"

\* What is compiled and compared was normalised from what was taken, one by one.
SamplesAreKept ==
    /\ samples \in Seq(Takings) /\ normalized = Normals(samples)
    /\ replays \in Seq(Takings) /\ replayed = Normals(replays)

NothingReplayed ==
    phase \in {"capture", "bundle", "compiled"} => replays = <<>> /\ attempts = 0

\* The bundle is the profile of all the samples, and stays so.
BundleIsProfile ==
    phase = "bundle" \/ phase = "compiled" \/ Replaying =>
        /\ Len(bundle) = 1 /\ bundle[1].profile = build_profile(normalized)
        /\ CanBuild(normalized)

\* From the candidate on, what was found by both gates stands.
CandidateIsReady ==
    phase = "compiled" \/ Replaying =>
        /\ bundle[1].ready
        /\ Ready(harvester, bundle[1].profile, distribution)
        /\ options = <<Options(bundle[1].profile.fingerprint)>>

ReplaysAreCounted ==
    /\ Replaying => asked >= MinReplays
    /\ phase \in {"tls", "http3"} => Len(replays) < asked
    /\ phase = "compare" \/ outcome = "matches" => Len(replays) = asked
    /\ phase = "tls" => attempts = 0
    /\ phase = "http3" => attempts < MaxAttempts

MatchIsCompared == outcome = "matches" => phase = "done" /\ Matches

IInv == /\ TypeOK /\ SamplesAreKept /\ NothingReplayed /\ BundleIsProfile
        /\ CandidateIsReady /\ ReplaysAreCounted /\ MatchIsCompared

\* One more sample is normalised as it is taken.
LEMMA OneMoreSample ==
    ASSUME NEW S \in Seq(Takings), NEW s \in Takings
    PROVE  /\ Append(S, s) \in Seq(Takings) /\ Len(Append(S, s)) = Len(S) + 1
           /\ Normals(Append(S, s)) = Append(Normals(S), normalize_sample(s))
<1> DEFINE T == {normalize_sample(x) : x \in Takings}
           n == Len(S)
           more == Append(S, s)
<1>1. /\ n \in Nat /\ DOMAIN S = 1..n /\ \A i \in 1..n : S[i] \in Takings
      /\ more \in Seq(Takings) /\ Len(more) = n + 1 /\ DOMAIN more = 1..n + 1
      /\ \A i \in 1..n : more[i] = S[i]
      /\ more[n + 1] = s
  OBVIOUS
<1>2. /\ Normals(S) \in Seq(T) /\ Len(Normals(S)) = n
      /\ \A i \in 1..n : Normals(S)[i] = normalize_sample(S[i])
  <2>1. Normals(S) \in [1..n -> T]
    BY <1>1 DEF Normals
  <2> QED BY <1>1, <2>1, ListOf DEF Normals
<1>3. /\ Normals(more) \in [1..n + 1 -> T]
      /\ \A i \in 1..n : Normals(more)[i] = normalize_sample(S[i])
      /\ Normals(more)[n + 1] = normalize_sample(s)
  <2> HIDE DEF more, n
  <2>1. Normals(more) = [i \in 1..n + 1 |-> normalize_sample(more[i])]
    BY <1>1 DEF Normals
  <2>2. /\ \A i \in 1..n : i \in 1..n + 1
        /\ n + 1 \in 1..n + 1
        /\ \A i \in 1..n + 1 : i \in 1..n \/ i = n + 1
    BY <1>1
  <2>3. \A i \in 1..n + 1 : more[i] \in Takings
    BY <1>1, <2>2
  <2> QED BY <1>1, <2>1, <2>2, <2>3
<1> DEFINE y == normalize_sample(s)
           N == Normals(S)
<1>4. y \in T
  OBVIOUS
<1> HIDE DEF T, y, N, n
<1>5. /\ Append(N, y) = [i \in 1..n + 1 |-> Append(N, y)[i]]
      /\ \A i \in 1..n : Append(N, y)[i] = N[i]
      /\ Append(N, y)[n + 1] = y
  <2>1. N \in Seq(T) /\ Len(N) = n /\ n \in Nat
    BY <1>1, <1>2 DEF N
  <2>2. /\ Append(N, y) \in Seq(T) /\ Len(Append(N, y)) = n + 1
        /\ \A i \in 1..n : Append(N, y)[i] = N[i]
        /\ Append(N, y)[n + 1] = y
    BY <1>4, <2>1
  <2> DEFINE z == Append(N, y)
  <2>3. z \in Seq(T) /\ Len(z) = n + 1
    BY <2>2
  <2> HIDE DEF z
  <2>4. z = [i \in 1..n + 1 |-> z[i]]
    BY <2>3
  <2> QED BY <2>2, <2>4 DEF z
<1>6. \A i \in 1..n + 1 : i \in 1..n \/ i = n + 1
  BY <1>1
<1>7. \A i \in 1..n + 1 : Normals(more)[i] = Append(N, y)[i]
  BY <1>2, <1>3, <1>5, <1>6 DEF N, y
<1>8. Normals(more) = Append(N, y)
  <2>1. Normals(more) = [i \in 1..n + 1 |-> Normals(more)[i]]
    BY <1>3
  <2> QED BY <1>5, <1>7, <2>1
<1> QED BY <1>1, <1>8 DEF N, y, n

LEMMA Initially == Init => IInv
<1>1. ASSUME Init
      PROVE  IInv
  <2>1. /\ phase = "capture" /\ outcome = "none"
        /\ harvester \in Harvesters /\ distribution \in Distributions
        /\ asked \in Counts /\ collector \in BOOLEAN /\ asked \in Nat
        /\ samples = <<>> /\ normalized = <<>> /\ bundle = <<>> /\ options = <<>>
        /\ replays = <<>> /\ replayed = <<>> /\ attempts = 0
    BY <1>1, CountAssumption DEF Init, NoBundle, None
  <2>2. TypeOK
    BY <2>1 DEF TypeOK, Outcomes, MaxAttempts
  <2>3. Normals(<<>>) = <<>> /\ <<>> \in Seq(Takings)
    BY DEF Normals
  <2>4. SamplesAreKept
    BY <2>1, <2>3 DEF SamplesAreKept
  <2>5. /\ NothingReplayed /\ BundleIsProfile /\ CandidateIsReady
        /\ ReplaysAreCounted /\ MatchIsCompared
    BY <2>1 DEF NothingReplayed, BundleIsProfile, CandidateIsReady, ReplaysAreCounted,
                MatchIsCompared, Replaying
  <2> QED BY <2>2, <2>4, <2>5 DEF IInv
<1> QED BY <1>1

\* What every step starts from.
LEMMA Facts ==
    ASSUME IInv
    PROVE  /\ asked \in Nat /\ samples \in Seq(Takings) /\ Len(samples) \in Nat
           /\ replays \in Seq(Takings) /\ Len(replays) \in Nat
           /\ outcome = "matches" => phase = "done"
<1>1. asked \in Nat
  BY CountAssumption DEF IInv, TypeOK
<1>2. samples \in Seq(Takings) /\ replays \in Seq(Takings)
  BY DEF IInv, SamplesAreKept
<1> QED BY <1>1, <1>2 DEF IInv, MatchIsCompared

LEMMA TakeSampleKeeps == IInv /\ TakeSample => IInv'
<1>1. SUFFICES ASSUME IInv, TakeSample PROVE IInv'
  OBVIOUS
<1> USE <1>1
<1>2. /\ phase = "capture" /\ Len(samples) < asked /\ phase' = "capture"
      /\ UNCHANGED <<phase, harvester, distribution, asked, collector, bundle, options,
                     replays, replayed, attempts, outcome>>
  BY DEF TakeSample, replay
<1>3. PICK s \in Captures :
         /\ samples' = Append(samples, Taken(s, collector))
         /\ normalized' = Append(normalized, normalize_sample(Taken(s, collector)))
  BY DEF TakeSample
<1>4. Taken(s, collector) \in Takings
  BY DEF IInv, TypeOK, Takings
<1>5. samples' \in Seq(Takings) /\ Len(samples') = Len(samples) + 1 /\ normalized' = Normals(samples')
  BY <1>3, <1>4, Facts, OneMoreSample DEF IInv, SamplesAreKept
<1>6. TypeOK'
  BY <1>2, <1>5, Facts DEF IInv, TypeOK
<1>7. SamplesAreKept'
  BY <1>2, <1>5 DEF IInv, SamplesAreKept
<1>8. /\ NothingReplayed' /\ BundleIsProfile' /\ CandidateIsReady'
      /\ ReplaysAreCounted' /\ MatchIsCompared'
  BY <1>2, Facts DEF IInv, NothingReplayed, BundleIsProfile, CandidateIsReady,
                     ReplaysAreCounted, MatchIsCompared, Replaying
<1> QED BY <1>6, <1>7, <1>8 DEF IInv

LEMMA WriteBundleKeeps == IInv /\ WriteBundle => IInv'
<1>1. SUFFICES ASSUME IInv, WriteBundle PROVE IInv'
  OBVIOUS
<1> USE <1>1
<1>2. /\ phase = "capture"
      /\ UNCHANGED <<harvester, asked, distribution, collector, samples, normalized, options,
                     replays, replayed, attempts>>
  BY DEF WriteBundle, replay, capture
<1>3. \/ /\ CanBuild(normalized) /\ phase' = "bundle" /\ outcome' = outcome
         /\ Len(bundle') = 1 /\ bundle'[1].profile = build_profile(normalized)
      \/ phase' = "done" /\ outcome' = "error" /\ bundle' = bundle
  BY DEF WriteBundle, End
<1>4. outcome # "matches" /\ outcome' # "matches"
  BY <1>2, <1>3, Facts
<1>5. TypeOK'
  <2>1. Len(bundle') <= 1
    <3>1. Len(bundle) <= 1
      BY DEF IInv, TypeOK
    <3>2. CASE bundle' = bundle
      BY <3>1, <3>2
    <3>3. CASE Len(bundle') = 1
      BY <3>3
    <3> QED BY <1>3, <3>2, <3>3
  <2>2. /\ phase' \in {"bundle", "done"}
        /\ outcome' \in Outcomes
    BY <1>3 DEF IInv, TypeOK, Outcomes
  <2> QED BY <1>2, <2>1, <2>2 DEF IInv, TypeOK
<1>6. SamplesAreKept'
  BY <1>2 DEF IInv, SamplesAreKept
<1>7. NothingReplayed'
  BY <1>2 DEF IInv, NothingReplayed
<1>8. BundleIsProfile'
  BY <1>2, <1>3, <1>4 DEF BundleIsProfile, Replaying
<1>9. CandidateIsReady' /\ ReplaysAreCounted' /\ MatchIsCompared'
  BY <1>2, <1>3, <1>4 DEF CandidateIsReady, ReplaysAreCounted, MatchIsCompared, Replaying
<1> QED BY <1>5, <1>6, <1>7, <1>8, <1>9 DEF IInv

LEMMA ReplaceKeeps == IInv /\ Replace => IInv'
<1>1. SUFFICES ASSUME IInv, Replace PROVE IInv'
  OBVIOUS
<1> USE <1>1
<1>2. /\ phase = "bundle" /\ phase' = "bundle" /\ harvester' \in Harvesters
      /\ UNCHANGED <<asked, distribution, collector, samples, normalized, bundle, options,
                     replays, replayed, attempts, outcome>>
  BY DEF Replace, replay, capture
<1>3. outcome # "matches" /\ outcome' # "matches"
  BY <1>2, Facts
<1>4. TypeOK'
  BY <1>2 DEF IInv, TypeOK
<1>5. SamplesAreKept' /\ NothingReplayed' /\ BundleIsProfile'
  BY <1>2 DEF IInv, SamplesAreKept, NothingReplayed, BundleIsProfile
<1>6. CandidateIsReady' /\ ReplaysAreCounted' /\ MatchIsCompared'
  BY <1>2, <1>3 DEF CandidateIsReady, ReplaysAreCounted, MatchIsCompared, Replaying
<1> QED BY <1>4, <1>5, <1>6 DEF IInv

LEMMA CandidateKeeps == IInv /\ Candidate => IInv'
<1>1. SUFFICES ASSUME IInv, Candidate PROVE IInv'
  OBVIOUS
<1> USE <1>1
<1>2. /\ phase = "bundle"
      /\ UNCHANGED <<harvester, asked, distribution, collector, samples, normalized, bundle,
                     replays, replayed, attempts>>
  BY DEF Candidate, replay, capture
<1>3. \/ /\ bundle[1].ready /\ Ready(harvester, bundle[1].profile, distribution)
         /\ options' = <<Options(bundle[1].profile.fingerprint)>>
         /\ phase' = "compiled" /\ outcome' = "candidate"
      \/ phase' = "done" /\ outcome' = "refused" /\ options' = options
  BY DEF Candidate, CompilationReady, End
<1>4. TypeOK'
  <2>1. Len(options') <= 1
    <3>1. Len(<<Options(bundle[1].profile.fingerprint)>>) = 1
      OBVIOUS
    <3>2. Len(options) <= 1
      BY DEF IInv, TypeOK
    <3>3. CASE options' = options
      BY <3>2, <3>3
    <3>4. CASE Len(options') = 1
      BY <3>4
    <3> QED BY <1>3, <3>1, <3>3, <3>4
  <2>2. phase' \in {"compiled", "done"} /\ outcome' \in {"candidate", "refused"}
    BY <1>3
  <2> QED BY <1>2, <2>1, <2>2 DEF IInv, TypeOK, Outcomes
<1>5. SamplesAreKept'
  BY <1>2 DEF IInv, SamplesAreKept
<1>6. NothingReplayed'
  BY <1>2 DEF IInv, NothingReplayed
<1>7. BundleIsProfile'
  BY <1>2, <1>3 DEF IInv, BundleIsProfile, Replaying
<1>8. CandidateIsReady'
  BY <1>2, <1>3 DEF CandidateIsReady, Replaying
<1>9. ReplaysAreCounted' /\ MatchIsCompared'
  BY <1>3 DEF ReplaysAreCounted, MatchIsCompared, Replaying
<1> QED BY <1>4, <1>5, <1>6, <1>7, <1>8, <1>9 DEF IInv

LEMMA StartReplayKeeps == IInv /\ StartReplay => IInv'
<1>1. SUFFICES ASSUME IInv, StartReplay PROVE IInv'
  OBVIOUS
<1> USE <1>1
<1>2. /\ phase = "compiled" /\ asked' \in Counts /\ asked' \in Nat
      /\ UNCHANGED <<harvester, distribution, collector, samples, normalized, bundle, options,
                     replays, replayed, attempts>>
  BY CountAssumption DEF StartReplay, replay, capture
<1>3. \/ asked' >= MinReplays /\ phase' = "tls" /\ outcome' = "none"
      \/ phase' = "done" /\ outcome' = "error"
  BY DEF StartReplay, End
<1>4. replays = <<>> /\ Len(replays) = 0 /\ attempts = 0
  BY <1>2 DEF IInv, NothingReplayed
<1>5. TypeOK'
  <2>1. phase' \in {"tls", "done"} /\ outcome' \in {"none", "error"}
    BY <1>3
  <2>2. Len(replays') <= asked'
    BY <1>2, <1>4
  <2> QED BY <1>2, <2>1, <2>2 DEF IInv, TypeOK, Outcomes
<1>6. SamplesAreKept'
  BY <1>2 DEF IInv, SamplesAreKept
<1>7. NothingReplayed' /\ MatchIsCompared'
  BY <1>3 DEF NothingReplayed, MatchIsCompared
<1>8. BundleIsProfile'
  BY <1>2, <1>3 DEF IInv, BundleIsProfile, Replaying
<1>9. CandidateIsReady'
  BY <1>2, <1>3 DEF IInv, CandidateIsReady, Replaying
<1>10. ReplaysAreCounted'
  BY <1>2, <1>3, <1>4 DEF ReplaysAreCounted, Replaying, MinReplays
<1> QED BY <1>5, <1>6, <1>7, <1>8, <1>9, <1>10 DEF IInv

\* An answer is kept, normalised, and the next one is asked for, if there is one.
LEMMA KeepKeeps ==
    ASSUME IInv, phase \in {"tls", "http3"}, NEW r \in Takings, Keep(r),
           UNCHANGED <<harvester, asked, distribution, collector, samples, normalized, bundle,
                       options>>
    PROVE  IInv'
<1>1. /\ replays' = Append(replays, r)
      /\ replayed' = Append(replayed, normalize_sample(r))
      /\ attempts' = 0 /\ outcome' = outcome
      /\ phase' = IF Len(replays') = asked THEN "compare" ELSE "tls"
  BY DEF Keep
<1>2. /\ replays' \in Seq(Takings) /\ Len(replays') = Len(replays) + 1
      /\ replayed' = Normals(replays')
  BY <1>1, OneMoreSample DEF IInv, SamplesAreKept
<1>3. /\ asked \in Nat /\ Len(replays) \in Nat /\ Len(replays) < asked /\ asked >= MinReplays
      /\ outcome # "matches"
  BY Facts DEF IInv, ReplaysAreCounted, Replaying
<1>4. Len(replays') <= asked /\ (Len(replays') # asked => Len(replays') < asked)
  BY <1>2, <1>3
<1>5. \/ phase' = "compare" /\ Len(replays') = asked
      \/ phase' = "tls" /\ Len(replays') # asked
  BY <1>1
<1>6. TypeOK'
  BY <1>1, <1>4, <1>5 DEF IInv, TypeOK, MaxAttempts
<1>7. SamplesAreKept'
  BY <1>2 DEF IInv, SamplesAreKept
<1>8. NothingReplayed' /\ MatchIsCompared'
  BY <1>1, <1>3, <1>5 DEF NothingReplayed, MatchIsCompared
<1>9. BundleIsProfile'
  BY <1>1, <1>5 DEF IInv, BundleIsProfile, Replaying
<1>10. CandidateIsReady'
  BY <1>1, <1>5 DEF IInv, CandidateIsReady, Replaying
<1>11. ReplaysAreCounted'
  BY <1>1, <1>3, <1>4, <1>5 DEF ReplaysAreCounted, Replaying
<1> QED BY <1>6, <1>7, <1>8, <1>9, <1>10, <1>11 DEF IInv

\* A replay that ends without a comparison.
LEMMA EndKeeps ==
    ASSUME IInv, NEW result \in {"refused", "error", "escaped", "differs"}, End(result),
           attempts' \in 0..MaxAttempts,
           UNCHANGED <<harvester, asked, distribution, collector, samples, normalized, bundle,
                       options, replays, replayed>>
    PROVE  IInv'
<1>1. phase' = "done" /\ outcome' = result
  BY DEF End
<1>2. TypeOK'
  BY <1>1 DEF IInv, TypeOK, Outcomes
<1>3. SamplesAreKept'
  BY DEF IInv, SamplesAreKept
<1>4. /\ NothingReplayed' /\ BundleIsProfile' /\ CandidateIsReady'
      /\ ReplaysAreCounted' /\ MatchIsCompared'
  BY <1>1 DEF NothingReplayed, BundleIsProfile, CandidateIsReady, ReplaysAreCounted,
              MatchIsCompared, Replaying
<1> QED BY <1>2, <1>3, <1>4 DEF IInv

LEMMA AskTlsKeeps == IInv /\ AskTls => IInv'
<1>1. SUFFICES ASSUME IInv, AskTls PROVE IInv'
  OBVIOUS
<1> USE <1>1
<1>2. /\ phase = "tls"
      /\ UNCHANGED <<harvester, asked, distribution, collector, samples, normalized, bundle,
                     options>>
  BY DEF AskTls, capture
<1>3. CASE phase' = "http3" /\ UNCHANGED <<replays, replayed, attempts, outcome>>
  <2>1. attempts = 0
    BY <1>2 DEF IInv, ReplaysAreCounted
  <2>2. TypeOK'
    BY <1>2, <1>3 DEF IInv, TypeOK
  <2>3. SamplesAreKept'
    BY <1>2, <1>3 DEF IInv, SamplesAreKept
  <2>4. NothingReplayed' /\ MatchIsCompared'
    BY <1>2, <1>3, Facts DEF NothingReplayed, MatchIsCompared
  <2>5. BundleIsProfile' /\ CandidateIsReady'
    BY <1>2, <1>3 DEF IInv, BundleIsProfile, CandidateIsReady, Replaying
  <2>6. ReplaysAreCounted'
    BY <1>2, <1>3, <2>1, Facts DEF IInv, ReplaysAreCounted, Replaying, MaxAttempts
  <2> QED BY <2>2, <2>3, <2>4, <2>5, <2>6 DEF IInv
<1>4. CASE \E r \in Answers : Keep(Taken(r, FALSE))
  <2>1. PICK r \in Answers : Keep(Taken(r, FALSE))
    BY <1>4
  <2>2. Taken(r, FALSE) \in Takings
    <3>1. \A http3 \in BOOLEAN : Taken(r, http3) \in Takings
      BY DEF Takings
    <3> QED BY <3>1, Zenon
  <2> QED BY <1>2, <2>1, <2>2, KeepKeeps
<1>5. ASSUME NEW result \in {"error", "escaped"}, End(result),
             UNCHANGED <<replays, replayed, attempts>>
      PROVE  IInv'
  <2>1. attempts' \in 0..MaxAttempts
    BY <1>5 DEF IInv, TypeOK
  <2> QED BY <1>2, <1>5, <2>1, EndKeeps
<1> QED BY <1>3, <1>4, <1>5 DEF AskTls, replay

LEMMA AskHttp3Keeps == IInv /\ AskHttp3 => IInv'
<1>1. SUFFICES ASSUME IInv, AskHttp3 PROVE IInv'
  OBVIOUS
<1> USE <1>1
<1>2. /\ phase = "http3"
      /\ UNCHANGED <<harvester, asked, distribution, collector, samples, normalized, bundle,
                     options>>
  BY DEF AskHttp3, capture
<1>3. CASE \E r \in Answers : Keep(r)
  <2>1. PICK r \in Answers : Keep(r)
    BY <1>3
  <2>2. r \in Takings
    <3>1. Taken(r, TRUE) = r
      BY DEF Taken
    <3>2. \A http3 \in BOOLEAN : Taken(r, http3) \in Takings
      BY DEF Takings
    <3>3. Taken(r, TRUE) \in Takings
      BY <3>2, Zenon
    <3> QED BY <3>1, <3>3
  <2> QED BY <1>2, <2>1, <2>2, KeepKeeps
<1>4. CASE /\ attempts' = attempts + 1
           /\ IF MayAskAgain THEN UNCHANGED <<phase, outcome>> ELSE End("error")
           /\ UNCHANGED <<replays, replayed>>
  <2>1. attempts \in Nat /\ attempts < MaxAttempts
    BY <1>2 DEF IInv, TypeOK, ReplaysAreCounted, MaxAttempts
  <2>2. attempts' \in 0..MaxAttempts
    BY <1>4, <2>1 DEF MaxAttempts
  <2>3. CASE ~MayAskAgain
    BY <1>2, <1>4, <2>2, <2>3, EndKeeps
  <2>4. CASE MayAskAgain
    <3>1. /\ phase' = phase /\ outcome' = outcome /\ replays' = replays /\ replayed' = replayed
          /\ attempts' < MaxAttempts
      BY <1>4, <2>4 DEF MayAskAgain
    <3>2. TypeOK'
      BY <1>2, <2>2, <3>1 DEF IInv, TypeOK
    <3>3. SamplesAreKept'
      BY <1>2, <3>1 DEF IInv, SamplesAreKept
    <3>4. NothingReplayed' /\ MatchIsCompared'
      BY <1>2, <3>1, Facts DEF NothingReplayed, MatchIsCompared
    <3>5. BundleIsProfile' /\ CandidateIsReady'
      BY <1>2, <3>1 DEF IInv, BundleIsProfile, CandidateIsReady, Replaying
    <3>6. ReplaysAreCounted'
      BY <1>2, <3>1 DEF IInv, ReplaysAreCounted, Replaying
    <3> QED BY <3>2, <3>3, <3>4, <3>5, <3>6 DEF IInv
  <2> QED BY <2>3, <2>4
<1>5. CASE End("escaped") /\ UNCHANGED <<replays, replayed, attempts>>
  <2>1. attempts' \in 0..MaxAttempts
    BY <1>5 DEF IInv, TypeOK
  <2> QED BY <1>2, <1>5, <2>1, EndKeeps
<1> QED BY <1>3, <1>4, <1>5 DEF AskHttp3, replay

LEMMA CompareKeeps == IInv /\ Compare => IInv'
<1>1. SUFFICES ASSUME IInv, Compare PROVE IInv'
  OBVIOUS
<1> USE <1>1
<1>2. /\ phase = "compare"
      /\ UNCHANGED <<harvester, asked, distribution, collector, samples, normalized, bundle,
                     options, replays, replayed, attempts>>
  BY DEF Compare, capture, replay
<1>3. \/ Matches /\ End("matches")
      \/ End("differs") \/ End("error")
  BY DEF Compare
<1>4. CASE Matches /\ End("matches")
  <2>1. phase' = "done" /\ outcome' = "matches"
    BY <1>4 DEF End
  <2>2. TypeOK'
    BY <1>2, <2>1 DEF IInv, TypeOK, Outcomes
  <2>3. SamplesAreKept'
    BY <1>2 DEF IInv, SamplesAreKept
  <2>4. NothingReplayed'
    BY <2>1 DEF NothingReplayed
  <2>5. BundleIsProfile' /\ CandidateIsReady'
    BY <1>2, <2>1 DEF IInv, BundleIsProfile, CandidateIsReady, Replaying
  <2>6. ReplaysAreCounted'
    BY <1>2, <2>1 DEF IInv, ReplaysAreCounted, Replaying
  <2>7. MatchIsCompared'
    BY <1>2, <1>4, <2>1 DEF MatchIsCompared, Matches
  <2> QED BY <2>2, <2>3, <2>4, <2>5, <2>6, <2>7 DEF IInv
<1>5. ASSUME NEW result \in {"differs", "error"}, End(result)
      PROVE  IInv'
  <2>1. attempts' \in 0..MaxAttempts
    BY <1>2 DEF IInv, TypeOK
  <2> QED BY <1>2, <1>5, <2>1, EndKeeps
<1> QED BY <1>3, <1>4, <1>5

LEMMA StutterKeeps == IInv /\ UNCHANGED vars => IInv'
<1>1. SUFFICES ASSUME IInv, UNCHANGED vars PROVE IInv'
  OBVIOUS
<1> USE <1>1
<1>2. UNCHANGED <<phase, harvester, asked, distribution, collector, samples, normalized,
                  bundle, options, replays, replayed, attempts, outcome>>
  BY DEF vars, capture, replay
<1>3. TypeOK' /\ SamplesAreKept' /\ NothingReplayed'
  BY <1>2 DEF IInv, TypeOK, SamplesAreKept, NothingReplayed
<1>4. BundleIsProfile' /\ CandidateIsReady' /\ ReplaysAreCounted'
  BY <1>2 DEF IInv, BundleIsProfile, CandidateIsReady, ReplaysAreCounted, Replaying
<1>5. MatchIsCompared'
  BY <1>2 DEF IInv, MatchIsCompared, Matches
<1> QED BY <1>3, <1>4, <1>5 DEF IInv

\* However captures, updates of the harvester, candidates and replays follow each other.
THEOREM Invariance == Spec => []IInv
<1>1. Init => IInv
  BY Initially
<1>2. IInv /\ [Next]_vars => IInv'
  BY TakeSampleKeeps, WriteBundleKeeps, ReplaceKeeps, CandidateKeeps, StartReplayKeeps,
     AskTlsKeeps, AskHttp3Keeps, CompareKeeps, StutterKeeps DEF Next, Step
<1> QED BY <1>1, <1>2, PTL DEF Spec

\* Types, however the commands follow each other: a replay keeps no more answers than it was
\* asked for, and asks for each three times at most.
THEOREM TypeCorrect == Spec => []TypeOK
<1>1. IInv => TypeOK
  BY DEF IInv
<1> QED BY <1>1, Invariance, PTL

-----------------------------------------------------------------------------
(***************************************************************************)
(* What is compared.                                                       *)
(***************************************************************************)
LEMMA ComparableIs ==
    ASSUME NEW r, r = [ciphers |-> r.ciphers, extension_order |-> r.extension_order,
                       extensions |-> r.extensions, id_order |-> r.id_order,
                       parameter_order |-> r.parameter_order, parameters |-> r.parameters]
    PROVE  ComparableTls(r)
           = [ciphers         |-> r.ciphers,
              extension_order |-> comparison_order(r.extension_order),
              extensions      |-> r.extensions,
              id_order        |-> comparison_order(r.id_order),
              parameter_order |-> comparison_order(r.parameter_order),
              parameters      |-> r.parameters]
<1>1. ComparableTls(r)
      = [[[r EXCEPT !.extension_order = comparison_order(r.extension_order)]
             EXCEPT !.id_order = comparison_order(r.id_order)]
             EXCEPT !.parameter_order = comparison_order(r.parameter_order)]
  BY DEF ComparableTls
<1> QED BY <1>1

LEMMA ComparisonViewIs ==
    ASSUME NEW r, r = [mode |-> r.mode, tcp |-> r.tcp, http2 |-> r.http2,
                       protocol |-> r.protocol, quic |-> r.quic, http3 |-> r.http3]
    PROVE  fingerprint_comparison_view(r)
           = [mode |-> r.mode, tcp |-> ComparableTls(r.tcp), http2 |-> r.http2,
              protocol |-> r.protocol, quic |-> ComparableTls(r.quic), http3 |-> r.http3]
<1>1. fingerprint_comparison_view(r)
      = [[r EXCEPT !.tcp = ComparableTls(r.tcp)] EXCEPT !.quic = ComparableTls(r.quic)]
  BY DEF fingerprint_comparison_view
<1> QED BY <1>1

LEMMA SeenAre ==
    ASSUME NEW S \in Seq(Takings)
    PROVE  /\ ToSet(TcpSeen(S)) = TcpOrders(S) /\ ToSet(QuicSeen(S)) = QuicOrders(S)
           /\ ToSet(ParameterSeen(S)) = ParameterOrders(S)
           /\ TcpSeen(S) \in Seq(ToSet(TcpSeen(S))) /\ Len(TcpSeen(S)) = Len(S)
           /\ QuicSeen(S) \in Seq(ToSet(QuicSeen(S))) /\ Len(QuicSeen(S)) = Len(S)
           /\ ParameterSeen(S) \in Seq(ToSet(ParameterSeen(S))) /\ Len(ParameterSeen(S)) = Len(S)
<1>1. Len(S) \in Nat /\ DOMAIN S = 1..Len(S)
  OBVIOUS
<1>2. /\ ToSet(TcpSeen(S)) = TcpOrders(S) /\ ToSet(QuicSeen(S)) = QuicOrders(S)
      /\ ToSet(ParameterSeen(S)) = ParameterOrders(S)
  BY DEF ToSet, TcpSeen, QuicSeen, ParameterSeen, TcpOrders, QuicOrders, ParameterOrders
<1>3. TcpSeen(S) \in [1..Len(S) -> ToSet(TcpSeen(S))]
  BY <1>1 DEF TcpSeen, ToSet
<1>4. QuicSeen(S) \in [1..Len(S) -> ToSet(QuicSeen(S))]
  BY <1>1 DEF QuicSeen, ToSet
<1>5. ParameterSeen(S) \in [1..Len(S) -> ToSet(ParameterSeen(S))]
  BY <1>1 DEF ParameterSeen, ToSet
<1> QED BY <1>1, <1>2, <1>3, <1>4, <1>5, ListOf

\* Two ClientHellos of fingerprints that compare equal.
Whole(s) == s = [ciphers |-> s.ciphers, extension_order |-> s.extension_order,
                 extensions |-> s.extensions, id_order |-> s.id_order,
                 parameter_order |-> s.parameter_order, parameters |-> s.parameters]

LEMMA ComparedHellos ==
    ASSUME NEW s, NEW t, NEW x, NEW y, NEW m, NEW n, NEW f, NEW g, Whole(s), Whole(t),
           f = [ciphers |-> s.ciphers, extension_order |-> x, extensions |-> s.extensions,
                id_order |-> f.id_order, parameter_order |-> m, parameters |-> s.parameters],
           g = [ciphers |-> t.ciphers, extension_order |-> y, extensions |-> t.extensions,
                id_order |-> g.id_order, parameter_order |-> n, parameters |-> t.parameters],
           ComparableTls(f) = ComparableTls(g)
    PROVE  /\ WithoutOrders(s) = WithoutOrders(t)
           /\ comparison_order(x) = comparison_order(y)
           /\ comparison_order(m) = comparison_order(n)
<1>1. /\ s = [ciphers |-> s.ciphers, extension_order |-> s.extension_order,
              extensions |-> s.extensions, id_order |-> s.id_order,
              parameter_order |-> s.parameter_order, parameters |-> s.parameters]
      /\ t = [ciphers |-> t.ciphers, extension_order |-> t.extension_order,
              extensions |-> t.extensions, id_order |-> t.id_order,
              parameter_order |-> t.parameter_order, parameters |-> t.parameters]
  BY DEF Whole
<1>2. /\ f = [ciphers |-> s.ciphers, extension_order |-> x, extensions |-> s.extensions,
              id_order |-> f.id_order, parameter_order |-> m, parameters |-> s.parameters]
      /\ g = [ciphers |-> t.ciphers, extension_order |-> y, extensions |-> t.extensions,
              id_order |-> g.id_order, parameter_order |-> n, parameters |-> t.parameters]
  OBVIOUS
<1>3. /\ WithoutOrders(s) = [ciphers |-> s.ciphers, extension_order |-> <<>>,
                             extensions |-> s.extensions, id_order |-> <<>>,
                             parameter_order |-> <<>>, parameters |-> s.parameters]
      /\ WithoutOrders(t) = [ciphers |-> t.ciphers, extension_order |-> <<>>,
                             extensions |-> t.extensions, id_order |-> <<>>,
                             parameter_order |-> <<>>, parameters |-> t.parameters]
  BY <1>1, WithoutOrdersIs
<1>4. ComparableTls(f)
         = [ciphers |-> s.ciphers, extension_order |-> comparison_order(x),
            extensions |-> s.extensions, id_order |-> comparison_order(f.id_order),
            parameter_order |-> comparison_order(m), parameters |-> s.parameters]
  BY <1>2, ComparableIs
<1>g. ComparableTls(g)
         = [ciphers |-> t.ciphers, extension_order |-> comparison_order(y),
            extensions |-> t.extensions, id_order |-> comparison_order(g.id_order),
            parameter_order |-> comparison_order(n), parameters |-> t.parameters]
  BY <1>2, ComparableIs
<1>5. /\ s.ciphers = t.ciphers /\ s.extensions = t.extensions /\ s.parameters = t.parameters
      /\ comparison_order(x) = comparison_order(y) /\ comparison_order(m) = comparison_order(n)
  <2> DEFINE c == ComparableTls(f)  d == ComparableTls(g)
  <2>1. c = d
    OBVIOUS
  <2>2. /\ c.ciphers = s.ciphers /\ c.extension_order = comparison_order(x)
        /\ c.extensions = s.extensions /\ c.parameter_order = comparison_order(m)
        /\ c.parameters = s.parameters
    BY <1>4
  <2>3. /\ d.ciphers = t.ciphers /\ d.extension_order = comparison_order(y)
        /\ d.extensions = t.extensions /\ d.parameter_order = comparison_order(n)
        /\ d.parameters = t.parameters
    BY <1>g
  <2> HIDE DEF c, d
  <2> QED BY <2>1, <2>2, <2>3
<1>6. WithoutOrders(s) = WithoutOrders(t)
  BY <1>3, <1>5
<1> QED BY <1>5, <1>6

\* Samples that are of one variant, and others that are, with profiles that compare equal.
LEMMA ComparedProfiles ==
    ASSUME NEW S \in Seq(Takings), Len(S) >= 2, build_profile(Normals(S)).variant_count = 1,
           NEW R \in Seq(Takings), Len(R) >= 2, build_profile(Normals(R)).variant_count = 1,
           fingerprint_comparison_view(build_profile(Normals(S)).fingerprint)
             = fingerprint_comparison_view(build_profile(Normals(R)).fingerprint)
    PROVE  /\ \A i \in DOMAIN S, j \in DOMAIN R : Alike(S[i], R[j])
           /\ SameOrders(TcpOrders(S), TcpOrders(R))
           /\ SameOrders(QuicOrders(S), QuicOrders(R))
           /\ SameOrders(ParameterOrders(S), ParameterOrders(R))
<1> DEFINE f == build_profile(Normals(S)).fingerprint
           g == build_profile(Normals(R)).fingerprint
           view(u) == stable_view(normalize_sample(u))
<1>1. /\ Len(S) \in Nat /\ DOMAIN S = 1..Len(S) /\ 1 \in DOMAIN S
      /\ \A i \in DOMAIN S : S[i] \in Takings
      /\ Len(R) \in Nat /\ DOMAIN R = 1..Len(R) /\ 1 \in DOMAIN R
      /\ \A i \in DOMAIN R : R[i] \in Takings
  OBVIOUS
<1>2. /\ \A i \in DOMAIN S : view(S[i]) = view(S[1])
      /\ \A i \in DOMAIN R : view(R[i]) = view(R[1])
  BY <1>1, ProfileIs
<1>3. /\ f = [mode |-> "any", tcp |-> f.tcp, http2 |-> normalize_http2(S[1].http2),
              protocol |-> S[1].protocol, quic |-> f.quic,
              http3 |-> normalize_http3(S[1].http3)]
      /\ g = [mode |-> "any", tcp |-> g.tcp, http2 |-> normalize_http2(R[1].http2),
              protocol |-> R[1].protocol, quic |-> g.quic,
              http3 |-> normalize_http3(R[1].http3)]
  BY ProfileIs
<1>4. /\ f.tcp = [ciphers         |-> NormalizeHello(S[1].tcp, FALSE).ciphers,
                  extension_order |-> order_observation(TcpSeen(S)),
                  extensions      |-> NormalizeHello(S[1].tcp, FALSE).extensions,
                  id_order        |-> f.tcp.id_order,
                  parameter_order |-> f.tcp.parameter_order,
                  parameters      |-> NormalizeHello(S[1].tcp, FALSE).parameters]
      /\ f.quic = [ciphers         |-> NormalizeHello(S[1].quic, TRUE).ciphers,
                   extension_order |-> order_observation(QuicSeen(S)),
                   extensions      |-> NormalizeHello(S[1].quic, TRUE).extensions,
                   id_order        |-> f.quic.id_order,
                   parameter_order |-> order_observation(ParameterSeen(S)),
                   parameters      |-> NormalizeHello(S[1].quic, TRUE).parameters]
  BY ProfileIs
<1>5. /\ g.tcp = [ciphers         |-> NormalizeHello(R[1].tcp, FALSE).ciphers,
                  extension_order |-> order_observation(TcpSeen(R)),
                  extensions      |-> NormalizeHello(R[1].tcp, FALSE).extensions,
                  id_order        |-> g.tcp.id_order,
                  parameter_order |-> g.tcp.parameter_order,
                  parameters      |-> NormalizeHello(R[1].tcp, FALSE).parameters]
      /\ g.quic = [ciphers         |-> NormalizeHello(R[1].quic, TRUE).ciphers,
                   extension_order |-> order_observation(QuicSeen(R)),
                   extensions      |-> NormalizeHello(R[1].quic, TRUE).extensions,
                   id_order        |-> g.quic.id_order,
                   parameter_order |-> order_observation(ParameterSeen(R)),
                   parameters      |-> NormalizeHello(R[1].quic, TRUE).parameters]
  BY ProfileIs
<1>6. fingerprint_comparison_view(f) = fingerprint_comparison_view(g)
  OBVIOUS
<1> HIDE DEF f, g, view
<1>7. /\ ComparableTls(f.tcp) = ComparableTls(g.tcp)
      /\ normalize_http2(S[1].http2) = normalize_http2(R[1].http2)
      /\ S[1].protocol = R[1].protocol
      /\ ComparableTls(f.quic) = ComparableTls(g.quic)
      /\ normalize_http3(S[1].http3) = normalize_http3(R[1].http3)
  <2>1. /\ f = [mode |-> f.mode, tcp |-> f.tcp, http2 |-> f.http2,
                protocol |-> f.protocol, quic |-> f.quic, http3 |-> f.http3]
        /\ f.http2 = normalize_http2(S[1].http2) /\ f.protocol = S[1].protocol
        /\ f.http3 = normalize_http3(S[1].http3)
    BY <1>3
  <2>2. /\ g = [mode |-> g.mode, tcp |-> g.tcp, http2 |-> g.http2,
                protocol |-> g.protocol, quic |-> g.quic, http3 |-> g.http3]
        /\ g.http2 = normalize_http2(R[1].http2) /\ g.protocol = R[1].protocol
        /\ g.http3 = normalize_http3(R[1].http3)
    BY <1>3
  <2>3. /\ fingerprint_comparison_view(f)
           = [mode |-> f.mode, tcp |-> ComparableTls(f.tcp), http2 |-> f.http2,
              protocol |-> f.protocol, quic |-> ComparableTls(f.quic), http3 |-> f.http3]
        /\ fingerprint_comparison_view(g)
           = [mode |-> g.mode, tcp |-> ComparableTls(g.tcp), http2 |-> g.http2,
              protocol |-> g.protocol, quic |-> ComparableTls(g.quic), http3 |-> g.http3]
    BY <2>1, <2>2, ComparisonViewIs
  <2> DEFINE x == fingerprint_comparison_view(f)  y == fingerprint_comparison_view(g)
  <2>4. /\ x.tcp = ComparableTls(f.tcp) /\ x.http2 = f.http2 /\ x.protocol = f.protocol
        /\ x.quic = ComparableTls(f.quic) /\ x.http3 = f.http3
    BY <2>3
  <2>5. /\ y.tcp = ComparableTls(g.tcp) /\ y.http2 = g.http2 /\ y.protocol = g.protocol
        /\ y.quic = ComparableTls(g.quic) /\ y.http3 = g.http3
    BY <2>3
  <2>6. x = y
    BY <1>6
  <2> HIDE DEF x, y
  <2> QED BY <2>1, <2>2, <2>4, <2>5, <2>6
<1>8. /\ WithoutOrders(NormalizeHello(S[1].tcp, FALSE))
         = WithoutOrders(NormalizeHello(R[1].tcp, FALSE))
      /\ comparison_order(order_observation(TcpSeen(S)))
         = comparison_order(order_observation(TcpSeen(R)))
  <2> DEFINE s == NormalizeHello(S[1].tcp, FALSE)  t == NormalizeHello(R[1].tcp, FALSE)
             a == f.tcp  b == g.tcp
  <2>1. Whole(s) /\ Whole(t)
    BY HelloIs DEF Whole
  <2>2. /\ a = [ciphers |-> s.ciphers, extension_order |-> order_observation(TcpSeen(S)),
                extensions |-> s.extensions, id_order |-> a.id_order,
                parameter_order |-> a.parameter_order, parameters |-> s.parameters]
        /\ b = [ciphers |-> t.ciphers, extension_order |-> order_observation(TcpSeen(R)),
                extensions |-> t.extensions, id_order |-> b.id_order,
                parameter_order |-> b.parameter_order, parameters |-> t.parameters]
        /\ ComparableTls(a) = ComparableTls(b)
    BY <1>4, <1>5, <1>7
  <2> HIDE DEF s, t, a, b
  <2>3. /\ WithoutOrders(s) = WithoutOrders(t)
        /\ comparison_order(order_observation(TcpSeen(S)))
           = comparison_order(order_observation(TcpSeen(R)))
    BY <2>1, <2>2, ComparedHellos
  <2> QED BY <2>3 DEF s, t
<1>9. /\ WithoutOrders(NormalizeHello(S[1].quic, TRUE))
         = WithoutOrders(NormalizeHello(R[1].quic, TRUE))
      /\ comparison_order(order_observation(QuicSeen(S)))
         = comparison_order(order_observation(QuicSeen(R)))
      /\ comparison_order(order_observation(ParameterSeen(S)))
         = comparison_order(order_observation(ParameterSeen(R)))
  <2> DEFINE s == NormalizeHello(S[1].quic, TRUE)  t == NormalizeHello(R[1].quic, TRUE)
             a == f.quic  b == g.quic
  <2>1. Whole(s) /\ Whole(t)
    BY HelloIs DEF Whole
  <2>2. /\ a = [ciphers |-> s.ciphers, extension_order |-> order_observation(QuicSeen(S)),
                extensions |-> s.extensions, id_order |-> a.id_order,
                parameter_order |-> order_observation(ParameterSeen(S)),
                parameters |-> s.parameters]
        /\ b = [ciphers |-> t.ciphers, extension_order |-> order_observation(QuicSeen(R)),
                extensions |-> t.extensions, id_order |-> b.id_order,
                parameter_order |-> order_observation(ParameterSeen(R)),
                parameters |-> t.parameters]
        /\ ComparableTls(a) = ComparableTls(b)
    BY <1>4, <1>5, <1>7
  <2> HIDE DEF s, t, a, b
  <2>3. /\ WithoutOrders(s) = WithoutOrders(t)
        /\ comparison_order(order_observation(QuicSeen(S)))
           = comparison_order(order_observation(QuicSeen(R)))
        /\ comparison_order(order_observation(ParameterSeen(S)))
           = comparison_order(order_observation(ParameterSeen(R)))
    BY <2>1, <2>2, ComparedHellos
  <2> QED BY <2>3 DEF s, t
<1>10. view(S[1]) = view(R[1])
  <2> DEFINE made(u) == [mode     |-> "any",
                         tcp      |-> WithoutOrders(NormalizeHello(u.tcp, FALSE)),
                         http2    |-> normalize_http2(u.http2),
                         protocol |-> u.protocol,
                         quic     |-> WithoutOrders(NormalizeHello(u.quic, TRUE)),
                         http3    |-> normalize_http3(u.http3)]
  <2>1. \A u : stable_view(normalize_sample(u)) = made(u)
    BY SampleViewIs
  <2>2. made(S[1]) = made(R[1])
    BY <1>7, <1>8, <1>9
  <2> HIDE DEF made
  <2> QED BY <2>1, <2>2 DEF view
<1>11. ASSUME NEW i \in DOMAIN S, NEW j \in DOMAIN R PROVE Alike(S[i], R[j])
  <2>1. view(S[i]) = view(R[j])
    BY <1>2, <1>10
  <2> QED BY <1>1, <2>1, StableMeansAlike DEF view
<1>12. /\ SameOrders(ToSet(TcpSeen(S)), ToSet(TcpSeen(R)))
       /\ SameOrders(ToSet(QuicSeen(S)), ToSet(QuicSeen(R)))
       /\ SameOrders(ToSet(ParameterSeen(S)), ToSet(ParameterSeen(R)))
  <2>1. /\ TcpSeen(S) \in Seq(ToSet(TcpSeen(S))) /\ Len(TcpSeen(S)) = Len(S)
        /\ QuicSeen(S) \in Seq(ToSet(QuicSeen(S))) /\ Len(QuicSeen(S)) = Len(S)
        /\ ParameterSeen(S) \in Seq(ToSet(ParameterSeen(S))) /\ Len(ParameterSeen(S)) = Len(S)
    BY SeenAre
  <2>2. /\ TcpSeen(R) \in Seq(ToSet(TcpSeen(R))) /\ Len(TcpSeen(R)) = Len(R)
        /\ QuicSeen(R) \in Seq(ToSet(QuicSeen(R))) /\ Len(QuicSeen(R)) = Len(R)
        /\ ParameterSeen(R) \in Seq(ToSet(ParameterSeen(R))) /\ Len(ParameterSeen(R)) = Len(R)
    BY SeenAre
  <2> QED BY <1>1, <1>8, <1>9, <2>1, <2>2, OrdersCompare
<1> QED BY <1>11, <1>12, SeenAre

\* In these phases the bundle stands for all the samples, which are of one variant.
LEMMA BundleOfOne ==
    ASSUME IInv, phase = "compiled" \/ Replaying
    PROVE  /\ samples \in Seq(Takings) /\ Len(samples) >= 3
           /\ build_profile(Normals(samples)).variant_count = 1
           /\ bundle[1].profile = build_profile(Normals(samples)) /\ bundle[1].ready
           /\ normalized = Normals(samples) /\ CanBuild(normalized)
           /\ build_profile(Normals(samples)).modes = {"headful"}
           /\ Representable(harvester, build_profile(Normals(samples)).fingerprint)
           /\ options = <<Options(build_profile(Normals(samples)).fingerprint)>>
<1>1. /\ samples \in Seq(Takings) /\ normalized = Normals(samples)
  BY DEF IInv, SamplesAreKept
<1>2. /\ bundle[1].profile = build_profile(Normals(samples)) /\ CanBuild(normalized)
  BY <1>1 DEF IInv, BundleIsProfile
<1>3. /\ bundle[1].ready /\ Ready(harvester, build_profile(Normals(samples)), distribution)
      /\ options = <<Options(build_profile(Normals(samples)).fingerprint)>>
  BY <1>2 DEF IInv, CandidateIsReady
<1>4. build_profile(Normals(samples)).sample_count = Len(samples)
  <2>1. Len(Normals(samples)) = Len(samples)
    <3>1. Len(samples) \in Nat /\ DOMAIN samples = 1..Len(samples)
      BY <1>1
    <3> QED BY <3>1 DEF Normals
  <2> QED BY <2>1, VariantCountIs
<1> QED BY <1>1, <1>2, <1>3, <1>4 DEF Ready

\* What matches is the browser.
THEOREM MatchCorrect == Spec => []MatchMeansSame
<1>1. ASSUME IInv PROVE MatchMeansSame
  <2>1. SUFFICES ASSUME outcome = "matches"
                 PROVE  /\ \A i \in DOMAIN samples, j \in DOMAIN replays : Alike(samples[i], replays[j])
                        /\ SameOrders(TcpOrders(samples), TcpOrders(replays))
                        /\ SameOrders(QuicOrders(samples), QuicOrders(replays))
                        /\ SameOrders(ParameterOrders(samples), ParameterOrders(replays))
    BY DEF MatchMeansSame
  <2>2. /\ samples \in Seq(Takings) /\ Len(samples) >= 3
        /\ build_profile(Normals(samples)).variant_count = 1
        /\ bundle[1].profile = build_profile(Normals(samples))
    BY <1>1, <2>1, BundleOfOne DEF Replaying
  <2>3. replays \in Seq(Takings) /\ replayed = Normals(replays) /\ Len(replays) >= 3
    <3>1. replays \in Seq(Takings) /\ replayed = Normals(replays)
      BY <1>1 DEF IInv, SamplesAreKept
    <3>2. Len(replays) = asked /\ asked >= 3 /\ asked \in Nat
      BY <1>1, <2>1, Facts DEF IInv, ReplaysAreCounted, Replaying, MinReplays
    <3> QED BY <3>1, <3>2
  <2>4. /\ fingerprint_comparison_view(build_profile(Normals(samples)).fingerprint)
           = fingerprint_comparison_view(build_profile(Normals(replays)).fingerprint)
        /\ build_profile(Normals(replays)).variant_count = 1
    BY <1>1, <2>1, <2>2, <2>3 DEF IInv, MatchIsCompared, Matches, diff_profiles
  <2>5. Len(samples) >= 2 /\ Len(replays) >= 2
    BY <2>2, <2>3
  <2> QED BY <2>2, <2>3, <2>4, <2>5, ComparedProfiles
<1> QED BY <1>1, Invariance, PTL

LEMMA FieldsOfProfile ==
    ASSUME NEW S \in Seq(Takings), Len(S) >= 2, build_profile(Normals(S)).variant_count = 1
    PROVE  LET f == build_profile(Normals(S)).fingerprint
           IN  /\ f.protocol = S[1].protocol
               /\ f.tcp.extension_order = order_observation(TcpSeen(S))
               /\ f.quic.extension_order = order_observation(QuicSeen(S))
               /\ f.quic.parameter_order = order_observation(ParameterSeen(S))
               /\ f.quic.extensions = NormalizeHello(S[1].quic, TRUE).extensions
               /\ f.quic.parameters = NormalizeHello(S[1].quic, TRUE).parameters
<1> DEFINE f == build_profile(Normals(S)).fingerprint  g == f.tcp  h == f.quic
           t == NormalizeHello(S[1].tcp, FALSE)
           q == NormalizeHello(S[1].quic, TRUE)
<1>1. /\ f = [mode |-> "any", tcp |-> f.tcp, http2 |-> normalize_http2(S[1].http2),
              protocol |-> S[1].protocol, quic |-> f.quic,
              http3 |-> normalize_http3(S[1].http3)]
      /\ g = [ciphers |-> t.ciphers, extension_order |-> order_observation(TcpSeen(S)),
              extensions |-> t.extensions, id_order |-> g.id_order,
              parameter_order |-> g.parameter_order, parameters |-> t.parameters]
      /\ h = [ciphers |-> q.ciphers, extension_order |-> order_observation(QuicSeen(S)),
              extensions |-> q.extensions, id_order |-> h.id_order,
              parameter_order |-> order_observation(ParameterSeen(S)),
              parameters |-> q.parameters]
  BY ProfileIs
<1>2. f.tcp = g /\ f.quic = h
  OBVIOUS
<1> HIDE DEF f, g, h, t, q
<1>3. f.protocol = S[1].protocol
  BY <1>1
<1>4. g.extension_order = order_observation(TcpSeen(S))
  BY <1>1
<1>5. /\ h.extension_order = order_observation(QuicSeen(S))
      /\ h.parameter_order = order_observation(ParameterSeen(S))
      /\ h.extensions = q.extensions /\ h.parameters = q.parameters
  BY <1>1
<1> QED BY <1>2, <1>3, <1>4, <1>5 DEF f, q

\* A candidate is compiled of what is supported.
LEMMA NoExtensions == ToSet(NormalizeHello(NoHello, TRUE).extensions) = {}
<1> DEFINE x == [i \in DOMAIN NoHello.extensions |-> normalize_extension(NoHello.extensions[i], TRUE)]
<1>1. NormalizeHello(NoHello, TRUE).extensions = SortedById(x)
  BY DEF NormalizeHello
<1>2. DOMAIN x = {}
  BY DEF NoHello
<1> HIDE DEF x
<1>3. DOMAIN SortedById(x) = {}
  BY <1>2 DEF SortedById, Arranged
<1> QED BY <1>1, <1>3 DEF ToSet

LEMMA NormalsAre ==
    ASSUME NEW S \in Seq(Takings)
    PROVE  /\ DOMAIN Normals(S) = DOMAIN S
           /\ \A i \in DOMAIN S : /\ Normals(S)[i].mode = S[i].mode
                                  /\ Normals(S)[i].protocol = S[i].protocol
BY SampleFields DEF Normals

THEOREM SupportedOnly == Spec => []CandidatesAreSupported
<1>1. ASSUME IInv PROVE CandidatesAreSupported
  <2> DEFINE f == build_profile(Normals(samples)).fingerprint
             used == {e.id : e \in ToSet(f.tcp.extensions) \cup ToSet(f.quic.extensions)}
  <2>1. SUFFICES ASSUME phase = "compiled"
                 PROVE  /\ bundle[1].ready
                        /\ bundle[1].profile.fingerprint = f
                        /\ used \ {GREASE} \subseteq harvester.extensions
                        /\ \A i \in DOMAIN samples : samples[i].mode = "headful"
                        /\ \A i, j \in DOMAIN samples : Alike(samples[i], samples[j])
    BY DEF CandidatesAreSupported
  <2>2. /\ samples \in Seq(Takings) /\ Len(samples) >= 2
        /\ build_profile(Normals(samples)).variant_count = 1
        /\ bundle[1].profile = build_profile(Normals(samples)) /\ bundle[1].ready
        /\ normalized = Normals(samples) /\ CanBuild(normalized)
        /\ build_profile(Normals(samples)).modes = {"headful"}
        /\ Representable(harvester, f)
    <3>1. Len(samples) \in Nat /\ Len(samples) >= 3
      BY <1>1, <2>1, Facts, BundleOfOne
    <3> QED BY <1>1, <2>1, <3>1, BundleOfOne
  <2>3. DOMAIN samples = 1..Len(samples) /\ 1 \in DOMAIN samples
        /\ \A i \in DOMAIN samples : samples[i] \in Takings
    BY <2>2
  <2>4. /\ \A i, j \in DOMAIN samples : stable_view(normalize_sample(samples[i]))
                                        = stable_view(normalize_sample(samples[j]))
        /\ f.protocol = samples[1].protocol
        /\ f.quic.extensions = NormalizeHello(samples[1].quic, TRUE).extensions
    BY <2>2, ProfileIs, FieldsOfProfile
  <2> HIDE DEF f
  <2>5. \A i, j \in DOMAIN samples : Alike(samples[i], samples[j])
    BY <2>3, <2>4, StableMeansAlike
  <2>6. \A i \in DOMAIN samples : samples[i].mode = "headful"
    <3>1. build_profile(Normals(samples)).modes
          = {Normals(samples)[i].mode : i \in DOMAIN Normals(samples)}
      BY DEF build_profile
    <3>2. \A i \in DOMAIN samples : Normals(samples)[i].mode = samples[i].mode
      BY <2>2, NormalsAre
    <3>3. DOMAIN Normals(samples) = DOMAIN samples
      BY <2>2, NormalsAre
    <3> QED BY <2>2, <3>1, <3>2, <3>3
  <2>7. \A e \in ToSet(f.tcp.extensions) : e.id = GREASE \/ e.id \in harvester.extensions
    BY <2>2 DEF Representable, NoExtensionGaps
  <2>8. \A e \in ToSet(f.quic.extensions) : e.id = GREASE \/ e.id \in harvester.extensions
    <3>1. CASE f.protocol = "http3"
      BY <2>2, <3>1 DEF Representable, NoExtensionGaps
    <3>2. CASE f.protocol # "http3"
      <4>2. Normals(samples)[1].protocol \in {"none", "http3"}
        BY <2>2, <2>3, NormalsAre DEF CanBuild
      <4>3. samples[1].protocol = "none"
        BY <2>2, <2>3, <2>4, <3>2, <4>2, NormalsAre
      <4>4. samples[1].quic = NoHello
        BY <2>3, <4>3, TakingsAre
      <4> QED BY <2>4, <4>4, NoExtensions
    <3> QED BY <3>1, <3>2
  <2>9. used \ {GREASE} \subseteq harvester.extensions
    BY <2>7, <2>8
  <2> QED BY <2>2, <2>5, <2>6, <2>9 DEF f
<1> QED BY <1>1, Invariance, PTL
-----------------------------------------------------------------------------
(***************************************************************************)
(* Orders of a candidate.                                                  *)
(***************************************************************************)
LEMMA ExplicitOrderIs ==
    ASSUME NEW n \in Nat, n >= 2, NEW f, f \in Seq(ToSet(f)), Len(f) = n
    PROVE  /\ order_observation(f).mode = "permuted" <=> Cardinality(ToSet(f)) > 1
           /\ order_observation(f).mode # "permuted" =>
                 /\ ExplicitOrder(order_observation(f)) = Native(f[1])
                 /\ ToSet(f) = {f[1]}
<1>1. /\ order_observation(f).observed = f
      /\ order_observation(f).mode \in {"fixed", "permuted"}
      /\ order_observation(f).mode = "permuted" <=> Cardinality(ToSet(f)) > 1
      /\ order_observation(f).mode = "fixed" => \A i \in 1..n : f[i] = f[1] /\ ToSet(f) = {f[1]}
  BY ObservationIs
<1>2. 1 \in 1..n
  OBVIOUS
<1> QED BY <1>1, <1>2 DEF ExplicitOrder, native_extension_order, fixed_order

\* Sorting items loses none.
LEMMA SortedItems ==
    ASSUME NEW S, NEW a \in Seq(S), \A x \in S : x.id \in Nat
    PROVE  ToSet(SortedById(a)) = ToSet(a)
<1>1. Len(a) \in Nat /\ DOMAIN a = 1..Len(a) /\ \A i \in 1..Len(a) : a[i].id \in Nat
  BY EntriesAre
<1>2. Ids(a) \in Seq(Nat) /\ Len(Ids(a)) = Len(a)
  <2>1. Ids(a) \in [1..Len(a) -> Nat]
    BY <1>1 DEF Ids
  <2> QED BY <1>1, <2>1, ListOf
<1> DEFINE p == SortOrder(Ids(a))
<1>3. Permutes(p, Len(a))
  BY <1>2, SortOrderPermutes
<1>4. SortedById(a) = [k \in 1..Len(a) |-> a[p[k]]]
  BY <1>1 DEF SortedById, Arranged
<1> HIDE DEF p
<1>5. /\ \A k \in 1..Len(a) : p[k] \in 1..Len(a)
      /\ \A i \in 1..Len(a) : \E k \in 1..Len(a) : p[k] = i
  <2>1. /\ Permutes(Undoing(p, Len(a)), Len(a))
        /\ \A i \in 1..Len(a) : p[Undoing(p, Len(a))[i]] = i
    BY <1>1, <1>3, Undone
  <2> QED BY <1>3, <2>1 DEF Permutes
<1> QED BY <1>1, <1>4, <1>5 DEF ToSet

\* An explicit order of QUIC's ClientHello is not empty: extension 57 is in it.
LEMMA ExplicitIsThere ==
    ASSUME NEW h \in SoundHellos, Present(NormalizeHello(h, TRUE).extensions, 57)
    PROVE  Native(ExtensionOrder(h)) # None
<1> DEFINE s == h.extensions
           x == [i \in DOMAIN s |-> normalize_extension(s[i], TRUE)]
           o == ExtensionOrder(h)
<1>1. s \in Seq(RawItems)
  BY DEF SoundHellos, RawHellos
<1>2. NormalizeHello(h, TRUE).extensions = SortedById(x)
  BY DEF NormalizeHello
<1>3. /\ Len(s) \in Nat /\ DOMAIN s = 1..Len(s)
      /\ \A i \in DOMAIN s : s[i] \in RawItems
  BY <1>1, EntriesAre
<1>4. \A e \in RawItems : /\ normalize_extension(e, TRUE).id = normalize_tls_grease(e.id)
                          /\ normalize_tls_grease(e.id) \in Nat
  <2>1. \A e \in RawItems : e.id \in Nat
    BY DEF RawItems
  <2> QED BY <2>1, GreaseIs DEF normalize_extension, normalize_tls_grease
<1> DEFINE Made == {normalize_extension(e, TRUE) : e \in RawItems}
<1>5. x \in Seq(Made) /\ DOMAIN x = 1..Len(s) /\ \A y \in Made : y.id \in Nat
  <2>1. x \in [1..Len(s) -> Made]
    BY <1>3
  <2>2. \A y \in Made : y.id \in Nat
    BY <1>4
  <2> HIDE DEF x, Made
  <2> QED BY <1>3, <2>1, <2>2, ListOf
<1>6. o = [i \in 1..Len(s) |-> normalize_tls_grease(s[i].id)]
  BY <1>3 DEF ExtensionOrder
<1>7. \A i \in 1..Len(s) : x[i].id = o[i] /\ o[i] \in Nat
  BY <1>3, <1>4, <1>6
<1> HIDE DEF x, o, Made
<1>8. PICK i \in 1..Len(s) : x[i].id = 57
  <2>1. ToSet(SortedById(x)) = ToSet(x)
    BY <1>5, SortedItems
  <2>2. \E y \in ToSet(x) : y.id = 57
    BY <1>2, <2>1 DEF Present
  <2> QED BY <1>5, <2>2 DEF ToSet
<1> DEFINE P == {j \in DOMAIN o : o[j] \notin {GREASE, 21}}
<1>9. Native(o) = At(o, P)
  BY DEF Native
<1>10. i \in P /\ P \in SUBSET DOMAIN o
  <2>1. i \in DOMAIN o
    BY <1>6, <1>8
  <2>2. o[i] = 57
    BY <1>7, <1>8
  <2> QED BY <2>1, <2>2 DEF GREASE
<1>11. o \in Seq(Nat) /\ Len(o) = Len(s) /\ DOMAIN o = 1..Len(s)
  <2>1. o \in [1..Len(s) -> Nat]
    BY <1>6, <1>7
  <2> QED BY <1>3, <2>1, ListOf
<1> HIDE DEF P
<1>12. Len(At(o, P)) = Cardinality(P) /\ Cardinality(P) \in Nat
  BY <1>10, <1>11, SublistIs
<1>13. Cardinality(P) # 0
  <2>1. P \in SUBSET (1..Len(s))
    BY <1>10, <1>11
  <2>2. IsFiniteSet(P)
    BY <1>3, <2>1, InPlace
  <2> QED BY <1>10, <2>2, FS_EmptySet
<1>14. Len(None) = 0
  BY DEF None
<1> QED BY <1>9, <1>12, <1>13, <1>14 DEF o

\* Parameters that are sent in a fixed order are all there, in that order.
LEMMA ParametersInOrder ==
    ASSUME NEW h \in SoundHellos, NEW quic,
           quic.parameters = NormalizeHello(h, TRUE).parameters,
           quic.parameter_order.mode = "fixed",
           quic.parameter_order.observed[1] = ParameterOrder(h)
    PROVE  Ids(transport_parameters(quic)) = ParameterOrder(h)
<1> DEFINE p == normalize_transport_parameters(h.parameters)
           last == Lasting(h.parameters)
           all == ParameterOrder(h)
           Q == quic.parameters
<1>1. /\ last = Stable(h.parameters) /\ last \in Seq(RawItems)
      /\ Len(last) \in Nat /\ DOMAIN last = 1..Len(last)
      /\ \A i \in 1..Len(last) : last[i] \in RawItems
  <2>1. h.parameters \in Seq(RawItems)
    BY DEF SoundHellos, RawHellos
  <2>2. last = Stable(h.parameters) /\ last \in Seq(RawItems)
    BY <2>1, LastingIs
  <2> HIDE DEF last
  <2> QED BY <2>2, EntriesAre
<1>2. Q = SortedById(p)
  BY DEF NormalizeHello
<1>3. p = [i \in 1..Len(last) |-> normalize_parameter(last[i])]
  BY <1>1 DEF normalize_transport_parameters
<1>4. all = [i \in 1..Len(last) |->
               IF IsGreaseParameter(last[i].id) THEN GREASE ELSE last[i].id]
  BY <1>1 DEF ParameterOrder
<1> DEFINE Made == {normalize_parameter(e) : e \in RawItems}
<1>5. \A e \in RawItems :
         /\ normalize_parameter(e).id = IF IsGreaseParameter(e.id) THEN GREASE ELSE e.id
         /\ normalize_parameter(e).id \in Nat
  <2>1. \A e \in RawItems : e.id \in Nat
    BY DEF RawItems
  <2> QED BY <2>1, GreaseIs DEF normalize_parameter
<1> HIDE DEF last, p, all, Q
<1>6. \A i \in 1..Len(last) : p[i].id = all[i] /\ all[i] \in Nat
  BY <1>1, <1>3, <1>4, <1>5
<1>7. p \in Seq(Made) /\ DOMAIN p = 1..Len(last) /\ \A y \in Made : y.id \in Nat
  <2>1. p \in [1..Len(last) -> Made]
    BY <1>1, <1>3
  <2>2. \A y \in Made : y.id \in Nat
    BY <1>5
  <2> HIDE DEF Made
  <2> QED BY <1>1, <2>1, <2>2, ListOf
<1> HIDE DEF Made
<1>8. ToSet(Q) = ToSet(p)
  BY <1>2, <1>7, SortedItems
<1>9. \A i \in 1..Len(last) : Present(Q, all[i]) /\ Find(Q, all[i]).id = all[i]
  <2>1. ASSUME NEW i \in 1..Len(last) PROVE \E y \in ToSet(Q) : y.id = all[i]
    BY <1>6, <1>7, <1>8 DEF ToSet
  <2> QED BY <2>1 DEF Present, Find
<1>10. all \in Seq(Nat) /\ DOMAIN all = 1..Len(last)
  <2>1. all \in [1..Len(last) -> Nat]
    BY <1>4, <1>6
  <2> QED BY <1>1, <2>1, ListOf
<1>11. At(all, {i \in DOMAIN all : Present(Q, all[i])}) = all
  <2>1. {i \in DOMAIN all : Present(Q, all[i])} = DOMAIN all
    BY <1>9, <1>10
  <2> QED BY <1>10, <2>1, NoneAndAll
<1>12. transport_parameters(quic) = [i \in DOMAIN all |-> Find(Q, all[i])]
  <2>1. transport_parameters(quic)
        = LET order == At(all, {i \in DOMAIN all : Present(Q, all[i])})
          IN  [i \in DOMAIN order |-> Find(Q, order[i])]
    BY DEF transport_parameters, fixed_order, all, Q
  <2> QED BY <1>11, <2>1
<1>13. Ids(transport_parameters(quic)) = [i \in 1..Len(last) |-> all[i]]
  BY <1>9, <1>10, <1>12 DEF Ids
<1>14. Ids(transport_parameters(quic)) = all
  BY <1>4, <1>13
<1> QED BY <1>14 DEF all

LEMMA TcpOptionsAre ==
    ASSUME NEW t, NEW h
    PROVE  /\ TcpOptions(t, h).tls_permute_extensions <=> t.extension_order.mode = "permuted"
           /\ TcpOptions(t, h).tls_extension_order = ExplicitOrder(t.extension_order)
<1>1. TcpOptions(t, h).tls_permute_extensions = (t.extension_order.mode = "permuted")
  BY DEF TcpOptions
<1>2. TcpOptions(t, h).tls_extension_order = ExplicitOrder(t.extension_order)
  BY DEF TcpOptions
<1> QED BY <1>1, <1>2

\* The order of a candidate is what its samples say.
THEOREM PolicyCorrect == Spec => []OrderPolicy
<1>1. ASSUME IInv PROVE OrderPolicy
  <2> DEFINE f == build_profile(Normals(samples)).fingerprint
             tcp == options[1].tcp  quic == options[1].http3[1]
             wire == TcpOrders(samples)  h3 == QuicOrders(samples)
             sent == ParameterOrders(samples)
  <2>1. SUFFICES ASSUME phase = "compiled"
        PROVE  /\ IF tcp.tls_permute_extensions THEN Cardinality(wire) > 1
                  ELSE \A o \in wire : Native(o) = tcp.tls_extension_order
               /\ IncludeHttp3 =>
                     /\ IF quic.http3_tls_extension_order = None
                        THEN Cardinality(h3) > 1 /\ tcp.tls_permute_extensions
                        ELSE \A o \in h3 : Native(o) = quic.http3_tls_extension_order
                     /\ IF tcp.tls_permute_extensions THEN Cardinality(sent) > 1
                        ELSE \A o \in sent : o = Ids(quic.quic_transport_parameters)
    BY DEF OrderPolicy
  <2>2. /\ samples \in Seq(Takings) /\ Len(samples) >= 2 /\ Len(samples) \in Nat
        /\ build_profile(Normals(samples)).variant_count = 1
        /\ bundle[1].profile = build_profile(Normals(samples))
        /\ Representable(harvester, f)
        /\ options = <<Options(f)>>
    <3>1. Len(samples) \in Nat /\ Len(samples) >= 3
      BY <1>1, <2>1, Facts, BundleOfOne
    <3> QED BY <1>1, <2>1, <3>1, BundleOfOne
  <2>3. 1 \in DOMAIN samples /\ samples[1] \in Takings
    BY <2>2
  <2>4. /\ f.tcp.extension_order = order_observation(TcpSeen(samples))
        /\ f.quic.extension_order = order_observation(QuicSeen(samples))
        /\ f.quic.parameter_order = order_observation(ParameterSeen(samples))
        /\ f.quic.extensions = NormalizeHello(samples[1].quic, TRUE).extensions
        /\ f.quic.parameters = NormalizeHello(samples[1].quic, TRUE).parameters
    BY <2>2, FieldsOfProfile
  <2> HIDE DEF f
  <2>5. /\ tcp.tls_permute_extensions <=> f.tcp.extension_order.mode = "permuted"
        /\ tcp.tls_extension_order = ExplicitOrder(f.tcp.extension_order)
    <3>1. tcp = TcpOptions(f.tcp, f.http2)
      BY <2>2 DEF Options
    <3> QED BY <3>1, TcpOptionsAre
  <2>6. /\ wire = ToSet(TcpSeen(samples)) /\ h3 = ToSet(QuicSeen(samples))
        /\ sent = ToSet(ParameterSeen(samples))
        /\ TcpSeen(samples) \in Seq(ToSet(TcpSeen(samples)))
        /\ Len(TcpSeen(samples)) = Len(samples)
        /\ QuicSeen(samples) \in Seq(ToSet(QuicSeen(samples)))
        /\ Len(QuicSeen(samples)) = Len(samples)
        /\ ParameterSeen(samples) \in Seq(ToSet(ParameterSeen(samples)))
        /\ Len(ParameterSeen(samples)) = Len(samples)
    BY <2>2, SeenAre
  <2>7. /\ f.tcp.extension_order.mode = "permuted" <=> Cardinality(wire) > 1
        /\ f.tcp.extension_order.mode # "permuted" =>
              /\ ExplicitOrder(f.tcp.extension_order) = Native(TcpSeen(samples)[1])
              /\ wire = {TcpSeen(samples)[1]}
    BY <2>2, <2>4, <2>6, ExplicitOrderIs
  <2> HIDE DEF tcp, quic, wire, h3, sent
  <2>8. IF tcp.tls_permute_extensions THEN Cardinality(wire) > 1
        ELSE \A o \in wire : Native(o) = tcp.tls_extension_order
    BY <2>5, <2>7
  <2>9. ASSUME IncludeHttp3
        PROVE  /\ IF quic.http3_tls_extension_order = None
                  THEN Cardinality(h3) > 1 /\ tcp.tls_permute_extensions
                  ELSE \A o \in h3 : Native(o) = quic.http3_tls_extension_order
               /\ IF tcp.tls_permute_extensions THEN Cardinality(sent) > 1
                  ELSE \A o \in sent : o = Ids(quic.quic_transport_parameters)
    <3>1. f.protocol = "http3"
      BY <2>2, <2>9 DEF IncludeHttp3, f
    <3>2. /\ quic.http3_tls_extension_order = ExplicitOrder(f.quic.extension_order)
          /\ quic.quic_transport_parameters = transport_parameters(f.quic)
      <4>1. quic = Http3Options(f.quic, f.http3)
        BY <2>2, <3>1 DEF Options, quic
      <4> QED BY <4>1 DEF Http3Options
    <3>3. /\ f.quic.extension_order.mode = "permuted" => f.tcp.extension_order.mode = "permuted"
          /\ f.quic.parameter_order.mode = f.tcp.extension_order.mode
          /\ Present(f.quic.extensions, 57)
          /\ f.quic.parameter_order.mode \in {"fixed", "permuted"}
      BY <2>2, <3>1 DEF Representable, NoProtocolOrderGaps, NoHttp3Gaps, Known
    <3>4. /\ f.quic.extension_order.mode = "permuted" <=> Cardinality(h3) > 1
          /\ f.quic.extension_order.mode # "permuted" =>
                /\ ExplicitOrder(f.quic.extension_order) = Native(QuicSeen(samples)[1])
                /\ h3 = {QuicSeen(samples)[1]}
      BY <2>2, <2>4, <2>6, ExplicitOrderIs
    <3>5. /\ f.quic.parameter_order.observed[1] = ParameterSeen(samples)[1]
          /\ f.quic.parameter_order.mode = "permuted" <=> Cardinality(sent) > 1
          /\ f.quic.parameter_order.mode = "fixed" => sent = {ParameterSeen(samples)[1]}
      <4>1. 1 \in 1..Len(samples)
        BY <2>2
      <4> QED BY <2>2, <2>4, <2>6, <4>1, ObservationIs
    <3>6. /\ QuicSeen(samples)[1] = ExtensionOrder(samples[1].quic)
          /\ ParameterSeen(samples)[1] = ParameterOrder(samples[1].quic)
          /\ samples[1].quic \in SoundHellos
      BY <2>3, TakingsAre DEF QuicSeen, ParameterSeen
    <3>7. Native(QuicSeen(samples)[1]) # None
      BY <2>4, <3>3, <3>6, ExplicitIsThere
    <3>8. ExplicitOrder(f.quic.extension_order) = None
             <=> f.quic.extension_order.mode = "permuted"
      BY <3>4, <3>7 DEF ExplicitOrder
    <3>9. IF quic.http3_tls_extension_order = None
          THEN Cardinality(h3) > 1 /\ tcp.tls_permute_extensions
          ELSE \A o \in h3 : Native(o) = quic.http3_tls_extension_order
      BY <2>5, <3>2, <3>3, <3>4, <3>8
    <3>10. IF tcp.tls_permute_extensions THEN Cardinality(sent) > 1
           ELSE \A o \in sent : o = Ids(quic.quic_transport_parameters)
      <4>1. CASE f.quic.parameter_order.mode = "permuted"
        BY <2>5, <3>3, <3>5, <4>1
      <4>2. CASE f.quic.parameter_order.mode = "fixed"
        <5>1. Ids(transport_parameters(f.quic)) = ParameterOrder(samples[1].quic)
          BY <2>4, <3>5, <3>6, <4>2, ParametersInOrder
        <5> QED BY <2>5, <3>2, <3>3, <3>5, <3>6, <4>2, <5>1
      <4> QED BY <3>3, <4>1, <4>2
    <3> QED BY <3>9, <3>10
  <2> QED BY <2>8, <2>9 DEF tcp, quic, wire, h3, sent
<1> QED BY <1>1, Invariance, PTL

-----------------------------------------------------------------------------
(***************************************************************************)
(* Sorting again: of two lists that are each other rearranged, sorting     *)
(* makes one.                                                              *)
(***************************************************************************)

\* Lists with as many entries of each class are each other rearranged.
Partner(c, s, t) ==
    [i \in 1..Len(s) |->
        Nth(OfClass(c, t, s[i]), Cardinality({j \in OfClass(c, s, s[i]) : j <= i}))]

LEMMA PartnerIs ==
    ASSUME NEW D, NEW c, NEW s \in Seq(D), NEW t \in Seq(D), Like(c, s, t)
    PROVE  /\ \A i \in 1..Len(s) : /\ Partner(c, s, t)[i] \in 1..Len(t)
                                   /\ c[t[Partner(c, s, t)[i]]] = c[s[i]]
           /\ \A i, j \in 1..Len(s) : Partner(c, s, t)[i] = Partner(c, s, t)[j] => i = j
<1> DEFINE p == Partner(c, s, t)
           A(i) == OfClass(c, s, s[i])  B(i) == OfClass(c, t, s[i])
           r(i) == Cardinality({j \in A(i) : j <= i})
<1>1. /\ Len(s) \in Nat /\ DOMAIN s = 1..Len(s) /\ Len(t) \in Nat /\ DOMAIN t = 1..Len(t)
      /\ \A i \in DOMAIN s : s[i] \in ToSet(s)
  BY EntriesAre
<1>2. \A i \in 1..Len(s) : p[i] = Nth(B(i), r(i))
  BY DEF Partner
<1> HIDE DEF p
<1>3. ASSUME NEW i \in 1..Len(s)
      PROVE  /\ A(i) \in SUBSET (1..Len(s)) /\ B(i) \in SUBSET (1..Len(t)) /\ i \in A(i)
             /\ Cardinality(A(i)) = Cardinality(B(i))
  BY <1>1 DEF OfClass, Like
<1>4. ASSUME NEW i \in 1..Len(s) PROVE r(i) \in 1..Cardinality(B(i))
  <2> DEFINE P == A(i)
  <2>1. P \in SUBSET (1..Len(s)) /\ i \in P /\ Cardinality(P) = Cardinality(B(i))
    BY <1>3
  <2>2. r(i) = Cardinality({j \in P : j <= i})
    OBVIOUS
  <2> HIDE DEF P, r, B
  <2> QED BY <1>1, <2>1, <2>2, PlacesAreNumbered
<1>5. ASSUME NEW i \in 1..Len(s) PROVE p[i] \in B(i)
  <2> DEFINE P == B(i)
  <2>1. /\ P \in SUBSET (1..Len(t)) /\ r(i) \in 1..Cardinality(P) /\ p[i] = Nth(P, r(i))
        /\ Len(t) \in Nat
    BY <1>1, <1>2, <1>3, <1>4
  <2> HIDE DEF P, r
  <2>2. \A k \in 1..Cardinality(P) : Nth(P, k) \in P
    BY <2>1, InPlace
  <2>3. p[i] \in P
    BY <2>1, <2>2
  <2> QED BY <2>3 DEF P
<1>6. \A i \in 1..Len(s) : p[i] \in 1..Len(t) /\ c[t[p[i]]] = c[s[i]]
  BY <1>1, <1>5 DEF OfClass
<1>7. ASSUME NEW i \in 1..Len(s), NEW j \in 1..Len(s), p[i] = p[j], i < j PROVE FALSE
  <2>1. c[s[i]] = c[s[j]]
    BY <1>6, <1>7
  <2>2. A(j) = A(i) /\ B(j) = B(i)
    BY <2>1 DEF OfClass
  <2> DEFINE P == A(i)  Q == B(i)
  <2>3. /\ P \in SUBSET (1..Len(s)) /\ i \in P /\ j \in P
        /\ r(i) = Cardinality({k \in P : k <= i}) /\ r(j) = Cardinality({k \in P : k <= j})
        /\ Q \in SUBSET (1..Len(t)) /\ r(i) \in 1..Cardinality(Q) /\ r(j) \in 1..Cardinality(Q)
        /\ p[i] = Nth(Q, r(i)) /\ p[j] = Nth(Q, r(j))
    BY <1>2, <1>3, <1>4, <2>2
  <2> HIDE DEF P, Q, r
  <2>4. r(i) < r(j)
    BY <1>1, <1>7, <2>3, PlacesAreNumbered
  <2>5. Nth(Q, r(i)) < Nth(Q, r(j))
    BY <1>1, <2>3, <2>4, InPlace
  <2>6. p[i] < p[j]
    BY <2>3, <2>5
  <2>7. p[i] \in 1..Len(t) /\ p[i] = p[j]
    BY <1>6, <1>7
  <2> QED BY <1>1, <2>6, <2>7
<1>8. \A i, j \in 1..Len(s) : p[i] = p[j] => i = j
  <2>1. ASSUME NEW i \in 1..Len(s), NEW j \in 1..Len(s), p[i] = p[j] PROVE i = j
    <3>1. ~(i < j) /\ ~(j < i)
      BY <1>7, <2>1
    <3> QED BY <3>1
  <2> QED BY <2>1
<1> QED BY <1>6, <1>8 DEF p

\* One to one into a list: it is no shorter.
LEMMA NoShorter ==
    ASSUME NEW m \in Nat, NEW n \in Nat, NEW p,
           \A i \in 1..m : p[i] \in 1..n, \A i, j \in 1..m : p[i] = p[j] => i = j
    PROVE  m <= n
<1> DEFINE f == [i \in 1..m |-> p[i]]
<1>1. f \in [1..m -> 1..n] /\ \A i, j \in 1..m : f[i] = f[j] => i = j
  OBVIOUS
<1>2. /\ IsFiniteSet(1..m) /\ Cardinality(1..m) = m
      /\ IsFiniteSet(1..n) /\ Cardinality(1..n) = n
  <2>1. IsFiniteSet(1..m) /\ Cardinality(1..m) = m
    BY AllPlaces, FS_Interval
  <2>2. IsFiniteSet(1..n) /\ Cardinality(1..n) = n
    BY AllPlaces, FS_Interval
  <2> QED BY <2>1, <2>2
<1> HIDE DEF f
<1>3. ~(Cardinality(1..n) < Cardinality(1..m))
  BY <1>1, <1>2, FS_PigeonHole
<1> QED BY <1>2, <1>3

LEMMA LikeIsNoShorter ==
    ASSUME NEW D, NEW c, NEW s \in Seq(D), NEW t \in Seq(D), Like(c, s, t)
    PROVE  Len(s) <= Len(t)
<1> DEFINE p == Partner(c, s, t)
<1>1. Len(s) \in Nat /\ Len(t) \in Nat
  OBVIOUS
<1>2. /\ \A i \in 1..Len(s) : p[i] \in 1..Len(t) /\ c[t[p[i]]] = c[s[i]]
      /\ \A i, j \in 1..Len(s) : p[i] = p[j] => i = j
  BY PartnerIs
<1> HIDE DEF p
<1>3. \A i \in 1..Len(s) : p[i] \in 1..Len(t)
  BY <1>2
<1> QED BY <1>1, <1>2, <1>3, NoShorter

LEMMA LikeIsPermuted ==
    ASSUME NEW D, NEW c, NEW s \in Seq(D), NEW t \in Seq(D), Like(c, s, t)
    PROVE  /\ Len(s) = Len(t)
           /\ \E p : Permutes(p, Len(s)) /\ \A i \in 1..Len(s) : c[s[i]] = c[t[p[i]]]
<1> DEFINE p == Partner(c, s, t)
<1>1. Len(s) \in Nat /\ Len(t) \in Nat
  OBVIOUS
<1>2. Len(s) = Len(t)
  <2>1. Like(c, t, s)
    BY LikeIsEquivalence
  <2>2. Len(s) <= Len(t)
    BY LikeIsNoShorter
  <2>3. Len(t) <= Len(s)
    BY <2>1, LikeIsNoShorter
  <2> QED BY <1>1, <2>2, <2>3
<1>3. /\ \A i \in 1..Len(s) : p[i] \in 1..Len(t) /\ c[t[p[i]]] = c[s[i]]
      /\ \A i, j \in 1..Len(s) : p[i] = p[j] => i = j
  BY PartnerIs
<1>4. p \in [1..Len(s) -> 1..Len(t)]
  <2>1. p = [i \in 1..Len(s) |-> p[i]]
    BY DEF Partner
  <2> HIDE DEF p
  <2> QED BY <1>3, <2>1
<1> HIDE DEF p
<1>5. Permutes(p, Len(s))
  BY <1>1, <1>2, <1>3, <1>4, OneToOne
<1> QED BY <1>2, <1>3, <1>5


\* The places of the keys that come before v, and of those v does not come before.
Below(keys, v) == {i \in DOMAIN keys : Before(keys[i], v)}
UpTo(keys, v)  == {i \in DOMAIN keys : ~Before(v, keys[i])}

\* Where sorting puts a key, counted.
LEMMA PlaceOfKey ==
    ASSUME NEW keys \in Seq(Nat), NEW m \in 1..Len(keys)
    PROVE  LET v == keys[SortOrder(keys)[m]]
           IN  /\ v \in Nat /\ Cardinality(Below(keys, v)) < m
               /\ m <= Cardinality(UpTo(keys, v))
<1> DEFINE n == Len(keys)  i == SortOrder(keys)[m]  v == keys[i]  P == NoLater(keys, i)
<1>1. n \in Nat /\ DOMAIN keys = 1..n /\ m \in 1..n /\ \A j \in 1..n : keys[j] \in Nat
  OBVIOUS
<1>2. i \in 1..n /\ Cardinality(P) = m
  <2>1. Permutes(SortOrder(keys), n) /\ \A k \in 1..n : Cardinality(NoLater(keys, SortOrder(keys)[k])) = k
    BY SortOrderPermutes
  <2> QED BY <1>1, <2>1 DEF Permutes
<1>3. /\ P \in SUBSET (1..n) /\ i \in P
      /\ Below(keys, v) \in SUBSET (P \ {i}) /\ P \in SUBSET UpTo(keys, v)
      /\ UpTo(keys, v) \in SUBSET (1..n)
  BY <1>1, <1>2 DEF NoLater, Below, UpTo, Before
<1>4. IsFiniteSet(1..n)
  BY <1>1, FS_Interval
<1> HIDE DEF P
<1>5. IsFiniteSet(P) /\ IsFiniteSet(UpTo(keys, v)) /\ IsFiniteSet(P \ {i})
  BY <1>3, <1>4, FS_Subset
<1>6. Cardinality(P \ {i}) = m - 1
  BY <1>2, <1>3, <1>5, FS_RemoveElement
<1>7. /\ Cardinality(Below(keys, v)) <= m - 1 /\ Cardinality(Below(keys, v)) \in Nat
  BY <1>3, <1>5, <1>6, FS_Subset, FS_CardinalityType
<1>8. m <= Cardinality(UpTo(keys, v))
  BY <1>2, <1>3, <1>5, FS_Subset
<1> QED BY <1>1, <1>2, <1>7, <1>8

LEMMA AsManyBelow ==
    ASSUME NEW S, NEW k \in Seq(S), NEW l \in Seq(S), Len(k) = Len(l),
           NEW p, Permutes(p, Len(k)), \A i \in 1..Len(k) : k[i] = l[p[i]], NEW x
    PROVE  Cardinality(Below(k, x)) = Cardinality(Below(l, x))
<1>1. /\ Len(k) \in Nat
      /\ Below(k, x) \in SUBSET (1..Len(k)) /\ Below(l, x) \in SUBSET (1..Len(k))
  BY DEF Below
<1>2. \A i \in 1..Len(k) : i \in Below(k, x) <=> p[i] \in Below(l, x)
  <2>1. DOMAIN k = 1..Len(k) /\ DOMAIN l = 1..Len(k)
    OBVIOUS
  <2>2. p \in [1..Len(k) -> 1..Len(k)]
    BY DEF Permutes
  <2>3. \A i \in 1..Len(k) : p[i] \in 1..Len(k)
    BY <2>2
  <2> QED BY <2>1, <2>3 DEF Below
<1> QED BY <1>1, <1>2, SameCount

\* Of two lists of keys that are each other rearranged, the sorted ones are the same.
LEMMA KeysInOrder ==
    ASSUME NEW k \in Seq(Nat), NEW l \in Seq(Nat), Len(k) = Len(l),
           NEW p, Permutes(p, Len(k)), \A i \in 1..Len(k) : k[i] = l[p[i]],
           NEW m \in 1..Len(k)
    PROVE  k[SortOrder(k)[m]] = l[SortOrder(l)[m]]
<1> DEFINE n == Len(k)  v == k[SortOrder(k)[m]]  w == l[SortOrder(l)[m]]
<1>1. /\ n \in Nat /\ DOMAIN k = 1..n /\ DOMAIN l = 1..n /\ m \in 1..n
      /\ \A i \in 1..n : k[i] \in Nat /\ l[i] \in Nat
  OBVIOUS
<1>2. /\ v \in Nat /\ Cardinality(Below(k, v)) < m /\ m <= Cardinality(UpTo(k, v))
      /\ w \in Nat /\ Cardinality(Below(l, w)) < m /\ m <= Cardinality(UpTo(l, w))
  BY PlaceOfKey
<1> HIDE DEF v, w
<1>3. ASSUME NEW x
      PROVE  /\ Below(k, x) \in SUBSET (1..n) /\ Below(l, x) \in SUBSET (1..n)
             /\ UpTo(k, x) \in SUBSET (1..n) /\ UpTo(l, x) \in SUBSET (1..n)
  BY <1>1 DEF Below, UpTo
<1>4. \A x : Cardinality(Below(k, x)) = Cardinality(Below(l, x))
  BY AsManyBelow
<1>5. ASSUME NEW x \in Nat, NEW y \in Nat, Before(x, y)
      PROVE  /\ UpTo(k, x) \in SUBSET Below(k, y)
             /\ UpTo(l, x) \in SUBSET Below(l, y)
  BY <1>1, <1>5 DEF Below, UpTo, Before
<1>6. ASSUME NEW x
      PROVE  /\ IsFiniteSet(Below(k, x)) /\ Cardinality(Below(k, x)) \in Nat
             /\ IsFiniteSet(Below(l, x)) /\ Cardinality(Below(l, x)) \in Nat
  BY <1>1, <1>3, PlacesAreNumbered
<1>7. ~Before(v, w)
  <2> SUFFICES ASSUME Before(v, w) PROVE FALSE
    OBVIOUS
  <2>1. UpTo(k, v) \in SUBSET Below(k, w)
    BY <1>2, <1>5
  <2>2. Cardinality(UpTo(k, v)) <= Cardinality(Below(k, w)) /\ Cardinality(UpTo(k, v)) \in Nat
    BY <1>6, <2>1, FS_Subset, FS_CardinalityType
  <2>3. Cardinality(Below(k, w)) = Cardinality(Below(l, w))
    BY <1>4
  <2> QED BY <1>1, <1>2, <1>6, <2>2, <2>3
<1>8. ~Before(w, v)
  <2> SUFFICES ASSUME Before(w, v) PROVE FALSE
    OBVIOUS
  <2>1. UpTo(l, w) \in SUBSET Below(l, v)
    BY <1>2, <1>5
  <2>2. Cardinality(UpTo(l, w)) <= Cardinality(Below(l, v)) /\ Cardinality(UpTo(l, w)) \in Nat
    BY <1>6, <2>1, FS_Subset, FS_CardinalityType
  <2>3. Cardinality(Below(k, v)) = Cardinality(Below(l, v))
    BY <1>4
  <2> QED BY <1>1, <1>2, <1>6, <2>2, <2>3
<1>9. v = w
  BY <1>2, <1>7, <1>8 DEF Before
<1> QED BY <1>9 DEF v, w

\* Lists that are each other rearranged are sorted to one, if what has one key is one.
LEMMA SortedTogether ==
    ASSUME NEW S, NEW a \in Seq(S), NEW b \in Seq(S), NEW k \in Seq(Nat), NEW l \in Seq(Nat),
           Len(k) = Len(a), Len(l) = Len(a), Len(b) = Len(a), NEW p, Permutes(p, Len(a)),
           \A i \in 1..Len(a) : k[i] = l[p[i]] /\ a[i] = b[p[i]],
           \A i, j \in 1..Len(a) : l[i] = l[j] => b[i] = b[j]
    PROVE  Arranged(a, k) = Arranged(b, l)
<1> DEFINE n == Len(a)  f == SortOrder(k)  g == SortOrder(l)
<1>1. n \in Nat /\ DOMAIN a = 1..n /\ DOMAIN b = 1..n
  OBVIOUS
<1>2. /\ Arranged(a, k) = [m \in 1..n |-> a[f[m]]]
      /\ Arranged(b, l) = [m \in 1..n |-> b[g[m]]]
  BY <1>1 DEF Arranged
<1>3. Permutes(f, n) /\ Permutes(g, n)
  BY SortOrderPermutes
<1>4. \A m \in 1..n : k[f[m]] = l[g[m]]
  <2>1. Len(k) = Len(l) /\ Permutes(p, Len(k)) /\ \A i \in 1..Len(k) : k[i] = l[p[i]]
    OBVIOUS
  <2>2. \A m \in 1..Len(k) : k[SortOrder(k)[m]] = l[SortOrder(l)[m]]
    BY <2>1, KeysInOrder
  <2> QED BY <2>2
<1> HIDE DEF f, g
<1>5. ASSUME NEW m \in 1..n PROVE a[f[m]] = b[g[m]]
  <2>1. f[m] \in 1..n /\ g[m] \in 1..n /\ p[f[m]] \in 1..n
    BY <1>3 DEF Permutes
  <2>2. l[p[f[m]]] = l[g[m]] /\ a[f[m]] = b[p[f[m]]]
    BY <1>4, <2>1
  <2> QED BY <2>1, <2>2
<1> QED BY <1>2, <1>5

\* Values that are rearranged are sorted to one list.
LEMMA SortedValuesAgain ==
    ASSUME NEW s \in Seq(Nat), NEW t \in Seq(Nat)
    PROVE  /\ SameAnchors(s, t) => Sorted(s) = Sorted(t)
           /\ SameVersions(s, t) => Sorted(NormalizeAll(s)) = Sorted(NormalizeAll(t))
<1>1. /\ Len(s) \in Nat /\ DOMAIN s = 1..Len(s) /\ \A i \in 1..Len(s) : s[i] \in Nat
      /\ Len(t) \in Nat /\ DOMAIN t = 1..Len(t) /\ \A i \in 1..Len(t) : t[i] \in Nat
  OBVIOUS
<1>2. ASSUME SameAnchors(s, t) PROVE Sorted(s) = Sorted(t)
  <2>1. Like(Itself, s, t)
    BY <1>2, RearrangedIs
  <2>2. Len(s) = Len(t)
    BY <2>1, LikeIsPermuted
  <2>3. PICK p : Permutes(p, Len(s)) /\ \A i \in 1..Len(s) : Itself[s[i]] = Itself[t[p[i]]]
    BY <2>1, LikeIsPermuted
  <2>4. \A i \in 1..Len(s) : s[i] = t[p[i]]
    <3>1. \A i \in 1..Len(s) : p[i] \in 1..Len(s)
      <4>1. p \in [1..Len(s) -> 1..Len(s)]
        BY <2>3 DEF Permutes
      <4> QED BY <4>1
    <3> QED BY <1>1, <2>2, <2>3, <3>1 DEF Itself
  <2>5. Arranged(s, s) = Arranged(t, t)
    BY <2>2, <2>3, <2>4, SortedTogether
  <2> QED BY <2>5 DEF Sorted
<1>3. ASSUME SameVersions(s, t) PROVE Sorted(NormalizeAll(s)) = Sorted(NormalizeAll(t))
  <2> DEFINE a == NormalizeAll(s)  b == NormalizeAll(t)
  <2>1. Like(Drawn, s, t)
    BY <1>3, RearrangedIs
  <2>2. Len(s) = Len(t)
    BY <2>1, LikeIsPermuted
  <2>3. PICK p : Permutes(p, Len(s)) /\ \A i \in 1..Len(s) : Drawn[s[i]] = Drawn[t[p[i]]]
    BY <2>1, LikeIsPermuted
  <2>4. /\ a \in [1..Len(s) -> Nat] /\ \A i \in 1..Len(s) : a[i] = Drawn[s[i]]
        /\ b \in [1..Len(t) -> Nat] /\ \A i \in 1..Len(t) : b[i] = Drawn[t[i]]
    BY <1>1, GreaseIs DEF NormalizeAll, normalize_tls_grease, Drawn
  <2> HIDE DEF a, b
  <2>5. a \in Seq(Nat) /\ b \in Seq(Nat) /\ Len(a) = Len(s) /\ Len(b) = Len(t)
    BY <1>1, <2>4, ListOf
  <2>6. \A i \in 1..Len(s) : a[i] = b[p[i]]
    <3>1. \A i \in 1..Len(s) : p[i] \in 1..Len(s)
      <4>1. p \in [1..Len(s) -> 1..Len(s)]
        BY <2>3 DEF Permutes
      <4> QED BY <4>1
    <3> QED BY <2>2, <2>3, <2>4, <3>1
  <2>7. Len(a) = Len(b) /\ Permutes(p, Len(a)) /\ \A i \in 1..Len(a) : a[i] = b[p[i]]
    BY <2>2, <2>3, <2>5, <2>6
  <2>8. Arranged(a, a) = Arranged(b, b)
    BY <2>5, <2>7, SortedTogether
  <2> QED BY <2>8 DEF Sorted, a, b
<1> QED BY <1>2, <1>3

-----------------------------------------------------------------------------
(***************************************************************************)
(* What normalising loses: samples that are alike have one stable view.    *)
(***************************************************************************)

LEMMA ExtensionAgain ==
    ASSUME NEW quic, NEW e \in RawItems, NEW f \in RawItems, SameExtension(e, f, quic)
    PROVE  normalize_extension(e, quic) = normalize_extension(f, quic)
<1>1. e.values \in Seq(Nat) /\ f.values \in Seq(Nat)
  BY DEF RawItems
<1>2. CASE {e.id, f.id} \subseteq GreaseCodepoints
  BY <1>2, GreaseIs DEF normalize_extension, normalize_tls_grease
<1>3. CASE ~ ({e.id, f.id} \subseteq GreaseCodepoints)
  <2>1. /\ e.id = f.id /\ normalize_tls_grease(e.id) = e.id
        /\ e.id = 51764 => SameAnchors(e.values, f.values)
        /\ \/ e.id = 51764 \/ (e.id = 65037 /\ ~quic) \/ SameList(e.values, f.values)
    BY <1>3 DEF SameExtension, normalize_tls_grease
  <2>2. e.id = 51764 => normalize_trust_anchors(e.values) = normalize_trust_anchors(f.values)
    BY <1>1, <2>1, SortedValuesAgain DEF normalize_trust_anchors
  <2>3. e.id = 51764 \/ (e.id = 65037 /\ ~quic) \/ NormalizeAll(e.values) = NormalizeAll(f.values)
    BY <1>1, <2>1, SameListIs
  <2> QED BY <2>1, <2>2, <2>3 DEF normalize_extension
<1> QED BY <1>2, <1>3

LEMMA ParameterAgain ==
    ASSUME NEW p \in RawItems, NEW q \in RawItems, SameParameter(p, q)
    PROVE  normalize_parameter(p) = normalize_parameter(q)
<1>1. p.values \in Seq(Nat) /\ q.values \in Seq(Nat)
  BY DEF RawItems
<1>2. CASE IsGreaseParameter(p.id) /\ IsGreaseParameter(q.id)
  BY <1>2 DEF normalize_parameter
<1>3. CASE ~ (IsGreaseParameter(p.id) /\ IsGreaseParameter(q.id))
  <2>1. /\ p.id = q.id
        /\ p.id = 17 => SameVersions(p.values, q.values)
        /\ p.id = 15 \/ p.id = 17 \/ p.values = q.values
    BY <1>3 DEF SameParameter
  <2>2. p.id = 17 => Sorted(NormalizeAll(p.values)) = Sorted(NormalizeAll(q.values))
    BY <1>1, <2>1, SortedValuesAgain
  <2> QED BY <2>1, <2>2 DEF normalize_parameter
<1> QED BY <1>2, <1>3

\* A list that holds no id twice, but for GREASE, is normalised to one that holds one
\* entry of each id.
LEMMA OnceIsOnce ==
    ASSUME NEW s \in Seq(RawItems), NEW i \in DOMAIN s, NEW j \in DOMAIN s, NEW quic
    PROVE  /\ /\ ExtensionsOnce(s)
              /\ normalize_extension(s[i], quic).id = normalize_extension(s[j], quic).id
              => normalize_extension(s[i], quic) = normalize_extension(s[j], quic)
           /\ /\ ParametersOnce(s) /\ s[i].id # GREASE /\ s[j].id # GREASE
              /\ normalize_parameter(s[i]).id = normalize_parameter(s[j]).id
              => normalize_parameter(s[i]) = normalize_parameter(s[j])
<1>1. s[i] \in RawItems /\ s[j] \in RawItems
  OBVIOUS
<1>2. ASSUME ExtensionsOnce(s),
             normalize_extension(s[i], quic).id = normalize_extension(s[j], quic).id
      PROVE  normalize_extension(s[i], quic) = normalize_extension(s[j], quic)
  <2>1. normalize_tls_grease(s[i].id) = normalize_tls_grease(s[j].id)
    BY <1>2 DEF normalize_extension
  <2>2. CASE s[i].id \in GreaseCodepoints /\ s[j].id \in GreaseCodepoints
    <3>1. SameExtension(s[i], s[j], quic)
      BY <2>2 DEF SameExtension
    <3> QED BY <1>1, <3>1, ExtensionAgain
  <2>3. CASE s[i].id = s[j].id /\ s[i].id \notin GreaseCodepoints
    <3>1. i = j
      BY <1>2, <2>3 DEF ExtensionsOnce
    <3> QED BY <3>1
  <2> QED BY <2>1, <2>2, <2>3, IdIs
<1>3. ASSUME ParametersOnce(s), s[i].id # GREASE, s[j].id # GREASE,
             normalize_parameter(s[i]).id = normalize_parameter(s[j]).id
      PROVE  normalize_parameter(s[i]) = normalize_parameter(s[j])
  <2>1. CASE IsGreaseParameter(s[i].id) /\ IsGreaseParameter(s[j].id)
    BY <2>1 DEF normalize_parameter
  <2>2. CASE ~ (IsGreaseParameter(s[i].id) /\ IsGreaseParameter(s[j].id))
    <3>1. s[i].id = s[j].id /\ ~IsGreaseParameter(s[i].id)
      BY <1>3, <2>2 DEF normalize_parameter
    <3>2. i = j
      BY <1>3, <3>1 DEF ParametersOnce
    <3> QED BY <3>2
  <2> QED BY <2>1, <2>2
<1> QED BY <1>2, <1>3

\* Items that are rearranged are sorted to one list, if there is one item of each id.
LEMMA ItemsTogether ==
    ASSUME NEW M, \A m \in M : m.id \in Nat, NEW a \in Seq(M), NEW b \in Seq(M),
           Len(b) = Len(a), NEW p, Permutes(p, Len(a)), \A i \in 1..Len(a) : a[i] = b[p[i]],
           \A i, j \in 1..Len(a) : b[i].id = b[j].id => b[i] = b[j]
    PROVE  SortedById(a) = SortedById(b)
<1> DEFINE n == Len(a)  k == Ids(a)  l == Ids(b)
<1>1. /\ n \in Nat /\ DOMAIN a = 1..n /\ DOMAIN b = 1..n
      /\ \A i \in 1..n : a[i] \in M /\ b[i] \in M
  OBVIOUS
<1>2. \A i \in 1..n : p[i] \in 1..n
  <2>1. p \in [1..n -> 1..n]
    BY DEF Permutes
  <2> QED BY <2>1
<1>3. /\ k \in [1..n -> Nat] /\ \A i \in 1..n : k[i] = a[i].id
      /\ l \in [1..n -> Nat] /\ \A i \in 1..n : l[i] = b[i].id
  BY <1>1 DEF Ids
<1>4. SortedById(a) = Arranged(a, k) /\ SortedById(b) = Arranged(b, l)
  BY DEF SortedById
<1> HIDE DEF k, l
<1>5. k \in Seq(Nat) /\ l \in Seq(Nat) /\ Len(k) = n /\ Len(l) = n
  BY <1>1, <1>3, ListOf
<1>6. \A i \in 1..n : k[i] = l[p[i]] /\ a[i] = b[p[i]]
  BY <1>2, <1>3
<1>7. \A i, j \in 1..n : l[i] = l[j] => b[i] = b[j]
  BY <1>3
<1>8. Arranged(a, k) = Arranged(b, l)
  BY <1>5, <1>6, <1>7, SortedTogether
<1> QED BY <1>4, <1>8

LEMMA ExtensionsAgain ==
    ASSUME NEW quic, NEW s \in Seq(RawItems), NEW t \in Seq(RawItems),
           ExtensionsOnce(t), SameExtensions(s, t, quic)
    PROVE  SortedById([i \in DOMAIN s |-> normalize_extension(s[i], quic)])
             = SortedById([i \in DOMAIN t |-> normalize_extension(t[i], quic)])
<1> DEFINE Made == {normalize_extension(e, quic) : e \in RawItems}
           a == [i \in DOMAIN s |-> normalize_extension(s[i], quic)]
           b == [i \in DOMAIN t |-> normalize_extension(t[i], quic)]
<1>1. /\ Len(s) \in Nat /\ DOMAIN s = 1..Len(s) /\ \A i \in DOMAIN s : s[i] \in RawItems
      /\ Len(t) \in Nat /\ DOMAIN t = 1..Len(t) /\ \A i \in DOMAIN t : t[i] \in RawItems
  BY EntriesAre
<1>2. Like(Kin(quic), s, t)
  BY ItemsRearranged
<1>3. Len(s) = Len(t)
  BY <1>2, LikeIsPermuted
<1>4. PICK p : /\ Permutes(p, Len(s))
               /\ \A i \in 1..Len(s) : Kin(quic)[s[i]] = Kin(quic)[t[p[i]]]
  BY <1>2, LikeIsPermuted
<1>5. \A i \in 1..Len(s) : p[i] \in 1..Len(s)
  <2>1. p \in [1..Len(s) -> 1..Len(s)]
    BY <1>4 DEF Permutes
  <2> QED BY <2>1
<1>6. /\ a \in [1..Len(s) -> Made] /\ \A i \in 1..Len(s) : a[i] = normalize_extension(s[i], quic)
      /\ b \in [1..Len(t) -> Made] /\ \A i \in 1..Len(t) : b[i] = normalize_extension(t[i], quic)
  BY <1>1
<1>7. \A m \in Made : m.id \in Nat
  <2>1. ASSUME NEW e \in RawItems PROVE normalize_extension(e, quic).id \in Nat
    <3>1. e.id \in Nat
      BY DEF RawItems
    <3> QED BY <3>1, GreaseIs DEF normalize_extension, normalize_tls_grease
  <2> QED BY <2>1
<1> HIDE DEF a, b, Made
<1>8. \A i \in 1..Len(s) : a[i] = b[p[i]]
  <2>1. ASSUME NEW i \in 1..Len(s) PROVE a[i] = b[p[i]]
    <3>1. s[i] \in RawItems /\ t[p[i]] \in RawItems
      BY <1>1, <1>3, <1>5
    <3>2. SameExtension(s[i], t[p[i]], quic)
      BY <1>4, <3>1, KinIs
    <3>3. normalize_extension(s[i], quic) = normalize_extension(t[p[i]], quic)
      BY <3>1, <3>2, ExtensionAgain
    <3> QED BY <1>3, <1>5, <1>6, <3>3
  <2> QED BY <2>1
<1>9. /\ a \in Seq(Made) /\ Len(a) = Len(s) /\ DOMAIN a = 1..Len(s)
      /\ b \in Seq(Made) /\ Len(b) = Len(s) /\ DOMAIN b = 1..Len(s)
  BY <1>1, <1>3, <1>6, ListOf
<1>10. \A i, j \in 1..Len(a) : b[i].id = b[j].id => b[i] = b[j]
  <2>1. ASSUME NEW i \in 1..Len(s), NEW j \in 1..Len(s), b[i].id = b[j].id PROVE b[i] = b[j]
    <3>1. /\ i \in DOMAIN t /\ j \in DOMAIN t
          /\ normalize_extension(t[i], quic).id = normalize_extension(t[j], quic).id
      BY <1>1, <1>3, <1>6, <2>1
    <3>2. normalize_extension(t[i], quic) = normalize_extension(t[j], quic)
      BY <3>1, OnceIsOnce
    <3> QED BY <1>3, <1>6, <3>2
  <2> QED BY <1>9, <2>1
<1>11. Len(b) = Len(a) /\ Permutes(p, Len(a)) /\ \A i \in 1..Len(a) : a[i] = b[p[i]]
  BY <1>4, <1>8, <1>9
<1>12. SortedById(a) = SortedById(b)
  BY <1>7, <1>9, <1>10, <1>11, ItemsTogether
<1> QED BY <1>12 DEF a, b

LEMMA ParametersAgain ==
    ASSUME NEW s \in Seq(RawItems), NEW t \in Seq(RawItems),
           \A q \in ToSet(t) : q.id # GREASE, ParametersOnce(t), SameParameters(s, t)
    PROVE  SortedById([i \in DOMAIN s |-> normalize_parameter(s[i])])
             = SortedById([i \in DOMAIN t |-> normalize_parameter(t[i])])
<1> DEFINE Made == {normalize_parameter(e) : e \in RawItems}
           a == [i \in DOMAIN s |-> normalize_parameter(s[i])]
           b == [i \in DOMAIN t |-> normalize_parameter(t[i])]
<1>1. /\ Len(s) \in Nat /\ DOMAIN s = 1..Len(s) /\ \A i \in DOMAIN s : s[i] \in RawItems
      /\ Len(t) \in Nat /\ DOMAIN t = 1..Len(t) /\ \A i \in DOMAIN t : t[i] \in RawItems
      /\ \A i \in DOMAIN t : t[i] \in ToSet(t)
  BY EntriesAre
<1>2. Like(Kind, s, t)
  BY ItemsRearranged
<1>3. Len(s) = Len(t)
  BY <1>2, LikeIsPermuted
<1>4. PICK p : /\ Permutes(p, Len(s))
               /\ \A i \in 1..Len(s) : Kind[s[i]] = Kind[t[p[i]]]
  BY <1>2, LikeIsPermuted
<1>5. \A i \in 1..Len(s) : p[i] \in 1..Len(s)
  <2>1. p \in [1..Len(s) -> 1..Len(s)]
    BY <1>4 DEF Permutes
  <2> QED BY <2>1
<1>6. /\ a \in [1..Len(s) -> Made] /\ \A i \in 1..Len(s) : a[i] = normalize_parameter(s[i])
      /\ b \in [1..Len(t) -> Made] /\ \A i \in 1..Len(t) : b[i] = normalize_parameter(t[i])
  BY <1>1
<1>7. \A m \in Made : m.id \in Nat
  <2>1. ASSUME NEW e \in RawItems PROVE normalize_parameter(e).id \in Nat
    <3>1. e.id \in Nat
      BY DEF RawItems
    <3> QED BY <3>1, GreaseIs DEF normalize_parameter
  <2> QED BY <2>1
<1> HIDE DEF a, b, Made
<1>8. \A i \in 1..Len(s) : a[i] = b[p[i]]
  <2>1. ASSUME NEW i \in 1..Len(s) PROVE a[i] = b[p[i]]
    <3>1. s[i] \in RawItems /\ t[p[i]] \in RawItems
      BY <1>1, <1>3, <1>5
    <3>2. SameParameter(s[i], t[p[i]])
      BY <1>4, <3>1, KinIs
    <3>3. normalize_parameter(s[i]) = normalize_parameter(t[p[i]])
      BY <3>1, <3>2, ParameterAgain
    <3> QED BY <1>3, <1>5, <1>6, <3>3
  <2> QED BY <2>1
<1>9. /\ a \in Seq(Made) /\ Len(a) = Len(s) /\ DOMAIN a = 1..Len(s)
      /\ b \in Seq(Made) /\ Len(b) = Len(s) /\ DOMAIN b = 1..Len(s)
  BY <1>1, <1>3, <1>6, ListOf
<1>10. \A i, j \in 1..Len(a) : b[i].id = b[j].id => b[i] = b[j]
  <2>1. ASSUME NEW i \in 1..Len(s), NEW j \in 1..Len(s), b[i].id = b[j].id PROVE b[i] = b[j]
    <3>1. /\ i \in DOMAIN t /\ j \in DOMAIN t /\ t[i].id # GREASE /\ t[j].id # GREASE
          /\ normalize_parameter(t[i]).id = normalize_parameter(t[j]).id
      BY <1>1, <1>3, <1>6, <2>1
    <3>2. normalize_parameter(t[i]) = normalize_parameter(t[j])
      BY <3>1, OnceIsOnce
    <3> QED BY <1>3, <1>6, <3>2
  <2> QED BY <1>9, <2>1
<1>11. Len(b) = Len(a) /\ Permutes(p, Len(a)) /\ \A i \in 1..Len(a) : a[i] = b[p[i]]
  BY <1>4, <1>8, <1>9
<1>12. SortedById(a) = SortedById(b)
  BY <1>7, <1>9, <1>10, <1>11, ItemsTogether
<1> QED BY <1>12 DEF a, b

LEMMA LastingOnce ==
    ASSUME NEW s \in Seq(RawItems), ParametersOnce(s)
    PROVE  ParametersOnce(Lasting(s))
<1> DEFINE P == {i \in DOMAIN s : s[i].id # 12583}
<1>1. Lasting(s) = At(s, P) /\ P \in SUBSET DOMAIN s
  BY DEF Lasting
<1> HIDE DEF P
<1>2. /\ At(s, P) = [k \in 1..Cardinality(P) |-> s[Nth(P, k)]] /\ Cardinality(P) \in Nat
  BY <1>1, SublistIs
<1>3. Len(s) \in Nat /\ P \in SUBSET (1..Len(s)) /\ DOMAIN s = 1..Len(s)
  BY <1>1, EntriesAre
<1>4. /\ \A k \in 1..Cardinality(P) : Nth(P, k) \in P
      /\ \A k, l \in 1..Cardinality(P) : k < l => Nth(P, k) < Nth(P, l)
  BY <1>3, InPlace
<1>5. ASSUME NEW k \in 1..Cardinality(P), NEW l \in 1..Cardinality(P), Nth(P, k) = Nth(P, l)
      PROVE  k = l
  <2>1. Nth(P, k) \in 1..Len(s) /\ Nth(P, l) \in 1..Len(s)
    BY <1>3, <1>4
  <2>2. ~(k < l) /\ ~(l < k)
    BY <1>4, <1>5, <2>1
  <2> QED BY <1>2, <2>2
<1>6. ASSUME NEW k \in 1..Cardinality(P), NEW l \in 1..Cardinality(P),
             s[Nth(P, k)].id = s[Nth(P, l)].id
      PROVE  k = l \/ IsGreaseParameter(s[Nth(P, k)].id)
  <2>1. Nth(P, k) \in DOMAIN s /\ Nth(P, l) \in DOMAIN s
    BY <1>1, <1>4
  <2>2. Nth(P, k) = Nth(P, l) \/ IsGreaseParameter(s[Nth(P, k)].id)
    BY <1>6, <2>1 DEF ParametersOnce
  <2> QED BY <1>5, <2>2
<1> QED BY <1>1, <1>2, <1>6 DEF ParametersOnce

LEMMA HelloAgain ==
    ASSUME NEW quic, NEW h \in SoundHellos, NEW k \in SoundHellos, SameHello(h, k, quic)
    PROVE  WithoutOrders(NormalizeHello(h, quic)) = WithoutOrders(NormalizeHello(k, quic))
<1>1. /\ h \in RawHellos /\ k \in RawHellos
      /\ \A p \in ToSet(k.parameters) : p.id # GREASE
      /\ ExtensionsOnce(k.extensions) /\ ParametersOnce(k.parameters)
  BY DEF SoundHellos
<1>2. /\ h.ciphers \in Seq(Nat) /\ k.ciphers \in Seq(Nat)
      /\ h.extensions \in Seq(RawItems) /\ k.extensions \in Seq(RawItems)
      /\ h.parameters \in Seq(RawItems) /\ k.parameters \in Seq(RawItems)
  BY <1>1 DEF RawHellos
<1>3. /\ SameList(h.ciphers, k.ciphers)
      /\ SameExtensions(h.extensions, k.extensions, quic)
      /\ SameParameters(Lasting(h.parameters), Lasting(k.parameters))
  BY DEF SameHello
<1> DEFINE x(g) == [i \in DOMAIN g.extensions |-> normalize_extension(g.extensions[i], quic)]
           p(g) == normalize_transport_parameters(g.parameters)
<1>4. NormalizeAll(h.ciphers) = NormalizeAll(k.ciphers)
  BY <1>2, <1>3, SameListIs
<1>5. SortedById(x(h)) = SortedById(x(k))
  BY <1>1, <1>2, <1>3, ExtensionsAgain
<1>6. SortedById(p(h)) = SortedById(p(k))
  <2>1. /\ Lasting(h.parameters) = Stable(h.parameters)
        /\ Lasting(h.parameters) \in Seq(RawItems)
        /\ Lasting(k.parameters) = Stable(k.parameters)
        /\ Lasting(k.parameters) \in Seq(RawItems)
        /\ ToSet(Lasting(k.parameters)) \subseteq ToSet(k.parameters)
    BY <1>2, LastingIs
  <2>2. ASSUME NEW g, Lasting(g.parameters) = Stable(g.parameters)
        PROVE  p(g) = [i \in DOMAIN Lasting(g.parameters) |->
                          normalize_parameter(Lasting(g.parameters)[i])]
    BY <2>2 DEF normalize_transport_parameters
  <2>3. /\ \A q \in ToSet(Lasting(k.parameters)) : q.id # GREASE
        /\ ParametersOnce(Lasting(k.parameters))
    BY <1>1, <1>2, <2>1, LastingOnce
  <2> HIDE DEF p
  <2>4. p(h) = [i \in DOMAIN Lasting(h.parameters) |->
                  normalize_parameter(Lasting(h.parameters)[i])]
    BY <2>1, <2>2
  <2>5. p(k) = [i \in DOMAIN Lasting(k.parameters) |->
                  normalize_parameter(Lasting(k.parameters)[i])]
    BY <2>1, <2>2
  <2> QED BY <1>3, <2>1, <2>3, <2>4, <2>5, ParametersAgain
<1>7. ASSUME NEW g
      PROVE  WithoutOrders(NormalizeHello(g, quic))
             = [ciphers         |-> NormalizeAll(g.ciphers),
                extension_order |-> <<>>,
                extensions      |-> SortedById(x(g)),
                id_order        |-> <<>>,
                parameter_order |-> <<>>,
                parameters      |-> SortedById(p(g))]
  <2>1. NormalizeHello(g, quic)
        = [ciphers         |-> NormalizeAll(g.ciphers),
           extension_order |-> Ids(x(g)),
           extensions      |-> SortedById(x(g)),
           id_order        |-> AnchorOrder(g),
           parameter_order |-> Ids(p(g)),
           parameters      |-> SortedById(p(g))]
    BY DEF NormalizeHello
  <2> HIDE DEF x, p
  <2> QED BY <2>1, WithoutOrdersIs
<1> HIDE DEF x, p
<1> QED BY <1>4, <1>5, <1>6, <1>7

\* The settings of HTTP, field by field.
LEMMA Http2Fields ==
    ASSUME NEW r, r = [settings |-> r.settings, pseudo |-> r.pseudo, headers |-> r.headers,
                       priority |-> r.priority, other |-> r.other]
    PROVE  /\ [r EXCEPT !.headers = <<>>]
              = [settings |-> r.settings, pseudo |-> r.pseudo, headers |-> <<>>,
                 priority |-> r.priority, other |-> r.other]
           /\ normalize_http2(r)
              = [settings |-> r.settings, pseudo |-> r.pseudo,
                 headers |-> normalize_headers(r.headers),
                 priority |-> r.priority, other |-> r.other]
<1>1. normalize_http2(r) = [r EXCEPT !.headers = normalize_headers(r.headers)]
  BY DEF normalize_http2
<1> QED BY <1>1

LEMMA Http3Fields ==
    ASSUME NEW r, r = [settings |-> r.settings, pseudo |-> r.pseudo, headers |-> r.headers,
                       cids |-> r.cids]
    PROVE  [r EXCEPT !.settings = <<>>, !.headers = <<>>]
           = [settings |-> <<>>, pseudo |-> r.pseudo, headers |-> <<>>, cids |-> r.cids]
<1> DEFINE q == [r EXCEPT !.settings = <<>>]
<1>1. [r EXCEPT !.settings = <<>>, !.headers = <<>>] = [q EXCEPT !.headers = <<>>]
  OBVIOUS
<1>2. q = [settings |-> <<>>, pseudo |-> r.pseudo, headers |-> r.headers, cids |-> r.cids]
  OBVIOUS
<1> HIDE DEF q
<1>3. [q EXCEPT !.headers = <<>>]
      = [settings |-> <<>>, pseudo |-> r.pseudo, headers |-> <<>>, cids |-> r.cids]
  BY <1>2
<1> QED BY <1>1, <1>3

LEMMA AlikeMeansStable ==
    ASSUME NEW s \in Takings, NEW t \in Takings, Alike(s, t)
    PROVE  stable_view(normalize_sample(s)) = stable_view(normalize_sample(t))
<1>1. /\ s.tcp \in SoundHellos /\ s.quic \in SoundHellos
      /\ t.tcp \in SoundHellos /\ t.quic \in SoundHellos
      /\ s.http3.settings \in Seq(Nat) /\ t.http3.settings \in Seq(Nat)
  BY TakingsAre
<1>2. ASSUME NEW u \in Takings
      PROVE  /\ u.http2 = [settings |-> u.http2.settings, pseudo |-> u.http2.pseudo,
                           headers |-> u.http2.headers, priority |-> u.http2.priority,
                           other |-> u.http2.other]
             /\ u.http3 = [settings |-> u.http3.settings, pseudo |-> u.http3.pseudo,
                           headers |-> u.http3.headers, cids |-> u.http3.cids]
  BY TakingsAre
<1> DEFINE tcp(u) == WithoutOrders(NormalizeHello(u.tcp, FALSE))
           quic(u) == WithoutOrders(NormalizeHello(u.quic, TRUE))
<1>3. tcp(s) = tcp(t) /\ quic(s) = quic(t) /\ s.protocol = t.protocol
  <2>1. SameHello(s.tcp, t.tcp, FALSE) /\ SameHello(s.quic, t.quic, TRUE)
    BY DEF Alike
  <2>2. tcp(s) = tcp(t)
    BY <1>1, <2>1, HelloAgain
  <2>3. quic(s) = quic(t)
    BY <1>1, <2>1, HelloAgain
  <2>4. s.protocol = t.protocol
    BY DEF Alike
  <2> QED BY <2>2, <2>3, <2>4
<1>4. normalize_http2(s.http2) = normalize_http2(t.http2)
  <2>1. /\ SameHeaders(s.http2.headers, t.http2.headers)
        /\ [s.http2 EXCEPT !.headers = <<>>] = [t.http2 EXCEPT !.headers = <<>>]
    BY DEF Alike
  <2>2. /\ s.http2.settings = t.http2.settings /\ s.http2.pseudo = t.http2.pseudo
        /\ s.http2.priority = t.http2.priority /\ s.http2.other = t.http2.other
    <3>1. ASSUME NEW u \in Takings
          PROVE  [u.http2 EXCEPT !.headers = <<>>]
                 = [settings |-> u.http2.settings, pseudo |-> u.http2.pseudo,
                    headers |-> <<>>, priority |-> u.http2.priority, other |-> u.http2.other]
      BY <1>2, Http2Fields
    <3> QED BY <2>1, <3>1
  <2>3. normalize_headers(s.http2.headers) = normalize_headers(t.http2.headers)
    BY <2>1 DEF SameHeaders, normalize_headers
  <2>4. ASSUME NEW u \in Takings
        PROVE  normalize_http2(u.http2)
               = [settings |-> u.http2.settings, pseudo |-> u.http2.pseudo,
                  headers |-> normalize_headers(u.http2.headers),
                  priority |-> u.http2.priority, other |-> u.http2.other]
    BY <1>2, Http2Fields
  <2> QED BY <2>2, <2>3, <2>4
<1> DEFINE set(u) == [i \in DOMAIN u.http3.settings |->
                         IF IsGreaseSetting(u.http3.settings[i]) THEN GREASE
                         ELSE u.http3.settings[i]]
<1>5. set(s) = set(t)
  <2>1. /\ Len(s.http3.settings) = Len(t.http3.settings)
        /\ \A i \in DOMAIN s.http3.settings :
              SameSetting(s.http3.settings[i], t.http3.settings[i])
    BY DEF Alike
  <2>2. DOMAIN s.http3.settings = DOMAIN t.http3.settings
    BY <1>1, <2>1
  <2> QED BY <2>1, <2>2 DEF SameSetting
<1>6. normalize_http3(s.http3) = normalize_http3(t.http3)
  <2>1. /\ SameHeaders(s.http3.headers, t.http3.headers)
        /\ [s.http3 EXCEPT !.settings = <<>>, !.headers = <<>>]
           = [t.http3 EXCEPT !.settings = <<>>, !.headers = <<>>]
    BY DEF Alike
  <2>2. s.http3.pseudo = t.http3.pseudo /\ s.http3.cids = t.http3.cids
    <3>1. ASSUME NEW u \in Takings
          PROVE  [u.http3 EXCEPT !.settings = <<>>, !.headers = <<>>]
                 = [settings |-> <<>>, pseudo |-> u.http3.pseudo,
                    headers |-> <<>>, cids |-> u.http3.cids]
      BY <1>2, Http3Fields
    <3> QED BY <2>1, <3>1
  <2>3. normalize_headers(s.http3.headers) = normalize_headers(t.http3.headers)
    BY <2>1 DEF SameHeaders, normalize_headers
  <2>4. ASSUME NEW u \in Takings
        PROVE  normalize_http3(u.http3)
               = [settings |-> set(u), pseudo |-> u.http3.pseudo,
                  headers |-> normalize_headers(u.http3.headers), cids |-> u.http3.cids]
    <3>1. normalize_http3([settings |-> u.http3.settings, pseudo |-> u.http3.pseudo,
                           headers |-> u.http3.headers, cids |-> u.http3.cids])
          = [settings |-> set(u), pseudo |-> u.http3.pseudo,
             headers |-> normalize_headers(u.http3.headers), cids |-> u.http3.cids]
      BY Http3Is
    <3> HIDE DEF set
    <3> QED BY <1>2, <3>1
  <2> HIDE DEF set
  <2> QED BY <1>5, <2>2, <2>3, <2>4
<1> DEFINE view(u) == [mode |-> "any", tcp |-> tcp(u), http2 |-> normalize_http2(u.http2),
                       protocol |-> u.protocol, quic |-> quic(u),
                       http3 |-> normalize_http3(u.http3)]
<1>7. \A u : stable_view(normalize_sample(u)) = view(u)
  BY SampleViewIs
<1> HIDE DEF tcp, quic
<1>8. view(s) = view(t)
  BY <1>3, <1>4, <1>6
<1> HIDE DEF view
<1> QED BY <1>7, <1>8

-----------------------------------------------------------------------------
(***************************************************************************)
(* Variants: the values of a list, and the places of each.                 *)
(***************************************************************************)

Alikes(v, i) == {j \in DOMAIN v : v[j] = v[i]}

\* There are as many values as there are sets of places that hold one.
LEMMA AsManyValues ==
    ASSUME NEW n \in Nat, NEW v, DOMAIN v = 1..n
    PROVE  Cardinality(ToSet(v)) = Cardinality({Alikes(v, i) : i \in 1..n})
<1> DEFINE V == ToSet(v)  A == {Alikes(v, i) : i \in 1..n}
           f == [x \in V |-> {j \in 1..n : v[j] = x}]
<1>1. V = {v[i] : i \in 1..n}
  BY DEF ToSet
<1>2. IsFiniteSet(V)
  <2> DEFINE g == [i \in 1..n |-> v[i]]
  <2>1. IsFiniteSet(1..n)
    BY FS_Interval
  <2>2. g \in Surjection(1..n, V)
    BY <1>1 DEF Surjection
  <2> HIDE DEF g, V
  <2> QED BY <2>1, <2>2, FS_Surjection
<1>3. \A i \in 1..n : v[i] \in V /\ f[v[i]] = Alikes(v, i)
  BY <1>1 DEF Alikes
<1>4. f \in [V -> A]
  BY <1>1 DEF Alikes
<1>5. ASSUME NEW x \in V, NEW y \in V, f[x] = f[y] PROVE x = y
  <2>1. PICK i \in 1..n : v[i] = x
    BY <1>1
  <2>2. i \in f[x]
    BY <2>1
  <2>3. i \in f[y]
    BY <1>5, <2>2
  <2> QED BY <2>1, <2>3
<1>6. \A a \in A : \E x \in V : f[x] = a
  BY <1>3
<1> HIDE DEF f, A, V
<1>7. f \in Bijection(V, A)
  BY <1>4, <1>5, <1>6 DEF Bijection, Injection, Surjection, IsInjective
<1>8. Cardinality(V) = Cardinality(A)
  BY <1>2, <1>7, FS_Bijection DEF ExistsBijection
<1> QED BY <1>8 DEF V, A

\* What is selected are the places of one value, and no value has more.
LEMMA SelectedIs ==
    ASSUME NEW n \in Nat, n # 0, NEW v, DOMAIN v = 1..n
    PROVE  /\ Selected(v) \in SUBSET (1..n) /\ Cardinality(Selected(v)) \in Nat
           /\ \E i \in 1..n : /\ Selected(v) = Alikes(v, i)
                              /\ \A j \in 1..n :
                                    Cardinality(Alikes(v, j)) <= Cardinality(Alikes(v, i))
<1> DEFINE Count(i) == Cardinality({j \in DOMAIN v : v[j] = v[i]})
           most     == {i \in DOMAIN v : \A j \in DOMAIN v : Count(j) <= Count(i)}
           first    == CHOOSE i \in most : \A j \in most : i <= j
<1>1. Selected(v) = {i \in DOMAIN v : v[i] = v[first]}
  BY DEF Selected
<1>2. ASSUME NEW i \in 1..n
      PROVE  /\ Count(i) = Cardinality(Alikes(v, i)) /\ Alikes(v, i) \in SUBSET (1..n)
             /\ Count(i) \in Nat /\ Count(i) <= n
  <2>1. Count(i) = Cardinality(Alikes(v, i)) /\ Alikes(v, i) \in SUBSET (1..n)
    BY DEF Alikes
  <2> DEFINE P == Alikes(v, i)
  <2>2. IsFiniteSet(1..n) /\ Cardinality(1..n) = n
    BY FS_Interval
  <2>3. P \in SUBSET (1..n)
    BY <2>1
  <2> HIDE DEF P
  <2>4. IsFiniteSet(P) /\ Cardinality(P) <= Cardinality(1..n)
    BY <2>2, <2>3, FS_Subset
  <2>5. Cardinality(P) \in Nat /\ Cardinality(P) <= n
    BY <2>2, <2>4, FS_CardinalityType
  <2> QED BY <2>1, <2>5 DEF P
<1> HIDE DEF Count
<1>3. most \in SUBSET Nat /\ most # {}
  <2> DEFINE C == {Count(i) : i \in 1..n}
  <2>1. C \in SUBSET Nat /\ C # {} /\ \A c \in C : c <= n
    <3>1. 1 \in 1..n
      OBVIOUS
    <3> QED BY <1>2, <3>1
  <2>2. Max(C) \in C /\ \A c \in C : c <= Max(C)
    <3> HIDE DEF C
    <3> QED BY <2>1, MaxIsGreatest
  <2>3. PICK i \in 1..n : Count(i) = Max(C)
    BY <2>2
  <2>4. \A j \in 1..n : Count(j) <= Count(i)
    BY <2>2, <2>3
  <2>5. i \in most
    BY <2>4
  <2> QED BY <2>5
<1>4. most \subseteq 1..n /\ \A i \in most : \A j \in 1..n : Count(j) <= Count(i)
  OBVIOUS
<1> HIDE DEF most
<1>5. first \in most
  BY <1>3, Least
<1> HIDE DEF first
<1>6. first \in 1..n /\ \A j \in 1..n : Count(j) <= Count(first)
  BY <1>4, <1>5
<1>7. Selected(v) = Alikes(v, first)
  BY <1>1 DEF Alikes
<1>8. Selected(v) \in SUBSET (1..n) /\ Cardinality(Selected(v)) \in Nat
  BY <1>2, <1>6, <1>7
<1>9. \A j \in 1..n : Cardinality(Alikes(v, j)) <= Cardinality(Alikes(v, first))
  BY <1>2, <1>6
<1> QED BY <1>6, <1>7, <1>8, <1>9

\* The counts of a profile count browsers: its variants are the likenesses that were met,
\* and the samples it is made of are those of one likeness, of which no other has more.
THEOREM VariantsCorrect == Spec => []VariantsAreBrowsers
<1>1. ASSUME IInv PROVE VariantsAreBrowsers
  <2> DEFINE n == Len(samples)  v == Views(normalized)
  <2>1. SUFFICES ASSUME phase = "bundle"
                 PROVE  /\ bundle[1].profile.variant_count
                           = Cardinality({Likeness(i) : i \in DOMAIN samples})
                        /\ \E i \in DOMAIN samples :
                              /\ bundle[1].profile.selected_sample_count = Cardinality(Likeness(i))
                              /\ \A j \in DOMAIN samples :
                                    Cardinality(Likeness(j)) <= Cardinality(Likeness(i))
    BY DEF VariantsAreBrowsers
  <2>2. /\ samples \in Seq(Takings) /\ normalized = Normals(samples)
        /\ bundle[1].profile = build_profile(normalized) /\ CanBuild(normalized)
    BY <1>1, <2>1 DEF IInv, SamplesAreKept, BundleIsProfile
  <2>3. n \in Nat /\ DOMAIN samples = 1..n /\ \A i \in 1..n : samples[i] \in Takings
    BY <2>2
  <2>4. /\ DOMAIN v = 1..n
        /\ \A i \in 1..n : v[i] = stable_view(normalize_sample(samples[i]))
    BY <2>2, <2>3 DEF Views, Normals
  <2>5. n # 0
    <3>1. normalized # <<>> /\ DOMAIN normalized = 1..n
      BY <2>2, <2>3 DEF CanBuild, Normals
    <3> QED BY <2>2, <2>3, <3>1 DEF Normals
  <2>6. ASSUME NEW i \in 1..n PROVE Likeness(i) = Alikes(v, i)
    <3>1. \A j \in 1..n : Alike(samples[i], samples[j]) <=> v[j] = v[i]
      <4>1. ASSUME NEW j \in 1..n, Alike(samples[i], samples[j]) PROVE v[j] = v[i]
        BY <2>3, <2>4, <4>1, AlikeMeansStable
      <4>2. ASSUME NEW j \in 1..n, v[j] = v[i] PROVE Alike(samples[i], samples[j])
        BY <2>3, <2>4, <4>2, StableMeansAlike
      <4> QED BY <4>1, <4>2
    <3> QED BY <2>3, <2>4, <3>1 DEF Likeness, Alikes
  <2>7. bundle[1].profile.variant_count = Cardinality(ToSet(v))
    BY <2>2, VariantCountIs
  <2>8. bundle[1].profile.selected_sample_count = Len(Chosen(normalized))
    BY <2>2 DEF build_profile
  <2>9. Chosen(normalized) = [k \in 1..Cardinality(Selected(v)) |-> Nth(Selected(v), k)]
    BY DEF Chosen, Views
  <2> HIDE DEF v, n
  <2>10. PICK i \in 1..n : /\ Selected(v) = Alikes(v, i)
                           /\ \A j \in 1..n : Cardinality(Alikes(v, j)) <= Cardinality(Alikes(v, i))
    BY <2>3, <2>4, <2>5, SelectedIs
  <2>11. Len(Chosen(normalized)) = Cardinality(Selected(v))
    <3>1. Cardinality(Selected(v)) \in Nat
      BY <2>3, <2>4, <2>5, SelectedIs
    <3> QED BY <2>9, <3>1
  <2>12. Cardinality(ToSet(v)) = Cardinality({Alikes(v, j) : j \in 1..n})
    BY <2>3, <2>4, AsManyValues
  <2>13. {Likeness(j) : j \in DOMAIN samples} = {Alikes(v, j) : j \in 1..n}
    BY <2>3, <2>6
  <2>14. bundle[1].profile.variant_count = Cardinality({Likeness(j) : j \in DOMAIN samples})
    BY <2>7, <2>12, <2>13
  <2>15. /\ bundle[1].profile.selected_sample_count = Cardinality(Likeness(i))
         /\ \A j \in 1..n : Cardinality(Likeness(j)) <= Cardinality(Likeness(i))
    BY <2>6, <2>8, <2>10, <2>11
  <2> QED BY <2>3, <2>14, <2>15
<1> QED BY <1>1, Invariance, PTL
=============================================================================
