------------------------------- MODULE Lemmas -------------------------------
(***************************************************************************)
(* Facts the proofs share: what Min and Max of FiniteSetsExt return, and   *)
(* what a list has at a set of its places.                                 *)
(***************************************************************************)
EXTENDS Sublists, Integers, FiniteSetsExt, FiniteSetTheorems, SequenceTheorems,
        WellFoundedInduction, TLAPS

\* A set of numbers that is not empty has a least element.
LEMMA Least ==
  ASSUME NEW S \in SUBSET Nat, S # {}
  PROVE  \E n \in S : \A m \in S : n <= m
<1> DEFINE less == OpToRel(<, Nat)
<1>1. IsWellFoundedOn(less, Nat)
  BY NatLessThanWellFounded
<1>2. PICK n \in S : \A m \in S : ~ (<<m, n>> \in less)
  <2> HIDE DEF less
  <2> QED BY <1>1, WFMin
<1>3. ASSUME NEW m \in S PROVE n <= m
  <2>1. ~ (m < n)
    BY <1>2 DEF OpToRel
  <2> QED BY <2>1
<1> QED BY <1>3

\* Min is that element.
LEMMA MinIsLeast ==
  ASSUME NEW S \in SUBSET Nat, S # {}
  PROVE  Min(S) \in S /\ \A m \in S : Min(S) <= m
<1>1. \E n \in S : \A m \in S : n <= m
  BY Least
<1> QED BY <1>1 DEF Min

\* If no element exceeds a bound there is a greatest, the least bound, and Max is it.
LEMMA MaxIsGreatest ==
  ASSUME NEW S \in SUBSET Nat, S # {}, NEW bound \in Nat, \A m \in S : m <= bound
  PROVE  Max(S) \in S /\ \A m \in S : m <= Max(S)
<1> DEFINE bounds == {n \in Nat : \A m \in S : m <= n}
<1>1. bounds \in SUBSET Nat /\ bounds # {}
  OBVIOUS
<1>2. PICK top \in bounds : \A n \in bounds : top <= n
  <2> HIDE DEF bounds
  <2> QED BY <1>1, Least
<1>3. top \in Nat /\ \A m \in S : m <= top
  BY <1>2
<1>4. top \in S
  <2> SUFFICES ASSUME top \notin S PROVE FALSE
    OBVIOUS
  <2>1. PICK m \in S : TRUE
    OBVIOUS
  <2>2. top - 1 \in Nat /\ \A n \in S : n <= top - 1
    BY <2>1, <1>3
  <2>3. top - 1 \in bounds
    BY <2>2
  <2> QED BY <2>3, <1>2, <1>3
<1>5. \E n \in S : \A m \in S : n >= m
  BY <1>3, <1>4
<1>6. Max(S) \in S /\ \A m \in S : Max(S) >= m
  BY <1>5 DEF Max
<1> QED BY <1>6

\* What holds of nought and of each number after one it holds of holds of all:
\* induction over a set, where the provers cannot take an operator.
LEMMA AllNumbers ==
  ASSUME NEW S, 0 \in S, \A n \in Nat : n \in S => n + 1 \in S
  PROVE  Nat \subseteq S
<1> SUFFICES ASSUME NEW k \in Nat, k \notin S PROVE FALSE
  OBVIOUS
<1>1. PICK n \in Nat \ S : \A m \in Nat \ S : n <= m
  <2>1. Nat \ S \in SUBSET Nat /\ Nat \ S # {}
    OBVIOUS
  <2> QED BY <2>1, Least
<1>2. n - 1 \in Nat /\ n - 1 \in S
  BY <1>1
<1>3. (n - 1) + 1 \in S
  BY <1>2
<1> QED BY <1>1, <1>2, <1>3
-----------------------------------------------------------------------------
\* A set of places is finite, and each of them has a number of its own.
LEMMA PlacesAreNumbered ==
  ASSUME NEW n \in Nat, NEW P \in SUBSET (1..n)
  PROVE  /\ IsFiniteSet(P) /\ Cardinality(P) \in Nat
         /\ \A i \in P : Cardinality({j \in P : j <= i}) \in 1..Cardinality(P)
         /\ \A i, j \in P : i < j =>
               Cardinality({k \in P : k <= i}) < Cardinality({k \in P : k <= j})
<1>0. \A i \in P : i \in Nat
  OBVIOUS
<1>1. IsFiniteSet(P) /\ Cardinality(P) \in Nat
  <2>1. IsFiniteSet(1..n)
    BY FS_Interval
  <2>2. IsFiniteSet(P)
    BY <2>1, FS_Subset
  <2> QED BY <2>2, FS_CardinalityType
<1>2. ASSUME NEW i \in P
      PROVE  LET A == {j \in P : j <= i} IN
             IsFiniteSet(A) /\ Cardinality(A) \in 1..Cardinality(P)
  <2> DEFINE A == {j \in P : j <= i}
  <2>1. A \in SUBSET P /\ A # {}
    OBVIOUS
  <2> HIDE DEF A
  <2>2. IsFiniteSet(A) /\ Cardinality(A) <= Cardinality(P) /\ Cardinality(A) \in Nat
    BY <1>1, <2>1, FS_Subset, FS_CardinalityType
  <2>3. Cardinality(A) # 0
    BY <2>1, <2>2, FS_EmptySet
  <2>4. IsFiniteSet(A) /\ Cardinality(A) \in 1..Cardinality(P)
    BY <1>1, <2>2, <2>3
  <2> QED BY <2>4 DEF A
<1>3. ASSUME NEW i \in P, NEW j \in P, i < j
      PROVE  Cardinality({k \in P : k <= i}) < Cardinality({k \in P : k <= j})
  <2> DEFINE A == {k \in P : k <= i}  B == {k \in P : k <= j}
  <2>1. A \in SUBSET B /\ j \in B /\ j \notin A
    <3>1. i \in Nat /\ j \in Nat
      BY <1>0
    <3>2. \A k \in A : k \in P /\ k \in Nat /\ k <= i
      BY <1>0
    <3>3. \A k \in A : k <= j
      BY <3>1, <3>2, <1>3
    <3>4. j \notin A
      BY <3>1, <1>3
    <3>5. j \in B
      BY <3>1
    <3>6. \A k \in A : k \in B
      BY <3>2, <3>3
    <3> QED BY <3>4, <3>5, <3>6
  <2>2. IsFiniteSet(B) /\ Cardinality(B) \in Nat /\ Cardinality(A) \in Nat
    BY <1>1, <1>2
  <2> HIDE DEF A, B
  <2>3. Cardinality(A) <= Cardinality(B) /\ Cardinality(A) # Cardinality(B)
    BY <2>1, <2>2, FS_Subset
  <2>4. Cardinality(A) < Cardinality(B)
    BY <2>2, <2>3
  <2> QED BY <2>4 DEF A, B
<1> QED BY <1>1, <1>2, <1>3

\* f runs through the places upwards.
RunsThrough(f, N, P) ==
  /\ f \in [1..N -> P]
  /\ \A k, l \in 1..N : k < l => f[k] < f[l]
  /\ \A i \in P : \E k \in 1..N : f[k] = i

\* If f runs through the places upwards, its k-th value is the k-th place.
LEMMA Listing ==
  ASSUME NEW n \in Nat, NEW P \in SUBSET (1..n),
         NEW N \in Nat, NEW f, RunsThrough(f, N, P)
  PROVE  Cardinality(P) = N /\ \A k \in 1..N : Nth(P, k) = f[k]
<1>r. /\ f \in [1..N -> P]
      /\ \A k, l \in 1..N : k < l => f[k] < f[l]
      /\ \A i \in P : \E k \in 1..N : f[k] = i
  BY DEF RunsThrough
<1> USE <1>r
<1>n. \A i \in P : i \in Nat
  OBVIOUS
<1>f. \A k \in 1..N : f[k] \in P /\ f[k] \in Nat
  BY <1>n
<1>0. \A k, l \in 1..N : k # l => f[k] # f[l]
  <2> SUFFICES ASSUME NEW k \in 1..N, NEW l \in 1..N, k < l PROVE f[k] # f[l]
    OBVIOUS
  <2>1. f[k] < f[l] /\ f[k] \in Int
    BY <1>f
  <2> QED BY <2>1
<1>1. Cardinality(P) = N
  <2>1. f \in Bijection(1..N, P)
    BY <1>0 DEF Bijection, Injection, Surjection, IsInjective
  <2> QED BY <2>1, FS_CountingElements DEF ExistsBijection
<1>2. ASSUME NEW k \in 1..N
      PROVE  Cardinality({j \in P : j <= f[k]}) = k
  <2> DEFINE A == {j \in P : j <= f[k]}
             g == [i \in 1..k |-> f[i]]
  <2>1. \A i \in 1..k : f[i] \in A
    <3> SUFFICES ASSUME NEW i \in 1..k PROVE f[i] <= f[k]
      OBVIOUS
    <3>1. i \in 1..N /\ (i = k \/ i < k)
      OBVIOUS
    <3>2. f[i] = f[k] \/ f[i] < f[k]
      BY <3>1
    <3>3. f[i] \in Nat /\ f[k] \in Nat
      BY <3>1, <1>f
    <3> QED BY <3>2, <3>3
  <2>2. \A j \in A : \E i \in 1..k : f[i] = j
    <3> SUFFICES ASSUME NEW j \in A PROVE \E i \in 1..k : f[i] = j
      OBVIOUS
    <3>1. PICK i \in 1..N : f[i] = j
      OBVIOUS
    <3>2. ~ (k < i)
      <4> SUFFICES ASSUME k < i PROVE FALSE
        OBVIOUS
      <4>1. f[k] < f[i] /\ f[i] <= f[k] /\ f[i] \in Int /\ f[k] \in Int
        BY <3>1, <1>f
      <4> QED BY <4>1
    <3> QED BY <3>1, <3>2
  <2>3. g \in Bijection(1..k, A)
    <3>1. g \in [1..k -> A]
      BY <2>1
    <3>2. \A a, b \in 1..k : g[a] = g[b] => a = b
      BY <1>0
    <3>3. \A j \in A : \E i \in 1..k : g[i] = j
      BY <2>2
    <3> HIDE DEF g, A
    <3> QED BY <3>1, <3>2, <3>3 DEF Bijection, Injection, Surjection, IsInjective
  <2> HIDE DEF g
  <2>4. Cardinality(A) = k
    BY <2>3, FS_CountingElements DEF ExistsBijection
  <2> QED BY <2>4
<1>3. ASSUME NEW k \in 1..N
      PROVE  Nth(P, k) = f[k]
  <2>1. f[k] \in P /\ Cardinality({j \in P : j <= f[k]}) = k
    BY <1>2
  <2>2. ASSUME NEW i \in P, Cardinality({j \in P : j <= i}) = k
        PROVE  i = f[k]
    <3>1. PICK l \in 1..N : f[l] = i
      OBVIOUS
    <3> QED BY <1>2, <2>2, <3>1
  <2> QED BY <2>1, <2>2 DEF Nth
<1> QED BY <1>1, <1>3

\* The k-th place is a place, and the places come in their order.
LEMMA InPlace ==
  ASSUME NEW n \in Nat, NEW P \in SUBSET (1..n)
  PROVE  /\ IsFiniteSet(P) /\ Cardinality(P) \in Nat
         /\ \A k \in 1..Cardinality(P) : Nth(P, k) \in P
         /\ \A k, l \in 1..Cardinality(P) : k < l => Nth(P, k) < Nth(P, l)
         /\ \A i \in P : \E k \in 1..Cardinality(P) : Nth(P, k) = i
         /\ \A k \in 1..Cardinality(P) : Cardinality({j \in P : j <= Nth(P, k)}) = k
<1> DEFINE N == Cardinality(P)
           rank == [i \in P |-> Cardinality({j \in P : j <= i})]
<1>1. IsFiniteSet(P) /\ N \in Nat
  BY PlacesAreNumbered
<1>2. /\ rank \in [P -> 1..N]
      /\ \A i, j \in P : i < j => rank[i] < rank[j]
  BY PlacesAreNumbered
<1>3. \A i \in P : rank[i] = Cardinality({j \in P : j <= i})
  OBVIOUS
<1>n. \A i \in P : i \in Nat
  OBVIOUS
<1> HIDE DEF rank, N
<1>4. \A i, j \in P : rank[i] = rank[j] => i = j
  <2> SUFFICES ASSUME NEW i \in P, NEW j \in P, i # j PROVE rank[i] # rank[j]
    OBVIOUS
  <2>1. i < j \/ j < i
    BY <1>n
  <2>2. rank[i] \in Int /\ rank[j] \in Int /\ (rank[i] < rank[j] \/ rank[j] < rank[i])
    BY <1>2, <2>1
  <2> QED BY <2>2
<1>5. \A k \in 1..N : \E i \in P : rank[i] = k
  <2>1. IsFiniteSet(1..N) /\ Cardinality(1..N) = N
    BY <1>1, FS_Interval
  <2>2. rank \in Injection(P, 1..N)
    BY <1>2, <1>4 DEF Injection, IsInjective
  <2>3. rank \in Surjection(P, 1..N)
    BY <2>1, <2>2, FS_Injection DEF N
  <2> QED BY <2>3 DEF Surjection
<1>6. ASSUME NEW k \in 1..N PROVE Nth(P, k) \in P /\ rank[Nth(P, k)] = k
  BY <1>3, <1>5 DEF Nth
<1>7. ASSUME NEW k \in 1..N, NEW l \in 1..N, k < l PROVE Nth(P, k) < Nth(P, l)
  <2> DEFINE i == Nth(P, k)  j == Nth(P, l)
  <2>1. i \in P /\ j \in P /\ rank[i] = k /\ rank[j] = l
    BY <1>6
  <2> HIDE DEF i, j
  <2>2. i \in Nat /\ j \in Nat /\ i # j /\ ~ (j < i)
    <3>1. ASSUME j < i PROVE FALSE
      <4>1. rank[j] < rank[i]
        BY <1>2, <2>1, <3>1
      <4> QED BY <4>1, <2>1, <1>7, <1>1
    <3>2. k # l
      BY <1>7, <1>1
    <3> QED BY <3>1, <3>2, <2>1, <1>n
  <2>3. i < j
    BY <2>2
  <2> QED BY <2>3 DEF i, j
<1>8. ASSUME NEW i \in P PROVE \E k \in 1..N : Nth(P, k) = i
  <2>1. rank[i] \in 1..N
    BY <1>2
  <2>2. Nth(P, rank[i]) \in P /\ rank[Nth(P, rank[i])] = rank[i]
    BY <1>6, <2>1
  <2> QED BY <1>4, <2>1, <2>2
<1>9. ASSUME NEW k \in 1..N PROVE Cardinality({j \in P : j <= Nth(P, k)}) = k
  BY <1>3, <1>6
<1> QED BY <1>1, <1>6, <1>7, <1>8, <1>9 DEF N

\* Of all places, the k-th is k.
LEMMA AllPlaces ==
  ASSUME NEW n \in Nat
  PROVE  Cardinality(1..n) = n /\ \A k \in 1..n : Nth(1..n, k) = k
<1> DEFINE P == 1..n
<1>1. Cardinality(P) = n
  BY FS_Interval
<1>2. P \in SUBSET (1..n) /\ P = 1..n
  OBVIOUS
<1> HIDE DEF P
<1>3. \A k \in 1..n : Nth(P, k) \in P /\ Cardinality({j \in P : j <= Nth(P, k)}) = k
  BY <1>1, <1>2, InPlace
<1>4. ASSUME NEW i \in P PROVE Cardinality({j \in P : j <= i}) = i
  <2>1. {j \in P : j <= i} = 1..i /\ i \in Nat
    BY <1>2
  <2>2. Cardinality(1..i) = i
    BY <2>1, FS_Interval
  <2> QED BY <2>1, <2>2
<1>5. \A k \in 1..n : Nth(P, k) = k
  BY <1>3, <1>4
<1> QED BY <1>1, <1>5 DEF P

\* What a list has at some of its places is a list of some of its entries.
LEMMA SublistIs ==
  ASSUME NEW S, NEW list \in Seq(S), NEW P \in SUBSET DOMAIN list
  PROVE  /\ At(list, P) = [k \in 1..Cardinality(P) |-> list[Nth(P, k)]]
         /\ At(list, P) \in Seq(S) /\ Cardinality(P) \in Nat
         /\ Len(At(list, P)) = Cardinality(P)
         /\ DOMAIN At(list, P) = 1..Cardinality(P)
<1>1. Len(list) \in Nat /\ DOMAIN list = 1..Len(list) /\ \A i \in DOMAIN list : list[i] \in S
  OBVIOUS
<1>2. Cardinality(P) \in Nat /\ \A k \in 1..Cardinality(P) : Nth(P, k) \in P
  BY <1>1, InPlace
<1> DEFINE N == Cardinality(P)
           t == [k \in 1..N |-> list[Nth(P, k)]]
<1>3. At(list, P) = t
  BY DEF At, Entries
<1> HIDE DEF N
<1>4. N \in Nat /\ t \in [1..N -> S]
  BY <1>1, <1>2 DEF N
<1> HIDE DEF t
<1>5. t \in Seq(S) /\ Len(t) = N /\ DOMAIN t = 1..N
  BY <1>4
<1> QED BY <1>3, <1>4, <1>5 DEF N, t

\* If f runs through the places upwards, the list has its entries at f's values there.
LEMMA Listed ==
  ASSUME NEW S, NEW list \in Seq(S), NEW P \in SUBSET DOMAIN list,
         NEW N \in Nat, NEW f, RunsThrough(f, N, P)
  PROVE  At(list, P) = [k \in 1..N |-> list[f[k]]]
<1>1. Len(list) \in Nat /\ P \in SUBSET (1..Len(list))
  OBVIOUS
<1>2. Cardinality(P) = N /\ \A k \in 1..N : Nth(P, k) = f[k]
  BY <1>1, Listing
<1> QED BY <1>2, SublistIs

\* A place after all others adds its entry at the end.
LEMMA OneMore ==
  ASSUME NEW S, NEW list \in Seq(S), NEW P \in SUBSET DOMAIN list,
         NEW m \in DOMAIN list, \A i \in P : i < m
  PROVE  At(list, P \cup {m}) = Append(At(list, P), list[m])
<1>1. Len(list) \in Nat /\ P \in SUBSET (1..Len(list)) /\ m \in Nat
  OBVIOUS
<1> DEFINE N == Cardinality(P)
           f == [k \in 1..N + 1 |-> IF k = N + 1 THEN m ELSE Nth(P, k)]
<1>2. /\ N \in Nat
      /\ \A k \in 1..N : Nth(P, k) \in P
      /\ \A k, l \in 1..N : k < l => Nth(P, k) < Nth(P, l)
      /\ \A i \in P : \E k \in 1..N : Nth(P, k) = i
  BY <1>1, InPlace
<1>3. /\ At(list, P) = [k \in 1..N |-> list[Nth(P, k)]]
      /\ Len(At(list, P)) = N
  BY SublistIs
<1> HIDE DEF N
<1>4. f \in [1..N + 1 -> P \cup {m}]
  BY <1>2
<1>5. \A k \in 1..N : f[k] = Nth(P, k)
  BY <1>2
<1>6. f[N + 1] = m
  BY <1>2
<1> HIDE DEF f
<1>7. \A k, l \in 1..N + 1 : k < l => f[k] < f[l]
  <2> SUFFICES ASSUME NEW k \in 1..N + 1, NEW l \in 1..N + 1, k < l PROVE f[k] < f[l]
    OBVIOUS
  <2>1. k \in 1..N /\ (l \in 1..N \/ l = N + 1)
    BY <1>2
  <2> QED BY <1>2, <1>5, <1>6, <2>1
<1>8. \A i \in P \cup {m} : \E k \in 1..N + 1 : f[k] = i
  <2>1. ASSUME NEW i \in P PROVE \E k \in 1..N + 1 : f[k] = i
    <3>1. PICK k \in 1..N : Nth(P, k) = i
      BY <1>2
    <3>2. k \in 1..N + 1
      BY <1>2
    <3> QED BY <3>1, <3>2, <1>5
  <2>2. N + 1 \in 1..N + 1
    BY <1>2
  <2> QED BY <2>1, <2>2, <1>6
<1>9. At(list, P \cup {m}) = [k \in 1..N + 1 |-> list[f[k]]]
  <2> DEFINE M == N + 1  Q == P \cup {m}
  <2>1. M \in Nat /\ Q \in SUBSET DOMAIN list
    BY <1>2
  <2>2. RunsThrough(f, M, Q)
    BY <1>4, <1>7, <1>8 DEF RunsThrough
  <2> HIDE DEF M, Q
  <2>3. At(list, Q) = [k \in 1..M |-> list[f[k]]]
    BY <2>1, <2>2, Listed
  <2> QED BY <2>3 DEF M, Q
<1>10. Append(At(list, P), list[m])
          = [k \in 1..N + 1 |-> IF k = N + 1 THEN list[m] ELSE At(list, P)[k]]
  BY <1>2, <1>3
<1>11. \A k \in 1..N + 1 : list[f[k]] = IF k = N + 1 THEN list[m] ELSE At(list, P)[k]
  <2> SUFFICES ASSUME NEW k \in 1..N + 1
               PROVE  list[f[k]] = IF k = N + 1 THEN list[m] ELSE At(list, P)[k]
    OBVIOUS
  <2>1. k = N + 1 \/ k \in 1..N
    BY <1>2
  <2>2. k \in 1..N => k # N + 1 /\ At(list, P)[k] = list[Nth(P, k)]
    BY <1>2, <1>3
  <2> QED BY <2>1, <2>2, <1>5, <1>6
<1> QED BY <1>9, <1>10, <1>11

-----------------------------------------------------------------------------
\* A place before all others puts its entry in front.
LEMMA OneBefore ==
  ASSUME NEW S, NEW list \in Seq(S), NEW P \in SUBSET DOMAIN list,
         NEW m \in DOMAIN list, \A i \in P : m < i
  PROVE  At(list, {m} \cup P) = <<list[m]>> \o At(list, P)
<1>1. Len(list) \in Nat /\ P \in SUBSET (1..Len(list)) /\ m \in Nat
  OBVIOUS
<1> DEFINE N == Cardinality(P)
           M == N + 1
           Q == {m} \cup P
           f == [k \in 1..M |-> IF k = 1 THEN m ELSE Nth(P, k - 1)]
<1>2. /\ N \in Nat
      /\ \A k \in 1..N : Nth(P, k) \in P
      /\ \A k, l \in 1..N : k < l => Nth(P, k) < Nth(P, l)
      /\ \A i \in P : \E k \in 1..N : Nth(P, k) = i
  BY <1>1, InPlace
<1>3. At(list, P) = [k \in 1..N |-> list[Nth(P, k)]]
  BY SublistIs
<1> HIDE DEF N
<1>4. M \in Nat /\ Q \in SUBSET DOMAIN list /\ f \in [1..M -> Q]
  BY <1>2
<1>5. 1 \in 1..M /\ f[1] = m
  BY <1>2
<1>6. \A k \in 1..N : k + 1 \in 1..M /\ f[k + 1] = Nth(P, k)
  BY <1>2
<1>s. \A k \in 1..M : k = 1 \/ \E h \in 1..N : k = h + 1
  <2> SUFFICES ASSUME NEW k \in 1..M, k # 1 PROVE k - 1 \in 1..N /\ k = (k - 1) + 1
    OBVIOUS
  <2> QED BY <1>2
<1> HIDE DEF f
<1>7. \A k, l \in 1..M : k < l => f[k] < f[l]
  <2> SUFFICES ASSUME NEW k \in 1..M, NEW l \in 1..M, k < l PROVE f[k] < f[l]
    OBVIOUS
  <2>1. PICK h \in 1..N : l = h + 1
    <3>1. l # 1
      BY <1>2
    <3> QED BY <1>s, <3>1
  <2>2. CASE k = 1
    BY <1>2, <1>5, <1>6, <2>1, <2>2
  <2>3. CASE k # 1
    <3>1. PICK g \in 1..N : k = g + 1
      BY <1>s, <2>3
    <3>2. g < h
      BY <2>1, <3>1
    <3> QED BY <1>2, <1>6, <2>1, <3>1, <3>2
  <2> QED BY <2>2, <2>3
<1>8. \A i \in Q : \E k \in 1..M : f[k] = i
  BY <1>2, <1>5, <1>6
<1> HIDE DEF M, Q
<1>9. At(list, Q) = [k \in 1..M |-> list[f[k]]]
  <2>1. RunsThrough(f, M, Q)
    BY <1>4, <1>7, <1>8 DEF RunsThrough
  <2> QED BY <1>4, <2>1, Listed
<1> DEFINE t == At(list, P)
<1>t. t \in Seq(S) /\ Len(t) = N /\ \A k \in 1..N : t[k] = list[Nth(P, k)]
  BY <1>3, SublistIs DEF N
<1> HIDE DEF t
<1>10. <<list[m]>> \o t = [k \in 1..M |-> IF k = 1 THEN list[m] ELSE t[k - 1]]
  BY <1>2, <1>t DEF M
<1>11. \A k \in 1..M : list[f[k]] = IF k = 1 THEN list[m] ELSE t[k - 1]
  <2> SUFFICES ASSUME NEW k \in 1..M
               PROVE  list[f[k]] = IF k = 1 THEN list[m] ELSE t[k - 1]
    OBVIOUS
  <2>1. CASE k = 1
    BY <1>5, <2>1
  <2>2. CASE k # 1
    <3>1. PICK h \in 1..N : k = h + 1
      BY <1>s, <2>2
    <3>2. k - 1 = h
      BY <1>2, <3>1
    <3> QED BY <1>6, <1>t, <2>2, <3>1, <3>2
  <2> QED BY <2>1, <2>2
<1>12. At(list, Q) = <<list[m]>> \o t
  BY <1>9, <1>10, <1>11
<1> QED BY <1>12 DEF Q, t

\* Nothing is at no place, and everything at all of them.
LEMMA NoneAndAll ==
  ASSUME NEW S, NEW list \in Seq(S)
  PROVE  At(list, {}) = <<>> /\ At(list, DOMAIN list) = list
<1>1. At(list, {}) = <<>>
  <2>1. {} \in SUBSET DOMAIN list /\ Cardinality({}) = 0
    BY FS_EmptySet
  <2>2. At(list, {}) \in Seq(S) /\ Len(At(list, {})) = 0
    BY <2>1, SublistIs
  <2> QED BY <2>2
<1>2. At(list, DOMAIN list) = list
  <2> DEFINE f == [k \in 1..Len(list) |-> k]
             D == DOMAIN list
  <2>1. Len(list) \in Nat /\ D = 1..Len(list) /\ list = [k \in 1..Len(list) |-> list[k]]
    OBVIOUS
  <2>2. RunsThrough(f, Len(list), D) /\ \A k \in 1..Len(list) : f[k] = k
    BY <2>1 DEF RunsThrough
  <2> HIDE DEF f, D
  <2>3. At(list, D) = [k \in 1..Len(list) |-> list[f[k]]]
    BY <2>1, <2>2, Listed DEF D
  <2>4. At(list, D) = list
    BY <2>1, <2>2, <2>3
  <2> QED BY <2>4 DEF D
<1> QED BY <1>1, <1>2

\* What a list has at places of its first part, that part has there.
LEMMA FirstPart ==
  ASSUME NEW S, NEW s \in Seq(S), NEW t \in Seq(S), NEW P \in SUBSET DOMAIN s
  PROVE  At(s \o t, P) = At(s, P)
<1>1. /\ Len(s) \in Nat /\ Len(t) \in Nat /\ P \in SUBSET (1..Len(s))
      /\ s \o t \in Seq(S) /\ Len(s \o t) = Len(s) + Len(t)
      /\ \A i \in 1..Len(s) : (s \o t)[i] = s[i]
  OBVIOUS
<1>2. P \in SUBSET DOMAIN (s \o t)
  BY <1>1
<1>3. At(s \o t, P) = [k \in 1..Cardinality(P) |-> (s \o t)[Nth(P, k)]]
  BY <1>1, <1>2, SublistIs
<1>4. At(s, P) = [k \in 1..Cardinality(P) |-> s[Nth(P, k)]]
  BY SublistIs
<1>5. \A k \in 1..Cardinality(P) : Nth(P, k) \in P
  BY <1>1, InPlace
<1> QED BY <1>1, <1>3, <1>4, <1>5

-----------------------------------------------------------------------------
\* The entries of a list that are among some headers.
Those(list, H) == At(list, {i \in DOMAIN list : list[i] \in H})

\* Of what a list has at some places, those are what it has at the places where they are.
LEMMA ThoseAt ==
  ASSUME NEW S, NEW list \in Seq(S), NEW P \in SUBSET DOMAIN list, NEW H
  PROVE  Those(At(list, P), H) = At(list, {i \in P : list[i] \in H})
<1>1. Len(list) \in Nat /\ P \in SUBSET (1..Len(list))
  OBVIOUS
<1> DEFINE N == Cardinality(P)
           t == At(list, P)
           Q == {k \in 1..N : t[k] \in H}
           R == {i \in P : list[i] \in H}
           M == Cardinality(Q)
           f == [k \in 1..M |-> Nth(P, Nth(Q, k))]
<1>2. /\ N \in Nat
      /\ \A k \in 1..N : Nth(P, k) \in P
      /\ \A k, l \in 1..N : k < l => Nth(P, k) < Nth(P, l)
      /\ \A i \in P : \E k \in 1..N : Nth(P, k) = i
  BY <1>1, InPlace
<1>3. /\ t \in Seq(S) /\ DOMAIN t = 1..N
      /\ \A k \in 1..N : t[k] = list[Nth(P, k)]
  BY SublistIs
<1> HIDE DEF N, t
<1>4. Q \in SUBSET (1..N) /\ Q \in SUBSET DOMAIN t
  BY <1>3
<1>q. \A k \in Q : k \in 1..N /\ list[Nth(P, k)] \in H
  BY <1>3
<1>r. \A k \in 1..N : list[Nth(P, k)] \in H => k \in Q
  BY <1>3
<1>5. R \in SUBSET DOMAIN list
  OBVIOUS
<1> HIDE DEF Q
<1>6. /\ M \in Nat
      /\ \A k \in 1..M : Nth(Q, k) \in Q
      /\ \A k, l \in 1..M : k < l => Nth(Q, k) < Nth(Q, l)
      /\ \A i \in Q : \E k \in 1..M : Nth(Q, k) = i
  BY <1>2, <1>4, InPlace
<1>7. At(t, Q) = [k \in 1..M |-> t[Nth(Q, k)]]
  BY <1>3, <1>4, SublistIs
<1> HIDE DEF M
<1>8. \A k \in 1..M : f[k] = Nth(P, Nth(Q, k))
  OBVIOUS
<1>9. f \in [1..M -> R]
  BY <1>2, <1>6, <1>q
<1> HIDE DEF f
<1>10. \A k, l \in 1..M : k < l => f[k] < f[l]
  BY <1>2, <1>6, <1>8, <1>q
<1>11. \A i \in R : \E k \in 1..M : f[k] = i
  <2> SUFFICES ASSUME NEW i \in R PROVE \E k \in 1..M : f[k] = i
    OBVIOUS
  <2>1. PICK h \in 1..N : Nth(P, h) = i
    BY <1>2
  <2>2. h \in Q
    BY <1>r, <2>1
  <2> QED BY <1>6, <1>8, <2>1, <2>2
<1> HIDE DEF R
<1>12. At(list, R) = [k \in 1..M |-> list[f[k]]]
  <2>1. M \in Nat
    BY <1>6
  <2>2. RunsThrough(f, M, R)
    BY <1>9, <1>10, <1>11 DEF RunsThrough
  <2> QED BY <2>1, <2>2, <1>5, Listed
<1>13. \A k \in 1..M : t[Nth(Q, k)] = list[f[k]]
  BY <1>3, <1>6, <1>8, <1>q
<1>14. At(t, Q) = At(list, R)
  BY <1>7, <1>12, <1>13
<1>15. Q = {k \in DOMAIN t : t[k] \in H}
  BY <1>3 DEF Q
<1>16. Those(t, H) = At(t, Q)
  BY <1>15 DEF Those
<1> QED BY <1>14, <1>16 DEF t, R

\* Those of two lists in a row are those of the one, then those of the other.
LEMMA ThoseOfBoth ==
  ASSUME NEW S, NEW s \in Seq(S), NEW t \in Seq(S), NEW H
  PROVE  Those(s \o t, H) = Those(s, H) \o Those(t, H)
<1> DEFINE L == Len(s)
           u == s \o t
           A == {i \in DOMAIN s : s[i] \in H}
           B == {i \in DOMAIN t : t[i] \in H}
           C == {i \in DOMAIN u : u[i] \in H}
           a == Cardinality(A)
           b == Cardinality(B)
           f == [k \in 1..a + b |-> IF k <= a THEN Nth(A, k) ELSE L + Nth(B, k - a)]
<1>1. /\ L \in Nat /\ Len(t) \in Nat /\ DOMAIN s = 1..L /\ DOMAIN t = 1..Len(t)
      /\ u \in Seq(S) /\ DOMAIN u = 1..L + Len(t)
      /\ \A i \in 1..L : u[i] = s[i]
      /\ \A i \in 1..Len(t) : u[L + i] = t[i]
  OBVIOUS
<1>2. A \in SUBSET (1..L) /\ B \in SUBSET (1..Len(t)) /\ C \in SUBSET DOMAIN u
  BY <1>1
<1>c. \A i \in A : i \in C
  BY <1>1
<1>d. \A i \in B : L + i \in C
  BY <1>1
<1>e. \A i \in C : i \in A \/ \E j \in B : i = L + j
  <2> SUFFICES ASSUME NEW i \in C, i \notin 1..L PROVE i - L \in B /\ i = L + (i - L)
    BY <1>1
  <2>1. i \in 1..L + Len(t) /\ u[i] \in H
    BY <1>1
  <2>2. i - L \in 1..Len(t) /\ i = L + (i - L)
    BY <1>1, <2>1
  <2>3. t[i - L] \in H
    BY <1>1, <2>1, <2>2
  <2> QED BY <1>1, <2>2, <2>3
<1>g. /\ At(s, A) \in Seq(S) /\ Len(At(s, A)) = a
      /\ At(t, B) \in Seq(S) /\ Len(At(t, B)) = b
      /\ \A k \in 1..a : At(s, A)[k] = s[Nth(A, k)]
      /\ \A k \in 1..b : At(t, B)[k] = t[Nth(B, k)]
  BY SublistIs
<1>3. /\ a \in Nat
      /\ \A k \in 1..a : Nth(A, k) \in A
      /\ \A k, l \in 1..a : k < l => Nth(A, k) < Nth(A, l)
      /\ \A i \in A : \E k \in 1..a : Nth(A, k) = i
  BY <1>1, <1>2, InPlace
<1>4. /\ b \in Nat
      /\ \A k \in 1..b : Nth(B, k) \in B
      /\ \A k, l \in 1..b : k < l => Nth(B, k) < Nth(B, l)
      /\ \A i \in B : \E k \in 1..b : Nth(B, k) = i
  BY <1>1, <1>2, InPlace
<1> HIDE DEF a, b, A, B, C, u, L
<1>5. a + b \in Nat /\ \A k \in 1..a + b : k \in 1..a \/ \E h \in 1..b : k = a + h
  <2>1. ASSUME NEW k \in 1..a + b, k \notin 1..a PROVE k - a \in 1..b /\ k = a + (k - a)
    BY <1>3, <1>4, <2>1
  <2> QED BY <1>3, <1>4, <2>1
<1>6. \A k \in 1..a : k \in 1..a + b /\ f[k] = Nth(A, k)
  BY <1>3, <1>4
<1>7. \A h \in 1..b : a + h \in 1..a + b /\ f[a + h] = L + Nth(B, h)
  <2> SUFFICES ASSUME NEW h \in 1..b
               PROVE  a + h \in 1..a + b /\ f[a + h] = L + Nth(B, h)
    OBVIOUS
  <2>1. a + h \in 1..a + b /\ ~ (a + h <= a) /\ (a + h) - a = h
    BY <1>3, <1>4
  <2> QED BY <2>1
<1>f. DOMAIN f = 1..a + b /\ f = [k \in 1..a + b |-> f[k]]
  OBVIOUS
<1> HIDE DEF f
<1>8. f \in [1..a + b -> C]
  <2>1. \A k \in 1..a + b : f[k] \in C
    BY <1>3, <1>4, <1>5, <1>6, <1>7, <1>c, <1>d
  <2> QED BY <2>1, <1>f
<1>9. \A k, l \in 1..a + b : k < l => f[k] < f[l]
  <2> SUFFICES ASSUME NEW k \in 1..a + b, NEW l \in 1..a + b, k < l PROVE f[k] < f[l]
    OBVIOUS
  <2>1. CASE k \in 1..a /\ l \in 1..a
    BY <2>1, <1>3, <1>6
  <2>2. CASE k \in 1..a /\ \E h \in 1..b : l = a + h
    <3>1. PICK h \in 1..b : l = a + h
      BY <2>2
    <3>2. f[k] \in 1..L /\ f[l] = L + Nth(B, h) /\ Nth(B, h) \in 1..Len(t)
      BY <1>2, <1>3, <1>4, <1>6, <1>7, <2>2, <3>1
    <3> QED BY <1>1, <3>2
  <2>3. CASE \E g, h \in 1..b : k = a + g /\ l = a + h
    <3>1. PICK g \in 1..b, h \in 1..b : k = a + g /\ l = a + h
      BY <2>3
    <3>2. g < h
      BY <1>3, <1>4, <3>1
    <3>3. /\ f[k] = L + Nth(B, g) /\ f[l] = L + Nth(B, h)
          /\ Nth(B, g) \in 1..Len(t) /\ Nth(B, h) \in 1..Len(t)
      BY <1>2, <1>4, <1>7, <3>1
    <3>4. Nth(B, g) < Nth(B, h)
      BY <1>4, <3>2
    <3> QED BY <1>1, <3>3, <3>4
  <2>4. ~ (l \in 1..a /\ k \notin 1..a)
    BY <1>3, <1>4
  <2> QED BY <1>5, <2>1, <2>2, <2>3, <2>4
<1>10. \A i \in C : \E k \in 1..a + b : f[k] = i
  <2> SUFFICES ASSUME NEW i \in C PROVE \E k \in 1..a + b : f[k] = i
    OBVIOUS
  <2>1. CASE i \in A
    BY <1>3, <1>6, <2>1
  <2>2. CASE \E j \in B : i = L + j
    <3>1. PICK j \in B : i = L + j
      BY <2>2
    <3>2. PICK h \in 1..b : Nth(B, h) = j
      BY <1>4
    <3> QED BY <1>7, <3>1, <3>2
  <2> QED BY <1>e, <2>1, <2>2
<1> DEFINE n == a + b
<1>11. At(u, C) = [k \in 1..n |-> u[f[k]]]
  <2>1. n \in Nat /\ RunsThrough(f, n, C)
    BY <1>5, <1>8, <1>9, <1>10 DEF RunsThrough
  <2>2. u \in Seq(S) /\ C \in SUBSET DOMAIN u
    BY <1>1, <1>2
  <2> HIDE DEF n
  <2> QED BY <2>1, <2>2, Listed
<1> DEFINE p == At(s, A)  q == At(t, B)
<1> HIDE DEF p, q
<1>12. p \o q = [k \in 1..n |-> IF k <= a THEN p[k] ELSE q[k - a]]
  <2>1. p \in Seq(S) /\ Len(p) = a /\ q \in Seq(S) /\ Len(q) = b
    BY <1>g DEF p, q
  <2>2. a \in Nat /\ b \in Nat /\ n = a + b
    BY <1>3, <1>4
  <2> HIDE DEF n
  <2>3. /\ p \o q \in Seq(S) /\ Len(p \o q) = n
        /\ \A k \in 1..n : (p \o q)[k] = IF k <= a THEN p[k] ELSE q[k - a]
    BY <2>1, <2>2, ConcatProperties
  <2>4. \A v \in Seq(S) : v = [k \in 1..Len(v) |-> v[k]]
    OBVIOUS
  <2>5. p \o q = [k \in 1..n |-> (p \o q)[k]]
    BY <2>3, <2>4, Zenon
  <2> QED BY <2>3, <2>5
<1>13. \A k \in 1..n : u[f[k]] = IF k <= a THEN p[k] ELSE q[k - a]
  <2> SUFFICES ASSUME NEW k \in 1..n
               PROVE  u[f[k]] = IF k <= a THEN p[k] ELSE q[k - a]
    OBVIOUS
  <2>1. CASE k \in 1..a
    <3>0. Nth(A, k) \in A
      BY <1>3, <2>1
    <3>1. k <= a /\ f[k] = Nth(A, k) /\ Nth(A, k) \in 1..L
      <4>1. k <= a
        BY <2>1, <1>3
      <4> QED BY <1>2, <1>6, <2>1, <3>0, <4>1
    <3> QED BY <1>1, <1>g, <2>1, <3>1 DEF p
  <2>2. CASE \E h \in 1..b : k = a + h
    <3>1. PICK h \in 1..b : k = a + h
      BY <2>2
    <3>2. ~ (k <= a) /\ k - a = h
      BY <1>3, <1>4, <3>1
    <3>3. f[k] = L + Nth(B, h) /\ Nth(B, h) \in 1..Len(t)
      BY <1>2, <1>4, <1>7, <3>1
    <3> QED BY <1>1, <1>g, <3>2, <3>3 DEF q
  <2> QED BY <1>5, <2>1, <2>2
<1>14. At(u, C) = p \o q
  BY <1>11, <1>12, <1>13
<1> QED BY <1>14 DEF Those, p, q, A, B, C, u

-----------------------------------------------------------------------------
\* None of a list that has no entry among some headers, the whole of a list that has
\* all of its entries among them.
LEMMA ThoseOfNone ==
  ASSUME NEW S, NEW list \in Seq(S), NEW H, \A i \in DOMAIN list : list[i] \notin H
  PROVE  Those(list, H) = <<>>
<1>1. {i \in DOMAIN list : list[i] \in H} = {}
  OBVIOUS
<1> QED BY <1>1, NoneAndAll DEF Those

LEMMA ThoseOfAll ==
  ASSUME NEW S, NEW list \in Seq(S), NEW H, \A i \in DOMAIN list : list[i] \in H
  PROVE  Those(list, H) = list
<1>1. {i \in DOMAIN list : list[i] \in H} = DOMAIN list
  OBVIOUS
<1> QED BY <1>1, NoneAndAll DEF Those

-----------------------------------------------------------------------------
\* p maps the first n numbers one to one to themselves.
Permutes(p, n) ==
  /\ p \in [1..n -> 1..n]
  /\ \A i, j \in 1..n : p[i] = p[j] => i = j
  /\ \A k \in 1..n : \E i \in 1..n : p[i] = k

\* No two numbers to one is enough: there are as many as there are.
LEMMA OneToOne ==
  ASSUME NEW n \in Nat, NEW p \in [1..n -> 1..n], \A i, j \in 1..n : p[i] = p[j] => i = j
  PROVE  Permutes(p, n)
<1>1. IsFiniteSet(1..n) /\ Cardinality(1..n) = n
  BY FS_Interval
<1>2. p \in Injection(1..n, 1..n)
  BY DEF Injection, IsInjective
<1>3. p \in Surjection(1..n, 1..n)
  BY <1>1, <1>2, FS_Injection
<1> QED BY <1>3 DEF Permutes, Surjection

\* What undoes a permutation is one.
Undoing(p, n) == [k \in 1..n |-> CHOOSE i \in 1..n : p[i] = k]

LEMMA Undone ==
  ASSUME NEW n \in Nat, NEW p, Permutes(p, n)
  PROVE  /\ Permutes(Undoing(p, n), n)
         /\ \A k \in 1..n : p[Undoing(p, n)[k]] = k
         /\ \A i \in 1..n : Undoing(p, n)[p[i]] = i
<1> DEFINE q == Undoing(p, n)
<1>1. p \in [1..n -> 1..n] /\ \A i, j \in 1..n : p[i] = p[j] => i = j
  BY DEF Permutes
<1>2. ASSUME NEW k \in 1..n PROVE q[k] \in 1..n /\ p[q[k]] = k
  <2>1. \E i \in 1..n : p[i] = k
    BY DEF Permutes
  <2> QED BY <2>1 DEF Undoing
<1>3. q \in [1..n -> 1..n]
  BY <1>2 DEF Undoing
<1> HIDE DEF q
<1>4. \A k, l \in 1..n : q[k] = q[l] => k = l
  BY <1>2
<1>5. Permutes(q, n)
  BY <1>3, <1>4, OneToOne
<1>6. \A i \in 1..n : q[p[i]] = i
  BY <1>1, <1>2
<1> QED BY <1>2, <1>5, <1>6 DEF q

\* Of two permutations one carries the first to the other.
LEMMA Carried ==
  ASSUME NEW n \in Nat, NEW f, NEW g, Permutes(f, n), Permutes(g, n)
  PROVE  \E p : Permutes(p, n) /\ \A k \in 1..n : p[f[k]] = g[k]
<1> DEFINE u == Undoing(f, n)
           p == [i \in 1..n |-> g[u[i]]]
<1>1. /\ f \in [1..n -> 1..n] /\ g \in [1..n -> 1..n]
      /\ \A i, j \in 1..n : g[i] = g[j] => i = j
  BY DEF Permutes
<1>2. /\ u \in [1..n -> 1..n] /\ \A i, j \in 1..n : u[i] = u[j] => i = j
      /\ \A i \in 1..n : u[f[i]] = i
  <2>1. Permutes(u, n) /\ \A i \in 1..n : u[f[i]] = i
    BY Undone
  <2> HIDE DEF u
  <2> QED BY <2>1 DEF Permutes
<1> HIDE DEF u
<1>3. p \in [1..n -> 1..n] /\ \A i, j \in 1..n : p[i] = p[j] => i = j
  BY <1>1, <1>2
<1>4. \A k \in 1..n : p[f[k]] = g[k]
  BY <1>1, <1>2
<1> HIDE DEF p
<1>5. Permutes(p, n)
  BY <1>3, OneToOne
<1> QED BY <1>4, <1>5

\* A permutation carries a set to one that is as large.
LEMMA SameCount ==
  ASSUME NEW n \in Nat, NEW p, Permutes(p, n), NEW A \in SUBSET (1..n), NEW B \in SUBSET (1..n),
         \A i \in 1..n : i \in A <=> p[i] \in B
  PROVE  Cardinality(A) = Cardinality(B)
<1> DEFINE f == [i \in A |-> p[i]]
<1>1. IsFiniteSet(A)
  <2>1. IsFiniteSet(1..n)
    BY FS_Interval
  <2> QED BY <2>1, FS_Subset
<1>2. f \in [A -> B] /\ \A i, j \in A : f[i] = f[j] => i = j
  BY DEF Permutes
<1>3. \A k \in B : \E i \in A : f[i] = k
  BY DEF Permutes
<1> HIDE DEF f
<1>4. f \in Bijection(A, B)
  BY <1>2, <1>3 DEF Bijection, Injection, Surjection, IsInjective
<1> QED BY <1>1, <1>4, FS_Bijection DEF ExistsBijection
=============================================================================
