------------------------ MODULE RequestHeadersProofs ------------------------
(***************************************************************************)
(* Proofs about RequestHeaders, for every base list, every list of the     *)
(* application and every order, of any length.  The inductive invariant    *)
(* says where each loop stands: which entries of the copy the base headers *)
(* before head have taken, which of the rest have been appended, and which *)
(* lines have been put in order.                                           *)
(***************************************************************************)
EXTENDS RequestHeaders, Lemmas

\* Every header and line there is.
All == EntriesOf(Bases \cup Owns) \cup {Header("User-Agent", a) : a \in UserAgents}

\* Lists of headers, and an order the option took.
Typed ==
    /\ new_list \in Seq(All) /\ lines \in Seq(All) /\ out \in Seq(All)
    /\ dup \in [DOMAIN headers -> All \cup {Freed}]
    /\ order # NoOrder => valid_header_order(order)
    /\ pc \in {"base", "more", "add"} => lines = <<>> /\ out = <<>> /\ used = {}
    /\ pc = "base" => base # <<>>
    /\ pc = "more" => base # <<>>

\* One of the first n base headers is one the application's header at j replaces.
Taken(own, j, b, n) == \E i \in 1..n : Overrides(own, j, b, i)

\* The application's headers that replace none, those Extras has.
Left(b, own) == {j \in DOMAIN own : \A i \in DOMAIN b : ~Overrides(own, j, b, i)}

\* How far the merge is.
Merging ==
    /\ pc = "base" =>
          /\ new_list = At(Dressed(base, headers, agent), {i \in Headed(base) : i < head})
          /\ dup = [j \in DOMAIN headers |->
                       IF Taken(headers, j, base, head - 1) THEN Freed ELSE headers[j]]
    /\ pc = "more" =>
          /\ new_list = At(Dressed(base, headers, agent), Headed(base))
                        \o At(headers, {j \in Left(base, headers) : j < head})
          /\ dup = [j \in DOMAIN headers |->
                       IF j \in Left(base, headers) THEN headers[j] ELSE Freed]

\* Where the order wants a line, as OrderIsStableSort says.
Place(ord, h) ==
    IF h.name \in ToSet(ord) THEN CHOOSE i \in DOMAIN ord : ord[i] = h.name ELSE Len(ord) + 1

\* The lines for the places before n, and no others, are in order.
InOrder(ord, list, done, sorted, n) ==
    /\ done = {i \in DOMAIN list : Place(ord, list[i]) < n}
    /\ \A i \in DOMAIN sorted : Place(ord, sorted[i]) < n
    /\ \A i, j \in DOMAIN sorted : i < j => Place(ord, sorted[i]) <= Place(ord, sorted[j])
    /\ \A k \in 1..n - 1 : At(sorted, {i \in DOMAIN sorted : Place(ord, sorted[i]) = k})
                           = At(list, {i \in DOMAIN list : Place(ord, list[i]) = k})

\* How far the order is.
Sorting ==
    /\ pc = "order" => order # NoOrder /\ InOrder(order, lines, used, out, head)
    /\ pc = "rest"  => order # NoOrder /\ InOrder(order, lines, used, out, Len(order) + 1)

IInv == TypeOK /\ Typed /\ Merging /\ Sorting /\ MergeIsAsDefined /\ OrderIsStableSort

-----------------------------------------------------------------------------
(***************************************************************************)
(* Ranks: the headers of a name are numbered from one, without a gap.      *)
(***************************************************************************)

Places(list, name) == {i \in DOMAIN list : list[i].name = name}

LEMMA RanksRise ==
    ASSUME NEW S, NEW list \in Seq(S), NEW name
    PROVE  LET P == Places(list, name) IN
           /\ \A i \in P : Rank(list, i) \in Nat /\ 1 <= Rank(list, i)
           /\ \A i, j \in P : i < j => Rank(list, i) < Rank(list, j)
           /\ \A i \in P : \A r \in 1..Rank(list, i) :
                 \E j \in P : j <= i /\ Rank(list, j) = r
<1> DEFINE P == Places(list, name)
           C(i) == Cardinality({j \in P : j <= i})
<1>1. Len(list) \in Nat /\ DOMAIN list = 1..Len(list) /\ P \in SUBSET (1..Len(list))
  BY DEF Places
<1>2. ASSUME NEW i \in P PROVE Rank(list, i) = C(i)
  <2>1. {j \in 1..i : list[j].name = list[i].name} = {j \in P : j <= i}
    BY <1>1 DEF Places
  <2> QED BY <2>1 DEF Rank
<1>n. \A i \in P : i \in Nat
  BY <1>1
<1> HIDE DEF P
<1>3. /\ Cardinality(P) \in Nat
      /\ \A i \in P : C(i) \in 1..Cardinality(P)
      /\ \A i, j \in P : i < j => C(i) < C(j)
  BY <1>1, PlacesAreNumbered
<1>4. \A k \in 1..Cardinality(P) : Nth(P, k) \in P /\ C(Nth(P, k)) = k
  BY <1>1, InPlace
<1> HIDE DEF C
<1>5. ASSUME NEW i \in P, NEW r \in 1..C(i)
      PROVE  \E j \in P : j <= i /\ C(j) = r
  <2>1. r \in 1..Cardinality(P) /\ r <= C(i) /\ C(i) \in Nat
    BY <1>3
  <2> DEFINE j == Nth(P, r)
  <2>2. j \in P /\ C(j) = r
    BY <1>4, <2>1
  <2> HIDE DEF j
  <2>3. ~ (i < j)
    <3>1. i < j => C(i) < C(j)
      BY <1>3, <2>2
    <3> QED BY <3>1, <2>1, <2>2
  <2> QED BY <2>2, <2>3, <1>n
<1>6. /\ \A i \in P : Rank(list, i) \in Nat /\ 1 <= Rank(list, i)
      /\ \A i, j \in P : i < j => Rank(list, i) < Rank(list, j)
  BY <1>2, <1>3
<1>7. \A i \in P : \A r \in 1..Rank(list, i) : \E j \in P : j <= i /\ Rank(list, j) = r
  BY <1>2, <1>5
<1> QED BY <1>6, <1>7 DEF P

\* The entries of the copy with the next base header's name are those whose rank is
\* its rank or more; so the first of them has its rank, if any has.
LEMMA FirstFreeOverrides ==
    ASSUME NEW S, NEW b \in Seq(S), NEW own \in Seq(S), NEW n \in DOMAIN b,
           NEW F, \A j : j \in F <=> j \in DOMAIN own /\ own[j].name = b[n].name
                                      /\ ~Taken(own, j, b, n - 1)
    PROVE  /\ F # {} => Min(F) \in DOMAIN own /\ Overrides(own, Min(F), b, n)
           /\ F = {} => \A j \in DOMAIN own : ~Overrides(own, j, b, n)
           /\ \A i, j \in DOMAIN own : Overrides(own, i, b, n) /\ Overrides(own, j, b, n) => i = j
<1> DEFINE name == b[n].name
           P == Places(own, name)
           B == Places(b, name)
           r == Rank(b, n)
<1>1. /\ \A j \in P : Rank(own, j) \in Nat /\ 1 <= Rank(own, j)
      /\ \A i, j \in P : i < j => Rank(own, i) < Rank(own, j)
      /\ \A i \in P : \A q \in 1..Rank(own, i) : \E j \in P : j <= i /\ Rank(own, j) = q
  BY RanksRise
<1>2. /\ \A j \in B : Rank(b, j) \in Nat /\ 1 <= Rank(b, j)
      /\ \A i, j \in B : i < j => Rank(b, i) < Rank(b, j)
      /\ \A i \in B : \A q \in 1..Rank(b, i) : \E j \in B : j <= i /\ Rank(b, j) = q
  BY RanksRise
<1>3. n \in B /\ r \in Nat /\ 1 <= r
  BY <1>2 DEF Places
<1>4. \A j : j \in P <=> j \in DOMAIN own /\ own[j].name = name /\ j \in Nat
  BY DEF Places
<1>5. \A i : i \in B <=> i \in DOMAIN b /\ b[i].name = name /\ i \in Nat
  BY DEF Places
<1>6. \A j \in DOMAIN own, i \in DOMAIN b :
         Overrides(own, j, b, i) <=> own[j].name = b[i].name /\ Rank(own, j) = Rank(b, i)
  BY DEF Overrides
<1>7. \A j \in P : Overrides(own, j, b, n) <=> Rank(own, j) = r
  BY <1>4, <1>6
<1>8. \A j \in DOMAIN own : Overrides(own, j, b, n) => j \in P
  BY <1>4, <1>6
<1>9. ASSUME NEW j \in P PROVE Taken(own, j, b, n - 1) <=> Rank(own, j) < r
  <2>1. ASSUME NEW i \in 1..n - 1, Overrides(own, j, b, i) PROVE Rank(own, j) < r
    <3>1. i \in DOMAIN b /\ i < n
      OBVIOUS
    <3>2. i \in B /\ Rank(own, j) = Rank(b, i)
      BY <1>4, <1>5, <1>6, <2>1, <3>1
    <3>3. Rank(b, i) < Rank(b, n)
      BY <1>2, <1>3, <3>1, <3>2
    <3> QED BY <3>2, <3>3
  <2>2. ASSUME Rank(own, j) < r PROVE \E i \in 1..n - 1 : Overrides(own, j, b, i)
    <3>1. Rank(own, j) \in 1..Rank(b, n)
      BY <1>1, <1>3, <2>2
    <3>2. PICK i \in B : i <= n /\ Rank(b, i) = Rank(own, j)
      BY <1>2, <1>3, <3>1
    <3>3. i # n
      BY <1>1, <1>3, <2>2, <3>2
    <3>4. i \in 1..n - 1
      <4>1. i \in 1..Len(b) /\ n \in Nat /\ Len(b) \in Nat
        BY <1>5
      <4> QED BY <3>2, <3>3, <4>1
    <3>5. Overrides(own, j, b, i)
      BY <1>4, <1>5, <1>6, <3>2
    <3> QED BY <3>4, <3>5
  <2> QED BY <2>1, <2>2 DEF Taken
<1>10. \A j : j \in F <=> j \in P /\ ~ (Rank(own, j) < r)
  BY <1>4, <1>9
<1> HIDE DEF P, B, r, name
<1>11. \A i, j \in P : Rank(own, i) = Rank(own, j) => i = j
  <2> SUFFICES ASSUME NEW i \in P, NEW j \in P, i # j PROVE Rank(own, i) # Rank(own, j)
    OBVIOUS
  <2>1. i < j \/ j < i
    BY <1>4
  <2> QED BY <1>1, <2>1
<1>12. ASSUME F # {}
       PROVE  Min(F) \in DOMAIN own /\ Overrides(own, Min(F), b, n)
  <2> DEFINE m == Min(F)
  <2>1. F \in SUBSET Nat
    BY <1>4, <1>10
  <2>2. m \in F /\ \A j \in F : m <= j
    BY <1>12, <2>1, MinIsLeast
  <2> HIDE DEF m
  <2>3. m \in P /\ ~ (Rank(own, m) < r) /\ Rank(own, m) \in Nat /\ m \in Nat
    BY <1>1, <1>4, <1>10, <2>2
  <2>4. r \in 1..Rank(own, m)
    BY <1>3, <2>3
  <2>5. PICK j \in P : j <= m /\ Rank(own, j) = r
    BY <1>1, <2>3, <2>4
  <2>6. j \in F /\ j \in Nat
    BY <1>3, <1>4, <1>10, <2>5
  <2>7. j = m
    BY <2>2, <2>3, <2>5, <2>6
  <2>8. m \in DOMAIN own /\ Overrides(own, m, b, n)
    BY <1>4, <1>7, <2>3, <2>5, <2>7
  <2> QED BY <2>8 DEF m
<1>13. ASSUME F = {}, NEW j \in DOMAIN own, Overrides(own, j, b, n) PROVE FALSE
  <2>1. j \in P /\ Rank(own, j) = r
    BY <1>7, <1>8, <1>13
  <2> QED BY <1>3, <1>10, <1>13, <2>1
<1> QED BY <1>7, <1>8, <1>11, <1>12, <1>13

-----------------------------------------------------------------------------
\* Every list there is is a list of headers, none of them the mark of a freed one.
LEMMA Headers ==
    /\ \A list \in Bases \cup Owns : list \in Seq(All) /\ \A i \in DOMAIN list : list[i] # Freed
    /\ \A a \in UserAgents : Header("User-Agent", a) \in All
<1>1. ASSUME NEW list \in Bases \cup Owns
      PROVE  list \in Seq(All) /\ \A i \in DOMAIN list : list[i] # Freed
  <2>1. list \in Seq(EntriesOf(Bases \cup Owns)) /\ Freed \notin EntriesOf(Bases \cup Owns)
    BY HeaderAssumption
  <2>2. EntriesOf(Bases \cup Owns) \subseteq All
    BY DEF All
  <2>3. /\ Len(list) \in Nat /\ DOMAIN list = 1..Len(list)
        /\ list = [i \in 1..Len(list) |-> list[i]]
        /\ \A i \in DOMAIN list : list[i] \in All /\ list[i] # Freed
    <3>1. /\ Len(list) \in Nat /\ DOMAIN list = 1..Len(list)
          /\ list = [i \in 1..Len(list) |-> list[i]]
          /\ \A i \in DOMAIN list : list[i] \in EntriesOf(Bases \cup Owns)
      BY <2>1
    <3> QED BY <2>1, <2>2, <3>1
  <2>4. list \in [1..Len(list) -> All]
    BY <2>3
  <2> QED BY <2>3, <2>4
<1>2. \A a \in UserAgents : Header("User-Agent", a) \in All
  BY DEF All
<1> QED BY <1>1, <1>2

\* Orders are lists of names.
LEMMA Names == \A ord \in Orders : ord \in Seq(EntriesOf(Orders))
BY OrderAssumption

\* What the merge makes is made of headers.
LEMMA DressedType ==
    ASSUME NEW S, NEW b \in Seq(S), NEW own \in Seq(S), NEW a, Header("User-Agent", a) \in S
    PROVE  Dressed(b, own, a) \in Seq(S) /\ Len(Dressed(b, own, a)) = Len(b)
<1> DEFINE D == Dressed(b, own, a)
<1>1. ASSUME NEW i \in DOMAIN b PROVE D[i] \in S
  <2>1. CASE \E j \in DOMAIN own : Overrides(own, j, b, i)
    <3>1. D[i] = own[CHOOSE j \in DOMAIN own : Overrides(own, j, b, i)]
      BY <2>1 DEF Dressed
    <3>2. (CHOOSE j \in DOMAIN own : Overrides(own, j, b, i)) \in DOMAIN own
      BY <2>1
    <3> QED BY <3>1, <3>2
  <2>2. CASE ~ \E j \in DOMAIN own : Overrides(own, j, b, i)
    BY <2>2 DEF Dressed
  <2> QED BY <2>1, <2>2
<1>2. DOMAIN D = 1..Len(b) /\ Len(b) \in Nat /\ D = [i \in DOMAIN b |-> D[i]]
  BY DEF Dressed
<1> HIDE DEF D
<1>3. D \in Seq(S) /\ Len(D) = Len(b)
  <2>1. D \in [1..Len(b) -> S]
    BY <1>1, <1>2
  <2> QED BY <1>2, <2>1
<1> QED BY <1>3 DEF D

LEMMA ExtrasType ==
    ASSUME NEW S, NEW b, NEW own \in Seq(S)
    PROVE  Extras(b, own) = At(own, Left(b, own)) /\ Extras(b, own) \in Seq(S)
<1>1. Extras(b, own) = At(own, Left(b, own))
  BY DEF Extras, Left
<1>2. Left(b, own) \in SUBSET DOMAIN own
  BY DEF Left
<1> QED BY <1>1, <1>2, SublistIs

\* The lines of a list are its headers, and the User-Agent.
LEMMA LinesType ==
    ASSUME NEW S, NEW list \in Seq(S), NEW a, NEW h1, Header("User-Agent", a) \in S
    PROVE  Lines(list, a, h1) \in Seq(S)
<1> DEFINE first == IF a # NoAgent /\ Agents(list) = {}
                    THEN <<Header("User-Agent", a)>> ELSE <<>>
           P == {i \in DOMAIN list :
                   list[i].value # Blank /\ list[i].name \notin Omitted(list, h1)}
<1>1. first \in Seq(S) /\ P \in SUBSET DOMAIN list
  OBVIOUS
<1>2. Lines(list, a, h1) = first \o At(list, P)
  BY DEF Lines
<1> HIDE DEF first, P
<1>3. At(list, P) \in Seq(S)
  BY <1>1, SublistIs
<1> QED BY <1>1, <1>2, <1>3, ConcatProperties

LEMMA InitHolds == Init => IInv
<1> SUFFICES ASSUME Init PROVE IInv
  OBVIOUS
<1>1. /\ base \in Bases /\ headers \in Owns /\ agent \in UserAgents /\ http1 \in BOOLEAN
      /\ order \in {o \in Orders : valid_header_order(o)} \cup {NoOrder}
      /\ dup = headers /\ new_list = <<>>
      /\ pc = IF base = <<>> THEN "add" ELSE "base"
      /\ head = 1 /\ lines = <<>> /\ used = {} /\ out = <<>>
  BY DEF Init
<1>2. /\ headers \in Seq(All) /\ base \in Seq(All)
      /\ \A i \in DOMAIN headers : headers[i] # Freed
  BY <1>1, Headers
<1>3. TypeOK
  <2>1. pc = "base" => 1 \in 1..Len(base)
    BY <1>1, <1>2
  <2> QED BY <1>1, <2>1 DEF TypeOK
<1>4. Typed
  BY <1>1, <1>2, OrderAssumption DEF Typed
<1>5. Merging
  <2>1. \A j \in DOMAIN headers : ~ Taken(headers, j, base, head - 1)
    BY <1>1 DEF Taken
  <2>2. headers = [j \in DOMAIN headers |->
                      IF Taken(headers, j, base, head - 1) THEN Freed ELSE headers[j]]
    BY <1>2, <2>1
  <2>3. pc = "base" =>
           new_list = At(Dressed(base, headers, agent), {i \in Headed(base) : i < head})
    <3> DEFINE D == Dressed(base, headers, agent)
    <3>1. {i \in Headed(base) : i < head} = {}
      BY <1>1, <1>2 DEF Headed
    <3>2. D \in Seq(All)
      <4>1. Header("User-Agent", agent) \in All
        BY <1>1, Headers
      <4> HIDE DEF D
      <4>2. Dressed(base, headers, agent) \in Seq(All)
        BY <1>2, <4>1, DressedType
      <4> QED BY <4>2 DEF D
    <3> HIDE DEF D
    <3>3. At(D, {}) = <<>>
      BY <3>2, NoneAndAll
    <3> QED BY <1>1, <3>1, <3>3 DEF D
  <2> QED BY <1>1, <2>2, <2>3 DEF Merging
<1>6. Sorting /\ MergeIsAsDefined /\ OrderIsStableSort
  BY <1>1 DEF Sorting, MergeIsAsDefined, OrderIsStableSort
<1> QED BY <1>3, <1>4, <1>5, <1>6 DEF IInv

-----------------------------------------------------------------------------
(***************************************************************************)
(* The merge.                                                              *)
(***************************************************************************)

\* What a step of the first loop adds is the next dressed header, and the entry it
\* takes is the one that header is made of.
LEMMA NextDressed ==
    ASSUME IInv, pc = "base"
    PROVE  LET D == Dressed(base, headers, agent) IN
           /\ Candidates # {} =>
                 /\ Min(Candidates) \in DOMAIN headers
                 /\ dup[Min(Candidates)] = D[head]
                 /\ \A j \in DOMAIN headers :
                       Overrides(headers, j, base, head) <=> j = Min(Candidates)
           /\ Candidates = {} =>
                 /\ D[head] = IF base[head].name \in AgentPrefixes /\ agent # NoAgent
                              THEN Header("User-Agent", agent) ELSE base[head]
                 /\ \A j \in DOMAIN headers : ~Overrides(headers, j, base, head)
<1> DEFINE F == Candidates
           D == Dressed(base, headers, agent)
<1>1. /\ base \in Seq(All) /\ headers \in Seq(All)
      /\ \A j \in DOMAIN headers : headers[j] # Freed
      /\ head \in DOMAIN base
  BY Headers DEF IInv, TypeOK
<1>2. /\ DOMAIN dup = DOMAIN headers
      /\ \A j \in DOMAIN headers :
            dup[j] = IF Taken(headers, j, base, head - 1) THEN Freed ELSE headers[j]
  BY DEF IInv, Merging
<1>3. \A j : j \in F <=> j \in DOMAIN headers /\ headers[j].name = base[head].name
                          /\ ~Taken(headers, j, base, head - 1)
  BY <1>1, <1>2 DEF Candidates
<1>4. \A j \in F : dup[j] = headers[j]
  BY <1>2, <1>3
<1> HIDE DEF F
<1>5. /\ F # {} => Min(F) \in DOMAIN headers /\ Overrides(headers, Min(F), base, head)
      /\ F = {} => \A j \in DOMAIN headers : ~Overrides(headers, j, base, head)
      /\ \A i, j \in DOMAIN headers :
            Overrides(headers, i, base, head) /\ Overrides(headers, j, base, head) => i = j
  BY <1>1, <1>3, FirstFreeOverrides
<1>6. CASE F # {}
  <2>1. Min(F) \in F
    <3>1. F \in SUBSET Nat
      BY <1>1, <1>3
    <3> QED BY <1>6, <3>1, MinIsLeast
  <2> DEFINE m == Min(F)
  <2> HIDE DEF m
  <2>2. \A j \in DOMAIN headers : Overrides(headers, j, base, head) <=> j = m
    BY <1>5, <1>6 DEF m
  <2>3. m \in DOMAIN headers /\ dup[m] = headers[m]
    BY <1>4, <1>5, <1>6, <2>1 DEF m
  <2>4. (CHOOSE j \in DOMAIN headers : Overrides(headers, j, base, head)) = m
    BY <2>2, <2>3
  <2>5. D[head] = headers[m]
    BY <1>1, <2>2, <2>3, <2>4 DEF Dressed
  <2> QED BY <1>6, <2>2, <2>3, <2>5 DEF m, F
<1>7. CASE F = {}
  <2>1. \A j \in DOMAIN headers : ~Overrides(headers, j, base, head)
    BY <1>5, <1>7
  <2>2. D[head] = IF base[head].name \in AgentPrefixes /\ agent # NoAgent
                  THEN Header("User-Agent", agent) ELSE base[head]
    BY <1>1, <2>1 DEF Dressed
  <2> QED BY <1>7, <2>1, <2>2 DEF F
<1> QED BY <1>6, <1>7

\* A base header more has taken what it overrides.
LEMMA TakenByOneMore ==
    ASSUME NEW own, NEW j, NEW b, NEW n \in Nat, 1 <= n
    PROVE  Taken(own, j, b, n) <=> Taken(own, j, b, n - 1) \/ Overrides(own, j, b, n)
<1>1. \A i : i \in 1..n <=> i \in 1..n - 1 \/ i = n
  OBVIOUS
<1> QED BY <1>1 DEF Taken

LEMMA MergeBaseHolds == IInv /\ MergeBase => IInv'
<1> SUFFICES ASSUME IInv, MergeBase PROVE IInv'
  OBVIOUS
<1> DEFINE D == Dressed(base, headers, agent)
           L == Left(base, headers)
           taken(j) == Taken(headers, j, base, head)
           H(n) == {i \in Headed(base) : i < n}
<1>1. /\ pc = "base" /\ base # <<>>
      /\ base' = base /\ headers' = headers /\ agent' = agent /\ http1' = http1
      /\ order' = order /\ lines' = lines /\ used' = used /\ out' = out
      /\ lines = <<>> /\ out = <<>> /\ used = {}
      /\ GoOn(Len(base), IF headers = <<>> THEN "add" ELSE "more")
  BY DEF IInv, Typed, MergeBase, input, sort
<1>2. /\ base \in Seq(All) /\ headers \in Seq(All) /\ Header("User-Agent", agent) \in All
      /\ \A j \in DOMAIN headers : headers[j] # Freed
      /\ head \in 1..Len(base) /\ Len(base) \in Nat /\ head \in Nat
  BY <1>1, Headers DEF IInv, TypeOK
<1>3. /\ new_list \in Seq(All) /\ new_list = At(D, H(head))
      /\ DOMAIN dup = DOMAIN headers
      /\ \A j \in DOMAIN headers :
            dup[j] = IF Taken(headers, j, base, head - 1) THEN Freed ELSE headers[j]
  BY <1>1 DEF IInv, Typed, Merging
<1>4. D \in Seq(All) /\ Len(D) = Len(base)
  <2> HIDE DEF D
  <2>1. /\ Dressed(base, headers, agent) \in Seq(All)
        /\ Len(Dressed(base, headers, agent)) = Len(base)
    <3>1. base \in Seq(All) /\ headers \in Seq(All) /\ Header("User-Agent", agent) \in All
      BY <1>2
    <3> QED BY <3>1, DressedType
  <2> QED BY <2>1 DEF D
<1>h. /\ \A n : H(n) \in SUBSET DOMAIN D /\ \A i \in H(n) : i < n
      /\ base[head].name = NoName => H(head + 1) = H(head)
      /\ base[head].name # NoName => H(head + 1) = H(head) \cup {head}
  <2>1. DOMAIN D = DOMAIN base /\ \A i \in DOMAIN base : i \in Nat
    BY <1>2, <1>4
  <2>2. \A i \in Headed(base) : i < head + 1 <=> i < head \/ i = head
    BY <1>2, <2>1 DEF Headed
  <2>3. head \in Headed(base) <=> base[head].name # NoName
    BY <1>2 DEF Headed
  <2>4. Headed(base) \subseteq DOMAIN D
    BY <2>1 DEF Headed
  <2> HIDE DEF D
  <2> QED BY <1>2, <2>2, <2>3, <2>4
<1>5. /\ new_list' = IF base[head].name = NoName THEN new_list ELSE Append(new_list, D[head])
      /\ dup' \in [DOMAIN headers -> All \cup {Freed}]
      /\ \A j \in DOMAIN headers :
            dup'[j] = IF taken(j) THEN Freed ELSE headers[j]
  <2>0. \A j \in DOMAIN headers :
           taken(j) <=> Taken(headers, j, base, head - 1) \/ Overrides(headers, j, base, head)
    BY <1>2, TakenByOneMore
  <2>d. dup \in [DOMAIN headers -> All \cup {Freed}]
    BY DEF IInv, Typed
  <2>1. CASE TakeOwn
    <3> DEFINE m == Min(Candidates)
    <3>1. /\ m \in DOMAIN headers /\ dup[m] = D[head]
          /\ \A j \in DOMAIN headers : Overrides(headers, j, base, head) <=> j = m
      BY <1>1, <2>1, NextDressed DEF TakeOwn
    <3>2. /\ base[head].name # NoName
          /\ new_list' = Append(new_list, dup[m]) /\ dup' = [dup EXCEPT ![m] = Freed]
      BY <2>1 DEF TakeOwn, Take
    <3> HIDE DEF m, D, H
    <3> QED BY <1>3, <2>0, <2>d, <3>1, <3>2
  <2>2. CASE KeepBase
    <3>1. /\ D[head] = IF base[head].name \in AgentPrefixes /\ agent # NoAgent
                       THEN Header("User-Agent", agent) ELSE base[head]
          /\ \A j \in DOMAIN headers : ~Overrides(headers, j, base, head)
      BY <1>1, <2>2, NextDressed DEF KeepBase
    <3>2. base[head].name # NoName /\ new_list' = Append(new_list, D[head]) /\ dup' = dup
      BY <2>2, <3>1 DEF KeepBase
    <3> QED BY <1>3, <2>0, <2>d, <3>1, <3>2
  <2>3. CASE PassLine
    <3>1. base[head].name = NoName /\ new_list' = new_list /\ dup' = dup
      BY <2>3 DEF PassLine, merge
    <3>2. \A j \in DOMAIN headers : ~Overrides(headers, j, base, head)
      BY <3>1, NameAssumption DEF IInv, TypeOK, Overrides
    <3> QED BY <1>3, <2>0, <2>d, <3>1, <3>2
  <2> QED BY <2>1, <2>2, <2>3 DEF MergeBase
<1> HIDE DEF D, taken, H
<1>6. new_list' \in Seq(All) /\ new_list' = At(D, H(head + 1))
  <2>1. D[head] \in All /\ head \in DOMAIN D
    BY <1>2, <1>4
  <2>2. CASE base[head].name = NoName
    BY <1>3, <1>5, <1>h, <2>2
  <2>3. CASE base[head].name # NoName
    <3>1. H(head) \in SUBSET DOMAIN D /\ \A i \in H(head) : i < head
      BY <1>h
    <3> DEFINE P == H(head)
    <3> HIDE DEF P
    <3>2. At(D, P \cup {head}) = Append(At(D, P), D[head])
      <4>1. D \in Seq(All) /\ P \in SUBSET DOMAIN D /\ \A i \in P : i < head
        BY <1>4, <3>1 DEF P
      <4> QED BY <2>1, <4>1, OneMore
    <3>3. Append(new_list, D[head]) \in Seq(All)
      BY <1>3, <2>1
    <3> QED BY <1>3, <1>5, <1>h, <2>3, <3>2, <3>3 DEF P
  <2> QED BY <2>2, <2>3
<1>7. Sorting' /\ OrderIsStableSort'
  BY <1>1 DEF GoOn, Sorting, OrderIsStableSort
<1>8. CASE head # Len(base)
  <2>1. pc' = "base" /\ head' = head + 1
    BY <1>1, <1>8 DEF GoOn
  <2>2. TypeOK'
    <3>1. head' \in 1..Len(base') /\ DOMAIN dup' = DOMAIN headers' /\ used' \subseteq DOMAIN lines'
      BY <1>1, <1>2, <1>5, <1>8, <2>1
    <3> QED BY <1>1, <2>1, <3>1 DEF IInv, TypeOK
  <2>3. Typed'
    BY <1>1, <1>5, <1>6, <2>1 DEF IInv, Typed
  <2>4. Merging'
    <3>1. /\ head' - 1 = head /\ Dressed(base', headers', agent') = D
          /\ {i \in Headed(base') : i < head'} = H(head + 1)
      BY <1>1, <1>2, <2>1 DEF D, H
    <3>2. dup' = [j \in DOMAIN headers' |->
                     IF Taken(headers', j, base', head' - 1) THEN Freed ELSE headers'[j]]
      BY <1>1, <1>5, <3>1 DEF taken
    <3>3. new_list' = At(Dressed(base', headers', agent'), {i \in Headed(base') : i < head'})
      BY <1>6, <3>1
    <3> QED BY <2>1, <3>2, <3>3 DEF Merging
  <2>5. MergeIsAsDefined'
    BY <2>1 DEF MergeIsAsDefined
  <2> QED BY <1>7, <2>2, <2>3, <2>4, <2>5 DEF IInv
<1>9. CASE head = Len(base)
  <2>1. head' = 1 /\ pc' = IF headers = <<>> THEN "add" ELSE "more"
    BY <1>1, <1>9 DEF GoOn
  <2> DEFINE T == At(D, Headed(base))
  <2>2. new_list' = T /\ T \in Seq(All)
    <3>1. H(head + 1) = Headed(base)
      <4>1. \A i \in Headed(base) : i < head + 1
        BY <1>2, <1>9 DEF Headed
      <4> QED BY <4>1 DEF H
    <3> QED BY <1>6, <3>1
  <2> HIDE DEF T
  <2>3. \A j \in DOMAIN headers : taken(j) <=> j \notin L
    <3>1. DOMAIN base = 1..head
      BY <1>2, <1>9
    <3> QED BY <3>1 DEF Left, Taken, taken
  <2>t. TypeOK'
    <3>1. headers # <<>> => 1 \in 1..Len(headers)
      BY <1>2
    <3> QED BY <1>1, <1>5, <2>1, <3>1 DEF IInv, TypeOK
  <2>4. Typed'
    BY <1>1, <1>5, <1>6, <2>1 DEF IInv, Typed
  <2>5. Merging'
    <3>1. dup' = [j \in DOMAIN headers |-> IF j \in L THEN headers[j] ELSE Freed]
      BY <1>5, <2>3
    <3>2. {j \in L : j < 1} = {} /\ L \in SUBSET DOMAIN headers
      BY <1>2 DEF Left
    <3>3. T = T \o At(headers, {j \in L : j < 1})
      <4>1. At(headers, {j \in L : j < 1}) = <<>>
        BY <1>2, <3>2, NoneAndAll
      <4>2. T \o <<>> = T
        BY <2>2
      <4> QED BY <4>1, <4>2
    <3> QED BY <1>1, <2>1, <2>2, <3>1, <3>3 DEF Merging, D, T
  <2>6. MergeIsAsDefined'
    <3>1. ASSUME headers = <<>> PROVE T = Merged(base, headers, agent)
      <4>1. L = {}
        BY <3>1 DEF Left
      <4>2. Extras(base, headers) = <<>>
        <5>1. Extras(base, headers) = At(headers, Left(base, headers))
          BY <1>2, ExtrasType
        <5>2. At(headers, {}) = <<>>
          BY <1>2, NoneAndAll
        <5> QED BY <4>1, <5>1, <5>2
      <4> QED BY <2>2, <4>2 DEF Merged, D, T
    <3> QED BY <1>1, <2>1, <2>2, <3>1 DEF MergeIsAsDefined
  <2> QED BY <1>7, <2>t, <2>4, <2>5, <2>6 DEF IInv
<1> QED BY <1>8, <1>9

LEMMA MergeMoreHolds == IInv /\ MergeMore => IInv'
<1> SUFFICES ASSUME IInv, MergeMore PROVE IInv'
  OBVIOUS
<1> DEFINE D == At(Dressed(base, headers, agent), Headed(base))
           L == Left(base, headers)
           P(n) == {j \in L : j < n}
<1>1. /\ pc = "more" /\ base # <<>>
      /\ base' = base /\ headers' = headers /\ agent' = agent /\ http1' = http1
      /\ order' = order /\ lines' = lines /\ used' = used /\ out' = out /\ dup' = dup
      /\ lines = <<>> /\ out = <<>> /\ used = {}
      /\ GoOn(Len(dup), "add")
  BY DEF IInv, Typed, MergeMore, input, sort
<1>2. /\ base \in Seq(All) /\ headers \in Seq(All) /\ Header("User-Agent", agent) \in All
      /\ \A j \in DOMAIN headers : headers[j] # Freed
      /\ head \in 1..Len(headers) /\ Len(headers) \in Nat /\ head \in Nat
  BY <1>1, Headers DEF IInv, TypeOK
<1>3. /\ dup \in [DOMAIN headers -> All \cup {Freed}]
      /\ new_list \in Seq(All) /\ new_list = D \o At(headers, P(head))
      /\ \A j \in DOMAIN headers : dup[j] = IF j \in L THEN headers[j] ELSE Freed
  BY <1>1 DEF IInv, Typed, Merging
<1>4. Len(dup) = Len(headers)
  BY <1>2, <1>3
<1>5. D \in Seq(All)
  <2> DEFINE whole == Dressed(base, headers, agent)
  <2>1. Dressed(base, headers, agent) \in Seq(All)
        /\ Len(Dressed(base, headers, agent)) = Len(base)
    BY <1>2, DressedType
  <2>2. Headed(base) \in SUBSET DOMAIN base
    BY DEF Headed
  <2> HIDE DEF whole
  <2>3. Headed(base) \in SUBSET DOMAIN whole /\ whole \in Seq(All)
    BY <1>2, <2>1, <2>2 DEF whole
  <2>4. At(whole, Headed(base)) \in Seq(All)
    BY <2>3, SublistIs
  <2> QED BY <2>4 DEF whole
<1>6. L \in SUBSET DOMAIN headers /\ \A j \in L : j \in Nat
  BY <1>2 DEF Left
<1> HIDE DEF D, L
<1>7. new_list' = D \o At(headers, P(head + 1)) /\ new_list' \in Seq(All)
  <2>1. CASE head \notin L
    <3>1. P(head + 1) = P(head)
      BY <1>2, <1>6, <2>1
    <3>2. new_list' = new_list
      BY <1>2, <1>3, <2>1 DEF MergeMore
    <3> QED BY <1>3, <3>1, <3>2
  <2>2. CASE head \in L
    <3>1. P(head + 1) = P(head) \cup {head} /\ P(head) \in SUBSET DOMAIN headers
      BY <1>2, <1>6, <2>2
    <3>2. \A i \in P(head) : i < head
      OBVIOUS
    <3>3. head \in DOMAIN headers /\ dup[head] = headers[head] /\ headers[head] # Freed
          /\ headers[head] \in All
      BY <1>2, <1>3, <2>2
    <3>4. new_list' = Append(new_list, headers[head])
      BY <3>3 DEF MergeMore
    <3> DEFINE Q == P(head)
    <3>5. At(headers, Q) \in Seq(All)
      BY <1>2, <3>1, SublistIs
    <3> HIDE DEF P, Q
    <3>6. At(headers, Q \cup {head}) = Append(At(headers, Q), headers[head])
      <4>1. headers \in Seq(All) /\ Q \in SUBSET DOMAIN headers /\ \A i \in Q : i < head
        BY <1>2, <3>1, <3>2 DEF Q
      <4> QED BY <3>3, <4>1, OneMore
    <3>7. \A t \in Seq(All) : Append(D \o t, headers[head]) = D \o Append(t, headers[head])
      BY <1>5, <3>3
    <3>8. Append(D \o At(headers, Q), headers[head]) = D \o Append(At(headers, Q), headers[head])
      BY <3>5, <3>7
    <3>9. new_list' \in Seq(All)
      BY <1>3, <3>3, <3>4
    <3> QED BY <1>3, <3>1, <3>4, <3>6, <3>8, <3>9 DEF Q
  <2> QED BY <2>1, <2>2
<1>8. Sorting' /\ OrderIsStableSort'
  BY <1>1 DEF GoOn, Sorting, OrderIsStableSort
<1>d. dup' = [j \in DOMAIN headers' |-> IF j \in L THEN headers'[j] ELSE Freed]
      /\ Left(base', headers') = L /\ At(Dressed(base', headers', agent'), Headed(base')) = D
  BY <1>1, <1>3 DEF D, L
<1>9. CASE head # Len(headers)
  <2>1. pc' = "more" /\ head' = head + 1
    BY <1>1, <1>4, <1>9 DEF GoOn
  <2>2. TypeOK'
    <3>1. head' \in 1..Len(headers') /\ DOMAIN dup' = DOMAIN headers'
          /\ used' \subseteq DOMAIN lines'
      BY <1>1, <1>2, <1>3, <1>9, <2>1
    <3> QED BY <1>1, <2>1, <3>1 DEF IInv, TypeOK
  <2>3. Typed'
    BY <1>1, <1>3, <1>7, <2>1 DEF IInv, Typed
  <2>4. Merging'
    <3>1. new_list' = At(Dressed(base', headers', agent'), Headed(base'))
                      \o At(headers', {j \in Left(base', headers') : j < head'})
      BY <1>1, <1>7, <1>d, <2>1
    <3> QED BY <1>d, <2>1, <3>1 DEF Merging
  <2>5. MergeIsAsDefined'
    BY <2>1 DEF MergeIsAsDefined
  <2> QED BY <1>8, <2>2, <2>3, <2>4, <2>5 DEF IInv
<1>10. CASE head = Len(headers)
  <2>1. head' = 1 /\ pc' = "add"
    BY <1>1, <1>4, <1>10 DEF GoOn
  <2>2. P(head + 1) = L
    BY <1>2, <1>6, <1>10
  <2>3. TypeOK'
    <3>1. DOMAIN dup' = DOMAIN headers' /\ used' \subseteq DOMAIN lines'
      BY <1>1, <1>3
    <3> QED BY <1>1, <2>1, <3>1 DEF IInv, TypeOK
  <2>4. Typed'
    BY <1>1, <1>3, <1>7, <2>1 DEF IInv, Typed
  <2>5. Merging'
    BY <2>1 DEF Merging
  <2>6. MergeIsAsDefined'
    <3>1. At(headers, L) = Extras(base, headers)
      BY <1>2, ExtrasType DEF L
    <3>2. new_list' = Merged(base, headers, agent)
      BY <1>7, <2>2, <3>1 DEF Merged, D
    <3> QED BY <1>1, <3>2 DEF MergeIsAsDefined
  <2> QED BY <1>8, <2>3, <2>4, <2>5, <2>6 DEF IInv
<1> QED BY <1>9, <1>10

-----------------------------------------------------------------------------
(***************************************************************************)
(* The order.                                                              *)
(***************************************************************************)

\* Every header has one place: that of its name, or the one after all names.
LEMMA PlaceIs ==
    ASSUME NEW N, NEW ord \in Seq(N)
    PROVE  /\ Len(ord) \in Nat
           /\ \A h : Place(ord, h) \in 1..Len(ord) + 1
           /\ valid_header_order(ord) => \A h : \A n \in 1..Len(ord) :
                 Place(ord, h) = n <=> h.name = ord[n]
<1>1. Len(ord) \in Nat /\ DOMAIN ord = 1..Len(ord)
  OBVIOUS
<1>2. ASSUME NEW h
      PROVE  /\ h.name \in ToSet(ord) =>
                   Place(ord, h) \in 1..Len(ord) /\ ord[Place(ord, h)] = h.name
             /\ h.name \notin ToSet(ord) => Place(ord, h) = Len(ord) + 1
  BY <1>1 DEF Place, ToSet
<1>3. ASSUME NEW h PROVE Place(ord, h) \in 1..Len(ord) + 1
  BY <1>1, <1>2
<1>4. ASSUME valid_header_order(ord), NEW h, NEW n \in 1..Len(ord)
      PROVE  Place(ord, h) = n <=> h.name = ord[n]
  <2>1. \A i, j \in 1..Len(ord) : ord[i] = ord[j] => i = j
    BY <1>1, <1>4 DEF valid_header_order
  <2>2. h.name = ord[n] => h.name \in ToSet(ord)
    BY <1>1 DEF ToSet
  <2>3. h.name \notin ToSet(ord) => Place(ord, h) # n
    BY <1>1, <1>2
  <2> QED BY <1>2, <2>1, <2>2, <2>3
<1> QED BY <1>1, <1>3, <1>4

\* The headers of S for a place.
ForPlace(S, ord, k) == {h \in S : Place(ord, h) = k}

LEMMA PlacedAreThose ==
    ASSUME NEW S, NEW ord, NEW list \in Seq(S), NEW k
    PROVE  At(list, {i \in DOMAIN list : Place(ord, list[i]) = k})
             = Those(list, ForPlace(S, ord, k))
<1>1. {i \in DOMAIN list : Place(ord, list[i]) = k}
        = {i \in DOMAIN list : list[i] \in ForPlace(S, ord, k)}
  BY DEF ForPlace
<1> QED BY <1>1 DEF Those

\* The places in a list of the lines for one place of the order.
For(ord, list, k) == {i \in DOMAIN list : Place(ord, list[i]) = k}

\* The lines for the next place, appended in their order, are put in order too.
LEMMA OnePlaceMore ==
    ASSUME NEW S, NEW ord, NEW list \in Seq(S), NEW sorted \in Seq(S), NEW done, NEW n \in Nat,
           \A h : Place(ord, h) \in Nat, InOrder(ord, list, done, sorted, n), 1 <= n
    PROVE  /\ sorted \o At(list, For(ord, list, n)) \in Seq(S)
           /\ InOrder(ord, list, done \cup For(ord, list, n),
                      sorted \o At(list, For(ord, list, n)), n + 1)
<1> DEFINE U == {i \in DOMAIN list : Place(ord, list[i]) = n}
           add == At(list, U)
           all == sorted \o add
<1>1. /\ done = {i \in DOMAIN list : Place(ord, list[i]) < n}
      /\ \A i \in DOMAIN sorted : Place(ord, sorted[i]) < n
      /\ \A i, j \in DOMAIN sorted : i < j => Place(ord, sorted[i]) <= Place(ord, sorted[j])
      /\ \A k \in 1..n - 1 : At(sorted, {i \in DOMAIN sorted : Place(ord, sorted[i]) = k})
                             = At(list, {i \in DOMAIN list : Place(ord, list[i]) = k})
  BY DEF InOrder
<1>2. U \in SUBSET DOMAIN list /\ \A i \in U : Place(ord, list[i]) = n
  OBVIOUS
<1>3. /\ add \in Seq(S) /\ DOMAIN add = 1..Cardinality(U)
      /\ \A k \in 1..Cardinality(U) : add[k] = list[Nth(U, k)]
  <2> HIDE DEF U
  <2> QED BY <1>2, SublistIs
<1>4. \A k \in DOMAIN add : Place(ord, add[k]) = n
  <2> HIDE DEF U, add
  <2>1. Len(list) \in Nat /\ U \in SUBSET (1..Len(list))
    BY <1>2
  <2>2. \A k \in 1..Cardinality(U) : Nth(U, k) \in U
    BY <2>1, InPlace
  <2> QED BY <1>2, <1>3, <2>2
<1>5. done \cup U = {i \in DOMAIN list : Place(ord, list[i]) < n + 1}
  BY <1>1
<1>u. \A k : At(list, {i \in DOMAIN list : Place(ord, list[i]) = k})
             = Those(list, ForPlace(S, ord, k))
  BY PlacedAreThose
<1>s. \A k : At(sorted, {i \in DOMAIN sorted : Place(ord, sorted[i]) = k})
             = Those(sorted, ForPlace(S, ord, k))
  BY PlacedAreThose
<1>f. \A k, h : h \in ForPlace(S, ord, k) <=> h \in S /\ Place(ord, h) = k
  BY DEF ForPlace
<1>o. add = Those(list, ForPlace(S, ord, n))
  BY <1>u
<1> HIDE DEF U, add
<1>6. /\ all \in Seq(S) /\ DOMAIN all = 1..Len(sorted) + Len(add)
      /\ Len(sorted) \in Nat /\ Len(add) \in Nat
      /\ DOMAIN sorted = 1..Len(sorted) /\ DOMAIN add = 1..Len(add)
      /\ \A i \in 1..Len(sorted) : all[i] = sorted[i]
      /\ \A i \in 1..Len(add) : all[Len(sorted) + i] = add[i]
  BY <1>3
<1> HIDE DEF all
<1>7. ASSUME NEW i \in DOMAIN all, i \notin 1..Len(sorted)
      PROVE  i > Len(sorted) /\ Place(ord, all[i]) = n
  <2>1. PICK k \in 1..Len(add) : i = Len(sorted) + k
    <3>1. i \in 1..Len(sorted) + Len(add) /\ Len(sorted) \in Nat /\ Len(add) \in Nat
      BY <1>6
    <3>2. i - Len(sorted) \in 1..Len(add) /\ i = Len(sorted) + (i - Len(sorted))
      BY <1>7, <3>1
    <3> QED BY <3>2
  <2>2. k \in DOMAIN add /\ all[i] = add[k]
    BY <1>6, <2>1
  <2>3. Len(sorted) \in Nat
    BY <1>6
  <2> QED BY <1>4, <2>1, <2>2, <2>3
<1>8. \A i \in DOMAIN all : i \in 1..Len(sorted) \/ (i > Len(sorted) /\ Place(ord, all[i]) = n)
  BY <1>7
<1>9. \A i \in DOMAIN all : Place(ord, all[i]) < n + 1
  BY <1>1, <1>6, <1>8
<1>10. \A i, j \in DOMAIN all : i < j => Place(ord, all[i]) <= Place(ord, all[j])
  <2> SUFFICES ASSUME NEW i \in DOMAIN all, NEW j \in DOMAIN all, i < j
               PROVE  Place(ord, all[i]) <= Place(ord, all[j])
    OBVIOUS
  <2>1. CASE j \in 1..Len(sorted)
    <3>1. i \in 1..Len(sorted)
      BY <1>6, <2>1
    <3> QED BY <1>1, <1>6, <2>1, <3>1
  <2>2. CASE j \notin 1..Len(sorted)
    <3>1. Place(ord, all[j]) = n
      BY <1>8, <2>2
    <3>2. Place(ord, all[i]) < n + 1 /\ Place(ord, all[i]) \in Nat
      BY <1>9
    <3> QED BY <3>1, <3>2
  <2> QED BY <2>1, <2>2
<1>11. ASSUME NEW k \in 1..n
       PROVE  Those(all, ForPlace(S, ord, k)) = Those(list, ForPlace(S, ord, k))
  <2> DEFINE H == ForPlace(S, ord, k)
  <2>h. \A h : h \in H <=> h \in S /\ Place(ord, h) = k
    BY <1>f
  <2> HIDE DEF H
  <2>1. Those(all, H) = Those(sorted, H) \o Those(add, H)
    BY <1>3, ThoseOfBoth DEF all
  <2>2. CASE k = n
    <3>1. \A i \in DOMAIN sorted : sorted[i] \notin H
      BY <1>1, <2>2, <2>h
    <3>2. \A i \in DOMAIN add : add[i] \in H
      <4>1. add \in Seq(S)
        BY <1>3
      <4>2. \A i \in DOMAIN add : add[i] \in S
        BY <4>1
      <4> QED BY <1>4, <2>2, <2>h, <4>2
    <3>3. Those(sorted, H) = <<>> /\ Those(add, H) = add
      BY <1>3, <3>1, <3>2, ThoseOfNone, ThoseOfAll
    <3>4. Those(list, H) = add
      BY <1>o, <2>2 DEF H
    <3>5. <<>> \o add = add
      BY <1>3
    <3> QED BY <2>1, <3>3, <3>4, <3>5 DEF H
  <2>3. CASE k # n
    <3>1. \A i \in DOMAIN add : add[i] \notin H
      BY <1>4, <2>3, <2>h
    <3>2. Those(add, H) = <<>>
      BY <1>3, <3>1, ThoseOfNone
    <3>3. k \in 1..n - 1
      BY <2>3
    <3>4. Those(sorted, H) = Those(list, H)
      BY <1>1, <1>s, <1>u, <3>3 DEF H
    <3>5. Those(sorted, H) \in Seq(S)
      <4> DEFINE Q == {i \in DOMAIN sorted : sorted[i] \in H}
      <4>1. Q \in SUBSET DOMAIN sorted
        OBVIOUS
      <4> HIDE DEF Q
      <4>2. At(sorted, Q) \in Seq(S)
        BY <4>1, SublistIs
      <4> QED BY <4>2 DEF Those, Q
    <3>6. Those(sorted, H) \o <<>> = Those(sorted, H)
      BY <3>5
    <3> QED BY <2>1, <3>2, <3>4, <3>6 DEF H
  <2> QED BY <2>2, <2>3
<1>a. \A k : At(all, {i \in DOMAIN all : Place(ord, all[i]) = k})
             = Those(all, ForPlace(S, ord, k))
  BY <1>6, PlacedAreThose
<1>12. \A k \in 1..(n + 1) - 1 :
          At(all, {i \in DOMAIN all : Place(ord, all[i]) = k})
             = At(list, {i \in DOMAIN list : Place(ord, list[i]) = k})
  BY <1>11, <1>a, <1>u
<1>13. InOrder(ord, list, done \cup U, all, n + 1)
  BY <1>5, <1>9, <1>10, <1>12 DEF InOrder
<1> QED BY <1>6, <1>13 DEF all, add, U, For

LEMMA AddLinesHolds == IInv /\ AddLines => IInv'
<1> SUFFICES ASSUME IInv, AddLines PROVE IInv'
  OBVIOUS
<1> DEFINE list == RequestHeaders(<<>>, new_list, headers)
<1>1. /\ pc = "add" /\ head = 1 /\ head' = head
      /\ base' = base /\ headers' = headers /\ agent' = agent /\ http1' = http1
      /\ order' = order /\ used' = used /\ used = {} /\ dup' = dup /\ new_list' = new_list
      /\ lines' = Lines(list, agent, http1)
  BY DEF IInv, TypeOK, Typed, AddLines, input, merge
<1>2. /\ headers \in Seq(All) /\ Header("User-Agent", agent) \in All /\ new_list \in Seq(All)
  BY Headers DEF IInv, TypeOK, Typed
<1>3. lines' \in Seq(All)
  <2>1. list \in Seq(All)
    BY <1>2 DEF RequestHeaders
  <2> HIDE DEF list
  <2> QED BY <1>1, <1>2, <2>1, LinesType
<1>4. order # NoOrder => order \in Orders /\ valid_header_order(order)
  BY DEF IInv, TypeOK, Typed
<1>5. MergeIsAsDefined'
  BY <1>1 DEF IInv, MergeIsAsDefined
<1> HIDE DEF list
<1>6. CASE order = NoOrder \/ lines' = <<>>
  <2>1. out' = lines' /\ pc' = "done"
    BY <1>6 DEF AddLines
  <2>2. TypeOK'
    BY <1>1, <2>1 DEF IInv, TypeOK
  <2>3. Typed'
    BY <1>1, <1>3, <2>1 DEF IInv, Typed
  <2>4. Merging' /\ Sorting'
    BY <2>1 DEF Merging, Sorting
  <2>5. OrderIsStableSort'
    BY <1>1, <1>6, <2>1 DEF OrderIsStableSort
  <2> QED BY <1>5, <2>2, <2>3, <2>4, <2>5 DEF IInv
<1>7. CASE order # NoOrder /\ lines' # <<>>
  <2>1. out' = <<>> /\ pc' = "order"
    BY <1>7 DEF AddLines
  <2>2. order \in Seq(EntriesOf(Orders)) /\ order # <<>>
    BY <1>4, <1>7, Names DEF valid_header_order
  <2>3. TypeOK'
    <3>1. 1 \in 1..Len(order)
      BY <2>2
    <3> QED BY <1>1, <2>1, <3>1 DEF IInv, TypeOK
  <2>4. Typed'
    BY <1>1, <1>3, <1>7, <2>1 DEF IInv, Typed
  <2>5. \A h : Place(order, h) \in Nat /\ 1 <= Place(order, h)
    BY <2>2, PlaceIs
  <2>6. InOrder(order', lines', used', out', head')
    BY <1>1, <2>1, <2>5 DEF InOrder
  <2>7. Merging' /\ Sorting' /\ OrderIsStableSort'
    BY <1>1, <1>7, <2>1, <2>6 DEF Merging, Sorting, OrderIsStableSort
  <2> QED BY <1>5, <2>3, <2>4, <2>7 DEF IInv
<1> QED BY <1>6, <1>7

LEMMA OrderNameHolds == IInv /\ OrderName => IInv'
<1> SUFFICES ASSUME IInv, OrderName PROVE IInv'
  OBVIOUS
<1> DEFINE U == For(order, lines, head)
<1>1. /\ pc = "order" /\ order # NoOrder
      /\ base' = base /\ headers' = headers /\ agent' = agent /\ http1' = http1
      /\ order' = order /\ dup' = dup /\ new_list' = new_list /\ lines' = lines
      /\ AppendPlaces(Unused({order[head]})) /\ GoOn(Len(order), "rest")
  BY DEF IInv, Sorting, OrderName, input, merge
<1>2. /\ order \in Orders /\ valid_header_order(order) /\ order \in Seq(EntriesOf(Orders))
      /\ head \in 1..Len(order) /\ used \subseteq DOMAIN lines
  BY <1>1, Names DEF IInv, TypeOK, Typed
<1>3. lines \in Seq(All) /\ out \in Seq(All) /\ InOrder(order, lines, used, out, head)
  BY <1>1 DEF IInv, Typed, Sorting
<1>4. /\ Len(order) \in Nat /\ head \in Nat /\ 1 <= head
      /\ \A h : Place(order, h) \in 1..Len(order) + 1
      /\ \A h : Place(order, h) = head <=> h.name = order[head]
  BY <1>2, PlaceIs
<1>5. Unused({order[head]}) = U
  <2>1. used = {i \in DOMAIN lines : Place(order, lines[i]) < head}
    BY <1>3 DEF InOrder
  <2> QED BY <1>4, <2>1 DEF Unused, For
<1>6. /\ out' = out \o At(lines, U) /\ used' = used \cup U
      /\ out' \in Seq(All) /\ InOrder(order, lines, used', out', head + 1)
  <2>1. \A h : Place(order, h) \in Nat
    BY <1>4
  <2>2. /\ out \o At(lines, U) \in Seq(All)
        /\ InOrder(order, lines, used \cup U, out \o At(lines, U), head + 1)
    BY <1>3, <1>4, <2>1, OnePlaceMore
  <2>3. out' = out \o At(lines, U) /\ used' = used \cup U
    BY <1>1, <1>5 DEF AppendPlaces
  <2> HIDE DEF U
  <2> QED BY <2>2, <2>3
<1>7. used' \subseteq DOMAIN lines'
  BY <1>1, <1>2, <1>6 DEF For
<1> HIDE DEF U
<1>8. CASE head # Len(order)
  <2>1. pc' = "order" /\ head' = head + 1
    BY <1>1, <1>8 DEF GoOn
  <2>2. TypeOK'
    <3>1. head' \in 1..Len(order')
      BY <1>1, <1>2, <1>8, <2>1
    <3> QED BY <1>1, <1>7, <2>1, <3>1 DEF IInv, TypeOK
  <2>3. Typed'
    BY <1>1, <1>6, <2>1 DEF IInv, Typed
  <2>4. Merging' /\ Sorting' /\ OrderIsStableSort'
    BY <1>1, <1>6, <2>1 DEF Merging, Sorting, OrderIsStableSort
  <2>5. MergeIsAsDefined'
    BY <1>1, <2>1 DEF IInv, MergeIsAsDefined
  <2> QED BY <2>2, <2>3, <2>4, <2>5 DEF IInv
<1>9. CASE head = Len(order)
  <2>1. pc' = "rest" /\ head' = 1
    BY <1>1, <1>9 DEF GoOn
  <2>2. TypeOK'
    BY <1>1, <1>7, <2>1 DEF IInv, TypeOK
  <2>3. Typed'
    BY <1>1, <1>6, <2>1 DEF IInv, Typed
  <2>4. Merging' /\ Sorting' /\ OrderIsStableSort'
    BY <1>1, <1>6, <1>9, <2>1 DEF Merging, Sorting, OrderIsStableSort
  <2>5. MergeIsAsDefined'
    BY <1>1, <2>1 DEF IInv, MergeIsAsDefined
  <2> QED BY <2>2, <2>3, <2>4, <2>5 DEF IInv
<1> QED BY <1>8, <1>9

LEMMA AddRestHolds == IInv /\ AddRest => IInv'
<1> SUFFICES ASSUME IInv, AddRest PROVE IInv'
  OBVIOUS
<1> DEFINE last == Len(order) + 1
           U    == For(order, lines, last)
<1>1. /\ pc = "rest" /\ pc' = "done" /\ order # NoOrder /\ head' = head
      /\ base' = base /\ headers' = headers /\ agent' = agent /\ http1' = http1
      /\ order' = order /\ dup' = dup /\ new_list' = new_list /\ lines' = lines
      /\ AppendPlaces(DOMAIN lines \ used)
  BY DEF IInv, Sorting, AddRest, input, merge
<1>2. /\ order \in Seq(EntriesOf(Orders)) /\ used \subseteq DOMAIN lines /\ head = 1
      /\ valid_header_order(order)
  BY <1>1, Names DEF IInv, TypeOK, Typed
<1>3. lines \in Seq(All) /\ out \in Seq(All) /\ InOrder(order, lines, used, out, last)
  BY <1>1 DEF IInv, Typed, Sorting
<1>4. /\ Len(order) \in Nat /\ last \in Nat /\ 1 <= last
      /\ \A h : Place(order, h) \in 1..last
  BY <1>2, PlaceIs
<1>5. DOMAIN lines \ used = U
  <2>1. used = {i \in DOMAIN lines : Place(order, lines[i]) < last}
    BY <1>3 DEF InOrder
  <2> QED BY <1>4, <2>1 DEF For
<1>6. /\ used' = used \cup U
      /\ out' \in Seq(All) /\ InOrder(order, lines, used', out', last + 1)
  <2>1. \A h : Place(order, h) \in Nat
    BY <1>4
  <2> HIDE DEF last
  <2>2. /\ out \o At(lines, U) \in Seq(All)
        /\ InOrder(order, lines, used \cup U, out \o At(lines, U), last + 1)
    BY <1>3, <1>4, <2>1, OnePlaceMore
  <2>3. out' = out \o At(lines, U) /\ used' = used \cup U
    BY <1>1, <1>5 DEF AppendPlaces
  <2> HIDE DEF U
  <2> QED BY <2>2, <2>3
<1>7. used' \subseteq DOMAIN lines'
  BY <1>1, <1>2, <1>6 DEF For
<1> HIDE DEF U
<1>8. TypeOK'
  BY <1>1, <1>2, <1>7 DEF IInv, TypeOK
<1>9. Typed'
  BY <1>1, <1>6 DEF IInv, Typed
<1>10. Merging' /\ Sorting'
  BY <1>1 DEF Merging, Sorting
<1>11. MergeIsAsDefined'
  BY <1>1 DEF IInv, MergeIsAsDefined
<1>12. OrderIsStableSort'
  <2>1. /\ \A i, j \in DOMAIN out' :
              i < j => Place(order, out'[i]) <= Place(order, out'[j])
        /\ \A k \in 1..last :
              At(out', {i \in DOMAIN out' : Place(order, out'[i]) = k})
                 = At(lines, {i \in DOMAIN lines : Place(order, lines[i]) = k})
    <3>1. (last + 1) - 1 = last
      BY <1>4
    <3> QED BY <1>6, <3>1 DEF InOrder
  <2> QED BY <1>1, <2>1 DEF OrderIsStableSort, Place
<1> QED BY <1>8, <1>9, <1>10, <1>11, <1>12 DEF IInv

\* What OrderIsStableSort says of an order, the lines and the reordered lines.
SortedStably(ord, list, sorted) ==
    /\ \A i, j \in DOMAIN sorted : i < j => Place(ord, sorted[i]) <= Place(ord, sorted[j])
    /\ \A k \in 1..Len(ord) + 1 : At(sorted, {i \in DOMAIN sorted : Place(ord, sorted[i]) = k})
                                  = At(list, {i \in DOMAIN list : Place(ord, list[i]) = k})

LEMMA SortedIs ==
    /\ OrderIsStableSort <=>
          ((pc = "done" /\ order # NoOrder) => SortedStably(order, lines, out))
    /\ OrderIsStableSort' <=>
          ((pc' = "done" /\ order' # NoOrder) => SortedStably(order', lines', out'))
BY DEF OrderIsStableSort, SortedStably, Place

LEMMA StepHolds == IInv /\ [Next]_vars => IInv'
<1> SUFFICES ASSUME IInv, [Next]_vars PROVE IInv'
  OBVIOUS
<1>1. CASE MergeBase
  BY <1>1, MergeBaseHolds
<1>2. CASE MergeMore
  BY <1>2, MergeMoreHolds
<1>3. CASE AddLines
  BY <1>3, AddLinesHolds
<1>4. CASE OrderName
  BY <1>4, OrderNameHolds
<1>5. CASE AddRest
  BY <1>5, AddRestHolds
<1>6. CASE UNCHANGED vars
  <2>1. /\ base' = base /\ headers' = headers /\ agent' = agent /\ http1' = http1
        /\ order' = order /\ pc' = pc /\ head' = head /\ dup' = dup /\ new_list' = new_list
        /\ lines' = lines /\ used' = used /\ out' = out
    BY <1>6 DEF vars, input, merge, sort
  <2>2. TypeOK' /\ Typed'
    BY <2>1 DEF IInv, TypeOK, Typed
  <2>3. Merging' /\ Sorting'
    BY <2>1 DEF IInv, Merging, Sorting
  <2>4. MergeIsAsDefined'
    BY <2>1 DEF IInv, MergeIsAsDefined
  <2>5. OrderIsStableSort'
    BY <2>1, SortedIs DEF IInv
  <2> QED BY <2>2, <2>3, <2>4, <2>5 DEF IInv
<1> QED BY <1>1, <1>2, <1>3, <1>4, <1>5, <1>6 DEF Next

-----------------------------------------------------------------------------
(***************************************************************************)
(* What holds of every request.                                            *)
(***************************************************************************)

\* The loops of Curl_http_merge_headers and http_req_apply_header_order never
\* leave the inductive invariant.
THEOREM Invariance == Spec => []IInv
<1>1. Init => IInv
  BY InitHolds
<1>2. IInv /\ [Next]_vars => IInv'
  BY StepHolds
<1> QED BY <1>1, <1>2, PTL DEF Spec

\* No loop walks past the end of its list, the copy keeps one entry for each header
\* of the application, and only lines there are get marked as used.
THEOREM TypeCorrect == Spec => []TypeOK
<1>1. IInv => TypeOK
  BY DEF IInv
<1> QED BY <1>1, Invariance, PTL

\* The merge that takes the application's headers off a copy, one base header at a
\* time, builds the list that HttpHeaders defines: every header of the application
\* replaces exactly the base header of its rank among those of its name, and those
\* that replace none follow in their order.
THEOREM MergeCorrect == Spec => []MergeIsAsDefined
<1>1. IInv => MergeIsAsDefined
  BY DEF IInv
<1> QED BY <1>1, Invariance, PTL

\* http_req_apply_header_order sorts the lines of a request stably by the order, and
\* neither loses nor repeats one, whatever the lines and whatever order it accepted.
THEOREM StableSort == Spec => []OrderIsStableSort
<1>1. IInv => OrderIsStableSort
  BY DEF IInv
<1> QED BY <1>1, Invariance, PTL
=============================================================================
